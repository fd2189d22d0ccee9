----------------------- MODULE QueryObservationProofs -----------------------
(***************************************************************************)
(* Theorems about QueryObservation, for any number of calls, any pool size, *)
(* any statements and whatever Postgres and the callers do.                 *)
(*                                                                         *)
(* CallInv follows one call: what the contexts carry that its tracers were  *)
(* given, and, to the field, what the pillars know of it at every location. *)
(* PoolInv accounts for every slot of the pool.  The two together give      *)
(* WaitAttributed, ScrapeIsTrue and QueryPillarsAgree.  That the names agree *)
(* rests on NormalisersAgree: the loop of normalise, taken apart by the least *)
(* number of turns after which it would be wrong (LeastNatural).             *)
(***************************************************************************)
EXTENDS QueryObservation, FiniteSetTheorems, SequenceTheorems, WellFoundedInduction, TLAPS

Asking  == {"queued", "building", "granted", "refused"}
Running == {"running", "reading", "answered"}
Done    == {"ended", "returned"}
Holding == {"granted", "running", "reading", "answered", "ended"}
Places  == {"uncalled", "failed"} \cup Asking \cup Running \cup Done

Typed ==
    /\ now \in Nat
    /\ pc \in [Calls -> Places] /\ stmt \in [Calls -> Statements]
    /\ ended \in [Calls -> {"no", "canceled", "timeout"}]
    /\ err \in [Calls -> {"nil", "ErrNoRows", "canceled", "timeout", "sqlstate", "other"}]
    /\ DOMAIN ctx = Calls /\ DOMAIN seen = Calls
    /\ at \in [Calls -> [asked : Nat, got : Nat, done : Nat]]
    /\ slots \in Nat /\ idle \in Nat /\ orphans \in Nat

\* What the pillars know of a call, by field.
Pillars(w, n, s, q, l, sp) ==
    [waits |-> w, acquireErrors |-> n, samples |-> s, queryErrors |-> q, lines |-> l, spans |-> sp]

AcquireSpan(asked) == [name |-> "db.acquire", parent |-> "caller", start |-> asked]
QuerySpan(s, got)  == [name |-> spanName[s], parent |-> "caller", start |-> got]

\* What they know after the acquisition, and after the query.
AfterAcquire(asked, got, n, code) ==
    Pillars(<<got - asked>>, n, <<>>, <<>>, <<>>,
            <<[span |-> AcquireSpan(asked), end |-> got, code |-> code]>>)

Level(e, secs) ==
    IF e # "nil" /\ e # "ErrNoRows" THEN "ERROR"
    ELSE IF secs >= SlowThreshold THEN "WARN"
    ELSE "DEBUG"

AfterQuery(s, e, asked, got, done) ==
    Pillars(<<got - asked>>, 0,
            <<[name |-> queryName[s], status |-> IF isRealError(e) THEN "error" ELSE "ok",
               secs |-> done - got]>>,
            IF isRealError(e) THEN <<[name |-> queryName[s], kind |-> errorKind(e)]>> ELSE <<>>,
            <<[name |-> logName[s], level |-> Level(e, done - got)]>>,
            <<[span |-> AcquireSpan(asked), end |-> got, code |-> "Unset"],
              [span |-> QuerySpan(s, got), end |-> done,
               code |-> IF e \in {"nil", "ErrNoRows"} THEN "Unset" ELSE "Error"]>>)

\* The contexts the tracers' Start callbacks made.
AcquireContext(x, asked) ==
    /\ "acquire.metrics" \in DOMAIN x /\ "acquire.span" \in DOMAIN x
    /\ x["acquire.metrics"] = asked /\ x["acquire.span"] = AcquireSpan(asked)

QueryContext(x, s, got) ==
    /\ "query.metrics" \in DOMAIN x /\ "query.log" \in DOMAIN x /\ "query.span" \in DOMAIN x
    /\ x["query.metrics"] = [name |-> queryName[s], start |-> got]
    /\ x["query.log"] = [name |-> logName[s], start |-> got]
    /\ x["query.span"] = QuerySpan(s, got)

Ping(c) == stmt[c].how = "ping"

CallInv(c) ==
    /\ pc[c] \in Asking => AcquireContext(ctx[c], at[c].asked)
    /\ pc[c] \in Running /\ ~Ping(c) => QueryContext(ctx[c], stmt[c], at[c].got)
    /\ pc[c] = "refused" => err[c] # "nil"
    /\ pc[c] \in Asking \cup {"uncalled"} => seen[c] = Nothing
    /\ pc[c] = "failed" => seen[c] = AfterAcquire(at[c].asked, at[c].got, 1, "Error")
    /\ pc[c] \in Running => seen[c] = AfterAcquire(at[c].asked, at[c].got, 0, "Unset")
    /\ pc[c] \in Done /\ ~Ping(c) =>
          seen[c] = AfterQuery(stmt[c], err[c], at[c].asked, at[c].got, at[c].done)

\* The calls whose connection is under construction, and those that hold one.
In(where, S) == {c \in Calls : where[c] \in S}
Building == In(pc, {"building"})
Held     == In(pc, Holding)

PoolInv ==
    /\ slots + orphans + Cardinality(Building) + Cardinality(Held) = MaxConns
    /\ idle <= slots

IInv == Typed /\ (\A c \in Calls : CallInv(c)) /\ PoolInv

-----------------------------------------------------------------------------
(* The tracers *)

\* The fields of the record.
LEMMA PillarFields ==
    ASSUME NEW w, NEW n, NEW s, NEW q, NEW l, NEW sp
    PROVE  /\ Pillars(w, n, s, q, l, sp).waits = w
           /\ Pillars(w, n, s, q, l, sp).acquireErrors = n
           /\ Pillars(w, n, s, q, l, sp).samples = s
           /\ Pillars(w, n, s, q, l, sp).queryErrors = q
           /\ Pillars(w, n, s, q, l, sp).lines = l
           /\ Pillars(w, n, s, q, l, sp).spans = sp
  BY DEF Pillars

SetWaits(p, a, b)   == [p EXCEPT !.waits = a, !.acquireErrors = b]
SetSamples(p, a, b) == [p EXCEPT !.samples = a, !.queryErrors = b]

\* The update of DBAcquireEnd.
LEMMA WaitsUpdate ==
    ASSUME NEW w, NEW n, NEW s, NEW q, NEW l, NEW sp, NEW a, NEW b
    PROVE  SetWaits(Pillars(w, n, s, q, l, sp), a, b) = Pillars(a, b, s, q, l, sp)
<1>1. [Pillars(w, n, s, q, l, sp) EXCEPT !.waits = a] = Pillars(a, n, s, q, l, sp)
  BY DEF Pillars
<1>2. [Pillars(a, n, s, q, l, sp) EXCEPT !.acquireErrors = b] = Pillars(a, b, s, q, l, sp)
  BY DEF Pillars
<1>3. SetWaits(Pillars(w, n, s, q, l, sp), a, b)
          = [[Pillars(w, n, s, q, l, sp) EXCEPT !.waits = a] EXCEPT !.acquireErrors = b]
  BY DEF Pillars, SetWaits
<1> QED  BY <1>1, <1>2, <1>3

\* The update of DBQueryEnd.
LEMMA SamplesUpdate ==
    ASSUME NEW w, NEW n, NEW s, NEW q, NEW l, NEW sp, NEW a, NEW b
    PROVE  SetSamples(Pillars(w, n, s, q, l, sp), a, b) = Pillars(w, n, a, b, l, sp)
<1>1. [Pillars(w, n, s, q, l, sp) EXCEPT !.samples = a] = Pillars(w, n, a, q, l, sp)
  BY DEF Pillars
<1>2. [Pillars(w, n, a, q, l, sp) EXCEPT !.queryErrors = b] = Pillars(w, n, a, b, l, sp)
  BY DEF Pillars
<1>3. SetSamples(Pillars(w, n, s, q, l, sp), a, b)
          = [[Pillars(w, n, s, q, l, sp) EXCEPT !.samples = a] EXCEPT !.queryErrors = b]
  BY DEF Pillars, SetSamples
<1> QED  BY <1>1, <1>2, <1>3

\* The update of LogQueryEnd.
LEMMA LinesUpdate ==
    ASSUME NEW w, NEW n, NEW s, NEW q, NEW l, NEW sp, NEW a
    PROVE  [Pillars(w, n, s, q, l, sp) EXCEPT !.lines = a] = Pillars(w, n, s, q, a, sp)
  BY DEF Pillars

\* The update of EndSpan.
LEMMA SpansUpdate ==
    ASSUME NEW w, NEW n, NEW s, NEW q, NEW l, NEW sp, NEW a
    PROVE  [Pillars(w, n, s, q, l, sp) EXCEPT !.spans = a] = Pillars(w, n, s, q, l, a)
  BY DEF Pillars

\* A list of one.
LEMMA One == ASSUME NEW a PROVE Append(<<>>, a) = <<a>>
  OBVIOUS

\* A list of two.
LEMMA Two == ASSUME NEW a, NEW b PROVE Append(<<a>>, b) = <<a, b>>
<1> DEFINE S == {a, b}
<1>1. <<a>> \in Seq(S) /\ <<a, b>> \in Seq(S)
  OBVIOUS
<1>2. Append(<<a>>, b) \in Seq(S)
  BY <1>1
<1>3. Len(Append(<<a>>, b)) = 2 /\ Len(<<a, b>>) = 2
  BY <1>1
<1>4. Append(<<a>>, b)[1] = a /\ Append(<<a>>, b)[2] = b
  BY <1>1
<1>5. \A i \in 1..2 : Append(<<a>>, b)[i] = <<a, b>>[i]
  BY <1>4
<1> HIDE DEF S
<1> QED  BY <1>1, <1>2, <1>3, <1>5, SeqEqual

\* TraceAcquireStart puts both tracers' values on the context.
LEMMA AcquireStarts == AcquireContext(TraceAcquireStart(Background), now)
  BY DEF AcquireContext, AcquireSpan, TraceAcquireStart, SpanAcquireStart, DBAcquireStart, StartSpan,
     WithValue, Background

\* TraceQueryStart puts all three tracers' values on the context.
LEMMA QueryStarts == ASSUME NEW s PROVE QueryContext(TraceQueryStart(Background, s), s, now)
  BY DEF QueryContext, QuerySpan, TraceQueryStart, SpanQueryStart, LogQueryStart, DBQueryStart, StartSpan,
     WithValue, Background

\* TraceAcquireEnd of a call nothing is known of yet.
LEMMA AcquireEnds ==
    ASSUME NEW x, NEW asked, AcquireContext(x, asked), NEW e
    PROVE  /\ e = "nil" => TraceAcquireEnd(Nothing, x, e) = AfterAcquire(asked, now, 0, "Unset")
           /\ e # "nil" => TraceAcquireEnd(Nothing, x, e) = AfterAcquire(asked, now, 1, "Error")
<1> DEFINE wait == now - asked
           n    == IF e = "nil" THEN 0 ELSE 1
           code == IF e = "nil" THEN "Unset" ELSE "Error"
           p    == Pillars(<<wait>>, n, <<>>, <<>>, <<>>, <<>>)
           item == [span |-> AcquireSpan(asked), end |-> now, code |-> code]
<1>1. Nothing = Pillars(<<>>, 0, <<>>, <<>>, <<>>, <<>>)
  BY DEF Nothing, Pillars
<1>2. x["acquire.metrics"] = asked /\ "acquire.metrics" \in DOMAIN x
      /\ x["acquire.span"] = AcquireSpan(asked) /\ "acquire.span" \in DOMAIN x
  BY DEF AcquireContext
<1>3. DBAcquireEnd(Nothing, x, e) =
        [Nothing EXCEPT !.waits = Append(Nothing.waits, wait),
                        !.acquireErrors = IF e = "nil" THEN Nothing.acquireErrors ELSE Nothing.acquireErrors + 1]
  BY <1>2 DEF DBAcquireEnd
<1>4. Nothing.waits = <<>> /\ Nothing.acquireErrors = 0
  BY <1>1, PillarFields
<1>5. Append(Nothing.waits, wait) = <<wait>>
      /\ (IF e = "nil" THEN Nothing.acquireErrors ELSE Nothing.acquireErrors + 1) = n
  BY <1>4
<1>6. DBAcquireEnd(Nothing, x, e) = SetWaits(Nothing, <<wait>>, n)
  BY <1>3, <1>5 DEF SetWaits
<1> HIDE DEF wait, n, code
<1>7. DBAcquireEnd(Nothing, x, e) = p
  BY <1>1, <1>6, WaitsUpdate
<1>8. SpanAcquireEnd(p, x, e) = [p EXCEPT !.spans = Append(p.spans, item)]
  BY <1>2 DEF SpanAcquireEnd, EndSpan, code
<1>9. p.spans = <<>>
  BY PillarFields
<1>10. Append(p.spans, item) = <<item>>
  BY <1>9, One
<1>11. SpanAcquireEnd(p, x, e) = Pillars(<<wait>>, n, <<>>, <<>>, <<>>, <<item>>)
  <2> HIDE DEF item
  <2> QED  BY <1>8, <1>10, SpansUpdate
<1>12. TraceAcquireEnd(Nothing, x, e) = AfterAcquire(asked, now, n, code)
  BY <1>7, <1>11 DEF TraceAcquireEnd, AfterAcquire, wait
<1> QED  BY <1>12 DEF n, code

\* TraceQueryEnd of a call that has its connection.
LEMMA QueryEnds ==
    ASSUME NEW x, NEW s, NEW asked, NEW got, NEW e, QueryContext(x, s, got)
    PROVE  TraceQueryEnd(AfterAcquire(asked, got, 0, "Unset"), x, e) = AfterQuery(s, e, asked, got, now)
<1> DEFINE first  == [span |-> AcquireSpan(asked), end |-> got, code |-> "Unset"]
           second == [span |-> QuerySpan(s, got), end |-> now,
                      code |-> IF e \in {"nil", "ErrNoRows"} THEN "Unset" ELSE "Error"]
           status == IF isRealError(e) THEN "error" ELSE "ok"
           sample == [name |-> queryName[s], status |-> status, secs |-> now - got]
           fault  == [name |-> queryName[s], kind |-> errorKind(e)]
           faults == IF isRealError(e) THEN <<fault>> ELSE <<>>
           line   == [name |-> logName[s], level |-> Level(e, now - got)]
           waits  == <<got - asked>>
           p0     == Pillars(waits, 0, <<>>, <<>>, <<>>, <<first>>)
           p1     == Pillars(waits, 0, <<sample>>, faults, <<>>, <<first>>)
           p2     == Pillars(waits, 0, <<sample>>, faults, <<line>>, <<first>>)
<1>1. /\ "query.metrics" \in DOMAIN x /\ "query.log" \in DOMAIN x /\ "query.span" \in DOMAIN x
      /\ x["query.metrics"] = [name |-> queryName[s], start |-> got]
      /\ x["query.log"] = [name |-> logName[s], start |-> got]
      /\ x["query.span"] = QuerySpan(s, got)
  BY DEF QueryContext
<1>2. DBQueryEnd(p0, x, e) = [p0 EXCEPT !.samples = Append(p0.samples, sample),
                                        !.queryErrors = IF status = "ok" THEN p0.queryErrors
                                                        ELSE Append(p0.queryErrors, fault)]
  BY <1>1 DEF DBQueryEnd
<1>3. p0.samples = <<>> /\ p0.queryErrors = <<>>
  BY PillarFields
<1>4. status = "ok" <=> ~isRealError(e)
  OBVIOUS
<1>5. LogQueryEnd(p1, x, e) = [p1 EXCEPT !.lines = Append(p1.lines, line)]
  BY <1>1 DEF LogQueryEnd, Level
<1>6. p1.lines = <<>>
  BY PillarFields
<1>7. SpanQueryEnd(p2, x, e) = [p2 EXCEPT !.spans = Append(p2.spans, second)]
  BY <1>1 DEF SpanQueryEnd, EndSpan
<1>8. p2.spans = <<first>>
  BY PillarFields
<1> HIDE DEF first, second, sample, fault, line, waits, status
<1>9. Append(p0.samples, sample) = <<sample>> /\ Append(p0.queryErrors, fault) = <<fault>>
  BY <1>3, One
<1>10. (IF status = "ok" THEN p0.queryErrors ELSE Append(p0.queryErrors, fault)) = faults
  BY <1>3, <1>4, <1>9
<1>11. DBQueryEnd(p0, x, e) = SetSamples(p0, <<sample>>, faults)
  BY <1>2, <1>9, <1>10 DEF SetSamples
<1> HIDE DEF faults
<1>12. DBQueryEnd(p0, x, e) = p1
  BY <1>11, SamplesUpdate
<1>13. LogQueryEnd(p1, x, e) = [p1 EXCEPT !.lines = <<line>>]
  BY <1>5, <1>6, One
<1>14. LogQueryEnd(p1, x, e) = p2
  BY <1>13, LinesUpdate
<1>15. SpanQueryEnd(p2, x, e) = [p2 EXCEPT !.spans = <<first, second>>]
  BY <1>7, <1>8, Two
<1>16. SpanQueryEnd(p2, x, e) = Pillars(waits, 0, <<sample>>, faults, <<line>>, <<first, second>>)
  BY <1>15, SpansUpdate
<1>17. AfterAcquire(asked, got, 0, "Unset") = p0
  BY DEF AfterAcquire, first, waits
<1>18. AfterQuery(s, e, asked, got, now) = Pillars(waits, 0, <<sample>>, faults, <<line>>, <<first, second>>)
  BY DEF AfterQuery, waits, sample, faults, fault, line, first, second, status
<1> QED  BY <1>12, <1>14, <1>16, <1>17, <1>18 DEF TraceQueryEnd

-----------------------------------------------------------------------------
(* Frames and counts *)

\* Nothing CallInv speaks of has changed for a call.
Same(c) == /\ pc'[c] = pc[c] /\ stmt'[c] = stmt[c] /\ err'[c] = err[c]
           /\ ctx'[c] = ctx[c] /\ seen'[c] = seen[c] /\ at'[c] = at[c]

\* A step of somebody else keeps what is known of a call.
LEMMA Frame == ASSUME NEW c, CallInv(c), Same(c) PROVE CallInv(c)'
  BY DEF CallInv, Same, Ping

\* One call moves: every count of calls gains it or loses it.
LEMMA Moves ==
    ASSUME Typed, NEW c \in Calls, NEW to, Go(c, to), NEW S
    PROVE  /\ Cardinality(In(pc, S)) \in Nat /\ Cardinality(In(pc', S)) \in Nat
           /\ pc[c] \in S /\ to \in S => Cardinality(In(pc', S)) = Cardinality(In(pc, S))
           /\ pc[c] \in S /\ to \notin S => Cardinality(In(pc', S)) = Cardinality(In(pc, S)) - 1
           /\ pc[c] \notin S /\ to \in S => Cardinality(In(pc', S)) = Cardinality(In(pc, S)) + 1
           /\ pc[c] \notin S /\ to \notin S => Cardinality(In(pc', S)) = Cardinality(In(pc, S))
<1>1. IsFiniteSet(In(pc, S)) /\ IsFiniteSet(In(pc', S))
  BY CallsAssumption, FS_Subset DEF In
<1>2. Cardinality(In(pc, S)) \in Nat /\ Cardinality(In(pc', S)) \in Nat
  BY <1>1, FS_CardinalityType
<1>3. \A d \in Calls : pc'[d] = IF d = c THEN to ELSE pc[d]
  BY DEF Typed, Go
<1>4. CASE pc[c] \in S /\ to \notin S
  <2>1. In(pc', S) = In(pc, S) \ {c} /\ c \in In(pc, S)
    BY <1>3, <1>4 DEF In
  <2> QED  BY <1>1, <1>2, <1>4, <2>1, FS_RemoveElement
<1>5. CASE pc[c] \notin S /\ to \in S
  <2>1. In(pc', S) = In(pc, S) \cup {c} /\ c \notin In(pc, S)
    BY <1>3, <1>5 DEF In
  <2> QED  BY <1>1, <1>2, <1>5, <2>1, FS_AddElement
<1>6. CASE (pc[c] \in S) <=> (to \in S)
  <2>1. In(pc', S) = In(pc, S)
    BY <1>3, <1>6 DEF In
  <2> QED  BY <1>2, <1>6, <2>1
<1> QED  BY <1>4, <1>5, <1>6

\* The moves of a call, and what each does to the two counts.
LEMMA PoolMoves ==
    ASSUME Typed, NEW c \in Calls, NEW to, Go(c, to)
    PROVE  /\ Cardinality(Building) \in Nat /\ Cardinality(Held) \in Nat
           /\ Cardinality(Building') \in Nat /\ Cardinality(Held') \in Nat
           /\ pc[c] # "building" /\ to # "building" => Cardinality(Building') = Cardinality(Building)
           /\ pc[c] # "building" /\ to = "building" => Cardinality(Building') = Cardinality(Building) + 1
           /\ pc[c] = "building" /\ to # "building" => Cardinality(Building') = Cardinality(Building) - 1
           /\ pc[c] \in Holding /\ to \in Holding => Cardinality(Held') = Cardinality(Held)
           /\ pc[c] \in Holding /\ to \notin Holding => Cardinality(Held') = Cardinality(Held) - 1
           /\ pc[c] \notin Holding /\ to \in Holding => Cardinality(Held') = Cardinality(Held) + 1
           /\ pc[c] \notin Holding /\ to \notin Holding => Cardinality(Held') = Cardinality(Held)
<1>2. Building' = In(pc', {"building"}) /\ Held' = In(pc', Holding)
  BY DEF Building, Held, In
<1> DEFINE b == In(pc, {"building"})
           h == In(pc, Holding)
           b1 == In(pc', {"building"})
           h1 == In(pc', Holding)
<1>3. /\ Cardinality(b) \in Nat /\ Cardinality(b1) \in Nat
      /\ pc[c] \in {"building"} /\ to \notin {"building"} => Cardinality(b1) = Cardinality(b) - 1
      /\ pc[c] \notin {"building"} /\ to \in {"building"} => Cardinality(b1) = Cardinality(b) + 1
      /\ pc[c] \notin {"building"} /\ to \notin {"building"} => Cardinality(b1) = Cardinality(b)
  BY Moves
<1>4. /\ Cardinality(h) \in Nat /\ Cardinality(h1) \in Nat
      /\ pc[c] \in Holding /\ to \in Holding => Cardinality(h1) = Cardinality(h)
      /\ pc[c] \in Holding /\ to \notin Holding => Cardinality(h1) = Cardinality(h) - 1
      /\ pc[c] \notin Holding /\ to \in Holding => Cardinality(h1) = Cardinality(h) + 1
      /\ pc[c] \notin Holding /\ to \notin Holding => Cardinality(h1) = Cardinality(h)
  BY Moves
<1>5. Building = b /\ Held = h /\ Building' = b1 /\ Held' = h1
  BY <1>2 DEF Building, Held
<1> HIDE DEF b, h, b1, h1
<1> QED  BY <1>3, <1>4, <1>5

\* Where the invariant is kept by a step that leaves the pool and all calls but one alone.
LEMMA OneCall ==
    ASSUME IInv, NEW c \in Calls, Typed', CallInv(c)', PoolInv',
           \A d \in Calls \ {c} : Same(d)
    PROVE  IInv'
  BY Frame DEF IInv

-----------------------------------------------------------------------------
(* One lemma for each action *)

\* Before the first call the pool is whole and nothing is known of any call.
LEMMA InitIInv == ASSUME Init PROVE IInv
<1>1. Typed
  BY MaxConnsAssumption DEF Init, Typed, Places, Asking, Running, Done
<1>2. ASSUME NEW c \in Calls PROVE CallInv(c)
  BY DEF Init, CallInv, Asking, Running, Done
<1>3. Building = {} /\ Held = {}
  BY DEF Init, Building, Held, In, Holding
<1>4. PoolInv
  BY <1>3, FS_EmptySet, MaxConnsAssumption DEF Init, PoolInv
<1> QED  BY <1>1, <1>2, <1>4 DEF IInv

\* A call enters the queue with both acquire tracers' values on its context.
LEMMA CallKeeps == ASSUME IInv, NEW c \in Calls, Call(c) PROVE IInv'
<1> DEFINE new == [at[c] EXCEPT !.asked = now]
<1>1. Typed /\ CallInv(c) /\ PoolInv
  BY DEF IInv
<1>2. at' = [at EXCEPT ![c] = new] /\ new \in [asked : Nat, got : Nat, done : Nat] /\ new.asked = now
  BY <1>1 DEF Typed, Call
<1> HIDE DEF new
<1>3. Typed'
  <2>1. at' \in [Calls -> [asked : Nat, got : Nat, done : Nat]]
    BY <1>1, <1>2 DEF Typed
  <2>2. pc' \in [Calls -> Places]
    BY <1>1 DEF Typed, Call, Go, Places, Asking
  <2>3. DOMAIN ctx' = DOMAIN ctx
    BY DEF Call
  <2>4. UNCHANGED <<now, stmt, ended, err, slots, idle, orphans, seen>>
    BY DEF Call
  <2> QED  BY <1>1, <2>1, <2>2, <2>3, <2>4 DEF Typed
<1>4. \A d \in Calls \ {c} : Same(d)
  BY <1>1, <1>2 DEF Typed, Call, Go, Same
<1>5. pc'[c] = "queued" /\ seen'[c] = Nothing /\ at'[c].asked = now
      /\ ctx'[c] = TraceAcquireStart(Background)
  BY <1>1, <1>2 DEF Typed, CallInv, Call, Go
<1>6. AcquireContext(ctx'[c], at'[c].asked)
  BY <1>5, AcquireStarts
<1>7. CallInv(c)'
  BY <1>5, <1>6 DEF CallInv, Asking, Running, Done
<1>8. PoolInv'
  <2>1. Go(c, "queued") /\ pc[c] = "uncalled" /\ UNCHANGED <<slots, orphans, idle>>
    BY DEF Call
  <2> QED  BY <1>1, <2>1, PoolMoves DEF PoolInv, Holding
<1> QED  BY <1>3, <1>4, <1>7, <1>8, OneCall

\* A slot passes to the first in the queue, with its connection or to build one.
LEMMA GrantKeeps == ASSUME IInv, NEW c \in Calls, Grant(c) PROVE IInv'
<1>1. Typed /\ CallInv(c) /\ PoolInv
  BY DEF IInv
<1>2. pc[c] = "queued" /\ slots > 0
  BY DEF Grant, AtHead
<1>3. UNCHANGED <<now, stmt, ended, err, ctx, orphans, seen, at>>
  BY DEF Grant
<1>4. CASE pc' = pc
  <2>1. slots' = slots /\ idle' = idle - 1 /\ idle > 0
    BY <1>1, <1>2, <1>4 DEF Grant, Go, Typed
  <2>2. Typed' /\ \A d \in Calls : Same(d)
    BY <1>1, <1>3, <1>4, <2>1 DEF Typed, Same
  <2>3. PoolInv'
    BY <1>1, <1>3, <1>4, <2>1 DEF PoolInv, Building, Held, Typed
  <2> QED  BY <2>2, <2>3, Frame DEF IInv
<1>5. CASE slots' = slots - 1 /\ idle > 0 /\ idle' = idle - 1 /\ Go(c, "granted")
  <2>1. Typed'
    BY <1>1, <1>2, <1>3, <1>5 DEF Typed, Go, Places, Asking
  <2>2. \A d \in Calls \ {c} : Same(d)
    BY <1>1, <1>3, <1>5 DEF Typed, Go, Same
  <2>3. pc'[c] = "granted"
    BY <1>1, <1>5 DEF Typed, Go
  <2>4. CallInv(c)'
    BY <1>1, <1>2, <1>3, <2>3 DEF CallInv, Asking, Running, Done
  <2>5. PoolInv'
    <3>1. /\ Cardinality(Building) \in Nat /\ Cardinality(Held) \in Nat
          /\ Cardinality(Building') = Cardinality(Building)
          /\ Cardinality(Held') = Cardinality(Held) + 1
      BY <1>1, <1>2, <1>5, PoolMoves DEF Holding
    <3> QED  BY <1>1, <1>3, <1>5, <3>1 DEF PoolInv, Typed
  <2> QED  BY <2>1, <2>2, <2>4, <2>5, OneCall
<1>6. CASE slots' = slots - 1 /\ ~(idle > 0) /\ idle' = idle /\ Go(c, "building")
  <2>1. Typed'
    BY <1>1, <1>2, <1>3, <1>6 DEF Typed, Go, Places, Asking
  <2>2. \A d \in Calls \ {c} : Same(d)
    BY <1>1, <1>3, <1>6 DEF Typed, Go, Same
  <2>3. pc'[c] = "building"
    BY <1>1, <1>6 DEF Typed, Go
  <2>4. CallInv(c)'
    BY <1>1, <1>2, <1>3, <2>3 DEF CallInv, Asking, Running, Done
  <2>5. PoolInv'
    BY <1>1, <1>2, <1>3, <1>6, PoolMoves DEF PoolInv, Typed, Holding
  <2> QED  BY <2>1, <2>2, <2>4, <2>5, OneCall
<1> QED  BY <1>4, <1>5, <1>6 DEF Grant

\* A construction succeeds, or fails and gives the slot back.
LEMMA BuildKeeps == ASSUME IInv, NEW c \in Calls, Build(c) PROVE IInv'
<1>1. Typed /\ CallInv(c) /\ PoolInv
  BY DEF IInv
<1>2. pc[c] = "building" /\ UNCHANGED <<now, stmt, ended, ctx, queue, idle, orphans, seen, at>>
  BY DEF Build
<1>3. CASE Go(c, "granted") /\ UNCHANGED <<err, slots>>
  <2>1. Typed' /\ pc'[c] = "granted"
    BY <1>1, <1>2, <1>3 DEF Typed, Go, Places, Asking
  <2>2. \A d \in Calls \ {c} : Same(d)
    BY <1>1, <1>2, <1>3 DEF Typed, Go, Same
  <2>3. CallInv(c)'
    BY <1>1, <1>2, <1>3, <2>1 DEF CallInv, Asking, Running, Done
  <2>4. PoolInv'
    BY <1>1, <1>2, <1>3, PoolMoves DEF PoolInv, Typed, Holding
  <2> QED  BY <2>1, <2>2, <2>3, <2>4, OneCall
<1>4. CASE Go(c, "refused") /\ err' = [err EXCEPT ![c] = "other"] /\ slots' = slots + 1
  <2>1. Typed' /\ pc'[c] = "refused" /\ err'[c] = "other"
    BY <1>1, <1>2, <1>4 DEF Typed, Go, Places, Asking
  <2>2. \A d \in Calls \ {c} : Same(d)
    BY <1>1, <1>2, <1>4 DEF Typed, Go, Same
  <2>3. CallInv(c)'
    BY <1>1, <1>2, <2>1 DEF CallInv, Asking, Running, Done
  <2>4. PoolInv'
    BY <1>1, <1>2, <1>4, PoolMoves DEF PoolInv, Typed, Holding
  <2> QED  BY <2>1, <2>2, <2>3, <2>4, OneCall
<1> QED  BY <1>3, <1>4 DEF Build

\* A caller gives up; the slot of a connection under construction stays with the orphan.
LEMMA GiveUpKeeps == ASSUME IInv, NEW c \in Calls, GiveUp(c) PROVE IInv'
<1>1. Typed /\ CallInv(c) /\ PoolInv
  BY DEF IInv
<1>2. /\ pc[c] \in {"queued", "building"} /\ ended[c] \in {"canceled", "timeout"}
      /\ Go(c, "refused") /\ err' = [err EXCEPT ![c] = ended[c]]
      /\ orphans' = IF pc[c] = "building" THEN orphans + 1 ELSE orphans
      /\ UNCHANGED <<now, stmt, ended, ctx, slots, idle, seen, at>>
  BY <1>1 DEF GiveUp, Typed
<1>3. Typed' /\ pc'[c] = "refused" /\ err'[c] # "nil"
  BY <1>1, <1>2 DEF Typed, Go, Places, Asking
<1>4. \A d \in Calls \ {c} : Same(d)
  BY <1>1, <1>2 DEF Typed, Go, Same
<1>5. CallInv(c)'
  BY <1>1, <1>2, <1>3 DEF CallInv, Asking, Running, Done
<1>6. PoolInv'
  BY <1>1, <1>2, PoolMoves DEF PoolInv, Typed, Holding
<1> QED  BY <1>3, <1>4, <1>5, <1>6, OneCall

\* The slot of an orphan comes back.
LEMMA BuiltKeeps == ASSUME IInv, Built PROVE IInv'
<1>1. Typed /\ PoolInv
  BY DEF IInv
<1>2. /\ orphans > 0 /\ orphans' = orphans - 1 /\ slots' = slots + 1 /\ idle' \in {idle, idle + 1}
      /\ UNCHANGED <<now, pc, stmt, ended, err, ctx, seen, at>>
  BY DEF Built
<1>3. Typed' /\ \A d \in Calls : Same(d)
  BY <1>1, <1>2 DEF Typed, Same
<1>4. Building' = Building /\ Held' = Held
  BY <1>2 DEF Building, Held
<1>5. Cardinality(Building) \in Nat /\ Cardinality(Held) \in Nat
  BY CallsAssumption, FS_Subset, FS_CardinalityType DEF Building, Held, In
<1>6. PoolInv'
  BY <1>1, <1>2, <1>4, <1>5 DEF PoolInv, Typed
<1> QED  BY <1>3, <1>6, Frame DEF IInv

\* Acquire's error path: TraceAcquireEnd of a call that has no connection.
LEMMA RefusedKeeps == ASSUME IInv, NEW c \in Calls, Refused(c) PROVE IInv'
<1> DEFINE new == [at[c] EXCEPT !.got = now, !.done = now]
           known == TraceAcquireEnd(seen[c], ctx[c], err[c])
<1>1. Typed /\ CallInv(c) /\ PoolInv
  BY DEF IInv
<1>2. /\ at' = [at EXCEPT ![c] = new] /\ new \in [asked : Nat, got : Nat, done : Nat]
      /\ new.asked = at[c].asked /\ new.got = now
  BY <1>1 DEF Typed, Refused
<1>3. /\ seen' = [seen EXCEPT ![c] = known] /\ pc[c] = "refused" /\ Go(c, "failed")
      /\ UNCHANGED <<now, stmt, ended, err, ctx, queue, slots, idle, orphans>>
  BY DEF Refused, poolVars
<1>4. seen[c] = Nothing /\ AcquireContext(ctx[c], at[c].asked) /\ err[c] # "nil"
  BY <1>1, <1>3 DEF CallInv, Asking
<1>5. known = AfterAcquire(at[c].asked, now, 1, "Error")
  BY <1>4, AcquireEnds
<1> HIDE DEF new, known
<1>6. Typed' /\ pc'[c] = "failed" /\ seen'[c] = known /\ at'[c] = new
  BY <1>1, <1>2, <1>3 DEF Typed, Go, Places
<1>7. \A d \in Calls \ {c} : Same(d)
  BY <1>1, <1>2, <1>3 DEF Typed, Go, Same
<1>8. CallInv(c)'
  BY <1>2, <1>5, <1>6 DEF CallInv, Asking, Running, Done
<1>9. PoolInv'
  BY <1>1, <1>3, PoolMoves DEF PoolInv, Typed, Holding
<1> QED  BY <1>6, <1>7, <1>8, <1>9, OneCall

\* Acquire's success path, and TraceQueryStart under the caller's context.
LEMMA SendKeeps == ASSUME IInv, NEW c \in Calls, Send(c) PROVE IInv'
<1> DEFINE new == [at[c] EXCEPT !.got = now]
           known == TraceAcquireEnd(seen[c], ctx[c], "nil")
           under == IF stmt[c].how = "ping" THEN Background ELSE TraceQueryStart(Background, stmt[c])
<1>1. Typed /\ CallInv(c) /\ PoolInv
  BY DEF IInv
<1>2. /\ at' = [at EXCEPT ![c] = new] /\ new \in [asked : Nat, got : Nat, done : Nat]
      /\ new.asked = at[c].asked /\ new.got = now
  BY <1>1 DEF Typed, Send
<1>3. /\ seen' = [seen EXCEPT ![c] = known] /\ ctx' = [ctx EXCEPT ![c] = under]
      /\ pc[c] = "granted" /\ Go(c, "running")
      /\ UNCHANGED <<now, stmt, ended, err, queue, slots, idle, orphans>>
  BY DEF Send, poolVars
<1>4. seen[c] = Nothing /\ AcquireContext(ctx[c], at[c].asked)
  BY <1>1, <1>3 DEF CallInv, Asking
<1>5. known = AfterAcquire(at[c].asked, now, 0, "Unset")
  BY <1>4, AcquireEnds
<1>6. ~Ping(c) => QueryContext(under, stmt[c], now)
  BY QueryStarts DEF Ping
<1> HIDE DEF new, known, under
<1>7. Typed' /\ pc'[c] = "running" /\ seen'[c] = known /\ at'[c] = new /\ ctx'[c] = under
  BY <1>1, <1>2, <1>3 DEF Typed, Go, Places, Running
<1>8. \A d \in Calls \ {c} : Same(d)
  BY <1>1, <1>2, <1>3 DEF Typed, Go, Same
<1>9. (Ping(c)' <=> Ping(c)) /\ stmt'[c] = stmt[c]
  BY <1>3 DEF Ping
<1>10. CallInv(c)'
  BY <1>2, <1>5, <1>6, <1>7, <1>9 DEF CallInv, Asking, Running, Done
<1>11. PoolInv'
  BY <1>1, <1>3, PoolMoves DEF PoolInv, Typed, Holding
<1> QED  BY <1>7, <1>8, <1>10, <1>11, OneCall

\* A statement that goes on, or comes to its end, whatever the error.
LEMMA RunningKeeps ==
    ASSUME IInv, NEW c \in Calls, NEW to \in {"reading", "answered"}, pc[c] \in {"running", "reading"},
           Go(c, to), err' = [err EXCEPT ![c] = err'[c]],
           err'[c] \in {"nil", "ErrNoRows", "canceled", "timeout", "sqlstate", "other"},
           UNCHANGED <<now, stmt, ended, ctx, poolVars, seen, at>>
    PROVE  IInv'
<1>1. Typed /\ CallInv(c) /\ PoolInv
  BY DEF IInv
<1>2. UNCHANGED <<queue, slots, idle, orphans>>
  BY DEF poolVars
<1>3. Typed' /\ pc'[c] = to
  BY <1>1, <1>2 DEF Typed, Go, Places, Running
<1>4. \A d \in Calls \ {c} : Same(d)
  BY <1>1, <1>2 DEF Typed, Go, Same
<1>5. (Ping(c)' <=> Ping(c))
  BY DEF Ping
<1>6. CallInv(c)'
  BY <1>1, <1>3, <1>5 DEF CallInv, Asking, Running, Done
<1>7. PoolInv'
  BY <1>1, <1>2, PoolMoves DEF PoolInv, Typed, Holding
<1> QED  BY <1>3, <1>4, <1>6, <1>7, OneCall

\* Postgres answers.
LEMMA AnswerKeeps == ASSUME IInv, NEW c \in Calls, Answer(c) PROVE IInv'
<1>1. Typed
  BY DEF IInv
<1>2. pc[c] = "running" /\ UNCHANGED <<now, stmt, ended, ctx, poolVars, seen, at>>
  BY DEF Answer
<1>3. CASE \E e \in Answers(stmt[c].how) : err' = [err EXCEPT ![c] = e] /\ Go(c, "answered")
  <2>1. PICK e \in Answers(stmt[c].how) : err' = [err EXCEPT ![c] = e] /\ Go(c, "answered")
    BY <1>3
  <2>2. e \in {"nil", "ErrNoRows", "canceled", "timeout", "sqlstate", "other"}
    BY DEF Answers
  <2>3. err'[c] = e
    BY <1>1, <2>1 DEF Typed
  <2> QED  BY <1>2, <2>1, <2>2, <2>3, RunningKeeps
<1>4. CASE Go(c, "reading") /\ UNCHANGED err
  <2>1. err' = [err EXCEPT ![c] = err'[c]]
        /\ err'[c] \in {"nil", "ErrNoRows", "canceled", "timeout", "sqlstate", "other"}
    BY <1>1, <1>4 DEF Typed
  <2> QED  BY <1>2, <1>4, <2>1, RunningKeeps
<1> QED  BY <1>3, <1>4 DEF Answer

\* The row loop ends.
LEMMA ReadKeeps == ASSUME IInv, NEW c \in Calls, Read(c) PROVE IInv'
<1>1. PICK e \in {"nil", "other"} : err' = [err EXCEPT ![c] = e]
  BY DEF Read
<1>2. err'[c] = e
  BY <1>1 DEF IInv, Typed
<1> QED  BY <1>1, <1>2, RunningKeeps DEF Read

\* The caller's context ends the statement.
LEMMA InterruptKeeps == ASSUME IInv, NEW c \in Calls, Interrupt(c) PROVE IInv'
<1>1. err' = [err EXCEPT ![c] = ended[c]]
  BY DEF Interrupt
<1>2. err'[c] = ended[c] /\ ended[c] \in {"canceled", "timeout"}
  BY <1>1 DEF IInv, Typed, Interrupt
<1> QED  BY <1>1, <1>2, RunningKeeps DEF Interrupt

\* TraceQueryEnd, or nothing for a ping.
LEMMA EndKeeps == ASSUME IInv, NEW c \in Calls, End(c) PROVE IInv'
<1> DEFINE new == [at[c] EXCEPT !.done = now]
           known == IF Ping(c) THEN seen[c] ELSE TraceQueryEnd(seen[c], ctx[c], err[c])
<1>1. Typed /\ CallInv(c) /\ PoolInv
  BY DEF IInv
<1>2. /\ at' = [at EXCEPT ![c] = new] /\ new \in [asked : Nat, got : Nat, done : Nat]
      /\ new.asked = at[c].asked /\ new.got = at[c].got /\ new.done = now
  BY <1>1 DEF Typed, End
<1>3. /\ pc[c] = "answered" /\ Go(c, "ended")
      /\ UNCHANGED <<now, stmt, ended, err, ctx, queue, slots, idle, orphans>>
  BY DEF End, poolVars
<1>4. seen'[c] = known /\ DOMAIN seen' = Calls /\ \A d \in Calls \ {c} : seen'[d] = seen[d]
  BY <1>1 DEF End, Typed, Ping
<1>5. ~Ping(c) => known = AfterQuery(stmt[c], err[c], at[c].asked, at[c].got, now)
  <2>1. seen[c] = AfterAcquire(at[c].asked, at[c].got, 0, "Unset")
    BY <1>1, <1>3 DEF CallInv, Running
  <2>2. ~Ping(c) => QueryContext(ctx[c], stmt[c], at[c].got)
    BY <1>1, <1>3 DEF CallInv, Running
  <2> QED  BY <2>1, <2>2, QueryEnds
<1> HIDE DEF new, known
<1>6. Typed' /\ pc'[c] = "ended" /\ at'[c] = new
  BY <1>1, <1>2, <1>3, <1>4 DEF Typed, Go, Places, Done
<1>7. \A d \in Calls \ {c} : Same(d)
  BY <1>1, <1>2, <1>3, <1>4 DEF Typed, Go, Same
<1>8. (Ping(c)' <=> Ping(c)) /\ stmt'[c] = stmt[c] /\ err'[c] = err[c]
  BY <1>3 DEF Ping
<1>9. CallInv(c)'
  BY <1>2, <1>4, <1>5, <1>6, <1>8 DEF CallInv, Asking, Running, Done
<1>10. PoolInv'
  BY <1>1, <1>3, PoolMoves DEF PoolInv, Typed, Holding
<1> QED  BY <1>6, <1>7, <1>9, <1>10, OneCall

\* The slot comes back, whatever the statement came to.
LEMMA ReleaseKeeps == ASSUME IInv, NEW c \in Calls, Release(c) PROVE IInv'
<1>1. Typed /\ CallInv(c) /\ PoolInv
  BY DEF IInv
<1>2. /\ pc[c] = "ended" /\ slots' = slots + 1 /\ idle' \in {idle, idle + 1} /\ Go(c, "returned")
      /\ UNCHANGED <<now, stmt, ended, err, ctx, orphans, seen, at>>
  BY DEF Release
<1>3. Typed' /\ pc'[c] = "returned"
  BY <1>1, <1>2 DEF Typed, Go, Places, Done
<1>4. \A d \in Calls \ {c} : Same(d)
  BY <1>1, <1>2 DEF Typed, Go, Same
<1>5. (Ping(c)' <=> Ping(c))
  BY <1>2 DEF Ping
<1>6. CallInv(c)'
  BY <1>1, <1>2, <1>3, <1>5 DEF CallInv, Asking, Running, Done
<1>7. PoolInv'
  BY <1>1, <1>2, PoolMoves DEF PoolInv, Typed, Holding
<1> QED  BY <1>3, <1>4, <1>6, <1>7, OneCall

\* The contexts of callers, the clock and stuttering touch no call and no slot.
LEMMA RestKeeps ==
    ASSUME IInv, Typed', UNCHANGED <<pc, stmt, err, ctx, slots, idle, orphans, seen, at>>
    PROVE  IInv'
<1>1. \A d \in Calls : Same(d)
  BY DEF Same
<1>2. PoolInv'
  BY DEF IInv, PoolInv, Building, Held
<1> QED  BY <1>1, <1>2, Frame DEF IInv

\* A caller's context ends.
LEMMA CancelKeeps == ASSUME IInv, NEW c \in Calls, Cancel(c) PROVE IInv'
<1>1. UNCHANGED <<now, pc, stmt, err, ctx, slots, idle, orphans, seen, at>>
  BY DEF Cancel, poolVars
<1>2. Typed'
  BY <1>1 DEF IInv, Typed, Cancel
<1> QED  BY <1>1, <1>2, RestKeeps

\* Time passes.
LEMMA TickKeeps == ASSUME IInv, Tick PROVE IInv'
<1>1. UNCHANGED <<pc, stmt, ended, err, ctx, slots, idle, orphans, seen, at>>
  BY DEF Tick, poolVars
<1>2. Typed'
  BY <1>1 DEF IInv, Typed, Tick
<1> QED  BY <1>1, <1>2, RestKeeps

\* Nothing happens.
LEMMA StutterKeeps == ASSUME IInv, UNCHANGED vars PROVE IInv'
<1>1. UNCHANGED <<now, pc, stmt, ended, err, ctx, slots, idle, orphans, seen, at>>
  BY DEF vars, poolVars
<1>2. Typed'
  BY <1>1 DEF IInv, Typed
<1> QED  BY <1>1, <1>2, RestKeeps

\* IInv holds of every reachable state.
THEOREM Invariance == Spec => []IInv
<1>1. Init => IInv
  BY InitIInv
<1>2. IInv /\ [Next]_vars => IInv'
  <2> SUFFICES ASSUME IInv, [Next]_vars PROVE IInv'
    OBVIOUS
  <2> USE CallKeeps, GrantKeeps, BuildKeeps, GiveUpKeeps, RefusedKeeps, SendKeeps, AnswerKeeps,
          ReadKeeps, InterruptKeeps, EndKeeps, ReleaseKeeps, CancelKeeps
  <2>1. CASE \E c \in Calls : Call(c) \/ Own(c) \/ Postgres(c) \/ Cancel(c)
    BY <2>1 DEF Own, Postgres
  <2>2. CASE Built      BY <2>2, BuiltKeeps
  <2>3. CASE Tick       BY <2>3, TickKeeps
  <2>4. CASE UNCHANGED vars  BY <2>4, StutterKeeps
  <2> QED  BY <2>1, <2>2, <2>3, <2>4 DEF Next
<1> QED  BY <1>1, <1>2, PTL DEF Spec

-----------------------------------------------------------------------------
(* The properties *)

\* TypeOK, without the queue, whose updates are SelectSeq's.
THEOREM TypeCorrect == Spec => []Typed
  BY Invariance, PTL DEF IInv

\* What poolCollector scrapes is what the calls hold: no connection leaks on any path out of a
\* store method, and the pool stays within DB_MAX_CONNS, for every pool size.
THEOREM ScrapesAreTrue == Spec => []ScrapeIsTrue
<1>1. IInv => ScrapeIsTrue
  <2> SUFFICES ASSUME IInv PROVE ScrapeIsTrue
    OBVIOUS
  <2>1. Typed /\ PoolInv
    BY DEF IInv
  <2>2. {c \in Calls : pc[c] = "building"} = Building
    BY DEF Building, In
  <2>3. {c \in Calls : pc[c] \in {"granted", "running", "reading", "answered", "ended"}} = Held
    BY DEF Held, In, Holding
  <2>4. Cardinality(Building) \in Nat /\ Cardinality(Held) \in Nat
    BY CallsAssumption, FS_Subset, FS_CardinalityType DEF Building, Held, In
  <2>5. /\ MaxConns - slots - (orphans + Cardinality(Building)) = Cardinality(Held)
        /\ MaxConns - slots - (orphans + Cardinality(Building)) + idle + (orphans + Cardinality(Building))
              <= MaxConns
    BY <2>1, <2>4, MaxConnsAssumption DEF Typed, PoolInv
  <2> QED  BY <2>2, <2>3, <2>5 DEF ScrapeIsTrue, Collect
<1> QED  BY <1>1, Invariance, PTL

\* Lists of one and of two, by their elements.
LEMMA Lists ==
    ASSUME NEW a, NEW b
    PROVE  /\ Len(<<a>>) = 1 /\ <<a>>[1] = a
           /\ Len(<<a, b>>) = 2 /\ <<a, b>>[1] = a /\ <<a, b>>[2] = b
  OBVIOUS

\* Both histograms and both spans split a call at the moment it had its connection, whatever
\* becomes of it: acquire_wait and the acquire span cover the queue, a failed acquisition's too,
\* query_duration and the query span the rest, and the spans are siblings.
THEOREM WaitsAttributed == Spec => []WaitAttributed
<1>1. IInv => WaitAttributed
  <2> SUFFICES ASSUME IInv, NEW c \in Calls
               PROVE  LET p == seen[c]
                          Spans(n, from, to) == /\ p.spans[n].span.parent = Background["active"]
                                                /\ p.spans[n].span.start = from
                                                /\ p.spans[n].end = to
                      IN  /\ Traced(c) \/ Failed(c) =>
                               /\ p.waits = <<at[c].got - at[c].asked>>
                               /\ Spans(1, at[c].asked, at[c].got)
                          /\ Traced(c) =>
                               /\ p.samples[1].secs = at[c].done - at[c].got
                               /\ Spans(2, at[c].got, at[c].done)
    BY DEF WaitAttributed
  <2> DEFINE asked == at[c].asked
             got   == at[c].got
             done  == at[c].done
  <2>1. CallInv(c)
    BY DEF IInv
  <2>2. Background["active"] = "caller"
    BY DEF Background
  <2>3. CASE Failed(c)
    <3>1. seen[c] = AfterAcquire(asked, got, 1, "Error") /\ ~Traced(c)
      BY <2>1, <2>3 DEF CallInv, Failed, Traced
    <3>2. seen[c].waits = <<got - asked>>
          /\ seen[c].spans = <<[span |-> AcquireSpan(asked), end |-> got, code |-> "Error"]>>
      BY <3>1, PillarFields DEF AfterAcquire
    <3> QED  BY <2>2, <3>1, <3>2 DEF AcquireSpan
  <2>4. CASE Traced(c)
    <3> DEFINE first  == [span |-> AcquireSpan(asked), end |-> got, code |-> "Unset"]
               second == [span |-> QuerySpan(stmt[c], got), end |-> done,
                          code |-> IF err[c] \in {"nil", "ErrNoRows"} THEN "Unset" ELSE "Error"]
               sample == [name |-> queryName[stmt[c]],
                          status |-> IF isRealError(err[c]) THEN "error" ELSE "ok", secs |-> done - got]
    <3>1. seen[c] = AfterQuery(stmt[c], err[c], asked, got, done)
      BY <2>1, <2>4 DEF CallInv, Traced, Ping, Done
    <3>2. seen[c].waits = <<got - asked>> /\ seen[c].spans = <<first, second>> /\ seen[c].samples = <<sample>>
      BY <3>1, PillarFields DEF AfterQuery
    <3>3. first.span.parent = "caller" /\ first.span.start = asked /\ first.end = got
      BY DEF AcquireSpan
    <3>4. second.span.parent = "caller" /\ second.span.start = got /\ second.end = done
      BY DEF QuerySpan
    <3>5. sample.secs = done - got
      OBVIOUS
    <3> HIDE DEF first, second, sample
    <3>6. seen[c].spans[1] = first /\ seen[c].spans[2] = second /\ seen[c].samples[1] = sample
      BY <3>2, Lists
    <3> QED  BY <2>2, <3>2, <3>3, <3>4, <3>5, <3>6
  <2> QED  BY <2>3, <2>4
<1> QED  BY <1>1, Invariance, PTL


\* The level of a query's line, from its error and its duration.
LEMMA Levels ==
    ASSUME NEW e, NEW secs
    PROVE  /\ (Level(e, secs) = "ERROR" <=> isRealError(e))
           /\ (Level(e, secs) = "WARN" <=> ~isRealError(e) /\ secs >= SlowThreshold)
<1>1. CASE isRealError(e)
  <2>1. Level(e, secs) = "ERROR"
    BY <1>1 DEF isRealError, Level
  <2> QED  BY <1>1, <2>1
<1>2. CASE ~isRealError(e) /\ secs >= SlowThreshold
  <2>1. Level(e, secs) = "WARN"
    BY <1>2 DEF isRealError, Level
  <2> QED  BY <1>2, <2>1
<1>3. CASE ~isRealError(e) /\ ~(secs >= SlowThreshold)
  <2>1. Level(e, secs) = "DEBUG"
    BY <1>3 DEF isRealError, Level
  <2> QED  BY <1>3, <2>1
<1> QED  BY <1>1, <1>2, <1>3

\* A name looked up is one of the map's, or "other".
LEMMA LookupNames ==
    ASSUME NEW names, NEW sql
    PROVE  \/ Lookup(names, sql) = "other" /\ \A n \in names : n.sql # sql
           \/ \E n \in names : n.sql = sql /\ Lookup(names, sql) = n.name
<1> DEFINE hits == {n \in names : n.sql = sql}
<1>1. CASE hits = {}
  BY <1>1 DEF Lookup
<1>2. CASE hits # {}
  <2>1. (CHOOSE n \in hits : TRUE) \in hits
    BY <1>2
  <2>2. Lookup(names, sql) = (CHOOSE n \in hits : TRUE).name
    BY <1>2 DEF Lookup
  <2> QED  BY <2>1, <2>2
<1> QED  BY <1>1, <1>2

-----------------------------------------------------------------------------
(* The normalisers *)

\* Every set of naturals that is not empty has a least element.
LEMMA LeastNatural ==
    ASSUME NEW T \in SUBSET Nat, T # {}
    PROVE  \E n \in T : \A m \in T : n <= m
<1>1. PICK n \in T : \A m \in T : ~(<<m, n>> \in OpToRel(<, Nat))
  BY NatLessThanWellFounded, WFMin
<1>2. \A m \in T : ~(m < n)
  BY <1>1 DEF OpToRel
<1> QED  BY <1>2

\* f is what the loop of normalise has written after each of the first n bytes.
LoopOn(sql, f, n) ==
    f = [k \in 0..n |-> IF k = 0 THEN [out |-> <<>>, space |-> TRUE]
                        ELSE WriteByte(f[k - 1], sql[k])]

\* The loop is defined for a text of any length.
LEMMA LoopExists ==
    ASSUME NEW sql, NEW n \in Nat
    PROVE  \E f : LoopOn(sql, f, n)
<1> DEFINE T == {k \in Nat : ~\E f : LoopOn(sql, f, k)}
<1>1. SUFFICES ASSUME T # {} PROVE FALSE
  OBVIOUS
<1>2. PICK k \in T : \A m \in T : k <= m
  BY <1>1, LeastNatural
<1>3. k # 0
  <2>1. LoopOn(sql, [i \in 0..0 |-> [out |-> <<>>, space |-> TRUE]], 0)
    BY DEF LoopOn
  <2> QED  BY <2>1
<1>4. k - 1 \in Nat /\ k - 1 \notin T
  BY <1>2, <1>3
<1>5. PICK g : LoopOn(sql, g, k - 1)
  BY <1>4
<1> DEFINE h == [i \in 0..k |-> IF i < k THEN g[i] ELSE WriteByte(g[k - 1], sql[k])]
<1>6. LoopOn(sql, h, k)
  <2>1. ASSUME NEW i \in 0..k
        PROVE  h[i] = IF i = 0 THEN [out |-> <<>>, space |-> TRUE] ELSE WriteByte(h[i - 1], sql[i])
    <3>1. CASE i < k
      <4>1. i \in 0..(k - 1) /\ h[i] = g[i] /\ (i # 0 => h[i - 1] = g[i - 1])
        BY <3>1, <1>3
      <4>2. g[i] = IF i = 0 THEN [out |-> <<>>, space |-> TRUE] ELSE WriteByte(g[i - 1], sql[i])
        BY <4>1, <1>5 DEF LoopOn
      <4> QED  BY <4>1, <4>2
    <3>2. CASE i = k
      <4>1. h[k - 1] = g[k - 1]
        BY <1>3
      <4> QED  BY <3>2, <4>1, <1>3
    <3> QED  BY <3>1, <3>2
  <2> HIDE DEF h
  <2>2. h = [i \in 0..k |-> h[i]]
    BY DEF h
  <2> QED  BY <2>1, <2>2 DEF LoopOn
<1> QED  BY <1>2, <1>6

\* normalise trims what its loop has written after the last byte.
LEMMA NormaliseLoop ==
    ASSUME NEW S, NEW sql \in Seq(S)
    PROVE  \E f : LoopOn(sql, f, Len(sql)) /\ normalise(sql) = trimTrailingSpace(f[Len(sql)].out)
<1> DEFINE loop[n \in 0..Len(sql)] == IF n = 0 THEN [out |-> <<>>, space |-> TRUE]
                                      ELSE WriteByte(loop[n - 1], sql[n])
<1>1. normalise(sql) = trimTrailingSpace(loop[Len(sql)].out)
  BY DEF normalise
<1>2. loop = CHOOSE f : LoopOn(sql, f, Len(sql))
  BY DEF LoopOn
<1>3. LoopOn(sql, loop, Len(sql))
  BY <1>2, LoopExists
<1> HIDE DEF loop
<1> QED  BY <1>1, <1>3

\* Squeeze gives a sequence; a place behind all others adds its character at the end.
LEMMA SqueezeMore ==
    ASSUME NEW sql, NEW k \in Nat, NEW K \in SUBSET (1..k), NEW i \in Nat, i > k
    PROVE  LET c == IF sql[i] \in Blank \cup OtherSpace THEN " " ELSE sql[i]
           IN  /\ \E A : Squeeze(sql, K) \in Seq(A) /\ c \in A
               /\ Squeeze(sql, K \cup {i}) = Append(Squeeze(sql, K), c)
<1> DEFINE L == K \cup {i}
           Char(j) == IF sql[j] \in Blank \cup OtherSpace THEN " " ELSE sql[j]
           N == Cardinality(K)
           Upto(P, j) == {q \in P : q <= j}
           Hits(P, n) == {j \in P : Cardinality(Upto(P, j)) = n}
<1>1. IsFiniteSet(K) /\ N \in Nat /\ i \notin K
  <2>1. IsFiniteSet(1..k)
    BY FS_Interval
  <2>2. IsFiniteSet(K)
    BY <2>1, FS_Subset
  <2>3. N \in Nat
    BY <2>2, FS_CardinalityType
  <2> QED  BY <2>2, <2>3
<1>1a. \A j \in K : j \in Nat /\ j < i
  OBVIOUS
<1>2. Cardinality(L) = N + 1
  BY <1>1, FS_AddElement
<1>3. ASSUME NEW j \in K PROVE Upto(L, j) = Upto(K, j) /\ Cardinality(Upto(K, j)) <= N
  <2>1. Upto(L, j) = Upto(K, j)
    OBVIOUS
  <2>2. Upto(K, j) \in SUBSET K
    OBVIOUS
  <2> HIDE DEF Upto
  <2> QED  BY <1>1, <2>1, <2>2, FS_Subset
<1>4. Upto(L, i) = L
  <2>1. \A j \in L : j <= i
    BY <1>1a
  <2> HIDE DEF L
  <2> QED  BY <2>1
<1> HIDE DEF Upto
<1>4a. \A j \in K : Cardinality(Upto(K, j)) \in Nat
  <2> TAKE j \in K
  <2>1. Upto(K, j) \in SUBSET K
    BY DEF Upto
  <2> QED  BY <1>1, <2>1, FS_Subset, FS_CardinalityType
<1>5. ASSUME NEW n \in 1..N PROVE Hits(L, n) = Hits(K, n)
  <2>1. i \notin Hits(L, n)
    BY <1>1, <1>2, <1>4
  <2>2. \A j \in K : j \in Hits(L, n) <=> j \in Hits(K, n)
    BY <1>3
  <2>3. Hits(L, n) \subseteq L /\ Hits(K, n) \subseteq K
    OBVIOUS
  <2> HIDE DEF Hits
  <2> QED  BY <2>1, <2>2, <2>3
<1>6. Hits(L, N + 1) = {i}
  <2>1. \A j \in K : Cardinality(Upto(L, j)) # N + 1
    BY <1>1, <1>3, <1>4a
  <2> QED  BY <1>2, <1>4, <2>1
<1>7. \A P, n : Nth(P, n) = CHOOSE j \in Hits(P, n) : TRUE
  BY DEF Nth, Upto
<1> HIDE DEF Hits
<1>8. \A n \in 1..N : Nth(L, n) = Nth(K, n)
  BY <1>5, <1>7
<1>9. Nth(L, N + 1) = i
  BY <1>6, <1>7
<1> HIDE DEF L
<1>10. Squeeze(sql, K) = [n \in 1..N |-> Char(Nth(K, n))]
  BY DEF Squeeze
<1>11. Squeeze(sql, L) = [n \in 1..(N + 1) |-> Char(Nth(L, n))]
  BY <1>2 DEF Squeeze
<1> DEFINE A == {Char(Nth(K, n)) : n \in 1..N} \cup {Char(i)}
<1> HIDE DEF Char, N
<1>12. Squeeze(sql, K) \in Seq(A) /\ Char(i) \in A /\ Len(Squeeze(sql, K)) = N
  BY <1>1, <1>10
<1>13. Squeeze(sql, L) = Append(Squeeze(sql, K), Char(i))
  <2> DEFINE more == Append(Squeeze(sql, K), Char(i))
  <2>1. /\ more \in Seq(A) /\ Len(more) = N + 1 /\ more[N + 1] = Char(i)
        /\ \A n \in 1..N : more[n] = Squeeze(sql, K)[n]
    BY <1>1, <1>12
  <2> HIDE DEF more
  <2>2. more = [n \in 1..(N + 1) |-> more[n]]
    BY <2>1
  <2> USE DEF more
  <2>3. \A n \in 1..(N + 1) : more[n] = Char(Nth(L, n))
    BY <1>1, <1>8, <1>9, <1>10, <2>1
  <2> HIDE DEF more
  <2>4. Squeeze(sql, L) = more
    BY <1>11, <2>2, <2>3
  <2> QED  BY <2>4 DEF more
<1> QED  BY <1>12, <1>13 DEF Char, L

\* No places, no text.
LEMMA SqueezeNone == ASSUME NEW sql PROVE Squeeze(sql, {}) = <<>>
<1> DEFINE e == Squeeze(sql, {})
<1>1. e = [n \in 1..0 |-> e[n]]
  BY FS_EmptySet DEF Squeeze
<1> HIDE DEF e
<1>2. e \in Seq({}) /\ Len(e) = 0
  BY <1>1
<1>3. e = <<>>
  BY <1>2
<1> QED  BY <1>3 DEF e

\* What the loop has written of a text: its words, and one space behind every word.
Written(sql, n) ==
    {i \in 1..n : sql[i] \notin Blank \/ (i > 1 /\ sql[i - 1] \notin Blank)}

\* The loop of normalise writes the characters of Written.
LEMMA LoopWrites ==
    ASSUME NEW sql \in Seq(STRING), \A i \in DOMAIN sql : sql[i] \notin OtherSpace,
           NEW f, LoopOn(sql, f, Len(sql)), NEW n \in 0..Len(sql)
    PROVE  /\ f[n].out = Squeeze(sql, Written(sql, n))
           /\ f[n].space <=> n = 0 \/ sql[n] \in Blank
<1> DEFINE Good(k) == /\ f[k].out = Squeeze(sql, Written(sql, k))
                      /\ f[k].space <=> k = 0 \/ sql[k] \in Blank
                      /\ f[k] = [out |-> f[k].out, space |-> f[k].space]
           T == {k \in 0..Len(sql) : ~Good(k)}
<1>0. Len(sql) \in Nat /\ DOMAIN sql = 1..Len(sql)
  OBVIOUS
<1>1. SUFFICES ASSUME T # {} PROVE FALSE
  OBVIOUS
<1>2. PICK k \in T : \A m \in T : k <= m
  <2>1. T \in SUBSET Nat
    BY <1>0
  <2> HIDE DEF T
  <2> QED  BY <1>1, <2>1, LeastNatural
<1>3. Good(0)
  <2>1. f[0] = [out |-> <<>>, space |-> TRUE]
    BY <1>0 DEF LoopOn
  <2>2. Written(sql, 0) = {}
    BY DEF Written
  <2>3. f[0].out = Squeeze(sql, Written(sql, 0))
    <3>1. f[0].out = <<>>
      BY <2>1
    <3>2. Squeeze(sql, Written(sql, 0)) = <<>>
      BY <2>2, SqueezeNone
    <3> QED  BY <3>1, <3>2
  <2>4. f[0].space /\ f[0] = [out |-> f[0].out, space |-> f[0].space]
    BY <2>1
  <2> QED  BY <2>3, <2>4
<1>4. k # 0 /\ k \in 0..Len(sql) /\ k - 1 \in 0..Len(sql) /\ k - 1 \in Nat
  BY <1>0, <1>2, <1>3
<1>5. Good(k - 1)
  BY <1>2, <1>4
<1>6. f[k] = WriteByte(f[k - 1], sql[k])
  BY <1>0, <1>4 DEF LoopOn
<1> DEFINE W == Written(sql, k - 1)
<1>7. W \in SUBSET (1..(k - 1)) /\ k > k - 1 /\ k \in Nat /\ sql[k] \notin OtherSpace
  BY <1>0, <1>4 DEF Written
<1>8. Written(sql, k) = IF sql[k] \notin Blank \/ (k > 1 /\ sql[k - 1] \notin Blank)
                        THEN W \cup {k} ELSE W
  BY <1>0, <1>4 DEF Written
<1>9. Squeeze(sql, W \cup {k})
        = Append(Squeeze(sql, W), IF sql[k] \in Blank THEN " " ELSE sql[k])
  <2> HIDE DEF W
  <2> QED  BY <1>4, <1>7, SqueezeMore
<1>9a. f[k - 1].out = Squeeze(sql, W)
  BY <1>5
<1> HIDE DEF W
<1>10. CASE sql[k] \notin Blank
  <2>1. f[k] = [out |-> Append(f[k - 1].out, sql[k]), space |-> FALSE]
    BY <1>6, <1>10 DEF WriteByte
  <2>2. f[k].out = Squeeze(sql, W \cup {k}) /\ f[k].space = FALSE
    <3> HIDE DEF T, Good
    <3>1. f[k].out = Append(f[k - 1].out, sql[k]) /\ f[k].space = FALSE
      BY <2>1
    <3>2. Squeeze(sql, W \cup {k}) = Append(Squeeze(sql, W), sql[k])
      BY <1>9, <1>10
    <3> QED  BY <3>1, <3>2, <1>9a, Zenon
  <2> QED  BY <1>2, <1>4, <1>8, <1>10, <2>1, <2>2
<1>11. CASE sql[k] \in Blank /\ f[k - 1].space
  <2>1. f[k] = f[k - 1]
    BY <1>6, <1>11 DEF WriteByte
  <2>2. ~(k > 1 /\ sql[k - 1] \notin Blank)
    BY <1>4, <1>5, <1>11
  <2>3. Written(sql, k) = W
    BY <1>8, <1>11, <2>2
  <2> QED  BY <1>2, <1>4, <1>5, <1>11, <2>1, <2>3 DEF W
<1>12. CASE sql[k] \in Blank /\ ~f[k - 1].space
  <2>1. f[k] = [out |-> Append(f[k - 1].out, " "), space |-> TRUE]
    BY <1>6, <1>12 DEF WriteByte
  <2>2. k > 1 /\ sql[k - 1] \notin Blank
    BY <1>4, <1>5, <1>12
  <2>3. f[k].out = Squeeze(sql, W \cup {k}) /\ f[k].space
    <3> HIDE DEF T, Good
    <3>1. f[k].out = Append(f[k - 1].out, " ") /\ f[k].space
      <4> DEFINE more == Append(f[k - 1].out, " ")
      <4>1. f[k] = [out |-> more, space |-> TRUE]
        BY <2>1
      <4> HIDE DEF more
      <4>2. f[k].out = more /\ f[k].space
        BY <4>1
      <4> QED  BY <4>2 DEF more
    <3>2. Squeeze(sql, W \cup {k}) = Append(Squeeze(sql, W), " ")
      BY <1>9, <1>12
    <3> QED  BY <3>1, <3>2, <1>9a, Zenon
  <2> QED  BY <1>2, <1>4, <1>8, <1>12, <2>1, <2>2, <2>3
<1> QED  BY <1>10, <1>11, <1>12

\* Trimming takes away a space at the end of a sequence and nothing else.
LEMMA Trims ==
    ASSUME NEW A, NEW b \in Seq(A), NEW c \in A
    PROVE  trimTrailingSpace(Append(b, c)) = IF c = " " THEN b ELSE Append(b, c)
<1> DEFINE d == Append(b, c)
<1>1. /\ d \in Seq(A) /\ Len(d) = Len(b) + 1 /\ d[Len(b) + 1] = c /\ Len(b) \in Nat
      /\ \A i \in 1..Len(b) : d[i] = b[i]
  OBVIOUS
<1>2. d # <<>> /\ Last(d) = c
  BY <1>1 DEF Last
<1>3. Front(d) = b
  <2>1. Front(d) = [i \in 1..Len(b) |-> d[i]]
    BY <1>1 DEF Front
  <2>2. b = [i \in 1..Len(b) |-> b[i]]
    OBVIOUS
  <2> QED  BY <1>1, <2>1, <2>2
<1> HIDE DEF d
<1> QED  BY <1>2, <1>3 DEF trimTrailingSpace, d

\* logging.normalise, its copy in tracing and metrics.normaliseSQL give every text the same form
\* (tracing/pgx.go:147), but for the spaces that only strings.Fields knows.
THEOREM NormalisersAgree ==
    ASSUME NEW sql \in Seq(STRING), \A i \in DOMAIN sql : sql[i] \notin OtherSpace
    PROVE  normalise(sql) = normaliseSQL(sql)
<1> DEFINE N == Len(sql)
           Word(i) == sql[i] \notin Blank
           Kept == {i \in 1..N : Word(i) \/ (i > 1 /\ Word(i - 1) /\ \E j \in i..N : Word(j))}
           W == Written(sql, N)
<1>1. N \in Nat /\ DOMAIN sql = 1..N
  OBVIOUS
<1>2. normaliseSQL(sql) = Squeeze(sql, Kept)
  <2> DEFINE Word2(i) == sql[i] \notin Blank \cup OtherSpace
             Kept2 == {i \in 1..N : Word2(i) \/ (i > 1 /\ Word2(i - 1) /\ \E j \in i..N : Word2(j))}
  <2>1. \A i \in 1..N : Word2(i) <=> Word(i)
    BY <1>1
  <2>2. Kept2 = Kept
    <3> HIDE DEF Word, Word2
    <3>1. \A i \in 1..N : (i > 1 => i - 1 \in 1..N) /\ i..N \subseteq 1..N
      BY <1>1
    <3>2. \A i \in 1..N : (\E j \in i..N : Word2(j)) <=> (\E j \in i..N : Word(j))
      BY <2>1, <3>1
    <3> QED  BY <2>1, <3>1, <3>2
  <2> QED  BY <2>2 DEF normaliseSQL
<1>3. normalise(sql) = trimTrailingSpace(Squeeze(sql, W))
  <2>1. PICK f : LoopOn(sql, f, N) /\ normalise(sql) = trimTrailingSpace(f[N].out)
    BY NormaliseLoop
  <2> QED  BY <1>1, <2>1, LoopWrites
<1>4. W = {i \in 1..N : Word(i) \/ (i > 1 /\ Word(i - 1))}
  BY DEF Written
<1> HIDE DEF W
<1>5. CASE \A i \in 1..N : ~Word(i)
  <2>1. W = {} /\ Kept = {}
    BY <1>1, <1>4, <1>5
  <2>2. Squeeze(sql, {}) = <<>>
    BY SqueezeNone
  <2> QED  BY <1>2, <1>3, <2>1, <2>2 DEF trimTrailingSpace
<1>6. CASE \E i \in 1..N : Word(i)
  <2>1. PICK m \in 1..N : Word(m) /\ \A i \in 1..N : Word(i) => i <= m
    <3> DEFINE T == {N - i : i \in {j \in 1..N : Word(j)}}
    <3>1. T \in SUBSET Nat /\ T # {}
      BY <1>1, <1>6
    <3> HIDE DEF T
    <3>2. PICK t \in T : \A u \in T : t <= u
      BY <3>1, LeastNatural
    <3>3. PICK m \in 1..N : Word(m) /\ t = N - m
      BY <3>2 DEF T
    <3>4. ASSUME NEW i \in 1..N, Word(i) PROVE i <= m
      <4>1. N - i \in T
        BY <3>4 DEF T
      <4>2. t <= N - i
        BY <4>1, <3>2
      <4> QED  BY <1>1, <3>3, <4>2
    <3> QED  BY <3>3, <3>4
  <2> HIDE DEF Word
  <2>2. Kept = {i \in 1..m : Word(i) \/ (i > 1 /\ Word(i - 1))}
    <3>1. \A i \in 1..N : (\E j \in i..N : Word(j)) <=> i <= m
      BY <1>1, <2>1
    <3> QED  BY <1>1, <2>1, <3>1
  <2>3. CASE m = N
    <3> DEFINE K == Kept \ {N}
    <3>1. W = Kept /\ Kept = K \cup {N} /\ K \in SUBSET (1..(N - 1)) /\ N - 1 \in Nat /\ N > N - 1
      BY <1>1, <1>4, <2>1, <2>2, <2>3
    <3> HIDE DEF K, Kept
    <3>2. sql[N] \notin Blank /\ sql[N] \notin OtherSpace
      BY <1>1, <2>1, <2>3 DEF Word
    <3>3. /\ \E A : Squeeze(sql, K) \in Seq(A) /\ sql[N] \in A
          /\ Squeeze(sql, Kept) = Append(Squeeze(sql, K), sql[N])
      BY <1>1, <3>1, <3>2, SqueezeMore
    <3>4. sql[N] # " "
      BY <3>2 DEF Blank
    <3> QED  BY <1>2, <1>3, <3>1, <3>3, <3>4, Trims
  <2>4. CASE m < N
    <3>1. W = Kept \cup {m + 1} /\ Kept \in SUBSET (1..m) /\ m \in Nat /\ m + 1 \in Nat /\ m + 1 > m
      BY <1>1, <1>4, <2>1, <2>2, <2>4
    <3> HIDE DEF Kept
    <3>2. m + 1 \in 1..N /\ sql[m + 1] \in Blank
      BY <1>1, <2>1, <2>4 DEF Word
    <3>3. /\ \E A : Squeeze(sql, Kept) \in Seq(A) /\ " " \in A
          /\ Squeeze(sql, W) = Append(Squeeze(sql, Kept), " ")
      BY <3>1, <3>2, SqueezeMore
    <3> QED  BY <1>2, <1>3, <3>3, Trims
  <2>5. m = N \/ m < N
    <3> HIDE DEF N
    <3> QED  BY <1>1
  <2> QED  BY <2>3, <2>4, <2>5
<1> QED  BY <1>5, <1>6

-----------------------------------------------------------------------------
(* Names *)

\* metrics.DB, QueryLogger and QueryTracer call a statement the same, by the name QueryNames gives
\* it or by "other", and a series of that name exists from the start.
LEMMA Names ==
    ASSUME NEW s \in Statements
    PROVE  /\ logName[s] = queryName[s] /\ spanName[s] = queryName[s]
           /\ s.sql \in DOMAIN QueryNames => queryName[s] = QueryNames[s.sql]
           /\ queryName[s] \in {QueryNames[q] : q \in DOMAIN QueryNames} \cup {"other"}
<1>1. normalise(s.sql) = normaliseSQL(s.sql)
  BY TextsAssumption, NormalisersAgree
<1>2. logNames = dbNames
  <2>1. \A q \in DOMAIN QueryNames : normalise(q) = normaliseSQL(q)
    BY TextsAssumption, NormalisersAgree
  <2> QED  BY <2>1 DEF logNames, dbNames
<1>3. /\ queryName[s] = Lookup(dbNames, normaliseSQL(s.sql))
      /\ logName[s] = Lookup(logNames, normalise(s.sql))
      /\ spanName[s] = Lookup(spanNames, normalise(s.sql))
  BY DEF queryName, logName, spanName
<1>4. logName[s] = queryName[s] /\ spanName[s] = queryName[s]
  BY <1>1, <1>2, <1>3 DEF spanNames
<1>5. CASE queryName[s] = "other" /\ \A n \in dbNames : n.sql # normaliseSQL(s.sql)
  <2>1. s.sql \notin DOMAIN QueryNames
    <3> SUFFICES ASSUME s.sql \in DOMAIN QueryNames PROVE FALSE
      OBVIOUS
    <3>1. [sql |-> normaliseSQL(s.sql), name |-> QueryNames[s.sql]] \in dbNames
      BY DEF dbNames
    <3> QED  BY <1>5, <3>1
  <2> QED  BY <1>4, <1>5, <2>1
<1>6. CASE \E n \in dbNames : n.sql = normaliseSQL(s.sql) /\ queryName[s] = n.name
  <2>1. PICK q \in DOMAIN QueryNames :
          normaliseSQL(q) = normaliseSQL(s.sql) /\ queryName[s] = QueryNames[q]
    BY <1>6 DEF dbNames
  <2>2. s.sql \in DOMAIN QueryNames => QueryNames[s.sql] = QueryNames[q]
    BY <2>1, TextsAssumption
  <2> QED  BY <1>4, <2>1, <2>2
<1> QED  BY <1>3, <1>5, <1>6, LookupNames

\* Every query leaves one sample, one line and one span that agree on its name, on whether it
\* failed and was slow; every failure is counted once, where it happened.
THEOREM QueryPillarsAlwaysAgree == Spec => []QueryPillarsAgree
<1>1. IInv => QueryPillarsAgree
  <2> SUFFICES ASSUME IInv, NEW c \in Calls
               PROVE  LET p == seen[c] IN
                      /\ Traced(c) =>
                           /\ Len(p.samples) = 1 /\ Len(p.lines) = 1 /\ Len(p.spans) = 2
                           /\ LET s == p.samples[1]  l == p.lines[1]  q == p.spans[2]
                                  failed == s.status = "error"
                              IN  /\ s.name = l.name /\ s.name = q.span.name
                                  /\ stmt[c].sql \in DOMAIN QueryNames => s.name = QueryNames[stmt[c].sql]
                                  /\ <<s.name, s.status>> \in preInit
                                  /\ failed <=> l.level = "ERROR"
                                  /\ failed <=> q.code = "Error"
                                  /\ l.level = "WARN" <=> ~failed /\ s.secs >= SlowThreshold
                                  /\ p.queryErrors = IF ~failed THEN <<>>
                                                     ELSE <<[name |-> s.name, kind |-> err[c]]>>
                           /\ err[c] = ended[c] => p.samples[1].status = "error"
                           /\ p.acquireErrors = 0
                      /\ Failed(c) => p.acquireErrors = 1 /\ p.samples = <<>> /\ p.queryErrors = <<>>
    BY DEF QueryPillarsAgree
  <2>1. CallInv(c) /\ Typed
    BY DEF IInv
  <2>2. Failed(c) => /\ ~Traced(c) /\ seen[c].acquireErrors = 1
                     /\ seen[c].samples = <<>> /\ seen[c].queryErrors = <<>>
    <3> SUFFICES ASSUME Failed(c) PROVE /\ ~Traced(c) /\ seen[c].acquireErrors = 1
                                        /\ seen[c].samples = <<>> /\ seen[c].queryErrors = <<>>
      OBVIOUS
    <3>1. seen[c] = AfterAcquire(at[c].asked, at[c].got, 1, "Error") /\ ~Traced(c)
      BY <2>1 DEF CallInv, Failed, Traced
    <3> QED  BY <3>1, PillarFields DEF AfterAcquire
  <2>3. CASE Traced(c)
    <3> DEFINE e      == err[c]
               secs   == at[c].done - at[c].got
               name   == queryName[stmt[c]]
               first  == [span |-> AcquireSpan(at[c].asked), end |-> at[c].got, code |-> "Unset"]
               second == [span |-> QuerySpan(stmt[c], at[c].got), end |-> at[c].done,
                          code |-> IF e \in {"nil", "ErrNoRows"} THEN "Unset" ELSE "Error"]
               status == IF isRealError(e) THEN "error" ELSE "ok"
               sample == [name |-> name, status |-> status, secs |-> secs]
               line   == [name |-> logName[stmt[c]], level |-> Level(e, secs)]
               faults == IF isRealError(e) THEN <<[name |-> name, kind |-> errorKind(e)]>> ELSE <<>>
    <3>1. seen[c] = AfterQuery(stmt[c], e, at[c].asked, at[c].got, at[c].done)
      BY <2>1, <2>3 DEF CallInv, Traced, Ping, Done
    <3>2. /\ seen[c].samples = <<sample>> /\ seen[c].lines = <<line>> /\ seen[c].spans = <<first, second>>
          /\ seen[c].queryErrors = faults /\ seen[c].acquireErrors = 0
      BY <3>1, PillarFields DEF AfterQuery
    <3>3. stmt[c] \in Statements /\ e \in {"nil", "ErrNoRows", "canceled", "timeout", "sqlstate", "other"}
          /\ ended[c] \in {"no", "canceled", "timeout"}
      BY <2>1 DEF Typed
    <3>4. sample.name = name /\ sample.status = status /\ sample.secs = secs
      OBVIOUS
    <3>5. line.name = name /\ line.level = Level(e, secs)
      BY <3>3, Names
    <3>6. second.span.name = name /\ (second.code = "Error" <=> isRealError(e))
      BY <3>3, Names DEF QuerySpan, isRealError
    <3>7. isRealError(e) => errorKind(e) = e
      BY <3>3 DEF isRealError, errorKind
    <3>8. /\ (Level(e, secs) = "ERROR" <=> isRealError(e))
          /\ (Level(e, secs) = "WARN" <=> ~isRealError(e) /\ secs >= SlowThreshold)
      BY Levels
    <3>9. (status = "error" <=> isRealError(e)) /\ status \in {"ok", "error"}
      OBVIOUS
    <3>10. <<name, status>> \in preInit
      BY <3>3, <3>9, Names DEF preInit
    <3>11. stmt[c].sql \in DOMAIN QueryNames => name = QueryNames[stmt[c].sql]
      BY <3>3, Names
    <3>12. e = ended[c] => isRealError(e)
      BY <3>3 DEF isRealError
    <3>13. faults = IF status # "error" THEN <<>> ELSE <<[name |-> name, kind |-> e]>>
      BY <3>7, <3>9
    <3> HIDE DEF first, second, status, sample, line, faults, name, secs
    <3>14. /\ Len(seen[c].samples) = 1 /\ Len(seen[c].lines) = 1 /\ Len(seen[c].spans) = 2
           /\ seen[c].samples[1] = sample /\ seen[c].lines[1] = line /\ seen[c].spans[2] = second
      BY <3>2, Lists
    <3>15. ~Failed(c)
      BY <2>3 DEF Failed, Traced
    <3> QED  BY <3>2, <3>4, <3>5, <3>6, <3>8, <3>9, <3>10, <3>11, <3>12, <3>13, <3>14, <3>15
  <2> QED  BY <2>2, <2>3
<1> QED  BY <1>1, Invariance, PTL
=============================================================================
