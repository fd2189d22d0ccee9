-------------------------- MODULE LogPipelineProofs -------------------------
(***************************************************************************)
(* The sampler keeps its budget and its map bounded for any number of      *)
(* goroutines, messages, records and ticks.                                *)
(***************************************************************************)
EXTENDS LogPipeline, FiniteSetTheorems, TLAPS

\* A bucket counts what its current window let through; each window before it
\* took at least Interval ticks and let through at most PerInterval records.
Within(m) ==
    IF m \in DOMAIN buckets
    THEN /\ buckets[m].seen <= PerInterval
         /\ buckets[m].windowStart <= now
         /\ passed[m] <= buckets[m].seen
                            + PerInterval * (buckets[m].windowStart \div Interval)
    ELSE passed[m] = 0

TimeInv == \A p \in Procs : record[p].time <= now

\* Only messages of Msgs are ever sampled.
SampledInv ==
    /\ \A p \in Procs : record[p].msg \in Msgs \/ record[p].level = "WARN"
    /\ DOMAIN buckets \subseteq Msgs

WindowInv == \A m \in Msgs \ forgotten : Within(m)

IInv == TypeOK /\ TimeInv /\ SampledInv /\ MapBounded /\ WindowInv

-----------------------------------------------------------------------------
(* Arithmetic *)

\* Multiplication by the budget is monotone.
LEMMA TimesMonotone ==
    ASSUME NEW n \in Nat, NEW a \in Nat, NEW b \in Nat, a <= b
    PROVE  n * a <= n * b
  BY Z3

\* A window that starts an interval later lies in a later period.
LEMMA NextPeriod ==
    ASSUME NEW a \in Nat, NEW b \in Nat, a + Interval <= b
    PROVE  /\ a \div Interval \in Nat /\ b \div Interval \in Nat
           /\ (a \div Interval) + 1 <= b \div Interval
  BY SamplerAssumption, Z3

\* Periods are counted upwards.
LEMMA PeriodMonotone ==
    ASSUME NEW a \in Nat, NEW b \in Nat, a <= b
    PROVE  /\ a \div Interval \in Nat /\ b \div Interval \in Nat
           /\ a \div Interval <= b \div Interval
  BY SamplerAssumption, Z3

-----------------------------------------------------------------------------
(* The sampler's map *)

\* Emptying the map leaves a map, within its bound and about the same messages.
LEMMA BoundFacts ==
    ASSUME TypeOK, SampledInv
    PROVE  /\ DOMAIN Bound(buckets) \subseteq Msgs
           /\ Bound(buckets) \in [DOMAIN Bound(buckets) -> Buckets]
           /\ IsFiniteSet(DOMAIN Bound(buckets))
           /\ Cardinality(DOMAIN Bound(buckets)) <= MaxKeys
           /\ \A m \in Msgs \ Forgets(buckets) :
                 /\ m \in DOMAIN Bound(buckets) <=> m \in DOMAIN buckets
                 /\ m \in DOMAIN buckets => Bound(buckets)[m] = buckets[m]
           /\ Forgets(buckets) \subseteq Msgs
<1>1. IsFiniteSet(DOMAIN buckets)
  BY SetsAssumption, FS_Subset DEF SampledInv
<1>2. Cardinality(DOMAIN buckets) \in Nat
  BY <1>1, FS_CardinalityType
<1>3. IsFiniteSet({}) /\ Cardinality({}) = 0
  BY FS_EmptySet
<1>4. CASE Cardinality(DOMAIN buckets) > MaxKeys
  <2>1. Bound(buckets) = [m \in {} |-> 0]
    BY <1>4 DEF Bound
  <2>2. DOMAIN Bound(buckets) = {}
    BY <2>1
  <2>3. Forgets(buckets) = DOMAIN buckets /\ DOMAIN buckets \subseteq Msgs
    BY <1>4 DEF Forgets, SampledInv
  <2>. QED
    BY <1>3, <2>1, <2>2, <2>3, SamplerAssumption
<1>5. CASE ~(Cardinality(DOMAIN buckets) > MaxKeys)
  <2>1. Bound(buckets) = buckets
    BY <1>5 DEF Bound
  <2>. QED
    <3>1. buckets \in [DOMAIN buckets -> Buckets] /\ DOMAIN buckets \subseteq Msgs
      BY DEF TypeOK, SampledInv
    <3>2. Cardinality(DOMAIN buckets) <= MaxKeys
      BY <1>2, <1>5, SamplerAssumption
    <3>3. Forgets(buckets) = {}
      BY <1>5 DEF Forgets
    <3>. QED
      BY <1>1, <2>1, <3>1, <3>2, <3>3
<1>. QED
  BY <1>4, <1>5

\* Writing one bucket back adds at most one message.
LEMMA StoreFacts ==
    ASSUME NEW bs, NEW msg \in Msgs, NEW b \in Buckets,
           DOMAIN bs \subseteq Msgs, bs \in [DOMAIN bs -> Buckets],
           IsFiniteSet(DOMAIN bs), Cardinality(DOMAIN bs) <= MaxKeys
    PROVE  /\ DOMAIN Store(bs, msg, b) \subseteq Msgs
           /\ Store(bs, msg, b) \in [DOMAIN Store(bs, msg, b) -> Buckets]
           /\ Cardinality(DOMAIN Store(bs, msg, b)) <= MaxKeys + 1
<1>1. DOMAIN Store(bs, msg, b) = DOMAIN bs \cup {msg}
  BY DEF Store
<1>2. Cardinality(DOMAIN bs) \in Nat
  BY FS_CardinalityType
<1>3. Cardinality(DOMAIN bs \cup {msg}) <= MaxKeys + 1
  <2>1. CASE msg \in DOMAIN bs
    <3>1. DOMAIN bs \cup {msg} = DOMAIN bs
      BY <2>1
    <3>. QED
      BY <3>1, <1>2, SamplerAssumption
  <2>2. CASE msg \notin DOMAIN bs
    <3>1. Cardinality(DOMAIN bs \cup {msg}) = Cardinality(DOMAIN bs) + 1
      BY <2>2, FS_AddElement
    <3>. QED
      BY <3>1, <1>2, SamplerAssumption
  <2>. QED
    BY <2>1, <2>2
<1>4. Store(bs, msg, b) \in [DOMAIN bs \cup {msg} -> Buckets]
  BY DEF Store
<1>. QED
  BY <1>1, <1>3, <1>4

\* The bucket that the sampler works on.
LEMMA LookupFacts ==
    ASSUME TypeOK, NEW bs, NEW p \in Procs, bs \in [DOMAIN bs -> Buckets]
    PROVE  Lookup(bs, record[p]) \in Buckets
<1>1. record[p].msg \in Messages /\ record[p].time \in Nat
  BY DEF TypeOK, Records
<1>2. CASE record[p].msg \in DOMAIN bs
  BY <1>2 DEF Lookup
<1>3. CASE record[p].msg \notin DOMAIN bs
  BY <1>1, <1>3 DEF Lookup, Buckets
<1>. QED
  BY <1>2, <1>3

-----------------------------------------------------------------------------
(* The invariant *)

\* The sampler starts with empty windows.
LEMMA InitInv == Init => IInv
<1> SUFFICES ASSUME Init PROVE IInv
  OBVIOUS
<1>1. TypeOK
  <2>1. level \in AllLevels
    BY SetsAssumption DEF Init, AllLevels, Severity
  <2>2. record \in [Procs -> Records]
    BY DEF Init, Records, Messages, AllLevels, Severity
  <2>3. DOMAIN buckets = {} /\ buckets \in [DOMAIN buckets -> Buckets]
    BY DEF Init
  <2>. QED
    <3>1. now \in 0..MaxTime /\ calls \in 0..MaxRecords
      <4>1. now = 0 /\ calls = 0
        BY DEF Init
      <4>. QED
        BY <4>1, SamplerAssumption
    <3>2. pc \in [Procs -> Locations]
      BY DEF Init, Locations
    <3>3. /\ records \in [AllLevels -> Nat]
          /\ dropped \in [AllLevels -> Nat]
          /\ emitted \in [AllLevels -> Nat]
      BY DEF Init
    <3>4. /\ reported \in [Messages -> Nat]
          /\ passed \in [Messages -> Nat]
          /\ discarded \in [Messages -> Nat]
          /\ forgotten \subseteq Messages
          /\ target \in [Admins -> AllLevels]
          /\ changes \in Nat
          /\ trail \subseteq AllLevels
      BY DEF Init, AllLevels, Severity
    <3>. QED
      BY <2>1, <2>2, <2>3, <3>1, <3>2, <3>3, <3>4 DEF TypeOK
<1>2. TimeInv /\ SampledInv
  <2>1. \A p \in Procs : record[p].time = 0 /\ record[p].level = "WARN"
    BY DEF Init
  <2>2. now = 0 /\ DOMAIN buckets = {}
    BY DEF Init
  <2>. QED
    BY <2>1, <2>2 DEF TimeInv, SampledInv
<1>3. MapBounded
  <2>1. DOMAIN buckets = {}
    BY DEF Init
  <2>2. Cardinality({}) = 0
    BY FS_EmptySet
  <2>. QED
    BY <2>1, <2>2, SamplerAssumption DEF MapBounded
<1>4. WindowInv
  BY DEF Init, WindowInv, Within, Messages
<1>. QED
  BY <1>1, <1>2, <1>3, <1>4 DEF IInv

\* A step that leaves the sampler's state alone and keeps records within time
\* keeps the invariant once it keeps the types.
LEMMA Untouched ==
    ASSUME IInv, TypeOK', UNCHANGED <<buckets, passed, forgotten>>, now <= now',
           \A p \in Procs : \/ record'[p] = record[p]
                            \/ /\ record'[p].time <= now'
                               /\ record'[p].msg \in Msgs \/ record'[p].level = "WARN"
    PROVE  IInv'
<1>1. now \in Nat /\ now' \in Nat
  <2>1. now \in 0..MaxTime /\ now' \in 0..MaxTime
    BY DEF IInv, TypeOK
  <2>. QED
    BY <2>1, SamplerAssumption
<1>2. TimeInv'
  <2> SUFFICES ASSUME NEW p \in Procs PROVE record'[p].time <= now'
    BY DEF TimeInv
  <2>1. record[p].time \in Nat /\ record[p].time <= now
    BY DEF IInv, TypeOK, Records, TimeInv
  <2>. QED
    BY <1>1, <2>1
<1>3. SampledInv'
  BY DEF IInv, SampledInv
<1>4. MapBounded'
  BY DEF IInv, MapBounded
<1>5. WindowInv'
  <2> SUFFICES ASSUME NEW m \in Msgs \ forgotten PROVE Within(m)'
    BY DEF WindowInv
  <2>1. Within(m)
    BY DEF IInv, WindowInv
  <2>2. CASE m \in DOMAIN buckets
    <3>1. buckets[m].windowStart \in Nat
      BY <2>2 DEF IInv, TypeOK, Buckets
    <3>. QED
      BY <1>1, <2>1, <2>2, <3>1 DEF Within
  <2>3. CASE m \notin DOMAIN buckets
    BY <2>1, <2>3 DEF Within
  <2>. QED
    BY <2>2, <2>3
<1>. QED
  BY <1>2, <1>3, <1>4, <1>5 DEF IInv

\* Moving on keeps the type of pc.
LEMMA GoType ==
    ASSUME TypeOK, NEW p \in Procs, NEW loc \in Locations, Go(p, loc)
    PROVE  pc' \in [Procs -> Locations]
  BY DEF TypeOK, Go

\* A log call writes a well-formed record with the current time.
LEMMA LogFacts ==
    ASSUME TypeOK, NEW p \in Procs, NEW msg \in Messages, NEW lvl \in AllLevels,
           Log(p, msg, lvl)
    PROVE  /\ record' \in [Procs -> Records]
           /\ pc' \in [Procs -> Locations]
           /\ \A q \in Procs : \/ record'[q] = record[q]
                               \/ /\ record'[q].time = now
                                  /\ record'[q].msg = msg /\ record'[q].level = lvl
<1>1. now \in Nat
  <2>1. now \in 0..MaxTime
    BY DEF TypeOK
  <2>. QED
    BY <2>1, SamplerAssumption
<1>2. CASE Severity[lvl] >= Severity[level]
  <2>1. record' = [record EXCEPT ![p] = [msg |-> msg, level |-> lvl,
                                         time |-> now, carried |-> 0]]
    BY <1>2 DEF Log
  <2>2. [msg |-> msg, level |-> lvl, time |-> now, carried |-> 0] \in Records
    BY <1>1 DEF Records
  <2>. QED
    <3>1. Go(p, "count") /\ "count" \in Locations
      BY <1>2 DEF Log, Locations
    <3>2. pc' \in [Procs -> Locations]
      BY <3>1, GoType
    <3>. QED
      BY <2>1, <2>2, <3>2 DEF TypeOK
<1>3. CASE ~(Severity[lvl] >= Severity[level])
  <2>1. Go(p, "idle") /\ "idle" \in Locations /\ record' = record
    BY <1>3 DEF Log, Locations
  <2>2. pc' \in [Procs -> Locations]
    BY <2>1, GoType
  <2>. QED
    BY <2>1, <2>2 DEF TypeOK
<1>. QED
  BY <1>2, <1>3

\* One pass through the sampler's critical section: the record that gets in, the
\* map it leaves, and the budget.
LEMMA SampleStep ==
    ASSUME IInv, NEW p \in Procs, Sample(p)
    PROVE  IInv'
<1> DEFINE r == record[p]
           bs == Bound(buckets)
           b == Lookup(bs, r)
<1>1. /\ r \in Records /\ r.msg \in Messages /\ r.time \in Nat /\ r.level \in AllLevels
      /\ r.carried \in Nat /\ r.time <= now
  BY DEF IInv, TypeOK, Records, TimeInv
<1>2. now \in Nat
  <2>1. now \in 0..MaxTime
    BY DEF IInv, TypeOK
  <2>. QED
    BY <2>1, SamplerAssumption
<1>3. PerInterval \in Nat /\ PerInterval >= 1 /\ Interval \in Nat /\ Interval >= 1
  BY SamplerAssumption
<1>4. CASE /\ Exempt(r) /\ Go(p, "emit")
           /\ UNCHANGED <<record, buckets, passed, discarded, forgotten>>
  <2>1. TypeOK'
    <3>1. "emit" \in Locations /\ TypeOK
      BY DEF IInv, Locations
    <3>2. pc' \in [Procs -> Locations]
      BY <1>4, <3>1, GoType
    <3>3. UNCHANGED <<now, level, records, dropped, emitted, reported, audit, calls>>
      BY DEF Sample
    <3>. QED
      BY <1>4, <3>1, <3>2, <3>3 DEF TypeOK, audit
  <2>2. now' = now
    BY DEF Sample
  <2>. QED
    BY <1>2, <1>4, <2>1, <2>2, Untouched
<1>5. CASE /\ ~Exempt(r) /\ (Roll(p, bs, b) \/ Discard(p, bs, b) \/ Admit(p, bs, b))
           /\ forgotten' = forgotten \cup Forgets(buckets)
  <2>1. r.msg \in Msgs
    BY <1>5 DEF IInv, SampledInv, Exempt, Severity
  <2>2. /\ DOMAIN bs \subseteq Msgs /\ bs \in [DOMAIN bs -> Buckets]
        /\ IsFiniteSet(DOMAIN bs) /\ Cardinality(DOMAIN bs) <= MaxKeys
        /\ \A m \in Msgs \ Forgets(buckets) :
              /\ m \in DOMAIN bs <=> m \in DOMAIN buckets
              /\ m \in DOMAIN buckets => bs[m] = buckets[m]
        /\ Forgets(buckets) \subseteq Msgs
    BY BoundFacts DEF IInv
  <2>3. b \in Buckets
    BY <2>2, LookupFacts DEF IInv
  <2>4. b.windowStart \in Nat /\ b.seen \in Nat /\ b.dropped \in Nat
    BY <2>3 DEF Buckets
  <2> DEFINE rolled == [windowStart |-> r.time, seen |-> 1, dropped |-> 0]
             lost == [b EXCEPT !.dropped = @ + 1]
             admitted == [b EXCEPT !.seen = @ + 1]
  <2>5. rolled \in Buckets /\ lost \in Buckets /\ admitted \in Buckets
    BY <1>1, <2>3, <2>4 DEF Buckets
  <2>6. PICK c \in Buckets : /\ buckets' = Store(bs, r.msg, c)
                             /\ \/ c = rolled /\ Roll(p, bs, b)
                                \/ c = lost /\ Discard(p, bs, b)
                                \/ c = admitted /\ Admit(p, bs, b)
    BY <1>5, <2>5 DEF Roll, Discard, Admit
  <2>7. /\ DOMAIN buckets' \subseteq Msgs /\ buckets' \in [DOMAIN buckets' -> Buckets]
        /\ Cardinality(DOMAIN buckets') <= MaxKeys + 1
    BY <2>1, <2>2, <2>6, StoreFacts
  <2>8. /\ record' \in [Procs -> Records]
        /\ \A q \in Procs : /\ record'[q].msg = record[q].msg
                            /\ record'[q].level = record[q].level
                            /\ record'[q].time = record[q].time
    <3>1. CASE Roll(p, bs, b)
      <4>1. record' = [record EXCEPT ![p].carried = b.dropped]
        BY <3>1 DEF Roll
      <4>. QED
        BY <2>4, <4>1 DEF IInv, TypeOK, Records
    <3>2. CASE Discard(p, bs, b) \/ Admit(p, bs, b)
      BY <3>2 DEF IInv, TypeOK, Discard, Admit
    <3>. QED
      BY <1>5, <3>1, <3>2
  <2>9. /\ passed' \in [Messages -> Nat] /\ discarded' \in [Messages -> Nat]
        /\ pc' \in [Procs -> Locations]
    <3>0. /\ TypeOK /\ "emit" \in Locations /\ "drop" \in Locations
          /\ passed \in [Messages -> Nat] /\ discarded \in [Messages -> Nat]
      BY DEF IInv, TypeOK, Locations
    <3>1. CASE Roll(p, bs, b)
      <4>1. passed' \in [Messages -> Nat] /\ discarded' \in [Messages -> Nat]
        BY <1>1, <3>0, <3>1 DEF Roll
      <4>2. Go(p, "emit")
        BY <3>1 DEF Roll
      <4>. QED
        BY <3>0, <4>1, <4>2, GoType
    <3>2. CASE Discard(p, bs, b)
      <4>1. passed' \in [Messages -> Nat] /\ discarded' \in [Messages -> Nat]
        BY <1>1, <3>0, <3>2 DEF Discard
      <4>2. Go(p, "drop")
        BY <3>2 DEF Discard
      <4>. QED
        BY <3>0, <4>1, <4>2, GoType
    <3>3. CASE Admit(p, bs, b)
      <4>1. passed' \in [Messages -> Nat] /\ discarded' \in [Messages -> Nat]
        BY <1>1, <3>0, <3>3 DEF Admit
      <4>2. Go(p, "emit")
        BY <3>3 DEF Admit
      <4>. QED
        BY <3>0, <4>1, <4>2, GoType
    <3>. QED
      BY <1>5, <3>1, <3>2, <3>3
  <2>10. UNCHANGED <<now, level, records, dropped, emitted, reported, audit, calls>>
    BY DEF Sample
  <2>11. TypeOK'
    <3>1. DOMAIN buckets' \subseteq Messages /\ forgotten' \subseteq Messages
      BY <1>5, <2>2, <2>7 DEF IInv, TypeOK, Messages
    <3>. QED
      BY <2>7, <2>8, <2>9, <2>10, <3>1 DEF IInv, TypeOK, audit
  <2>12. TimeInv' /\ SampledInv'
    BY <2>7, <2>8, <2>10 DEF IInv, TimeInv, SampledInv
  <2>13. MapBounded'
    BY <2>7 DEF MapBounded
  <2>14. WindowInv'
    <3> SUFFICES ASSUME NEW m \in Msgs \ forgotten' PROVE Within(m)'
      BY DEF WindowInv
    <3>0. m \in Msgs \ forgotten /\ m \in Msgs \ Forgets(buckets)
      BY <1>5
    <3>1. /\ Within(m)
          /\ m \in DOMAIN bs <=> m \in DOMAIN buckets
          /\ m \in DOMAIN buckets => bs[m] = buckets[m]
      BY <2>2, <3>0 DEF IInv, WindowInv
    <3>2. passed[m] \in Nat /\ passed[r.msg] \in Nat
      BY <1>1 DEF IInv, TypeOK, Messages
    <3>3. CASE m # r.msg
      <4>1. passed'[m] = passed[m]
        BY <1>1, <2>6, <3>3 DEF Roll, Discard, Admit, IInv, TypeOK, Messages
      <4>2. /\ m \in DOMAIN buckets' <=> m \in DOMAIN buckets
            /\ m \in DOMAIN buckets => buckets'[m] = buckets[m]
        BY <2>6, <3>1, <3>3 DEF Store
      <4>. QED
        BY <2>10, <3>1, <4>1, <4>2 DEF Within
    <3>4. CASE m = r.msg
      <4>1. m \in DOMAIN buckets' /\ buckets'[m] = c
        BY <2>6, <3>4 DEF Store
      <4> DEFINE w == b.windowStart \div Interval
      <4>2. w \in Nat /\ r.time \div Interval \in Nat
        BY <1>1, <2>4, PeriodMonotone
      <4>3. /\ b.seen <= PerInterval /\ b.windowStart <= now
            /\ passed[m] <= b.seen + PerInterval * w
        <5>1. CASE m \in DOMAIN buckets
          <6>1. b = buckets[m]
            BY <3>1, <3>4, <5>1 DEF Lookup
          <6>. QED
            BY <3>1, <5>1, <6>1 DEF Within
        <5>2. CASE m \notin DOMAIN buckets
          <6>1. b.seen = 0 /\ b.windowStart = r.time /\ passed[m] = 0
            BY <3>1, <3>4, <5>2 DEF Lookup, Within
          <6>2. PerInterval * w \in Nat
            BY <1>3, <4>2
          <6>. QED
            BY <1>1, <1>3, <6>1, <6>2
        <5>. QED
          BY <5>1, <5>2
      <4>4. PerInterval * w \in Nat
        BY <1>3, <4>2
      <4>5. CASE c = rolled /\ Roll(p, bs, b)
        <5>1. passed'[m] = passed[m] + 1
          BY <1>1, <3>4, <4>5 DEF Roll, IInv, TypeOK
        <5>2. b.windowStart + Interval <= r.time
          BY <1>1, <1>3, <2>4, <4>5 DEF Roll, RolledOver
        <5>3. w + 1 <= r.time \div Interval
          BY <1>1, <2>4, <5>2, NextPeriod
        <5>4. PerInterval * (w + 1) <= PerInterval * (r.time \div Interval)
          BY <1>3, <4>2, <5>3, TimesMonotone
        <5>5. PerInterval * (w + 1) = PerInterval * w + PerInterval
          BY <1>3, <4>2
        <5>6. passed[m] <= PerInterval * (r.time \div Interval)
          <6>1. PerInterval * (r.time \div Interval) \in Nat
            BY <1>3, <4>2
          <6>. QED
            BY <1>3, <2>4, <3>2, <4>3, <4>4, <5>4, <5>5, <6>1
        <5>7. c.seen = 1 /\ c.windowStart = r.time
          BY <4>5
        <5>8. passed'[m] <= c.seen + PerInterval * (c.windowStart \div Interval)
          <6>1. PerInterval * (r.time \div Interval) \in Nat
            BY <1>3, <4>2
          <6>. QED
            BY <3>2, <5>1, <5>6, <5>7, <6>1
        <5>. QED
          BY <1>1, <1>3, <2>10, <4>1, <5>7, <5>8 DEF Within
      <4>6. CASE c = lost /\ Discard(p, bs, b)
        <5>1. passed'[m] = passed[m]
          BY <4>6 DEF Discard
        <5>2. c.seen = b.seen /\ c.windowStart = b.windowStart
          BY <2>3, <4>6 DEF Buckets
        <5>. QED
          BY <2>10, <4>1, <4>3, <5>1, <5>2 DEF Within
      <4>7. CASE c = admitted /\ Admit(p, bs, b)
        <5>1. passed'[m] = passed[m] + 1
          BY <1>1, <3>4, <4>7 DEF Admit, IInv, TypeOK
        <5>2. c.seen = b.seen + 1 /\ c.windowStart = b.windowStart
          BY <2>3, <4>7 DEF Buckets
        <5>3. b.seen < PerInterval
          BY <1>3, <2>4, <4>7 DEF Admit, Exhausted
        <5>4. c.seen <= PerInterval /\ passed'[m] <= c.seen + PerInterval * w
          BY <1>3, <2>4, <3>2, <4>3, <4>4, <5>1, <5>2, <5>3
        <5>. QED
          BY <2>10, <4>1, <4>3, <5>2, <5>4 DEF Within
      <4>. QED
        BY <2>6, <4>5, <4>6, <4>7
    <3>. QED
      BY <3>3, <3>4
  <2>. QED
    BY <2>11, <2>12, <2>13, <2>14 DEF IInv
<1>. QED
  BY <1>4, <1>5 DEF Sample

\* Every step keeps the invariant.
LEMMA NextInv ==
    ASSUME IInv, [Next]_vars
    PROVE  IInv'
<1>0. now \in Nat /\ now \in 0..MaxTime /\ TypeOK
  <2>1. now \in 0..MaxTime
    BY DEF IInv, TypeOK
  <2>. QED
    BY <2>1, SamplerAssumption DEF IInv
<1>1. CASE Tick
  <2>1. TypeOK'
    <3>1. now' \in 0..MaxTime
      BY <1>0, <1>1, SamplerAssumption DEF Tick
    <3>. QED
      BY <1>0, <1>1, <3>1 DEF Tick, TypeOK, counters, audit
  <2>. QED
    BY <1>0, <1>1, <2>1, Untouched DEF Tick, counters
<1>2. ASSUME NEW p \in Loggers, Call(p) PROVE IInv'
  <2>1. PICK msg \in Msgs, lvl \in Levels : Log(p, msg, lvl)
    BY <1>2 DEF Call
  <2>2. p \in Procs /\ msg \in Messages /\ lvl \in AllLevels
    BY SetsAssumption DEF Procs, Messages
  <2>3. /\ record' \in [Procs -> Records] /\ pc' \in [Procs -> Locations]
        /\ \A q \in Procs : \/ record'[q] = record[q]
                            \/ /\ record'[q].time = now
                               /\ record'[q].msg = msg /\ record'[q].level = lvl
    BY <1>0, <2>1, <2>2, LogFacts
  <2>4. UNCHANGED <<now, level, buckets, audit, records, dropped, emitted, reported,
                    passed, discarded, forgotten>>
    BY <1>2 DEF Call, counters
  <2>5. calls' \in 0..MaxRecords
    <3>1. calls \in 0..MaxRecords /\ calls < MaxRecords /\ calls' = calls + 1
      BY <1>0, <1>2 DEF Call, TypeOK
    <3>. QED
      BY <3>1, SamplerAssumption
  <2>6. TypeOK'
    BY <1>0, <2>3, <2>4, <2>5 DEF TypeOK, audit
  <2>7. \A q \in Procs : \/ record'[q] = record[q]
                         \/ /\ record'[q].time <= now'
                            /\ record'[q].msg \in Msgs \/ record'[q].level = "WARN"
    BY <1>0, <2>1, <2>3, <2>4
  <2>. QED
    BY <1>0, <2>4, <2>6, <2>7, Untouched
<1>3. ASSUME NEW a \in Admins, ReadOld(a) PROVE IInv'
  <2>1. calls' \in 0..MaxRecords
    <3>1. calls \in 0..MaxRecords /\ calls < MaxRecords /\ calls' = calls + 1
      BY <1>0, <1>3 DEF ReadOld, TypeOK
    <3>. QED
      BY <3>1, SamplerAssumption
  <2>2. UNCHANGED <<now, level, record, buckets, audit, records, dropped, emitted,
                    reported, passed, discarded, forgotten>>
    BY <1>3 DEF ReadOld, counters
  <2>3. pc' \in [Procs -> Locations]
    <3>1. a \in Procs /\ "old read" \in Locations /\ Go(a, "old read")
      BY <1>3 DEF Procs, Locations, ReadOld
    <3>. QED
      BY <1>0, <3>1, GoType
  <2>4. TypeOK'
    BY <1>0, <2>1, <2>2, <2>3 DEF TypeOK, audit
  <2>. QED
    BY <1>0, <2>2, <2>4, Untouched
<1>4. ASSUME NEW a \in Admins, SetLevel(a) PROVE IInv'
  <2>1. UNCHANGED <<now, record, buckets, calls, trail, records, dropped, emitted,
                    reported, passed, discarded, forgotten>>
    BY <1>4 DEF SetLevel, counters
  <2>2. level' \in AllLevels /\ changes' \in Nat /\ target' \in [Admins -> AllLevels]
    <3>1. /\ level' \in SetLevels /\ target' = [target EXCEPT ![a] = level']
          /\ changes' = changes + 1 /\ changes \in Nat /\ target \in [Admins -> AllLevels]
      BY <1>0, <1>4 DEF SetLevel, TypeOK
    <3>2. changes' \in Nat
      BY <3>1
    <3>3. SetLevels \subseteq AllLevels
      BY SetsAssumption
    <3>. QED
      BY <3>1, <3>2, <3>3
  <2>3. pc' \in [Procs -> Locations]
    <3>1. a \in Procs /\ "set" \in Locations /\ Go(a, "set")
      BY <1>4 DEF Procs, Locations, SetLevel
    <3>. QED
      BY <1>0, <3>1, GoType
  <2>4. TypeOK'
    BY <1>0, <2>1, <2>2, <2>3 DEF TypeOK, audit
  <2>. QED
    BY <1>0, <2>1, <2>4, Untouched
<1>5. ASSUME NEW a \in Admins, LogChange(a) PROVE IInv'
  <2>1. /\ a \in Procs /\ "level changed" \in Messages /\ "WARN" \in AllLevels
        /\ Log(a, "level changed", "WARN")
    BY <1>5 DEF Procs, Messages, AllLevels, Severity, LogChange
  <2>2. /\ record' \in [Procs -> Records] /\ pc' \in [Procs -> Locations]
        /\ \A q \in Procs : \/ record'[q] = record[q]
                            \/ /\ record'[q].time = now
                               /\ record'[q].msg = "level changed" /\ record'[q].level = "WARN"
    BY <1>0, <2>1, LogFacts
  <2>3. UNCHANGED <<now, level, buckets, audit, calls, records, dropped, emitted,
                    reported, passed, discarded, forgotten>>
    BY <1>5 DEF LogChange, counters
  <2>4. TypeOK'
    BY <1>0, <2>2, <2>3 DEF TypeOK, audit
  <2>5. \A q \in Procs : \/ record'[q] = record[q]
                         \/ /\ record'[q].time <= now'
                            /\ record'[q].msg \in Msgs \/ record'[q].level = "WARN"
    <3>1. now <= now'
      BY <1>0, <2>3
    <3> SUFFICES ASSUME NEW q \in Procs, record'[q] # record[q]
                 PROVE  record'[q].time <= now' /\ record'[q].level = "WARN"
      OBVIOUS
    <3>2. record'[q].time = now /\ record'[q].level = "WARN"
      BY <2>2
    <3>. QED
      BY <3>1, <3>2
  <2>. QED
    BY <1>0, <2>3, <2>4, <2>5, Untouched
<1>6. ASSUME NEW p \in Procs, Count(p) PROVE IInv'
  <2>1. record[p].level \in AllLevels
    BY <1>0 DEF TypeOK, Records
  <2>2. records' \in [AllLevels -> Nat]
    BY <1>0, <1>6, <2>1 DEF Count, TypeOK, audit
  <2>3. pc' \in [Procs -> Locations]
    <3>1. "sample" \in Locations /\ Go(p, "sample")
      BY <1>6 DEF Locations, Count
    <3>. QED
      BY <1>0, <3>1, GoType
  <2>4. TypeOK'
    BY <1>0, <1>6, <2>2, <2>3 DEF Count, TypeOK, audit
  <2>. QED
    BY <1>0, <1>6, <2>4, Untouched DEF Count
<1>7. ASSUME NEW p \in Procs, Sample(p) PROVE IInv'
  BY <1>7, SampleStep
<1>8. ASSUME NEW p \in Procs, Drop(p) PROVE IInv'
  <2>1. record[p].level \in AllLevels
    BY <1>0 DEF TypeOK, Records
  <2>2. dropped' \in [AllLevels -> Nat]
    BY <1>0, <1>8, <2>1 DEF Drop, TypeOK, audit
  <2>3. pc' \in [Procs -> Locations]
    <3>1. "idle" \in Locations /\ Go(p, "idle")
      BY <1>8 DEF Locations, Drop
    <3>. QED
      BY <1>0, <3>1, GoType
  <2>4. TypeOK'
    BY <1>0, <1>8, <2>2, <2>3 DEF Drop, TypeOK, audit
  <2>. QED
    BY <1>0, <1>8, <2>4, Untouched DEF Drop
<1>9. ASSUME NEW p \in Procs, Emit(p) PROVE IInv'
  <2>1. /\ record[p].level \in AllLevels /\ record[p].msg \in Messages
        /\ record[p].carried \in Nat
    BY <1>0 DEF TypeOK, Records
  <2>2. emitted' \in [AllLevels -> Nat] /\ reported' \in [Messages -> Nat]
    BY <1>0, <1>9, <2>1 DEF Emit, TypeOK
  <2>5. trail' \subseteq AllLevels
    BY <1>0, <1>9 DEF Emit, TypeOK
  <2>3. pc' \in [Procs -> Locations]
    <3>1. "idle" \in Locations /\ Go(p, "idle")
      BY <1>9 DEF Locations, Emit
    <3>. QED
      BY <1>0, <3>1, GoType
  <2>4. TypeOK'
    BY <1>0, <1>9, <2>2, <2>3, <2>5 DEF Emit, TypeOK
  <2>. QED
    BY <1>0, <1>9, <2>4, Untouched DEF Emit
<1>10. CASE UNCHANGED vars
  <2>1. TypeOK'
    BY <1>0, <1>10 DEF TypeOK, vars, audit
  <2>. QED
    BY <1>0, <1>10, <2>1, Untouched DEF vars
<1>. QED
  BY <1>1, <1>2, <1>3, <1>4, <1>5, <1>6, <1>7, <1>8, <1>9, <1>10 DEF Next, Quiet

-----------------------------------------------------------------------------
\* The inductive invariant holds in every reachable state.
THEOREM SamplerInvariance == Spec => []IInv
<1>1. Init => IInv
  BY InitInv
<1>2. IInv /\ [Next]_vars => IInv'
  BY NextInv
<1>. QED
  BY <1>1, <1>2, PTL DEF Spec

\* SamplingHandler.Handle (logging/handler.go:150-203) caps the rate of every
\* message: in t ticks at most PerInterval * (1 + t div Interval) records of it
\* get through, in whatever order goroutines reach the mutex.
THEOREM RateCapped == Spec => []RateIsCapped
<1>1. IInv => RateIsCapped
  <2> SUFFICES ASSUME IInv, NEW m \in Msgs \ forgotten
               PROVE  passed[m] <= PerInterval * (1 + now \div Interval)
    BY DEF RateIsCapped
  <2>1. Within(m)
    BY DEF IInv, WindowInv
  <2>2. passed[m] \in Nat
    BY DEF IInv, TypeOK, Messages
  <2>3. PerInterval \in Nat
    BY SamplerAssumption
  <2>4. now \in Nat
    <3>1. now \in 0..MaxTime
      BY DEF IInv, TypeOK
    <3>. QED
      BY <3>1, SamplerAssumption
  <2>5. now \div Interval \in Nat
    BY <2>4, PeriodMonotone
  <2>6. /\ PerInterval * (1 + now \div Interval)
                = PerInterval + PerInterval * (now \div Interval)
        /\ PerInterval * (now \div Interval) \in Nat
    BY <2>3, <2>5
  <2>7. CASE m \in DOMAIN buckets
    <3>1. buckets[m].windowStart \in Nat /\ buckets[m].seen \in Nat
      BY <2>7 DEF IInv, TypeOK, Buckets
    <3>2. buckets[m].windowStart \div Interval <= now \div Interval
          /\ buckets[m].windowStart \div Interval \in Nat
      BY <2>1, <2>4, <2>7, <3>1, PeriodMonotone DEF Within
    <3>3. PerInterval * (buckets[m].windowStart \div Interval)
              <= PerInterval * (now \div Interval)
      BY <2>3, <2>5, <3>2, TimesMonotone
    <3>4. PerInterval * (buckets[m].windowStart \div Interval) \in Nat
      BY <2>3, <3>2
    <3>5. /\ buckets[m].seen <= PerInterval
          /\ passed[m] <= buckets[m].seen
                + PerInterval * (buckets[m].windowStart \div Interval)
      BY <2>1, <2>7 DEF Within
    <3>. QED
      BY <2>2, <2>3, <2>6, <3>1, <3>3, <3>4, <3>5
  <2>8. CASE m \notin DOMAIN buckets
    <3>1. passed[m] = 0
      BY <2>1, <2>8 DEF Within
    <3>. QED
      BY <2>3, <2>6, <3>1
  <2>. QED
    BY <2>7, <2>8
<1>. QED
  BY <1>1, SamplerInvariance, PTL

\* The map of buckets (logging/handler.go:162-168) never holds more than
\* MaxKeys + 1 messages, whatever callers interpolate into them.
THEOREM SamplerMapBounded == Spec => []MapBounded
<1>1. IInv => MapBounded
  BY DEF IInv
<1>. QED
  BY <1>1, SamplerInvariance, PTL

-----------------------------------------------------------------------------
(* The counters.  A record that was counted and neither written nor dropped is *)
(* in somebody's hands, and so is a change of level that was not yet logged;   *)
(* what a discarded record left in its bucket is, once the window rolls over,  *)
(* owed by the record that carries it.                                         *)

Flight(l) == {p \in Procs : pc[p] \in {"sample", "emit", "drop"} /\ record[p].level = l}

VolumeInv ==
    \A l \in AllLevels :
        /\ IsFiniteSet(Flight(l))
        /\ records[l] = emitted[l] + dropped[l] + Cardinality(Flight(l))

SparedInv ==
    /\ \A p \in Procs : pc[p] = "drop" => ~Exempt(record[p])
    /\ \A l \in {"WARN", "ERROR"} : dropped[l] = 0

\* What administrators log is at WARN, so it is never sampled; and the last one to
\* set the level has written its line or is on the way to it.
TrailInv ==
    /\ \A a \in Admins : record[a].level = "WARN"
    /\ changes > 0 /\ level # "ERROR" =>
          \/ level \in trail
          \/ \E a \in Admins : target[a] = level /\ pc[a] \in {"set", "count", "sample", "emit"}

\* A number for every goroutine, as a set that has their sum as its size.
Units(f) == {t \in Procs \X Nat : t[2] \in 1..f[t[1]]}

Due(p, m) == IF pc[p] = "emit" /\ record[p].msg = m THEN record[p].carried ELSE 0
Owed(m)   == Units([p \in Procs |-> Due(p, m)])

Waits(m) == IF m \in DOMAIN buckets THEN buckets[m].dropped ELSE 0

DropInv ==
    /\ \A p \in Procs : pc[p] \in {"count", "sample"} => record[p].carried = 0
    /\ \A m \in Msgs \ forgotten :
         /\ IsFiniteSet(Owed(m))
         /\ discarded[m] = reported[m] + Waits(m) + Cardinality(Owed(m))

\* One element more, one less, or the same ones.
LEMMA CountOne ==
    ASSUME NEW S, IsFiniteSet(S), NEW T, NEW x, \A y : y # x => (y \in T <=> y \in S)
    PROVE  /\ IsFiniteSet(T) /\ Cardinality(S) \in Nat /\ Cardinality(T) \in Nat
           /\ (x \in T <=> x \in S) => Cardinality(T) = Cardinality(S)
           /\ x \in T /\ x \notin S => Cardinality(T) = Cardinality(S) + 1
           /\ x \notin T /\ x \in S => Cardinality(T) = Cardinality(S) - 1
<1>1. (x \in T <=> x \in S) => T = S
  OBVIOUS
<1>2. x \in T /\ x \notin S => T = S \cup {x}
  OBVIOUS
<1>3. x \notin T /\ x \in S => T = S \ {x}
  OBVIOUS
<1>4. x \notin S => IsFiniteSet(S \cup {x}) /\ Cardinality(S \cup {x}) = Cardinality(S) + 1
  BY FS_AddElement
<1>5. x \in S => IsFiniteSet(S \ {x}) /\ Cardinality(S \ {x}) = Cardinality(S) - 1
  BY FS_RemoveElement
<1>6. IsFiniteSet(T)
  BY <1>1, <1>2, <1>3, <1>4, <1>5
<1>7. Cardinality(S) \in Nat /\ Cardinality(T) \in Nat
  BY <1>6, FS_CardinalityType
<1>. QED
  BY <1>1, <1>2, <1>3, <1>4, <1>5, <1>6, <1>7

\* A block of units: one goroutine's number.
LEMMA Block ==
    ASSUME NEW p, NEW n \in Nat
    PROVE  IsFiniteSet({p} \X (1..n)) /\ Cardinality({p} \X (1..n)) = n
<1>1. IsFiniteSet(1..n) /\ Cardinality(1..n) = n
  <2>1. 1 \in Int /\ n \in Int
    OBVIOUS
  <2>. QED
    BY <2>1, FS_Interval
<1>2. IsFiniteSet({p}) /\ Cardinality({p}) = 1
  BY FS_Singleton
<1>. QED
  BY <1>1, <1>2, FS_Product

\* Where one number changes, the sum changes with it.
LEMMA SumOne ==
    ASSUME NEW f \in [Procs -> Nat], NEW g \in [Procs -> Nat], NEW p \in Procs,
           \A q \in Procs : q # p => g[q] = f[q], IsFiniteSet(Units(f))
    PROVE  /\ IsFiniteSet(Units(g))
           /\ Cardinality(Units(f)) \in Nat /\ Cardinality(Units(g)) \in Nat
           /\ Cardinality(Units(g)) + f[p] = Cardinality(Units(f)) + g[p]
<1> DEFINE rest == {t \in Units(f) : t[1] # p}
           before == {p} \X (1..f[p])
           after  == {p} \X (1..g[p])
<1>1. f[p] \in Nat /\ g[p] \in Nat
  OBVIOUS
<1>2. Units(f) = rest \cup before /\ rest \cap before = {}
  BY <1>1 DEF Units
<1>3. Units(g) = rest \cup after /\ rest \cap after = {}
  BY <1>1 DEF Units
<1>4. IsFiniteSet(rest)
  BY FS_Subset
<1>5. /\ IsFiniteSet(before) /\ Cardinality(before) = f[p]
      /\ IsFiniteSet(after) /\ Cardinality(after) = g[p]
  BY <1>1, Block
<1> HIDE DEF rest, before, after
<1>6. Cardinality({}) = 0
  BY FS_EmptySet
<1>7. Cardinality(rest) \in Nat
  BY <1>4, FS_CardinalityType
<1>8. IsFiniteSet(rest \cup before) /\ Cardinality(rest \cup before) = Cardinality(rest) + f[p]
  <2>1. IsFiniteSet(rest \cup before)
        /\ Cardinality(rest \cup before)
              = Cardinality(rest) + Cardinality(before) - Cardinality(rest \cap before)
    BY <1>4, <1>5, FS_Union
  <2>2. Cardinality(rest \cap before) = 0
    BY <1>2, <1>6
  <2>. QED
    BY <1>1, <1>5, <1>7, <2>1, <2>2
<1>9. IsFiniteSet(rest \cup after) /\ Cardinality(rest \cup after) = Cardinality(rest) + g[p]
  <2>1. IsFiniteSet(rest \cup after)
        /\ Cardinality(rest \cup after)
              = Cardinality(rest) + Cardinality(after) - Cardinality(rest \cap after)
    BY <1>4, <1>5, FS_Union
  <2>2. Cardinality(rest \cap after) = 0
    BY <1>3, <1>6
  <2>. QED
    BY <1>1, <1>5, <1>7, <2>1, <2>2
<1>. QED
  BY <1>1, <1>2, <1>3, <1>7, <1>8, <1>9

\* The sum of nothing.
LEMMA SumNone ==
    ASSUME NEW f, \A p \in Procs : f[p] = 0
    PROVE  IsFiniteSet(Units(f)) /\ Cardinality(Units(f)) = 0
<1>1. Units(f) = {}
  BY DEF Units
<1>. QED
  BY <1>1, FS_EmptySet

\* Everybody else stands where they stood.
Still(p) == \A q \in Procs : q # p => pc'[q] = pc[q] /\ record'[q] = record[q]

\* A step of one goroutine.
StepOf(p) ==
    \/ p \in Loggers /\ Call(p)
    \/ p \in Admins /\ (ReadOld(p) \/ SetLevel(p) \/ LogChange(p))
    \/ Count(p) \/ Sample(p) \/ Drop(p) \/ Emit(p)

\* A step of anybody, or one that touches no goroutine and no counter.
LEMMA Steps ==
    ASSUME [Next]_vars
    PROVE  \/ \E p \in Procs : StepOf(p)
           \/ UNCHANGED <<level, pc, record, buckets, counters, audit>>
  BY DEF Next, StepOf, Procs, Tick, Quiet, vars, counters, audit

\* Where a log call leaves its goroutine.
LEMMA LogEffect ==
    ASSUME TypeOK, NEW p \in Procs, NEW msg, NEW lvl, Log(p, msg, lvl)
    PROVE  /\ Still(p)
           /\ \/ /\ Severity[lvl] >= Severity[level] /\ pc'[p] = "count"
                 /\ record'[p].msg = msg /\ record'[p].level = lvl /\ record'[p].carried = 0
              \/ ~(Severity[lvl] >= Severity[level]) /\ pc'[p] = "idle" /\ record'[p] = record[p]
  BY DEF TypeOK, Log, Go, Still

\* The sampler passes the record on or drops it; of the record only the drop count it takes
\* along changes.
LEMMA SampleEffect ==
    ASSUME TypeOK, NEW p \in Procs, Sample(p)
    PROVE  /\ Still(p) /\ pc[p] = "sample" /\ pc'[p] \in {"emit", "drop"}
           /\ record'[p].level = record[p].level /\ record'[p].msg = record[p].msg
           /\ pc'[p] = "drop" => ~Exempt(record[p]) /\ record'[p] = record[p]
           /\ UNCHANGED <<level, records, dropped, emitted, reported, audit>>
<1> DEFINE bs == Bound(buckets)
           b  == Lookup(bs, record[p])
<1>1. DOMAIN pc = Procs /\ DOMAIN record = Procs /\ record[p] \in Records
  BY DEF TypeOK
<1>2. pc[p] = "sample" /\ UNCHANGED <<level, records, dropped, emitted, reported, audit>>
  BY DEF Sample
<1>3. CASE Exempt(record[p]) /\ Go(p, "emit") /\ UNCHANGED record
  BY <1>1, <1>2, <1>3 DEF Go, Still
<1>4. CASE Roll(p, bs, b)
  <2>1. Go(p, "emit") /\ record' = [record EXCEPT ![p].carried = b.dropped]
    BY <1>4 DEF Roll
  <2>2. record'[p].level = record[p].level /\ record'[p].msg = record[p].msg
    BY <1>1, <2>1 DEF Records
  <2>. QED
    BY <1>1, <1>2, <2>1, <2>2 DEF Go, Still
<1>5. CASE Discard(p, bs, b) /\ ~Exempt(record[p])
  BY <1>1, <1>2, <1>5 DEF Discard, Go, Still
<1>6. CASE Admit(p, bs, b)
  BY <1>1, <1>2, <1>6 DEF Admit, Go, Still
<1>. QED
  BY <1>3, <1>4, <1>5, <1>6 DEF Sample

\* The other steps, by what they leave to their goroutine.
LEMMA MoveEffect ==
    ASSUME TypeOK, NEW p \in Procs
    PROVE  /\ ReadOld(p) => pc[p] = "idle" /\ pc'[p] = "old read"
           /\ SetLevel(p) => pc[p] = "old read" /\ pc'[p] = "set"
           /\ Count(p) => pc[p] = "count" /\ pc'[p] = "sample"
           /\ Drop(p) => pc[p] = "drop" /\ pc'[p] = "idle"
           /\ Emit(p) => pc[p] = "emit" /\ pc'[p] = "idle"
           /\ ReadOld(p) \/ SetLevel(p) \/ Count(p) \/ Drop(p) \/ Emit(p)
                 => Still(p) /\ record' = record
<1>1. ASSUME NEW to, Go(p, to) PROVE pc'[p] = to /\ \A q \in Procs : q # p => pc'[q] = pc[q]
  BY <1>1 DEF TypeOK, Go
<1>. QED
  BY <1>1 DEF ReadOld, SetLevel, Count, Drop, Emit, Idle, Still, counters

-----------------------------------------------------------------------------
(* Every counted record is written or counted as dropped *)

\* Who is in flight changes by the goroutine that moves.
LEMMA FlightMoves ==
    ASSUME NEW p \in Procs, Still(p), NEW l, IsFiniteSet(Flight(l))
    PROVE  /\ IsFiniteSet(Flight(l)')
           /\ Cardinality(Flight(l)) \in Nat /\ Cardinality(Flight(l)') \in Nat
           /\ (p \in Flight(l)' <=> p \in Flight(l))
                 => Cardinality(Flight(l)') = Cardinality(Flight(l))
           /\ p \in Flight(l)' /\ p \notin Flight(l)
                 => Cardinality(Flight(l)') = Cardinality(Flight(l)) + 1
           /\ p \notin Flight(l)' /\ p \in Flight(l)
                 => Cardinality(Flight(l)') = Cardinality(Flight(l)) - 1
<1>1. \A y : y # p => (y \in Flight(l)' <=> y \in Flight(l))
  BY DEF Flight, Still
<1>. QED
  BY <1>1, CountOne

\* One step, one level.
LEMMA VolumeCell ==
    ASSUME TypeOK, VolumeInv, NEW p \in Procs, StepOf(p), NEW l \in AllLevels
    PROVE  /\ IsFiniteSet(Flight(l)')
           /\ records'[l] = emitted'[l] + dropped'[l] + Cardinality(Flight(l)')
<1>1. /\ IsFiniteSet(Flight(l))
      /\ records[l] = emitted[l] + dropped[l] + Cardinality(Flight(l))
  BY DEF VolumeInv
<1>2. /\ records[l] \in Nat /\ emitted[l] \in Nat /\ dropped[l] \in Nat
      /\ DOMAIN records = AllLevels /\ DOMAIN emitted = AllLevels /\ DOMAIN dropped = AllLevels
  BY DEF TypeOK
<1>3. /\ p \in Flight(l) <=> pc[p] \in {"sample", "emit", "drop"} /\ record[p].level = l
      /\ p \in Flight(l)' <=> pc'[p] \in {"sample", "emit", "drop"} /\ record'[p].level = l
  BY DEF Flight
<1>4. CASE \/ Call(p) \/ LogChange(p) \/ ReadOld(p) \/ SetLevel(p)
  <2>1. /\ Still(p) /\ pc[p] \notin {"sample", "emit", "drop"}
        /\ pc'[p] \notin {"sample", "emit", "drop"}
    <3>1. CASE Call(p)
      <4>1. PICK msg \in Msgs, lvl \in Levels : Log(p, msg, lvl)
        BY <3>1 DEF Call
      <4>. QED
        BY <3>1, <4>1, LogEffect DEF Call, Idle
    <3>2. CASE LogChange(p)
      BY <3>2, LogEffect DEF LogChange
    <3>3. CASE ReadOld(p) \/ SetLevel(p)
      BY <3>3, MoveEffect
    <3>. QED
      BY <1>4, <3>1, <3>2, <3>3
  <2>2. UNCHANGED <<records, emitted, dropped>>
    BY <1>4 DEF Call, LogChange, ReadOld, SetLevel, counters
  <2>. QED
    BY <1>1, <1>2, <1>3, <2>1, <2>2, FlightMoves
<1>5. CASE Count(p)
  <2>1. /\ Still(p) /\ record' = record /\ pc[p] = "count" /\ pc'[p] = "sample"
        /\ UNCHANGED <<emitted, dropped>>
        /\ records' = [records EXCEPT ![record[p].level] = @ + 1]
    BY <1>5, MoveEffect DEF Count
  <2>2. records'[l] = IF record[p].level = l THEN records[l] + 1 ELSE records[l]
    BY <1>2, <2>1
  <2>3. p \notin Flight(l) /\ (p \in Flight(l)' <=> record[p].level = l)
    BY <1>3, <2>1
  <2>. QED
    BY <1>1, <1>2, <2>1, <2>2, <2>3, FlightMoves
<1>6. CASE Sample(p)
  <2>1. p \in Flight(l)' <=> p \in Flight(l)
    BY <1>3, <1>6, SampleEffect
  <2>2. Still(p) /\ UNCHANGED <<records, dropped, emitted>>
    BY <1>6, SampleEffect
  <2>. QED
    BY <1>1, <1>2, <2>1, <2>2, FlightMoves
<1>7. CASE Drop(p)
  <2>1. /\ Still(p) /\ record' = record /\ pc[p] = "drop" /\ pc'[p] = "idle"
        /\ UNCHANGED <<emitted, records>>
        /\ dropped' = [dropped EXCEPT ![record[p].level] = @ + 1]
    BY <1>7, MoveEffect DEF Drop
  <2>2. dropped'[l] = IF record[p].level = l THEN dropped[l] + 1 ELSE dropped[l]
    BY <1>2, <2>1
  <2>3. p \notin Flight(l)' /\ (p \in Flight(l) <=> record[p].level = l)
    BY <1>3, <2>1
  <2>. QED
    BY <1>1, <1>2, <2>1, <2>2, <2>3, FlightMoves
<1>8. CASE Emit(p)
  <2>1. /\ Still(p) /\ record' = record /\ pc[p] = "emit" /\ pc'[p] = "idle"
        /\ UNCHANGED <<dropped, records>>
        /\ emitted' = [emitted EXCEPT ![record[p].level] = @ + 1]
    BY <1>8, MoveEffect DEF Emit
  <2>2. emitted'[l] = IF record[p].level = l THEN emitted[l] + 1 ELSE emitted[l]
    BY <1>2, <2>1
  <2>3. p \notin Flight(l)' /\ (p \in Flight(l) <=> record[p].level = l)
    BY <1>3, <2>1
  <2>. QED
    BY <1>1, <1>2, <2>1, <2>2, <2>3, FlightMoves
<1>. QED
  BY <1>4, <1>5, <1>6, <1>7, <1>8 DEF StepOf

\* The count of the records in flight follows every step.
LEMMA VolumeStep == ASSUME TypeOK, VolumeInv, [Next]_vars PROVE VolumeInv'
<1>1. CASE \E p \in Procs : StepOf(p)
  BY <1>1, VolumeCell DEF VolumeInv
<1>2. CASE UNCHANGED <<level, pc, record, buckets, counters, audit>>
  BY <1>2 DEF VolumeInv, Flight, counters
<1>. QED
  BY <1>1, <1>2, Steps

\* Nothing at WARN or above is on its way to be dropped, or was.
LEMMA SparedStep == ASSUME TypeOK, SparedInv, [Next]_vars PROVE SparedInv'
<1>1. CASE UNCHANGED <<level, pc, record, buckets, counters, audit>>
  BY <1>1 DEF SparedInv, counters, Exempt
<1>2. ASSUME NEW p \in Procs, StepOf(p) PROVE SparedInv'
  <2>1. \A q \in Procs : pc[q] = "drop" => ~Exempt(record[q])
    BY DEF SparedInv
  <2>2. Still(p) /\ (pc'[p] = "drop" => ~Exempt(record'[p]))
    <3>1. CASE Sample(p)
      BY <3>1, SampleEffect
    <3>2. CASE Call(p)
      <4>1. PICK msg \in Msgs, lvl \in Levels : Log(p, msg, lvl)
        BY <3>2 DEF Call
      <4>. QED
        BY <4>1, LogEffect
    <3>3. CASE LogChange(p)
      BY <3>3, LogEffect DEF LogChange
    <3>4. CASE ReadOld(p) \/ SetLevel(p) \/ Count(p) \/ Drop(p) \/ Emit(p)
      BY <3>4, MoveEffect
    <3>. QED
      BY <1>2, <3>1, <3>2, <3>3, <3>4 DEF StepOf
  <2>3. \A q \in Procs : pc'[q] = "drop" => ~Exempt(record'[q])
    BY <2>1, <2>2 DEF Still
  <2>4. \A l \in {"WARN", "ERROR"} : dropped'[l] = 0
    <3>1. CASE Drop(p)
      <4>1. ~Exempt(record[p]) /\ dropped' = [dropped EXCEPT ![record[p].level] = @ + 1]
        BY <2>1, <3>1 DEF Drop
      <4>2. record[p].level \notin {"WARN", "ERROR"}
        BY <4>1 DEF Exempt, Severity
      <4>. QED
        BY <4>1, <4>2 DEF SparedInv, TypeOK, AllLevels, Severity
    <3>2. CASE ~Drop(p)
      <4>1. dropped' = dropped
        BY <1>2, <3>2, SampleEffect
           DEF StepOf, Call, LogChange, ReadOld, SetLevel, Count, Emit, counters
      <4>. QED
        BY <4>1 DEF SparedInv
    <3>. QED
      BY <3>1, <3>2
  <2>. QED
    BY <2>3, <2>4 DEF SparedInv
<1>. QED
  BY <1>1, <1>2, Steps

\* countingHandler.Handle, SamplingHandler.Handle and the drop recorder (handler.go:121-126,
\* metrics/logs.go:41-48): with nothing in flight every counted record was written or counted
\* as dropped, level by level, and none at WARN or above was dropped.
THEOREM EveryRecordAccounted == Spec => []VolumeAccounted
<1>1. Init => VolumeInv /\ SparedInv
  <2> SUFFICES ASSUME Init PROVE VolumeInv /\ SparedInv
    OBVIOUS
  <2>1. \A l \in AllLevels : Flight(l) = {}
    BY DEF Init, Flight
  <2>2. VolumeInv
    <3> SUFFICES ASSUME NEW l \in AllLevels
                 PROVE  /\ IsFiniteSet(Flight(l))
                        /\ records[l] = emitted[l] + dropped[l] + Cardinality(Flight(l))
      BY DEF VolumeInv
    <3>1. IsFiniteSet(Flight(l)) /\ Cardinality(Flight(l)) = 0
      BY <2>1, FS_EmptySet
    <3>2. records[l] = 0 /\ emitted[l] = 0 /\ dropped[l] = 0
      BY DEF Init
    <3>. QED
      BY <3>1, <3>2
  <2>3. SparedInv
    BY DEF Init, SparedInv, AllLevels, Severity
  <2>. QED
    BY <2>2, <2>3
<1>2. IInv /\ VolumeInv /\ SparedInv /\ [Next]_vars => (VolumeInv /\ SparedInv)'
  BY VolumeStep, SparedStep DEF IInv
<1>3. IInv /\ VolumeInv /\ SparedInv => VolumeAccounted
  <2> SUFFICES ASSUME IInv, VolumeInv, SparedInv, AllIdle, NEW l \in AllLevels
               PROVE  records[l] = emitted[l] + dropped[l]
    BY DEF VolumeAccounted, SparedInv
  <2>1. Flight(l) = {}
    BY DEF Flight, AllIdle, Idle
  <2>2. records[l] \in Nat /\ emitted[l] \in Nat /\ dropped[l] \in Nat
    BY DEF IInv, TypeOK
  <2>. QED
    BY <2>1, <2>2, FS_EmptySet DEF VolumeInv
<1>. QED
  BY <1>1, <1>2, <1>3, SamplerInvariance, PTL DEF Spec

-----------------------------------------------------------------------------
(* The trail names the level in force *)

\* The step of one administrator who has set the level that is in force.
LEMMA TrailStep == ASSUME TypeOK, SparedInv, TrailInv, [Next]_vars PROVE TrailInv'
<1>1. CASE UNCHANGED <<level, pc, record, buckets, counters, audit>>
  BY <1>1 DEF TrailInv, audit
<1>2. ASSUME NEW p \in Procs, StepOf(p) PROVE TrailInv'
  <2>0. /\ \A a \in Admins : record[a].level = "WARN" /\ a \in Procs /\ a \notin Loggers
        /\ level \in AllLevels /\ changes \in Nat
    BY SetsAssumption DEF TrailInv, TypeOK, Procs
  <2>1. Still(p) /\ (p \in Admins => record'[p].level = "WARN")
    <3>1. CASE p \in Loggers /\ Call(p)
      <4>1. PICK msg \in Msgs, lvl \in Levels : Log(p, msg, lvl)
        BY <3>1 DEF Call
      <4>. QED
        BY <4>1, <3>1, <2>0, LogEffect
    <3>2. CASE LogChange(p)
      BY <2>0, <3>2, LogEffect DEF LogChange
    <3>3. CASE Sample(p)
      BY <2>0, <3>3, SampleEffect
    <3>4. CASE ReadOld(p) \/ SetLevel(p) \/ Count(p) \/ Drop(p) \/ Emit(p)
      BY <2>0, <3>4, MoveEffect
    <3>. QED
      BY <1>2, <3>1, <3>2, <3>3, <3>4 DEF StepOf
  <2>2. \A a \in Admins : record'[a].level = "WARN"
    BY <2>0, <2>1 DEF Still
  <2> DEFINE Way == {"set", "count", "sample", "emit"}
             Told == \/ level \in trail
                     \/ \E a \in Admins : target[a] = level /\ pc[a] \in Way
  <2>3. ASSUME UNCHANGED <<level, target, changes>>, trail \subseteq trail',
               p \in Admins /\ pc[p] \in Way /\ target[p] = level /\ level # "ERROR"
                  => pc'[p] \in Way \/ level \in trail'
        PROVE  changes' > 0 /\ level' # "ERROR" => Told'
    <3> SUFFICES ASSUME changes > 0, level # "ERROR" PROVE Told'
      BY <2>3
    <3>1. CASE level \in trail
      BY <2>3, <3>1
    <3>2. CASE level \notin trail
      <4>1. PICK a \in Admins : target[a] = level /\ pc[a] \in Way
        BY <3>2 DEF TrailInv
      <4>2. CASE a = p
        BY <2>3, <4>1, <4>2
      <4>3. CASE a # p
        BY <2>0, <2>1, <2>3, <4>1, <4>3 DEF Still
      <4>. QED
        BY <4>2, <4>3
    <3>. QED
      BY <3>1, <3>2
  <2> SUFFICES changes' > 0 /\ level' # "ERROR" => Told'
    BY <2>2 DEF TrailInv
  <2>4. CASE p \in Admins /\ SetLevel(p)
    <3>1. level' = target'[p] /\ pc'[p] = "set"
      BY <2>4, MoveEffect DEF SetLevel, TypeOK
    <3>2. \E a \in Admins : target'[a] = level' /\ pc'[a] \in Way
      BY <2>4, <3>1
    <3>. QED
      BY <3>2
  <2> HIDE DEF Told
  <2>5. CASE p \in Loggers /\ Call(p)
    <3>1. UNCHANGED <<level, target, changes, trail>>
      BY <2>5 DEF Call, audit
    <3>2. p \notin Admins
      BY <2>0, <2>5
    <3>. QED
      BY <2>3, <3>1, <3>2
  <2>6. CASE p \in Admins /\ ReadOld(p)
    <3>1. UNCHANGED <<level, target, changes, trail>> /\ pc[p] \notin Way
      BY <2>6, MoveEffect DEF ReadOld, audit
    <3>. QED
      BY <2>3, <3>1
  <2>7. CASE p \in Admins /\ LogChange(p)
    <3>1. level # "ERROR" => Severity["WARN"] >= Severity[level]
      BY <2>0 DEF AllLevels, Severity
    <3>2. level # "ERROR" => pc'[p] = "count"
      BY <2>7, <3>1, LogEffect DEF LogChange
    <3>3. UNCHANGED <<level, target, changes, trail>>
      BY <2>7 DEF LogChange, audit
    <3>. QED
      BY <2>3, <3>2, <3>3
  <2>8. CASE Count(p)
    <3>1. UNCHANGED <<level, target, changes, trail>> /\ pc'[p] = "sample"
      BY <2>8, MoveEffect DEF Count, audit
    <3>. QED
      BY <2>3, <3>1
  <2>9. CASE Sample(p)
    <3>1. p \in Admins => pc'[p] = "emit"
      BY <2>0, <2>9, SampleEffect DEF Exempt, Severity
    <3>2. UNCHANGED <<level, target, changes, trail>>
      BY <2>9, SampleEffect DEF audit
    <3>. QED
      BY <2>3, <3>1, <3>2
  <2>10. CASE Drop(p)
    <3>1. UNCHANGED <<level, target, changes, trail>> /\ pc[p] \notin Way
      BY <2>10, MoveEffect DEF Drop, audit
    <3>. QED
      BY <2>3, <3>1
  <2>11. CASE Emit(p)
    <3>1. /\ UNCHANGED <<level, target, changes>> /\ trail \subseteq trail'
          /\ p \in Admins => target[p] \in trail'
      BY <2>11 DEF Emit
    <3>. QED
      BY <2>3, <3>1
  <2>. QED
    BY <1>2, <2>4, <2>5, <2>6, <2>7, <2>8, <2>9, <2>10, <2>11 DEF StepOf
<1>. QED
  BY <1>1, <1>2, Steps

\* LevelHandler (level.go:54-61): however requests to switch the level interleave with each
\* other and with logging, once they are answered a written line names the level in force,
\* unless that is ERROR.  Nothing is assumed of the levels that are set or logged at.
THEOREM LevelNamed == Spec => []TrailNamesLevel
<1>1. Init => SparedInv /\ TrailInv
  <2> SUFFICES ASSUME Init PROVE SparedInv /\ TrailInv
    OBVIOUS
  <2>1. changes = 0 /\ \A a \in Admins : record[a].level = "WARN"
    BY DEF Init, Procs
  <2>2. SparedInv
    BY DEF Init, SparedInv, AllLevels, Severity
  <2>. QED
    BY <2>1, <2>2 DEF TrailInv
<1>2. IInv /\ SparedInv /\ TrailInv /\ [Next]_vars => (SparedInv /\ TrailInv)'
  BY SparedStep, TrailStep DEF IInv
<1>3. TrailInv => TrailNamesLevel
  BY DEF TrailInv, TrailNamesLevel, AllIdle, Idle, Procs
<1>. QED
  BY <1>1, <1>2, <1>3, SamplerInvariance, PTL DEF Spec

-----------------------------------------------------------------------------
(* Every discarded record is reported *)

\* What is owed of a message changes by what the goroutine that moves owes.
LEMMA OwedMoves ==
    ASSUME TypeOK, TypeOK', NEW p \in Procs, Still(p), NEW m, IsFiniteSet(Owed(m))
    PROVE  /\ IsFiniteSet(Owed(m)')
           /\ Cardinality(Owed(m)) \in Nat /\ Cardinality(Owed(m)') \in Nat
           /\ Due(p, m) \in Nat /\ Due(p, m)' \in Nat
           /\ Cardinality(Owed(m)') + Due(p, m) = Cardinality(Owed(m)) + Due(p, m)'
<1> DEFINE f == [q \in Procs |-> Due(q, m)]
           g == [q \in Procs |-> Due(q, m)']
<1>1. \A q \in Procs : Due(q, m) \in Nat /\ Due(q, m)' \in Nat
  BY DEF TypeOK, Records, Due
<1>2. f \in [Procs -> Nat] /\ g \in [Procs -> Nat]
  BY <1>1
<1>3. \A q \in Procs : q # p => Due(q, m)' = Due(q, m)
  BY DEF Still, Due
<1>4. \A q \in Procs : q # p => g[q] = f[q]
  BY <1>3
<1>5. Owed(m) = Units(f) /\ Owed(m)' = Units(g)
  BY DEF Owed, Units
<1>6. f[p] = Due(p, m) /\ g[p] = Due(p, m)'
  OBVIOUS
<1> HIDE DEF f, g
<1>. QED
  BY <1>1, <1>2, <1>4, <1>5, <1>6, SumOne

\* The sampler's critical section for one message whose bucket was never thrown away: the drop
\* stays in the bucket, or leaves it with the record that opens the next window.
LEMMA DropSample ==
    ASSUME IInv, DropInv, NEW p \in Procs, Sample(p), NEW m \in Msgs, m \notin forgotten'
    PROVE  /\ m \notin forgotten
           /\ discarded'[m] + Waits(m) = discarded[m] + Waits(m)' + Due(p, m)'
<1> DEFINE bs == Bound(buckets)
           b  == Lookup(bs, record[p])
           n  == record[p].msg
<1>1. /\ TypeOK /\ SampledInv /\ DOMAIN record = Procs /\ record[p] \in Records /\ DOMAIN pc = Procs
      /\ discarded[m] \in Nat /\ DOMAIN discarded = Messages /\ m \in Messages /\ Waits(m) \in Nat
  BY DEF IInv, TypeOK, Messages, Waits, Buckets
<1>2. pc[p] = "sample" /\ record[p].carried = 0 /\ n \in Messages
  BY <1>1 DEF Sample, DropInv, Records
<1>3. CASE Exempt(record[p]) /\ Go(p, "emit") /\ UNCHANGED <<record, buckets, discarded, forgotten>>
  <2>1. Due(p, m)' = 0
    BY <1>2, <1>3 DEF Due
  <2>2. Waits(m)' = Waits(m)
    BY <1>3 DEF Waits
  <2>. QED
    BY <1>1, <1>3, <2>1, <2>2
<1>4. ASSUME ~Exempt(record[p]), forgotten' = forgotten \cup Forgets(buckets),
             Roll(p, bs, b) \/ Discard(p, bs, b) \/ Admit(p, bs, b)
      PROVE  /\ m \notin forgotten
             /\ discarded'[m] + Waits(m) = discarded[m] + Waits(m)' + Due(p, m)'
  <2>1. m \notin forgotten /\ m \in Msgs \ Forgets(buckets)
    BY <1>4
  <2>2. /\ m \in DOMAIN bs <=> m \in DOMAIN buckets
        /\ m \in DOMAIN buckets => bs[m] = buckets[m]
    BY <1>1, <2>1, BoundFacts
  <2>3. bs \in [DOMAIN bs -> Buckets]
    BY <1>1, BoundFacts
  <2>4. b \in Buckets /\ b.dropped \in Nat
    BY <1>1, <2>3, LookupFacts DEF Buckets
  <2>5. n = m => b.dropped = Waits(m)
    BY <2>2 DEF Lookup, Waits
  <2> DEFINE w(x) == IF n = m THEN x.dropped ELSE Waits(m)
  <2>6. ASSUME NEW x, buckets' = Store(bs, n, x) PROVE Waits(m)' = w(x)
    <3>1. /\ DOMAIN buckets' = DOMAIN bs \cup {n}
          /\ \A k \in DOMAIN bs \cup {n} : buckets'[k] = IF k = n THEN x ELSE bs[k]
      BY <2>6 DEF Store
    <3>2. Waits(m)' = IF m \in DOMAIN buckets' THEN buckets'[m].dropped ELSE 0
      BY DEF Waits
    <3>3. CASE n = m
      BY <3>1, <3>2, <3>3
    <3>4. CASE n # m
      BY <2>2, <3>1, <3>2, <3>4 DEF Waits
    <3>. QED
      BY <3>3, <3>4
  <2>7. CASE Roll(p, bs, b)
    <3> DEFINE x == [windowStart |-> record[p].time, seen |-> 1, dropped |-> 0]
    <3>1. /\ buckets' = Store(bs, n, x) /\ Go(p, "emit") /\ discarded' = discarded
          /\ record' = [record EXCEPT ![p].carried = b.dropped]
      BY <2>7 DEF Roll
    <3>2. Waits(m)' = IF n = m THEN 0 ELSE Waits(m)
      BY <2>6, <3>1
    <3>3. pc'[p] = "emit" /\ record'[p].msg = n /\ record'[p].carried = b.dropped
      BY <1>1, <3>1 DEF Go, Records
    <3>4. Due(p, m)' = IF n = m THEN b.dropped ELSE 0
      BY <3>3 DEF Due
    <3>. QED
      BY <1>1, <2>1, <2>4, <2>5, <3>1, <3>2, <3>4
  <2>8. CASE Discard(p, bs, b)
    <3> DEFINE x == [b EXCEPT !.dropped = b.dropped + 1]
    <3>1. /\ buckets' = Store(bs, n, x) /\ Go(p, "drop")
          /\ discarded' = [discarded EXCEPT ![n] = @ + 1]
      BY <2>8 DEF Discard
    <3>2. x.dropped = b.dropped + 1
      BY <2>4 DEF Buckets
    <3>3. Waits(m)' = IF n = m THEN b.dropped + 1 ELSE Waits(m)
      BY <2>6, <3>1, <3>2
    <3>4. Due(p, m)' = 0
      BY <1>1, <3>1 DEF Due, Go
    <3>5. discarded'[m] = IF n = m THEN discarded[m] + 1 ELSE discarded[m]
      BY <1>1, <3>1
    <3>. QED
      BY <1>1, <2>1, <2>4, <2>5, <3>3, <3>4, <3>5
  <2>9. CASE Admit(p, bs, b)
    <3> DEFINE x == [b EXCEPT !.seen = b.seen + 1]
    <3>1. /\ buckets' = Store(bs, n, x) /\ discarded' = discarded /\ record' = record
      BY <2>9 DEF Admit
    <3>2. x.dropped = b.dropped
      BY <2>4 DEF Buckets
    <3>3. Waits(m)' = IF n = m THEN b.dropped ELSE Waits(m)
      BY <2>6, <3>1, <3>2
    <3>4. Due(p, m)' = 0
      BY <1>2, <3>1 DEF Due
    <3>. QED
      BY <1>1, <2>1, <2>4, <2>5, <3>1, <3>3, <3>4
  <2>. QED
    BY <1>4, <2>7, <2>8, <2>9
<1>. QED
  BY <1>3, <1>4 DEF Sample

\* One step and what is owed.
LEMMA DropStep ==
    ASSUME IInv, IInv', DropInv, [Next]_vars
    PROVE  DropInv'
<1>1. CASE UNCHANGED <<level, pc, record, buckets, counters, audit>>
  <2>1. \A m \in Msgs : Owed(m)' = Owed(m) /\ Waits(m)' = Waits(m)
    BY <1>1 DEF Owed, Due, Waits, Units
  <2>. QED
    BY <1>1, <2>1 DEF DropInv, counters
<1>2. ASSUME NEW p \in Procs, StepOf(p) PROVE DropInv'
  <2>1. TypeOK /\ TypeOK'
    BY DEF IInv
  <2>2. Still(p) /\ (pc'[p] \in {"count", "sample"} => record'[p].carried = 0)
    <3>1. CASE Sample(p)
      BY <2>1, <3>1, SampleEffect
    <3>2. CASE Call(p)
      <4>1. PICK msg \in Msgs, lvl \in Levels : Log(p, msg, lvl)
        BY <3>2 DEF Call
      <4>. QED
        BY <2>1, <4>1, LogEffect
    <3>3. CASE LogChange(p)
      BY <2>1, <3>3, LogEffect DEF LogChange
    <3>4. CASE ReadOld(p) \/ SetLevel(p) \/ Count(p) \/ Drop(p) \/ Emit(p)
      BY <2>1, <3>4, MoveEffect DEF DropInv
    <3>. QED
      BY <1>2, <3>1, <3>2, <3>3, <3>4 DEF StepOf
  <2>3. \A q \in Procs : pc'[q] \in {"count", "sample"} => record'[q].carried = 0
    BY <2>2 DEF DropInv, Still
  <2>4. ASSUME NEW m \in Msgs, m \notin forgotten'
        PROVE  /\ IsFiniteSet(Owed(m)')
               /\ discarded'[m] = reported'[m] + Waits(m)' + Cardinality(Owed(m)')
    <3>1. /\ discarded[m] \in Nat /\ reported[m] \in Nat /\ Waits(m) \in Nat /\ Waits(m)' \in Nat
          /\ discarded'[m] \in Nat /\ reported'[m] \in Nat
          /\ DOMAIN reported = Messages /\ m \in Messages
      BY <2>1 DEF TypeOK, Messages, Waits, Buckets
    <3>2. m \notin forgotten
      BY <1>2, <2>4 DEF StepOf, Call, ReadOld, SetLevel, LogChange, Count, Sample, Drop, Emit, counters
    <3>3. IsFiniteSet(Owed(m)) /\ discarded[m] = reported[m] + Waits(m) + Cardinality(Owed(m))
      BY <3>2 DEF DropInv
    <3>4. /\ IsFiniteSet(Owed(m)')
          /\ Cardinality(Owed(m)) \in Nat /\ Cardinality(Owed(m)') \in Nat
          /\ Due(p, m) \in Nat /\ Due(p, m)' \in Nat
          /\ Cardinality(Owed(m)') + Due(p, m) = Cardinality(Owed(m)) + Due(p, m)'
      BY <2>1, <2>2, <3>3, OwedMoves
    <3>5. CASE Sample(p)
      <4>1. Due(p, m) = 0 /\ reported' = reported
        BY <2>1, <3>5, SampleEffect DEF Due
      <4>2. discarded'[m] + Waits(m) = discarded[m] + Waits(m)' + Due(p, m)'
        BY <2>4, <3>5, DropSample
      <4>. QED
        BY <3>1, <3>3, <3>4, <4>1, <4>2
    <3>6. CASE Emit(p)
      <4>1. /\ pc[p] = "emit" /\ pc'[p] = "idle" /\ UNCHANGED <<buckets, discarded>>
            /\ reported' = [reported EXCEPT ![record[p].msg] = @ + record[p].carried]
        BY <2>1, <3>6, MoveEffect DEF Emit
      <4>2. Due(p, m)' = 0 /\ Waits(m)' = Waits(m)
        BY <4>1 DEF Due, Waits
      <4>3. Due(p, m) = IF record[p].msg = m THEN record[p].carried ELSE 0
        BY <4>1 DEF Due
      <4>4. reported'[m] = reported[m] + Due(p, m)
        BY <3>1, <4>1, <4>3
      <4>. QED
        BY <3>1, <3>3, <3>4, <4>1, <4>2, <4>4
    <3>7. CASE ~Sample(p) /\ ~Emit(p)
      <4>1. UNCHANGED <<buckets, discarded, reported>>
        BY <1>2, <3>7 DEF StepOf, Call, ReadOld, SetLevel, LogChange, Count, Drop, counters
      <4>2. pc[p] # "emit" /\ pc'[p] # "emit"
        <5>1. CASE Call(p)
          <6>1. PICK msg \in Msgs, lvl \in Levels : Log(p, msg, lvl)
            BY <5>1 DEF Call
          <6>. QED
            BY <2>1, <5>1, <6>1, LogEffect DEF Call, Idle
        <5>2. CASE LogChange(p)
          BY <2>1, <5>2, LogEffect DEF LogChange
        <5>3. CASE ReadOld(p) \/ SetLevel(p) \/ Count(p) \/ Drop(p)
          BY <2>1, <5>3, MoveEffect
        <5>. QED
          BY <1>2, <3>7, <5>1, <5>2, <5>3 DEF StepOf
      <4>3. Due(p, m) = 0 /\ Due(p, m)' = 0 /\ Waits(m)' = Waits(m)
        BY <4>1, <4>2 DEF Due, Waits
      <4>. QED
        BY <3>1, <3>3, <3>4, <4>1, <4>3
    <3>. QED
      BY <3>5, <3>6, <3>7
  <2>. QED
    BY <2>3, <2>4 DEF DropInv
<1>. QED
  BY <1>1, <1>2, Steps

\* SamplingHandler.Handle (handler.go:179-181): once nothing is in flight, every record discarded of a
\* message was reported by a later record of it or waits in its bucket, unless the map was emptied.
THEOREM DropsAccounted == Spec => []DropsReported
<1>1. Init => DropInv
  <2> SUFFICES ASSUME Init PROVE DropInv
    OBVIOUS
  <2>1. \A p \in Procs : pc[p] = "idle"
    BY DEF Init
  <2>2. ASSUME NEW m \in Msgs
        PROVE  /\ IsFiniteSet(Owed(m))
               /\ discarded[m] = reported[m] + Waits(m) + Cardinality(Owed(m))
    <3>1. \A p \in Procs : [q \in Procs |-> Due(q, m)][p] = 0
      BY <2>1 DEF Due
    <3>2. IsFiniteSet(Owed(m)) /\ Cardinality(Owed(m)) = 0
      BY <3>1, SumNone DEF Owed
    <3>3. discarded[m] = 0 /\ reported[m] = 0 /\ Waits(m) = 0
      BY DEF Init, Waits, Messages
    <3>. QED
      BY <3>2, <3>3
  <2>. QED
    BY <2>1, <2>2 DEF DropInv
<1>2. IInv /\ IInv' /\ DropInv /\ [Next]_vars => DropInv'
  BY DropStep
<1>3. IInv /\ DropInv => DropsReported
  <2> SUFFICES ASSUME IInv, DropInv, AllIdle, NEW m \in Msgs \ forgotten
               PROVE  discarded[m] = reported[m] + Waits(m)
    BY DEF DropsReported, Reported, Waits
  <2>1. \A p \in Procs : [q \in Procs |-> Due(q, m)][p] = 0
    BY DEF Due, AllIdle, Idle
  <2>2. Cardinality(Owed(m)) = 0
    BY <2>1, SumNone DEF Owed
  <2>3. reported[m] \in Nat /\ Waits(m) \in Nat
    BY DEF IInv, TypeOK, Messages, Waits, Buckets
  <2>. QED
    BY <2>2, <2>3 DEF DropInv
<1>. QED
  BY <1>1, <1>2, <1>3, SamplerInvariance, PTL DEF Spec

=============================================================================
