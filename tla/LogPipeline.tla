----------------------------- MODULE LogPipeline ----------------------------
(***************************************************************************)
(* The handler chain that logging.New builds,                              *)
(*                                                                         *)
(*   level filter -> countingHandler -> SamplingHandler -> output          *)
(*                                                                         *)
(* used by several goroutines at once, with the runtime level switch of    *)
(* level.go beside it.  A record gets its time before it reaches the       *)
(* sampler's mutex, so records may pass the sampler out of time order.     *)
(***************************************************************************)
EXTENDS Naturals, FiniteSets

CONSTANTS
    Loggers,      \* goroutines that log
    Admins,       \* requests to PUT /loglevel
    Msgs,         \* the messages that are logged
    Levels,       \* the levels they are logged at, below WARN or above
    SetLevels,    \* the levels that administrators switch to
    PerInterval,  \* sampleState.perInterval
    Interval,     \* sampleState.interval, in ticks
    MaxKeys,      \* maxSampleKeys
    MaxTime,      \* bound: the clock stops here
    MaxRecords    \* bound: log calls per behaviour

Severity == [DEBUG |-> 0, INFO |-> 1, WARN |-> 2, ERROR |-> 3]
AllLevels == DOMAIN Severity

ASSUME SamplerAssumption ==
    /\ PerInterval \in Nat \ {0} /\ Interval \in Nat \ {0} /\ MaxKeys \in Nat
    /\ MaxTime \in Nat /\ MaxRecords \in Nat
ASSUME SetsAssumption ==
    /\ IsFiniteSet(Msgs)
    /\ Levels \subseteq AllLevels /\ SetLevels \subseteq AllLevels
    /\ Loggers \cap Admins = {} /\ "level changed" \notin Msgs

VARIABLES
    now,        \* the clock
    level,      \* the slog.LevelVar
    pc,         \* where each goroutine is
    record,     \* the record it carries, with the drop count it took along
    buckets,    \* sampleState.buckets
    records,    \* orders_log_records_total, by level
    dropped,    \* orders_log_records_dropped_total, by level
    emitted,    \* records written to stdout, by level
    reported,   \* the sum of the sampled_dropped attributes, by message
    passed,     \* history: records the sampler let through, by message
    discarded,  \* history: records the sampler discarded, by message
    forgotten,  \* history: messages whose bucket was thrown away
    target,     \* lvl of the request that each administrator makes
    changes,    \* history: how often the level was set
    trail,      \* history: the levels that written lines name as the new one
    calls       \* log calls so far

vars == <<now, level, pc, record, buckets, records, dropped, emitted, reported,
          passed, discarded, forgotten, target, changes, trail, calls>>
audit == <<target, changes, trail>>
counters == <<records, dropped, emitted, reported, passed, discarded, forgotten>>

Procs == Loggers \cup Admins
Messages == Msgs \cup {"level changed"}

Idle(p) == pc[p] = "idle"
Go(p, loc) == pc' = [pc EXCEPT ![p] = loc]
AllIdle == \A p \in Procs : Idle(p)

-----------------------------------------------------------------------------
Records == [msg : Messages, level : AllLevels, time : Nat, carried : Nat]
Buckets == [windowStart : Nat, seen : Nat, dropped : Nat]

Locations == {"idle", "old read", "set", "count", "sample", "emit", "drop"}

TypeOK ==
    /\ now \in 0..MaxTime
    /\ level \in AllLevels
    /\ pc \in [Procs -> Locations]
    /\ record \in [Procs -> Records]
    /\ DOMAIN buckets \subseteq Messages
    /\ buckets \in [DOMAIN buckets -> Buckets]
    /\ records \in [AllLevels -> Nat]
    /\ dropped \in [AllLevels -> Nat]
    /\ emitted \in [AllLevels -> Nat]
    /\ reported \in [Messages -> Nat]
    /\ passed \in [Messages -> Nat]
    /\ discarded \in [Messages -> Nat]
    /\ forgotten \subseteq Messages
    /\ target \in [Admins -> AllLevels]
    /\ changes \in Nat
    /\ trail \subseteq AllLevels
    /\ calls \in 0..MaxRecords

Init ==
    /\ now = 0
    /\ level \in {"INFO"} \cup SetLevels        \* cfg.Level
    /\ pc = [p \in Procs |-> "idle"]
    /\ record = [p \in Procs |-> [msg |-> "level changed", level |-> "WARN",
                                  time |-> 0, carried |-> 0]]
    /\ buckets = [m \in {} |-> 0]
    /\ records = [l \in AllLevels |-> 0]        \* NewLogs
    /\ dropped = [l \in AllLevels |-> 0]
    /\ emitted = [l \in AllLevels |-> 0]
    /\ reported = [m \in Messages |-> 0]
    /\ passed = [m \in Messages |-> 0]
    /\ discarded = [m \in Messages |-> 0]
    /\ forgotten = {}
    /\ target = [a \in Admins |-> "INFO"]
    /\ changes = 0
    /\ trail = {}
    /\ calls = 0

Tick ==
    /\ now < MaxTime
    /\ now' = now + 1
    /\ UNCHANGED <<level, pc, record, buckets, counters, audit, calls>>

-----------------------------------------------------------------------------
(* One log call *)

\* slog.Logger.log: records below the level go no further; a record gets its
\* time here.
Log(p, msg, lvl) ==
    IF Severity[lvl] >= Severity[level]
    THEN /\ record' = [record EXCEPT ![p] = [msg |-> msg, level |-> lvl,
                                            time |-> now, carried |-> 0]]
         /\ Go(p, "count")
    ELSE Go(p, "idle") /\ UNCHANGED record

Call(p) ==
    /\ Idle(p) /\ calls < MaxRecords
    /\ calls' = calls + 1
    /\ \E msg \in Msgs, lvl \in Levels : Log(p, msg, lvl)
    /\ UNCHANGED <<now, level, buckets, counters, audit>>

\* countingHandler.Handle: counted before the sampler decides.
Count(p) ==
    /\ pc[p] = "count"
    /\ records' = [records EXCEPT ![record[p].level] = @ + 1]
    /\ Go(p, "sample")
    /\ UNCHANGED <<now, level, record, buckets, dropped, emitted, reported, passed,
                   discarded, forgotten, audit, calls>>

\* The map is emptied when it holds more than MaxKeys messages.
Bound(bs) == IF Cardinality(DOMAIN bs) > MaxKeys THEN [m \in {} |-> 0] ELSE bs

\* The messages that lose their buckets when that happens.
Forgets(bs) == IF Cardinality(DOMAIN bs) > MaxKeys THEN DOMAIN bs ELSE {}

\* The bucket of a message, made on first use.
Lookup(bs, r) ==
    IF r.msg \in DOMAIN bs THEN bs[r.msg]
    ELSE [windowStart |-> r.time, seen |-> 0, dropped |-> 0]

Store(bs, msg, b) == [m \in DOMAIN bs \cup {msg} |-> IF m = msg THEN b ELSE bs[m]]

\* Mutant: one record too many.
ExhaustedLate(b) == b.seen > PerInterval

\* The cases of the switch: the window is over, or its budget is.  r.Time may
\* lie before windowStart, and then the window is not over.
RolledOver(b, r) == r.time >= b.windowStart + Interval
Exhausted(b) == b.seen >= PerInterval

\* Mutant: the drop count of the window that ended is forgotten.
RollForgets(p, bs, b) ==
    /\ RolledOver(b, record[p])
    /\ buckets' = Store(bs, record[p].msg,
                        [windowStart |-> record[p].time, seen |-> 1, dropped |-> 0])
    /\ passed' = [passed EXCEPT ![record[p].msg] = @ + 1]
    /\ Go(p, "emit")
    /\ UNCHANGED <<record, discarded>>

\* SamplingHandler.Handle for a record below WARN; the mutex makes it one step.
Roll(p, bs, b) ==
    /\ RolledOver(b, record[p])
    /\ buckets' = Store(bs, record[p].msg,
                        [windowStart |-> record[p].time, seen |-> 1, dropped |-> 0])
    /\ record' = [record EXCEPT ![p].carried = b.dropped]
    /\ passed' = [passed EXCEPT ![record[p].msg] = @ + 1]
    /\ Go(p, "emit")
    /\ UNCHANGED discarded

Discard(p, bs, b) ==
    /\ ~RolledOver(b, record[p]) /\ Exhausted(b)
    /\ buckets' = Store(bs, record[p].msg, [b EXCEPT !.dropped = @ + 1])
    /\ discarded' = [discarded EXCEPT ![record[p].msg] = @ + 1]
    /\ Go(p, "drop")
    /\ UNCHANGED <<record, passed>>

Admit(p, bs, b) ==
    /\ ~RolledOver(b, record[p]) /\ ~Exhausted(b)
    /\ buckets' = Store(bs, record[p].msg, [b EXCEPT !.seen = @ + 1])
    /\ passed' = [passed EXCEPT ![record[p].msg] = @ + 1]
    /\ Go(p, "emit")
    /\ UNCHANGED <<record, discarded>>

\* Mutant: only what is above WARN is exempt.
ExemptAbove(r) == Severity[r.level] > Severity["WARN"]

\* WARN and above are not sampled.
Exempt(r) == Severity[r.level] >= Severity["WARN"]

Sample(p) ==
    /\ pc[p] = "sample"
    /\ \/ /\ Exempt(record[p])
          /\ Go(p, "emit")
          /\ UNCHANGED <<record, buckets, passed, discarded, forgotten>>
       \/ /\ ~Exempt(record[p])
          /\ LET bs == Bound(buckets)
                 b  == Lookup(bs, record[p])
             IN  Roll(p, bs, b) \/ Discard(p, bs, b) \/ Admit(p, bs, b)
          /\ forgotten' = forgotten \cup Forgets(buckets)
    /\ UNCHANGED <<now, level, records, dropped, emitted, reported, audit, calls>>

\* The recorder is told of the drop after the mutex is released.
Drop(p) ==
    /\ pc[p] = "drop"
    /\ dropped' = [dropped EXCEPT ![record[p].level] = @ + 1]
    /\ Go(p, "idle")
    /\ UNCHANGED <<now, level, record, buckets, records, emitted, reported, passed,
                   discarded, forgotten, audit, calls>>

\* The record is written, with sampled_dropped if it carries a count.
Emit(p) ==
    /\ pc[p] = "emit"
    /\ emitted' = [emitted EXCEPT ![record[p].level] = @ + 1]
    /\ reported' = [reported EXCEPT ![record[p].msg] = @ + record[p].carried]
    /\ trail' = IF p \in Admins THEN trail \cup {target[p]} ELSE trail
    /\ Go(p, "idle")
    /\ UNCHANGED <<now, level, record, buckets, records, dropped, passed, discarded,
                   forgotten, target, changes, calls>>

-----------------------------------------------------------------------------
(* PUT /loglevel *)

\* The old level is read, the new one set, and the change logged at WARN
\* through the logger whose level has just been set.
ReadOld(a) ==
    /\ Idle(a) /\ calls < MaxRecords
    /\ calls' = calls + 1
    /\ Go(a, "old read")
    /\ UNCHANGED <<now, level, record, buckets, counters, audit>>

SetLevel(a) ==
    /\ pc[a] = "old read"
    /\ \E lvl \in SetLevels : level' = lvl /\ target' = [target EXCEPT ![a] = lvl]
    /\ changes' = changes + 1
    /\ Go(a, "set")
    /\ UNCHANGED <<now, record, buckets, counters, trail, calls>>

\* Mutant: the change is logged at INFO.
LogChangeInfo(a) ==
    /\ pc[a] = "set"
    /\ Log(a, "level changed", "INFO")
    /\ UNCHANGED <<now, level, buckets, counters, audit, calls>>

LogChange(a) ==
    /\ pc[a] = "set"
    /\ Log(a, "level changed", "WARN")
    /\ UNCHANGED <<now, level, buckets, counters, audit, calls>>

-----------------------------------------------------------------------------
\* The bound on calls is used up and everybody has finished.
Quiet == AllIdle /\ calls = MaxRecords /\ UNCHANGED vars

Next ==
    \/ Tick
    \/ \E p \in Loggers : Call(p)
    \/ \E a \in Admins : ReadOld(a) \/ SetLevel(a) \/ LogChange(a)
    \/ \E p \in Procs : Count(p) \/ Sample(p) \/ Drop(p) \/ Emit(p)
    \/ Quiet

Spec == Init /\ [][Next]_vars

-----------------------------------------------------------------------------
(* Properties *)

\* handler.go:121-126 and metrics/logs.go:41-48: when no record is on its way,
\* every record counted was either written or counted as dropped, level by
\* level, and none at WARN or above was dropped.
VolumeAccounted ==
    /\ AllIdle => \A l \in AllLevels : records[l] = emitted[l] + dropped[l]
    /\ \A l \in {"WARN", "ERROR"} : dropped[l] = 0

\* handler.go:162-168: the map of buckets stays bounded whatever is logged.
MapBounded == Cardinality(DOMAIN buckets) <= MaxKeys + 1

\* logging.go:51-53 and 61-63: a message gets through at most PerInterval times
\* per window and a new window takes Interval ticks, however late records
\* arrive at the mutex.  Only emptying the map starts a budget afresh.
RateIsCapped ==
    \A m \in Msgs \ forgotten : passed[m] <= PerInterval * (1 + now \div Interval)

\* Every discarded record of m was reported by a later one or waits in the bucket.
Reported(m) ==
    discarded[m] = reported[m] + (IF m \in DOMAIN buckets THEN buckets[m].dropped ELSE 0)

\* handler.go:179-181: every discarded record is reported by a later one of its
\* message or waits in its bucket, unless the map was emptied under it.
DropsReported == AllIdle => \A m \in Msgs \ forgotten : Reported(m)

\* level.go:54-61: the audit trail tells what the level became.  Once the level has
\* been switched and every request is answered, a written line names the level in
\* force, whichever administrators raced - unless that is ERROR, at which the line
\* that says so is filtered (see the next one).
TrailNamesLevel == AllIdle /\ changes > 0 /\ level # "ERROR" => level \in trail

\* level.go:57-58: a change of level is logged "at WARN so it is visible even at
\* a raised level, and so the audit trail [...] exists": one line for each change.
EveryChangeAudited == AllIdle => emitted["WARN"] = changes

=============================================================================
