---------------------------- MODULE Configuration ----------------------------
(***************************************************************************)
(* From the environment to running parts: config.Load, and what the parts   *)
(* started by run() make of the numbers it accepts.  Load itself checks     *)
(* only the sampling ratio and that the pool's bounds are in order; zero    *)
(* and negative numbers are left to the constructors.                       *)
(*                                                                         *)
(* Durations, counts and the ratio are integers of a small range; NaN is a  *)
(* ratio that no comparison holds of.                                       *)
(***************************************************************************)
EXTENDS Integers, FiniteSets

CONSTANTS
    MaxInt32,   \* the largest number envInt32 parses
    Numbers,    \* the numbers an operator may write
    MaxSet,     \* bound: variables that are set at once
    Unset, Empty, Garbage, NaN  \* what else a variable may be

ASSUME NumbersAssumption == Numbers \subseteq Int
ASSUME SettingsAssumption == {Unset, Empty, Garbage, NaN} \cap Int = {}
ASSUME MaxInt32Assumption == MaxInt32 \in Nat /\ MaxInt32 >= 3

VARIABLES
    environ,    \* what each variable is set to
    stage,      \* how far run() has come
    cfg,        \* config.Config
    parts       \* the numbers the running parts use

cfgVars == <<environ, stage, cfg, parts>>

Durations == {"WORKER_INTERVAL", "BACKLOG_INTERVAL", "LOG_SAMPLE_INTERVAL", "SHUTDOWN_TIMEOUT"}
Int32s    == {"LOG_SAMPLE_N", "WORKER_BATCH_SIZE", "DB_MAX_CONNS", "DB_MIN_CONNS"}
Ratio     == "TRACING_SAMPLE_RATIO"
Names     == Durations \cup Int32s \cup {Ratio}
-----------------------------------------------------------------------------
(* config *)

\* The defaults of Load, which lie inside the range of every consumer.
Default(v) == IF v \in {"DB_MAX_CONNS", "LOG_SAMPLE_N"} THEN 2 ELSE 1

\* An empty variable counts as unset.
IsSet(v) == environ[v] \notin {Unset, Empty}

\* strconv.ParseInt(v, 10, 32), time.ParseDuration, strconv.ParseFloat
Parses(v) ==
    CASE v \in Int32s    -> environ[v] \in -(MaxInt32 + 1)..MaxInt32
      [] v \in Durations -> environ[v] \in Numbers
      [] v = Ratio       -> environ[v] \in Numbers \cup {NaN}

envValue(v) == IF IsSet(v) THEN environ[v] ELSE Default(v)

Load ==
    /\ stage = "begin"
    /\ LET c == [v \in Names |-> envValue(v)]
           parsed  == \A v \in Names : IsSet(v) => Parses(v)
           inRange == c[Ratio] = NaN \/ c[Ratio] \in 0..1
       IN  IF parsed /\ inRange /\ c["DB_MAX_CONNS"] >= c["DB_MIN_CONNS"]
           THEN cfg' = c /\ stage' = "logger"
           ELSE stage' = "failed" /\ UNCHANGED cfg
    /\ UNCHANGED <<environ, parts>>
-----------------------------------------------------------------------------
(* The parts *)

OrElse(n, default) == IF n <= 0 THEN default ELSE n

Use(p, n) == parts' = [parts EXCEPT ![p] = n]

\* logging.New: the sampler exists only for a positive budget.
NewLogger ==
    /\ stage = "logger" /\ stage' = "tracing"
    /\ IF cfg["LOG_SAMPLE_N"] > 0
       THEN Use("sampler", [budget |-> cfg["LOG_SAMPLE_N"], window |-> OrElse(cfg["LOG_SAMPLE_INTERVAL"], 1)])
       ELSE UNCHANGED parts
    /\ UNCHANGED <<environ, cfg>>

\* newSampler; what TraceIDRatioBased makes of NaN depends on the machine.
newSampler(ratio) ==
    CASE ratio = NaN -> {"always", "never"}
      [] ratio <= 0  -> {"never"}
      [] ratio >= 1  -> {"always"}

InitTracing ==
    /\ stage = "tracing" /\ stage' = "pool"
    /\ \E s \in newSampler(cfg[Ratio]) : Use("tracer", s)
    /\ UNCHANGED <<environ, cfg>>

\* store.Open: pgxpool refuses a pool without room for a connection.
OpenPool ==
    /\ stage = "pool"
    /\ IF cfg["DB_MAX_CONNS"] < 1 THEN stage' = "failed" /\ UNCHANGED parts
       ELSE stage' = "worker" /\ Use("pool", [min |-> cfg["DB_MIN_CONNS"], max |-> cfg["DB_MAX_CONNS"]])
    /\ UNCHANGED <<environ, cfg>>

\* mutant: only negative settings are replaced
withDefaultsNegative(interval, batch) ==
    [interval |-> IF interval < 0 THEN 1 ELSE interval, batch |-> IF batch < 0 THEN 1 ELSE batch]

withDefaults(interval, batch) == [interval |-> OrElse(interval, 1), batch |-> OrElse(batch, 1)]

\* time.NewTicker panics unless its interval is positive.
Ticking(interval, then) == stage' = IF interval > 0 THEN then ELSE "panicked"

\* worker.New and Run; WORKER_ENABLED=false starts neither goroutine.
StartWorker ==
    /\ stage = "worker"
    /\ \/ LET w == withDefaults(cfg["WORKER_INTERVAL"], cfg["WORKER_BATCH_SIZE"])
          IN  Use("worker", w) /\ Ticking(w.interval, "refresher")
       \/ stage' = "serving" /\ UNCHANGED parts
    /\ UNCHANGED <<environ, cfg>>

\* NewBacklogRefresher and Run
StartRefresher ==
    /\ stage = "refresher"
    /\ LET interval == OrElse(cfg["BACKLOG_INTERVAL"], 1)
       IN  Use("refresher", interval) /\ Ticking(interval, "serving")
    /\ UNCHANGED <<environ, cfg>>
-----------------------------------------------------------------------------
CfgInit ==
    /\ \E set \in {s \in SUBSET Names : Cardinality(s) <= MaxSet} :
         \E e \in [set -> Numbers \cup {Empty, Garbage, NaN}] :
            environ = [v \in Names |-> IF v \in set THEN e[v] ELSE Unset]
    /\ stage = "begin"
    /\ cfg = <<>>
    /\ parts = [p \in {"sampler", "tracer", "pool", "worker", "refresher"} |-> Unset]

CfgNext == Load \/ NewLogger \/ InitTracing \/ OpenPool \/ StartWorker \/ StartRefresher

CfgSpec == CfgInit /\ [][CfgNext]_cfgVars
-----------------------------------------------------------------------------
(* Properties *)

(* Whatever numbers the environment holds, the process refuses to start with  *)
(* an error or every part it starts can run: no ticker without an interval, no *)
(* claim with LIMIT 0, no pool without connections, no sampler without a       *)
(* window; and a part uses the number the operator set for it whenever that    *)
(* number can be used.                                                         *)
ConfigIsRunnable ==
    LET Honoured(v, n) == n > 0 /\ (environ[v] \in Numbers /\ environ[v] > 0 => n = environ[v])
        Started(p) == parts[p] # Unset
    IN  /\ stage # "panicked"
        /\ Started("worker") => /\ Honoured("WORKER_INTERVAL", parts["worker"].interval)
                                /\ Honoured("WORKER_BATCH_SIZE", parts["worker"].batch)
        /\ Started("refresher") => Honoured("BACKLOG_INTERVAL", parts["refresher"])
        /\ Started("sampler") => /\ Honoured("LOG_SAMPLE_N", parts["sampler"].budget)
                                 /\ Honoured("LOG_SAMPLE_INTERVAL", parts["sampler"].window)
        /\ Started("pool") => /\ Honoured("DB_MAX_CONNS", parts["pool"].max)
                              /\ parts["pool"].min <= parts["pool"].max
        /\ Started("tracer") /\ environ[Ratio] = 0 => parts["tracer"] = "never"
=============================================================================
