---------------------------- MODULE MCStandalone ----------------------------
(* An instance for TLC of the parts that share no state with each other: in a  *)
(* behaviour one of them runs, and the others stay as they begin.              *)
EXTENDS LoadGen, AlertSink, Configuration, Migrations, RequestChain

CONSTANTS n1, n2, r1, r2

VARIABLE part

\* The alerts of each notification.
MCNamesOf == [n \in Notes |-> IF n = n1 THEN <<"A", "B", "A">> ELSE <<"B">>]

\* Negative, zero, usable, and too large for 32 bits.
MCNumbers == {-1, 0, 1, 2, 4}

\* Every endpoint, a path and a method nobody registered, HEAD on a GET route
\* and another method on a probe.
AllTargets ==
    {<<"POST", "/orders">>, <<"GET", "/orders">>, <<"GET", "/orders/42">>,
     <<"GET", "/healthz">>, <<"GET", "/readyz">>, <<"GET", "/debug/slow">>,
     <<"GET", "/nowhere">>, <<"DELETE", "/orders">>, <<"HEAD", "/orders">>,
     <<"POST", "/healthz">>}

\* One request asks for anything, with a traceparent or a request ID of its own;
\* the other is there to be inside the chain at the same time.
MCInputs(r) ==
    IF r = r1
    THEN [target : AllTargets, parent : {None, "sampled", "unsampled"}, id : {None}]
            \cup [target : AllTargets, parent : {None}, id : {"sane", "insane"}]
    ELSE [target : {<<"GET", "/nowhere">>}, parent : {None}, id : {None}]

MCInit ==
    /\ LoadInit /\ SinkInit /\ CfgInit /\ MigrateInit /\ Init
    /\ part \in {"loadgen", "alertsink", "configuration", "migrations", "request"}
    /\ part # "configuration" => \A v \in Names : environ[v] = Unset
    /\ part # "request" => tracingOn

RunLoadGen       == LoadNext    /\ UNCHANGED <<sinkVars, cfgVars, migrateVars, vars>>
RunAlertSink     == SinkNext    /\ UNCHANGED <<loadVars, cfgVars, migrateVars, vars>>
RunConfiguration == CfgNext     /\ UNCHANGED <<loadVars, sinkVars, migrateVars, vars>>
RunMigrations    == MigrateNext /\ UNCHANGED <<loadVars, sinkVars, cfgVars, vars>>
RunRequest       == Next        /\ UNCHANGED <<loadVars, sinkVars, cfgVars, migrateVars>>

\* The other parts may stop: deadlock is checked of the requests in the chain.
Ended == UNCHANGED <<loadVars, sinkVars, cfgVars, migrateVars, vars>>

MCNext ==
    /\ UNCHANGED part
    /\ \/ part = "loadgen"       /\ RunLoadGen
       \/ part = "alertsink"     /\ RunAlertSink
       \/ part = "configuration" /\ RunConfiguration
       \/ part = "migrations"    /\ RunMigrations
       \/ part = "request"       /\ RunRequest
       \/ part # "request"       /\ Ended

\* A replica that can go on does, and Docker restarts one that exited.
MCSpec ==
    /\ MCInit /\ [][MCNext]_<<part, loadVars, sinkVars, cfgVars, migrateVars, vars>>
    /\ LoadFairness
    /\ \A r \in Replicas : WF_migrateVars(part = "migrations" /\ ReplicaStep(r))

\* Once the faults are over every replica comes up, whatever transactions and
\* unique violations Store.Migrate (store.go:111-116) ran into on the way.
AllServe == \A r \in Replicas : <>[](part = "migrations" => phase[r] = "serving")
=============================================================================
