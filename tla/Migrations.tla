----------------------------- MODULE Migrations -----------------------------
(***************************************************************************)
(* Store.Migrate (store/store.go) run by several replicas that start at the *)
(* same time, against one Postgres.  Each file is applied in a transaction  *)
(* of its own that also records the filename; the primary key of            *)
(* schema_migrations is the only thing the replicas share.  A replica that  *)
(* returns an error exits and is started again.                             *)
(***************************************************************************)
EXTENDS Naturals

CONSTANTS
    Replicas,
    N,            \* how many files are embedded; they are 1..N in filename order
    MaxFaults     \* bound: crashes, timeouts and lost connections

ASSUME NAssumption         == N \in Nat
ASSUME MaxFaultsAssumption == MaxFaults \in Nat

VARIABLES
    table,        \* whether schema_migrations exists
    applied,      \* the committed rows of schema_migrations
    effects,      \* history: [Files -> Nat] committed executions of each body
    phase,        \* [Replicas -> Phases]
    file,         \* [Replicas -> 1..N+1] the loop's position
    recorded,     \* [Replicas -> SUBSET Files] rows inserted, not yet committed
    faults        \* bound: faults so far

migrateVars == <<table, applied, effects, phase, file, recorded, faults>>

Files  == 1..N
Phases == {"start", "creating", "check", "body", "record", "commit", "serving", "down"}

Fault == faults < MaxFaults /\ faults' = faults + 1
-----------------------------------------------------------------------------
\* CREATE TABLE IF NOT EXISTS looks for the table ...
CreateBegin(r) ==
    /\ phase[r] = "start"
    /\ phase' = [phase EXCEPT ![r] = IF table THEN "check" ELSE "creating"]
    /\ UNCHANGED <<table, applied, effects, file, recorded, faults>>

\* ... and creates it.  Postgres does not lock the name in between: whoever comes
\* second gets a unique violation from its catalogue.
CreateEnd(r) ==
    /\ phase[r] = "creating"
    /\ phase' = [phase EXCEPT ![r] = IF table THEN "down" ELSE "check"]
    /\ table' = TRUE
    /\ UNCHANGED <<applied, effects, file, recorded, faults>>

\* SELECT EXISTS: skip the file, or begin its transaction.
Check(r) ==
    /\ phase[r] = "check" /\ file[r] \in Files
    /\ IF file[r] \in applied
       THEN file' = [file EXCEPT ![r] = @ + 1] /\ UNCHANGED phase
       ELSE phase' = [phase EXCEPT ![r] = "body"] /\ UNCHANGED file
    /\ UNCHANGED <<table, applied, effects, recorded, faults>>

\* The loop is done.
Done(r) ==
    /\ phase[r] = "check" /\ file[r] = N + 1
    /\ phase' = [phase EXCEPT ![r] = "serving"]
    /\ UNCHANGED <<table, applied, effects, file, recorded, faults>>

\* The file's statements run inside the transaction.
Body(r) ==
    /\ phase[r] = "body"
    /\ phase' = [phase EXCEPT ![r] = "record"]
    /\ UNCHANGED <<table, applied, effects, file, recorded, faults>>

\* The insert waits for a transaction that has inserted the same key.
Unlocked(r) == \A q \in Replicas \ {r} : file[r] \notin recorded[q]

\* mutant: INSERT ... ON CONFLICT DO NOTHING
RecordOrIgnore(r) ==
    /\ phase[r] = "record" /\ Unlocked(r)
    /\ phase' = [phase EXCEPT ![r] = "commit"]
    /\ recorded' = [recorded EXCEPT ![r] = {file[r]}]
    /\ UNCHANGED <<table, applied, effects, file, faults>>

\* mutant: a unique violation is retried in the same transaction
RecordRetried(r) ==
    /\ phase[r] = "record" /\ Unlocked(r) /\ file[r] \notin applied
    /\ phase' = [phase EXCEPT ![r] = "commit"]
    /\ recorded' = [recorded EXCEPT ![r] = {file[r]}]
    /\ UNCHANGED <<table, applied, effects, file, faults>>

\* INSERT INTO schema_migrations: a unique violation rolls everything back.
Record(r) ==
    /\ phase[r] = "record" /\ Unlocked(r)
    /\ IF file[r] \in applied
       THEN phase' = [phase EXCEPT ![r] = "down"] /\ UNCHANGED recorded
       ELSE /\ phase' = [phase EXCEPT ![r] = "commit"]
            /\ recorded' = [recorded EXCEPT ![r] = {file[r]}]
    /\ UNCHANGED <<table, applied, effects, file, faults>>

\* What COMMIT makes durable: the body's effects and the record, together.
Durable(r) ==
    /\ phase[r] = "commit"
    /\ applied'  = applied \cup recorded[r]
    /\ effects'  = [f \in Files |-> IF f \in recorded[r] THEN effects[f] + 1 ELSE effects[f]]
    /\ recorded' = [recorded EXCEPT ![r] = {}]

Commit(r) ==
    /\ Durable(r)
    /\ phase' = [phase EXCEPT ![r] = "check"]
    /\ file' = [file EXCEPT ![r] = @ + 1]
    /\ UNCHANGED <<table, faults>>

\* The transaction commits, but the replica never hears of it.
CommitUnheard(r) ==
    /\ Fault /\ Durable(r)
    /\ phase' = [phase EXCEPT ![r] = "down"]
    /\ UNCHANGED <<table, file>>

\* mutant: a failed file is skipped
FailSkipped(r) ==
    /\ phase[r] \in {"body", "record", "commit"} /\ Fault
    /\ phase'    = [phase EXCEPT ![r] = "check"]
    /\ file'     = [file EXCEPT ![r] = @ + 1]
    /\ recorded' = [recorded EXCEPT ![r] = {}]
    /\ UNCHANGED <<table, applied, effects>>

\* Any step returns an error (the 30 s are over, the connection broke), or the
\* process dies: what was not committed is rolled back.
Fail(r) ==
    /\ phase[r] # "down" /\ Fault
    /\ phase' = [phase EXCEPT ![r] = "down"]
    /\ recorded' = [recorded EXCEPT ![r] = {}]
    /\ UNCHANGED <<table, applied, effects, file>>

\* restart: unless-stopped
Restart(r) ==
    /\ phase[r] = "down"
    /\ phase' = [phase EXCEPT ![r] = "start"]
    /\ file' = [file EXCEPT ![r] = 1]
    /\ UNCHANGED <<table, applied, effects, recorded, faults>>
-----------------------------------------------------------------------------
MigrateInit ==
    /\ table = FALSE /\ applied = {}
    /\ effects  = [f \in Files |-> 0]
    /\ phase    = [r \in Replicas |-> "start"]
    /\ file     = [r \in Replicas |-> 1]
    /\ recorded = [r \in Replicas |-> {}]
    /\ faults   = 0

ReplicaStep(r) ==
    \/ CreateBegin(r) \/ CreateEnd(r) \/ Check(r) \/ Done(r) \/ Body(r)
    \/ Record(r) \/ Commit(r) \/ Restart(r)

MigrateNext == \E r \in Replicas : ReplicaStep(r) \/ CommitUnheard(r) \/ Fail(r)

MigrateSpec == MigrateInit /\ [][MigrateNext]_migrateVars
-----------------------------------------------------------------------------
(* Type correctness. *)
MigrateTypeOK ==
    /\ table \in BOOLEAN
    /\ applied \subseteq Files
    /\ effects \in [Files -> Nat]
    /\ phase \in [Replicas -> Phases]
    /\ file \in [Replicas -> 1..(N + 1)]
    /\ recorded \in [Replicas -> SUBSET Files]
    /\ faults \in 0..MaxFaults

(* "Migrate applies every embedded .sql file exactly once": however replicas   *)
(* race, time out, crash or lose the answer to a commit, the record of a file  *)
(* is there exactly when its statements took effect, and they did so once.     *)
AppliedExactlyOnce ==
    \A f \in Files : effects[f] = (IF f \in applied THEN 1 ELSE 0)

(* "... in filename order", and before anything is served: no file is applied  *)
(* before the ones ahead of it, and a replica serves only on a whole schema.   *)
AppliedInOrder == \A f \in applied : \A g \in Files : g < f => g \in applied
ServesOnlyMigrated == \A r \in Replicas : phase[r] = "serving" => applied = Files
MigratedInOrder == AppliedInOrder /\ ServesOnlyMigrated
=============================================================================
