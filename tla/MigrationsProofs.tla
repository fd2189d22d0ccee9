-------------------------- MODULE MigrationsProofs --------------------------
(***************************************************************************)
(* The safety of concurrent migrations, for any number of replicas, files   *)
(* and faults.  AppliedExactlyOnce is not inductive by itself: it needs to  *)
(* know that uncommitted rows of schema_migrations are pairwise different   *)
(* and different from the committed ones (KeysUnique), which is what the    *)
(* primary key provides.                                                    *)
(***************************************************************************)
EXTENDS Migrations, TLAPS

\* A transaction has inserted its row exactly between the insert and the commit.
RowWhileOpen ==
    \A r \in Replicas :
        recorded[r] = (IF phase[r] = "commit" THEN {file[r]} ELSE {})

\* The primary key of schema_migrations, uncommitted rows included.
KeysUnique ==
    /\ \A r \in Replicas : recorded[r] \cap applied = {}
    /\ \A r, q \in Replicas : r # q => recorded[r] \cap recorded[q] = {}

\* The loop never passes a file that is not applied.
LoopBehind ==
    /\ \A r \in Replicas : \A g \in Files : g < file[r] => g \in applied
    /\ \A r \in Replicas : phase[r] \in {"body", "record", "commit"} => file[r] \in Files
    /\ \A r \in Replicas : phase[r] = "serving" => file[r] = N + 1

IInv ==
    MigrateTypeOK /\ AppliedExactlyOnce /\ AppliedInOrder /\ RowWhileOpen /\ KeysUnique /\ LoopBehind

\* The initial state satisfies the inductive invariant: nothing is applied.
LEMMA InitIInv == MigrateInit => IInv
  <1> SUFFICES ASSUME MigrateInit PROVE IInv
    OBVIOUS
  <1>1. MigrateTypeOK
    <2>1. table \in BOOLEAN /\ applied \subseteq Files /\ effects \in [Files -> Nat]
      BY DEF MigrateInit
    <2>2. phase \in [Replicas -> Phases] /\ recorded \in [Replicas -> SUBSET Files]
      BY DEF MigrateInit, Phases
    <2>3. file \in [Replicas -> 1..(N + 1)] /\ faults \in 0..MaxFaults
      BY NAssumption, MaxFaultsAssumption DEF MigrateInit
    <2> QED BY <2>1, <2>2, <2>3 DEF MigrateTypeOK
  <1>2. AppliedExactlyOnce /\ AppliedInOrder
    BY DEF MigrateInit, AppliedExactlyOnce, AppliedInOrder
  <1>3. RowWhileOpen /\ KeysUnique
    BY DEF MigrateInit, RowWhileOpen, KeysUnique
  <1>4. LoopBehind
    BY DEF MigrateInit, LoopBehind, Files
  <1> QED BY <1>1, <1>2, <1>3, <1>4 DEF IInv

\* A step that commits nothing and inserts nothing: enough for most actions.
LEMMA QuietStep ==
  ASSUME IInv, NEW r \in Replicas,
         UNCHANGED <<applied, effects, recorded>>,
         table' \in BOOLEAN, faults' \in 0..MaxFaults,
         NEW loc \in Phases \ {"commit"}, phase[r] # "commit",
         phase' = [phase EXCEPT ![r] = loc],
         NEW pos \in 1..(N + 1), file' = [file EXCEPT ![r] = pos],
         \A g \in Files : g < pos => g \in applied,
         loc \in {"body", "record"} => pos \in Files,
         loc = "serving" => pos = N + 1
  PROVE  IInv'
  <1>1. MigrateTypeOK'
    BY DEF IInv, MigrateTypeOK
  <1>2. AppliedExactlyOnce' /\ AppliedInOrder'
    BY DEF IInv, AppliedExactlyOnce, AppliedInOrder
  <1>3. RowWhileOpen'
    BY DEF IInv, MigrateTypeOK, RowWhileOpen
  <1>4. KeysUnique'
    BY DEF IInv, KeysUnique
  <1>5. LoopBehind'
    BY DEF IInv, MigrateTypeOK, LoopBehind
  <1> QED BY <1>1, <1>2, <1>3, <1>4, <1>5 DEF IInv

\* A commit, heard or not: the row becomes visible with the body's effects.
LEMMA CommitStep ==
  ASSUME IInv, NEW r \in Replicas, Durable(r), UNCHANGED table, faults' \in 0..MaxFaults,
         \/ phase' = [phase EXCEPT ![r] = "check"] /\ file' = [file EXCEPT ![r] = @ + 1]
         \/ phase' = [phase EXCEPT ![r] = "down"] /\ UNCHANGED file
  PROVE  IInv'
  <1>1. file[r] \in Files /\ recorded[r] = {file[r]} /\ file[r] \notin applied
    BY DEF Durable, IInv, LoopBehind, RowWhileOpen, KeysUnique
  <1>2. applied' = applied \cup {file[r]}
    BY <1>1 DEF Durable
  <1>3. MigrateTypeOK'
    <2>1. applied' \subseteq Files /\ recorded' \in [Replicas -> SUBSET Files]
      BY <1>1, <1>2 DEF IInv, MigrateTypeOK, Durable
    <2>2. effects' \in [Files -> Nat]
      BY DEF IInv, MigrateTypeOK, Durable
    <2>3. phase' \in [Replicas -> Phases]
      BY DEF IInv, MigrateTypeOK, Phases
    <2>4. file[r] + 1 \in 1..(N + 1)
      BY <1>1, NAssumption DEF Files
    <2>5. file' \in [Replicas -> 1..(N + 1)]
      BY <2>4 DEF IInv, MigrateTypeOK
    <2> QED BY <2>1, <2>2, <2>3, <2>5 DEF IInv, MigrateTypeOK
  <1>4. AppliedExactlyOnce'
    BY <1>1, <1>2 DEF IInv, MigrateTypeOK, AppliedExactlyOnce, Durable
  <1>5. AppliedInOrder'
    BY <1>1, <1>2 DEF IInv, AppliedInOrder, LoopBehind
  <1>6. RowWhileOpen'
    BY <1>1 DEF IInv, MigrateTypeOK, RowWhileOpen, Durable
  <1>7. KeysUnique'
    BY <1>1, <1>2 DEF IInv, MigrateTypeOK, KeysUnique, Durable
  <1>8. LoopBehind'
    <2>1. \A g \in Files : g < file[r] + 1 => g \in applied'
      BY <1>1, <1>2, NAssumption DEF IInv, LoopBehind, Files
    <2>2. \A q \in Replicas : \A g \in Files : g < file'[q] => g \in applied'
      BY <1>2, <2>1 DEF IInv, MigrateTypeOK, LoopBehind
    <2>3. /\ phase'[r] \in {"check", "down"}
          /\ \A q \in Replicas \ {r} : phase'[q] = phase[q] /\ file'[q] = file[q]
      BY DEF IInv, MigrateTypeOK
    <2> QED BY <2>2, <2>3 DEF IInv, LoopBehind
  <1> QED BY <1>3, <1>4, <1>5, <1>6, <1>7, <1>8 DEF IInv

\* Every step preserves the inductive invariant.
LEMMA NextIInv == IInv /\ [MigrateNext]_migrateVars => IInv'
  <1> SUFFICES ASSUME IInv, [MigrateNext]_migrateVars PROVE IInv'
    OBVIOUS
  <1>1. CASE UNCHANGED migrateVars
    BY <1>1 DEF migrateVars, IInv, MigrateTypeOK, AppliedExactlyOnce, AppliedInOrder, RowWhileOpen,
               KeysUnique, LoopBehind
  <1>2. CASE MigrateNext
    <2> PICK r \in Replicas : ReplicaStep(r) \/ CommitUnheard(r) \/ Fail(r)
      BY <1>2 DEF MigrateNext
    <2>0. /\ file[r] \in 1..(N + 1) /\ file \in [Replicas -> 1..(N + 1)]
          /\ faults \in 0..MaxFaults /\ table \in BOOLEAN /\ file = [file EXCEPT ![r] = file[r]]
          /\ \A g \in Files : g < file[r] => g \in applied
      BY DEF IInv, MigrateTypeOK, LoopBehind
    <2>1. CASE CreateBegin(r)
      <3> DEFINE loc == IF table THEN "check" ELSE "creating"
      <3>1. loc \in Phases \ {"commit"}
        BY DEF Phases
      <3> QED BY <2>0, <2>1, <3>1, QuietStep DEF CreateBegin, Phases
    <2>2. CASE CreateEnd(r)
      <3> DEFINE loc == IF table THEN "down" ELSE "check"
      <3>1. loc \in Phases \ {"commit"}
        BY DEF Phases
      <3> QED BY <2>0, <2>2, <3>1, QuietStep DEF CreateEnd, Phases
    <2>3. CASE Check(r)
      <3>1. CASE file[r] \in applied
        <4> DEFINE pos == file[r] + 1
        <4>1. pos \in 1..(N + 1) /\ \A g \in Files : g < pos => g \in applied
          BY <2>0, <2>3, <3>1, NAssumption DEF Check, Files
        <4>2. phase' = [phase EXCEPT ![r] = "check"] /\ file' = [file EXCEPT ![r] = pos]
          BY <2>3, <3>1 DEF Check, IInv, MigrateTypeOK
        <4> QED BY <2>0, <2>3, <4>1, <4>2, QuietStep DEF Check, Phases
      <3>2. CASE file[r] \notin applied
        BY <2>0, <2>3, <3>2, QuietStep DEF Check, Phases
      <3> QED BY <3>1, <3>2
    <2>4. CASE Done(r)
      <3>1. "serving" \in Phases \ {"commit"}
        BY DEF Phases
      <3> QED BY <2>0, <2>4, <3>1, QuietStep DEF Done
    <2>5. CASE Body(r)
      <3>1. "record" \in Phases \ {"commit"}
        BY DEF Phases
      <3>2. file[r] \in Files
        BY <2>5 DEF Body, IInv, LoopBehind
      <3> QED BY <2>0, <2>5, <3>1, <3>2, QuietStep DEF Body
    <2>6. CASE Record(r)
      <3>1. CASE file[r] \in applied
        BY <2>0, <2>6, <3>1, QuietStep DEF Record, Phases
      <3>2. CASE file[r] \notin applied
        <4> USE <2>6, <3>2 DEF Record
        <4>1. file[r] \in Files
          BY DEF IInv, LoopBehind
        <4>2. MigrateTypeOK'
          BY <4>1 DEF IInv, MigrateTypeOK, Phases
        <4>3. AppliedExactlyOnce' /\ AppliedInOrder'
          BY DEF IInv, AppliedExactlyOnce, AppliedInOrder
        <4>4. RowWhileOpen'
          BY DEF IInv, MigrateTypeOK, RowWhileOpen
        <4>5. KeysUnique'
          BY <4>1 DEF IInv, MigrateTypeOK, KeysUnique, Unlocked
        <4>6. LoopBehind'
          BY <4>1 DEF IInv, MigrateTypeOK, LoopBehind
        <4> QED BY <4>2, <4>3, <4>4, <4>5, <4>6 DEF IInv
      <3> QED BY <3>1, <3>2
    <2>7. CASE Commit(r)
      BY <2>0, <2>7, CommitStep DEF Commit
    <2>8. CASE CommitUnheard(r)
      <3>1. faults' \in 0..MaxFaults
        BY <2>0, <2>8, MaxFaultsAssumption DEF CommitUnheard, Fault
      <3> QED BY <2>8, <3>1, CommitStep DEF CommitUnheard
    <2>9. CASE Fail(r)
      <3> USE <2>9 DEF Fail, Fault
      <3>1. MigrateTypeOK'
        BY MaxFaultsAssumption DEF IInv, MigrateTypeOK, Phases
      <3>2. AppliedExactlyOnce' /\ AppliedInOrder'
        BY DEF IInv, AppliedExactlyOnce, AppliedInOrder
      <3>3. RowWhileOpen'
        BY DEF IInv, MigrateTypeOK, RowWhileOpen
      <3>4. KeysUnique'
        BY DEF IInv, MigrateTypeOK, KeysUnique
      <3>5. LoopBehind'
        BY DEF IInv, MigrateTypeOK, LoopBehind
      <3> QED BY <3>1, <3>2, <3>3, <3>4, <3>5 DEF IInv
    <2>10. CASE Restart(r)
      <3>1. \A g \in Files : g < 1 => g \in applied
        BY DEF Files
      <3>2. "start" \in Phases \ {"commit"} /\ 1 \in 1..(N + 1)
        BY NAssumption DEF Phases
      <3> QED BY <2>0, <2>10, <3>1, <3>2, QuietStep DEF Restart
    <2> QED BY <2>1, <2>2, <2>3, <2>4, <2>5, <2>6, <2>7, <2>8, <2>9, <2>10 DEF ReplicaStep
  <1> QED BY <1>1, <1>2

\* The inductive invariant holds throughout.
THEOREM MigrationInvariance == MigrateSpec => []IInv
  <1>1. MigrateInit => IInv
    BY InitIInv
  <1>2. IInv /\ [MigrateNext]_migrateVars => IInv'
    BY NextIInv
  <1> QED BY <1>1, <1>2, PTL DEF MigrateSpec

\* Store.Migrate applies every file exactly once, for all replicas and faults.
THEOREM AppliedOnce == MigrateSpec => []AppliedExactlyOnce
  <1>1. IInv => AppliedExactlyOnce
    BY DEF IInv
  <1> QED BY <1>1, MigrationInvariance, PTL

\* Store.Migrate applies the files in filename order, and run() goes past it only
\* on a complete schema.
THEOREM InOrder == MigrateSpec => []MigratedInOrder
  <1>1. IInv => AppliedInOrder
    BY DEF IInv
  <1>2. IInv => ServesOnlyMigrated
    <2>1. \A g \in Files : g < N + 1
      BY NAssumption DEF Files
    <2> QED BY <2>1 DEF IInv, MigrateTypeOK, LoopBehind, ServesOnlyMigrated
  <1>3. IInv => MigratedInOrder
    BY <1>1, <1>2 DEF MigratedInOrder
  <1> QED BY <1>3, MigrationInvariance, PTL
=============================================================================
