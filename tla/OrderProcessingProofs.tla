----------------------- MODULE OrderProcessingProofs -----------------------
(***************************************************************************)
(* Proofs about OrderProcessing for every set of workers, orders and       *)
(* sessions, every batch size and every pattern of faults.                 *)
(*                                                                         *)
(* The inductive invariant IInv says, of every order, who may still act on *)
(* it and what its payment history is at that point.  ExclusiveCustody is  *)
(* not inductive by itself: that a claim takes a row nobody acts on needs  *)
(* the lock discipline (LockInv), that a reply reaches the worker that     *)
(* asked needs the matching of sessions and program counters (OwnerInv),   *)
(* and that a late insert does not bring an order back needs InsertInv.    *)
(***************************************************************************)
EXTENDS OrderProcessing, FiniteSetTheorems, TLAPS

\* The charges an order has when a statement is about to write `to'.
Expected(to) == IF to = "pending" THEN <<>> ELSE <<to>>

\* A waiting worker waits for the one statement it sent.
OwnerInv ==
    /\ \A s \in Sessions : stmt[s].kind = "free" => stmt[s] = Free
    /\ \A s \in Sessions : stmt[s].owner \in Workers =>
        \/ stmt[s].kind = "claim" /\ pc[stmt[s].owner] = "claimwait"
        \/ stmt[s].kind = "mark" /\ pc[stmt[s].owner] = "markwait"
    /\ \A s, r \in Sessions :
        stmt[s].owner \in Workers /\ stmt[s].owner = stmt[r].owner => s = r

\* An insert that has not run is the only one for its order, which has no row.
InsertInv ==
    /\ \A o \in Orders : req[o] = "unsent" => status[o] = "new"
    /\ \A s \in Sessions : stmt[s].kind = "insert" =>
        /\ stmt[s].to = "pending"
        /\ \A o \in stmt[s].rows : req[o] # "unsent"
        /\ stmt[s].phase = "sent" => \A o \in stmt[s].rows : status[o] = "new"
    /\ \A s, r \in Sessions :
        stmt[s].kind = "insert" /\ stmt[r].kind = "insert" /\ s # r
            => stmt[s].rows \cap stmt[r].rows = {}

\* Locked rows are pending and locked once.
LockInv ==
    /\ \A s \in Sessions : stmt[s].phase = "locked" =>
        stmt[s].kind = "claim" /\ \A o \in stmt[s].rows : status[o] = "pending"
    /\ \A s, r \in Sessions :
        stmt[s].phase = "locked" /\ stmt[r].phase = "locked" /\ s # r
            => stmt[s].rows \cap stmt[r].rows = {}

\* A worker has a current order exactly while processOne has one in scope.
WorkerInv ==
    \A w \in Workers :
        /\ pc[w] \in {"working", "marking"} => \E o \in Orders : cur[w] = {o}
        /\ pc[w] \notin {"working", "marking"} => cur[w] = {}
        /\ cur[w] \cap batch[w] = {}
        /\ pc[w] \notin {"batch", "working", "marking", "markwait"} => batch[w] = {}

MarkInv ==
    \A s \in Sessions :
        /\ stmt[s].kind = "mark" => stmt[s].to \in Targets
        /\ stmt[s].kind \in {"mark", "insert"} => \E o \in Orders : stmt[s].rows = {o}

\* The payment history that each place in the system implies.
ChargeInv ==
    /\ \A o \in Orders : status[o] \in {"new", "pending"} => charges[o] = <<>>
    /\ \A o \in Orders : status[o] \in Outcomes => charges[o] = <<status[o]>>
    /\ \A o \in Orders : charges[o] \in {<<>>, <<"paid">>, <<"failed">>}
    /\ \A w \in Workers : \A o \in batch[w] : charges[o] = <<>>
    /\ \A w \in Workers : \A o \in cur[w] :
        charges[o] = IF pc[w] = "working" THEN <<>> ELSE Expected(outcome[w])
    /\ \A s \in Sessions : \A o \in Carries(s) :
        charges[o] = IF stmt[s].kind = "mark" THEN Expected(stmt[s].to) ELSE <<>>

IInv ==
    /\ TypeOK
    /\ NeverConflict
    /\ ExclusiveCustody
    /\ OwnerInv
    /\ InsertInv
    /\ LockInv
    /\ WorkerInv
    /\ MarkInv
    /\ ChargeInv
-----------------------------------------------------------------------------
(* The helpers stay within their types. *)

(* Statements that are abandoned or finished are statements. *)
LEMMA StatementTypes ==
    ASSUME NEW s \in Sessions, TypeOK
    PROVE  /\ Free \in Statement
           /\ Abandon(stmt[s]) \in Statement
           /\ \A phase \in {"committed", "conflict", "aborted"} : Finish(s, phase) \in Statement
<1>1. Free \in Statement
  BY DEF Free, Statement, Statuses
<1>2. \A r \in Sessions : stmt[r] \in Statement
  BY DEF TypeOK
<1>3. \A r \in Sessions : Abandon(stmt[r]) \in Statement
  BY <1>1, <1>2 DEF Abandon, Statement
<1>4. \A phase \in {"committed", "conflict", "aborted"} : Finish(s, phase) \in Statement
  BY <1>1, <1>2 DEF Finish, Statement
<1> QED
  BY <1>1, <1>3, <1>4

(* Giving up on a statement leaves statements. *)
LEMMA DisownType ==
    ASSUME NEW w \in Workers, TypeOK
    PROVE  Disown(w) \in [Sessions -> Statement]
<1> SUFFICES ASSUME NEW s \in Sessions
             PROVE  (IF stmt[s].owner = w THEN Abandon(stmt[s]) ELSE stmt[s]) \in Statement
  BY DEF Disown
<1>1. stmt[s] \in Statement
  BY DEF TypeOK
<1> QED
  BY <1>1, StatementTypes

(* Faults stay within their bound. *)
LEMMA FaultType ==
    ASSUME NEW kind, TypeOK, Fault(kind)
    PROVE  faults' \in 0..MaxFaults
  BY MaxFaultsAssumption DEF TypeOK, Fault

(* A statement that is sent is a statement. *)
LEMMA QueryType ==
    ASSUME NEW kind \in {"insert", "claim", "mark"}, NEW rows \in SUBSET Orders,
           NEW to \in Statuses, NEW owner \in Workers \cup {"api"}
    PROVE  Query(kind, rows, to, owner) \in Statement
  BY DEF Query, Statement

(* A claim with its locks is a statement. *)
LEMMA LockedType ==
    ASSUME NEW q \in Statement, NEW rows \in SUBSET Orders
    PROVE  [q EXCEPT !.phase = "locked", !.rows = rows] \in Statement
<1>1. [q EXCEPT !.phase = "locked"] \in Statement
  BY DEF Statement
<1> QED
  BY <1>1 DEF Statement

(* A ledger with one more increment is a ledger. *)
LEMMA BumpType ==
    ASSUME NEW ledger \in [Orders -> [Transitions -> Nat]], NEW os, NEW t \in Transitions
    PROVE  Bump(ledger, os, t) \in [Orders -> [Transitions -> Nat]]
<1> SUFFICES ASSUME NEW o \in Orders
             PROVE  [ledger[o] EXCEPT ![t] = @ + 1] \in [Transitions -> Nat]
  BY DEF Bump
<1> QED
  OBVIOUS

(* Every action keeps the types. *)
LEMMA TypeOKStep == TypeOK /\ MarkInv /\ OwnerInv /\ [Next]_vars => TypeOK'
<1> SUFFICES ASSUME TypeOK, MarkInv, OwnerInv, [Next]_vars PROVE TypeOK'
  OBVIOUS
<1> USE MaxFaultsAssumption
<1>1. ASSUME NEW o \in Orders, NEW s \in Sessions, Handler(o, s) PROVE TypeOK'
  <2>1. CASE SendInsert(o, s)
    <3>1. Query("insert", {o}, "pending", "api") \in Statement
      BY QueryType DEF Statuses
    <3>2. stmt' \in [Sessions -> Statement]
      BY <3>1, <2>1 DEF TypeOK, SendInsert
    <3> QED
      BY <2>1, <3>1, <3>2 DEF SendInsert, TypeOK, dbVars, workerVars, Outcomes, Statuses,
         Targets, Transitions, Requests, Locations, RunStates
  <2>2. CASE InsertReply(o, s)
    <3>1. stmt' \in [Sessions -> Statement]
      BY StatementTypes, <2>2 DEF TypeOK, InsertReply
    <3>2. counted' \in [Orders -> [Transitions -> Nat]]
      BY BumpType, <2>2 DEF TypeOK, InsertReply, Transitions
    <3> QED
      BY <2>2, <3>1, <3>2 DEF InsertReply, TypeOK, dbVars, workerVars, Outcomes, Statuses,
         Targets, Transitions, Requests, Locations, RunStates
  <2>3. CASE InsertAbandoned(o, s)
    <3>1. stmt' \in [Sessions -> Statement]
      BY StatementTypes, <2>3 DEF TypeOK, InsertAbandoned
    <3>2. faults' \in 0..MaxFaults
      BY FaultType, <2>3 DEF InsertAbandoned
    <3> QED
      BY <2>3, <3>1, <3>2 DEF InsertAbandoned, TypeOK, dbVars, workerVars, Outcomes, Statuses,
         Targets, Transitions, Requests, Locations, RunStates
  <2> QED
    BY <1>1, <2>1, <2>2, <2>3 DEF Handler
<1>2. ASSUME NEW s \in Sessions, Server(s) PROVE TypeOK'
  <2>1. CASE ClaimLock(s)
    <3>1. Oldest(Claimable, BatchSize) \subseteq Orders
      BY DEF Oldest, Claimable
    <3>2. [stmt[s] EXCEPT !.phase = "locked", !.rows = Oldest(Claimable, BatchSize)] \in Statement
      BY <3>1, LockedType DEF TypeOK
    <3>3. stmt' \in [Sessions -> Statement]
      BY <3>1, <3>2, <2>1 DEF TypeOK, ClaimLock
    <3> QED
      BY <2>1, <3>1, <3>2, <3>3 DEF ClaimLock, TypeOK, dbVars, workerVars, Outcomes, Statuses,
         Targets, Transitions, Requests, Locations, RunStates
  <2>2. CASE ClaimCommit(s)
    <3>1. stmt' \in [Sessions -> Statement]
      BY StatementTypes, <2>2 DEF TypeOK, ClaimCommit
    <3>2. happened' \in [Orders -> [Transitions -> Nat]]
      BY BumpType, <2>2 DEF TypeOK, ClaimCommit, Transitions
    <3> QED
      BY <2>2, <3>1, <3>2 DEF ClaimCommit, TypeOK, dbVars, workerVars, Outcomes, Statuses,
         Targets, Transitions, Requests, Locations, RunStates
  <2>3. CASE MarkCommit(s)
    <3>1. stmt' \in [Sessions -> Statement]
      BY StatementTypes, <2>3 DEF TypeOK, MarkCommit
    <3>2. stmt[s].to \in Targets
      BY <2>3 DEF MarkInv, MarkCommit
    <3>3. happened' \in [Orders -> [Transitions -> Nat]]
      BY <3>2, BumpType, <2>3 DEF TypeOK, MarkCommit, Transition, Transitions, Targets
    <3> QED
      BY <2>3, <3>1, <3>2, <3>3 DEF MarkCommit, TypeOK, dbVars, workerVars, Outcomes, Statuses,
         Targets, Transitions, Requests, Locations, RunStates
  <2>4. CASE InsertCommit(s)
    <3>1. stmt' \in [Sessions -> Statement]
      BY StatementTypes, <2>4 DEF TypeOK, InsertCommit
    <3>2. happened' \in [Orders -> [Transitions -> Nat]]
      BY BumpType, <2>4 DEF TypeOK, InsertCommit, Transitions
    <3>3. stmt[s].to \in Statuses
      BY DEF TypeOK, Statement
    <3> QED
      BY <2>4, <3>1, <3>2, <3>3 DEF InsertCommit, TypeOK, dbVars, workerVars, Outcomes,
         Statuses, Targets, Transitions, Requests, Locations, RunStates
  <2>5. CASE Abort(s)
    <3>1. stmt' \in [Sessions -> Statement]
      BY StatementTypes, <2>5 DEF TypeOK, Abort
    <3>2. faults' \in 0..MaxFaults
      BY FaultType, <2>5 DEF Abort, TypeOK
    <3> QED
      BY <2>5, <3>1, <3>2 DEF Abort, TypeOK, dbVars, workerVars, Outcomes, Statuses, Targets,
         Transitions, Requests, Locations, RunStates
  <2> QED
    BY <1>2, <2>1, <2>2, <2>3, <2>4, <2>5 DEF Server
<1>3. ASSUME NEW w \in Workers, WorkerStep(w) PROVE TypeOK'
  <2>1. CASE Tick(w)
    BY <2>1 DEF Tick, TypeOK, dbVars, workerVars, Outcomes, Statuses, Targets, Transitions,
       Requests, Locations, RunStates
  <2>2. CASE Stop(w)
    BY <2>2 DEF Stop, TypeOK, dbVars, workerVars, Outcomes, Statuses, Targets, Transitions,
       Requests, Locations, RunStates
  <2>3. CASE ClaimError(w)
    <3>1. stmt' \in [Sessions -> Statement]
      BY DisownType, <2>3 DEF TypeOK, ClaimError
    <3>2. faults' \in 0..MaxFaults
      BY FaultType, <2>3 DEF ClaimError, TypeOK
    <3> QED
      BY <2>3, <3>1, <3>2 DEF ClaimError, TypeOK, dbVars, workerVars, Outcomes, Statuses,
         Targets, Transitions, Requests, Locations, RunStates
  <2>4. CASE EndRun(w)
    BY <2>4 DEF EndRun, TypeOK, dbVars, workerVars, Outcomes, Statuses, Targets, Transitions,
       Requests, Locations, RunStates
  <2>5. CASE Interrupt(w)
    <3>1. StatusToWrite(w, "pending", TRUE) \in Targets
      BY DEF StatusToWrite, Targets, Outcomes
    <3> QED
      BY <2>5, <3>1 DEF Interrupt, TypeOK, dbVars, workerVars, Outcomes, Statuses, Targets,
         Transitions, Requests, Locations, RunStates
  <2>6. ASSUME NEW o \in Orders, Begin(w, o) PROVE TypeOK'
    BY <2>6 DEF Begin, TypeOK, dbVars, workerVars, Outcomes, Statuses, Targets, Transitions,
       Requests, Locations, RunStates
  <2>7. ASSUME NEW result \in Outcomes, Charge(w, result) PROVE TypeOK'
    <3>1. StatusToWrite(w, result, FALSE) \in Targets
      BY DEF StatusToWrite, Targets
    <3>2. charges' \in [Orders -> Seq(Outcomes)]
      BY <2>7 DEF TypeOK, Charge
    <3> QED
      BY <2>7, <3>1, <3>2 DEF Charge, TypeOK, dbVars, workerVars, Outcomes, Statuses, Targets,
         Transitions, Requests, Locations, RunStates
  <2>8. ASSUME NEW s \in Sessions, SendClaim(w, s) PROVE TypeOK'
    <3>1. Query("claim", {}, "processing", w) \in Statement
      BY QueryType DEF Statuses
    <3>2. stmt' \in [Sessions -> Statement]
      BY <3>1, <2>8 DEF TypeOK, SendClaim
    <3> QED
      BY <2>8, <3>1, <3>2 DEF SendClaim, TypeOK, dbVars, workerVars, Outcomes, Statuses,
         Targets, Transitions, Requests, Locations, RunStates
  <2>9. ASSUME NEW s \in Sessions, ClaimReply(w, s) PROVE TypeOK'
    <3>1. pc' \in [Workers -> Locations] /\ run' \in [Workers -> RunStates]
      BY <2>9 DEF TypeOK, ClaimReply, Locations, RunStates
    <3>2. stmt[s].rows \subseteq Orders
      BY DEF TypeOK, Statement
    <3>3. stmt' \in [Sessions -> Statement]
      BY StatementTypes, <2>9 DEF TypeOK, ClaimReply
    <3>4. counted' \in [Orders -> [Transitions -> Nat]]
      BY BumpType, <2>9 DEF TypeOK, ClaimReply, Transitions
    <3> QED
      BY <2>9, <3>1, <3>2, <3>3, <3>4 DEF ClaimReply, TypeOK, dbVars, workerVars, Outcomes,
         Statuses, Targets, Transitions, Requests, Locations, RunStates
  <2>10. ASSUME NEW s \in Sessions, SendMark(w, s) PROVE TypeOK'
    <3>1. Query("mark", cur[w], outcome[w], w) \in Statement
      BY QueryType DEF TypeOK, Targets, Statuses, Outcomes
    <3>2. stmt' \in [Sessions -> Statement]
      BY <3>1, <2>10 DEF TypeOK, SendMark
    <3> QED
      BY <2>10, <3>1, <3>2 DEF SendMark, TypeOK, dbVars, workerVars, Outcomes, Statuses,
         Targets, Transitions, Requests, Locations, RunStates
  <2>11. ASSUME NEW s \in Sessions, MarkReply(w, s) PROVE TypeOK'
    <3>1. stmt' \in [Sessions -> Statement]
      BY StatementTypes, <2>11 DEF TypeOK, MarkReply
    <3>2. Counts(stmt[s].phase) => stmt[s].to \in Targets
      BY <2>11 DEF MarkInv, OwnerInv, MarkReply, TypeOK, Statement
    <3>3. counted' \in [Orders -> [Transitions -> Nat]]
      BY <3>2, BumpType, <2>11 DEF TypeOK, MarkReply, Transition, Transitions, Targets
    <3> QED
      BY <2>11, <3>1, <3>2, <3>3 DEF MarkReply, TypeOK, dbVars, workerVars, Outcomes, Statuses,
         Targets, Transitions, Requests, Locations, RunStates
  <2> QED
    BY <1>3, <2>1, <2>2, <2>3, <2>4, <2>5, <2>6, <2>7, <2>8, <2>9, <2>10, <2>11 DEF WorkerStep
<1>4. ASSUME NEW w \in Workers, WorkerFault(w) PROVE TypeOK'
  <2>1. CASE BatchPanic(w)
    <3>1. stmt' \in [Sessions -> Statement]
      BY DisownType, <2>1 DEF TypeOK, BatchPanic
    <3>2. faults' \in 0..MaxFaults
      BY FaultType, <2>1 DEF BatchPanic
    <3> QED
      BY <2>1, <3>1, <3>2 DEF BatchPanic, TypeOK, dbVars, workerVars, Outcomes, Statuses,
         Targets, Transitions, Requests, Locations, RunStates
  <2>2. CASE ProcessPanic(w)
    <3>1. faults' \in 0..MaxFaults
      BY FaultType, <2>2 DEF ProcessPanic
    <3> QED
      BY <2>2, <3>1 DEF ProcessPanic, TypeOK, dbVars, workerVars, Outcomes, Statuses, Targets,
         Transitions, Requests, Locations, RunStates
  <2>3. CASE MarkTimeout(w)
    <3>1. stmt' \in [Sessions -> Statement]
      BY DisownType, <2>3 DEF TypeOK, MarkTimeout
    <3> QED
      BY <2>3, <3>1 DEF MarkTimeout, TypeOK, dbVars, workerVars, Outcomes, Statuses, Targets,
         Transitions, Requests, Locations, RunStates
  <2>4. CASE Shutdown(w)
    <3>1. faults' \in 0..MaxFaults
      BY FaultType, <2>4 DEF Shutdown
    <3> QED
      BY <2>4, <3>1 DEF Shutdown, TypeOK, dbVars, workerVars, Outcomes, Statuses, Targets,
         Transitions, Requests, Locations, RunStates
  <2>5. CASE Crash(w)
    <3>1. stmt' \in [Sessions -> Statement]
      BY DisownType, <2>5 DEF TypeOK, Crash
    <3>2. faults' \in 0..MaxFaults
      BY FaultType, <2>5 DEF Crash
    <3> QED
      BY <2>5, <3>1, <3>2 DEF Crash, TypeOK, dbVars, workerVars, Outcomes, Statuses, Targets,
         Transitions, Requests, Locations, RunStates
  <2> QED
    BY <1>4, <2>1, <2>2, <2>3, <2>4, <2>5 DEF WorkerFault
<1>5. ASSUME NEW w \in Workers, Restart(w) PROVE TypeOK'
  BY <1>5 DEF Restart, TypeOK, dbVars, workerVars, Outcomes, Statuses, Targets, Transitions,
     Requests, Locations, RunStates
<1>6. CASE UNCHANGED vars
  BY <1>6 DEF vars, dbVars, workerVars, workerVars, TypeOK
<1> QED
  BY <1>1, <1>2, <1>3, <1>4, <1>5, <1>6 DEF Next

-----------------------------------------------------------------------------
(* What each way of changing the statements means, session by session. *)

(* The fields of a free session. *)
LEMMA FreeFields ==
    /\ Free.kind = "free" /\ Free.phase = "sent" /\ Free.rows = {}
    /\ Free.to = "new" /\ Free.owner = "gone" /\ Free.owner \notin Workers
  BY OwnersAssumption DEF Free

\* Session r keeps its statement but for the owner, who is gone, and the phase.
SameQuery(r) ==
    stmt'[r].kind = stmt[r].kind /\ stmt'[r].rows = stmt[r].rows /\ stmt'[r].to = stmt[r].to

\* The statement of r runs on with nobody waiting for it.
RunsOn(r) ==
    /\ SameQuery(r) /\ stmt'[r].phase = stmt[r].phase
    /\ stmt[r].phase \in {"sent", "locked"} /\ stmt'[r].owner = "gone"

\* A worker that stops waiting: each of its statements is forgotten or runs on.
LEMMA DisownSteps ==
    ASSUME NEW w \in Workers, TypeOK, stmt' = Disown(w)
    PROVE  \A r \in Sessions :
             \/ stmt[r].owner # w /\ stmt'[r] = stmt[r]
             \/ stmt[r].owner = w /\ (stmt'[r] = Free \/ RunsOn(r))
<1> SUFFICES ASSUME NEW r \in Sessions, stmt[r].owner = w
             PROVE  stmt'[r] = Free \/ RunsOn(r)
  BY DEF Disown
<1>1. stmt[r] \in Statement
  BY DEF TypeOK
<1>2. stmt'[r] = Abandon(stmt[r])
  BY DEF Disown
<1> QED
  BY <1>1, <1>2 DEF Abandon, RunsOn, SameQuery, Statement

\* A request that stops waiting, likewise.
LEMMA AbandonSteps ==
    ASSUME NEW s \in Sessions, TypeOK, stmt' = [stmt EXCEPT ![s] = Abandon(@)]
    PROVE  /\ \A r \in Sessions \ {s} : stmt'[r] = stmt[r]
           /\ stmt'[s] = Free \/ RunsOn(s)
<1>1. stmt[s] \in Statement /\ stmt'[s] = Abandon(stmt[s])
  BY DEF TypeOK
<1>2. stmt'[s] = Free \/ RunsOn(s)
  BY <1>1 DEF Abandon, RunsOn, SameQuery, Statement
<1> QED
  BY <1>2 DEF TypeOK

\* A server that finishes a statement frees the session or leaves a reply in it.
LEMMA FinishSteps ==
    ASSUME NEW s \in Sessions, NEW phase, TypeOK, stmt' = [stmt EXCEPT ![s] = Finish(s, phase)]
    PROVE  /\ \A r \in Sessions \ {s} : stmt'[r] = stmt[r]
           /\ \/ stmt'[s] = Free
              \/ SameQuery(s) /\ stmt'[s].phase = phase /\ stmt'[s].owner = stmt[s].owner
<1>1. stmt[s] \in Statement /\ stmt'[s] = Finish(s, phase)
  BY DEF TypeOK
<1>2. \/ stmt'[s] = Free
      \/ SameQuery(s) /\ stmt'[s].phase = phase /\ stmt'[s].owner = stmt[s].owner
  BY <1>1 DEF Finish, SameQuery, Statement
<1> QED
  BY <1>2 DEF TypeOK

\* Nothing that is said of running statements and replies depends on who waits.
LEMMA DisownKeeps ==
    ASSUME NEW w \in Workers, TypeOK, stmt' = Disown(w), status' = status, req' = req
    PROVE  /\ InsertInv => InsertInv'
           /\ LockInv => LockInv'
           /\ MarkInv => MarkInv'
           /\ NeverConflict => NeverConflict'
           /\ \A r \in Sessions : Carries(r)' \subseteq Carries(r)
<1>1. \A r \in Sessions : stmt'[r] = stmt[r] \/ stmt'[r] = Free \/ RunsOn(r)
  BY DisownSteps
<1>2. InsertInv => InsertInv'
  BY <1>1, FreeFields DEF InsertInv, RunsOn, SameQuery
<1>3. LockInv => LockInv'
  BY <1>1, FreeFields DEF LockInv, RunsOn, SameQuery
<1>4. MarkInv => MarkInv'
  BY <1>1, FreeFields DEF MarkInv, RunsOn, SameQuery
<1>5. NeverConflict => NeverConflict'
  BY <1>1, FreeFields DEF NeverConflict, RunsOn, SameQuery
<1>6. \A r \in Sessions : Carries(r)' \subseteq Carries(r)
  BY <1>1, FreeFields DEF Carries, RunsOn, SameQuery
<1> QED
  BY <1>2, <1>3, <1>4, <1>5, <1>6

(* No step makes a worker wait for a statement it did not send, or for two. *)
LEMMA OwnerInvStep == TypeOK /\ OwnerInv /\ [Next]_vars => OwnerInv'
<1> SUFFICES ASSUME TypeOK, OwnerInv, [Next]_vars PROVE OwnerInv'
  OBVIOUS
<1> USE OwnersAssumption
<1>1. ASSUME NEW o \in Orders, NEW s \in Sessions, Handler(o, s) PROVE OwnerInv'
  <2>1. CASE SendInsert(o, s)
    BY <2>1 DEF SendInsert, dbVars, workerVars, Query, Free, OwnerInv, TypeOK, Statement
  <2>2. CASE InsertReply(o, s)
    BY <2>2 DEF InsertReply, dbVars, workerVars, Free, OwnerInv, TypeOK, Statement
  <2>3. CASE InsertAbandoned(o, s)
    <3>1. /\ \A r \in Sessions \ {s} : stmt'[r] = stmt[r]
          /\ stmt'[s] = Free \/ RunsOn(s)
      BY <2>3, AbandonSteps DEF InsertAbandoned
    <3> QED
      BY <2>3, <3>1, FreeFields
         DEF InsertAbandoned, OwnerInv, RunsOn, SameQuery, workerVars, TypeOK
  <2> QED
    BY <1>1, <2>1, <2>2, <2>3 DEF Handler
<1>2. ASSUME NEW s \in Sessions, Server(s) PROVE OwnerInv'
  <2>1. CASE ClaimLock(s)
    BY <2>1 DEF ClaimLock, dbVars, workerVars, OwnerInv, TypeOK, Statement
  <2>2. CASE ClaimCommit(s)
    <3>1. /\ \A r \in Sessions \ {s} : stmt'[r] = stmt[r]
          /\ \/ stmt'[s] = Free
             \/ SameQuery(s) /\ stmt'[s].phase \in {"committed"} /\ stmt'[s].owner = stmt[s].owner
      BY <2>2, FinishSteps DEF ClaimCommit
    <3> QED
      BY <2>2, <3>1, FreeFields DEF ClaimCommit, OwnerInv, SameQuery, workerVars, TypeOK
  <2>3. CASE MarkCommit(s)
    <3>1. /\ \A r \in Sessions \ {s} : stmt'[r] = stmt[r]
          /\ \/ stmt'[s] = Free
             \/ SameQuery(s) /\ stmt'[s].owner = stmt[s].owner
                /\ stmt'[s].phase \in {"committed", "conflict"}
      BY <2>3, FinishSteps DEF MarkCommit
    <3> QED
      BY <2>3, <3>1, FreeFields DEF MarkCommit, OwnerInv, SameQuery, workerVars, TypeOK
  <2>4. CASE InsertCommit(s)
    <3>1. /\ \A r \in Sessions \ {s} : stmt'[r] = stmt[r]
          /\ \/ stmt'[s] = Free
             \/ SameQuery(s) /\ stmt'[s].phase \in {"committed"} /\ stmt'[s].owner = stmt[s].owner
      BY <2>4, FinishSteps DEF InsertCommit
    <3> QED
      BY <2>4, <3>1, FreeFields DEF InsertCommit, OwnerInv, SameQuery, workerVars, TypeOK
  <2>5. CASE Abort(s)
    <3>1. /\ \A r \in Sessions \ {s} : stmt'[r] = stmt[r]
          /\ \/ stmt'[s] = Free
             \/ SameQuery(s) /\ stmt'[s].phase \in {"aborted"} /\ stmt'[s].owner = stmt[s].owner
      BY <2>5, FinishSteps DEF Abort
    <3> QED
      BY <2>5, <3>1, FreeFields DEF Abort, OwnerInv, SameQuery, workerVars, TypeOK
  <2> QED
    BY <1>2, <2>1, <2>2, <2>3, <2>4, <2>5 DEF Server
<1>3. ASSUME NEW w \in Workers, WorkerStep(w) PROVE OwnerInv'
  <2>1. CASE Tick(w)
    BY <2>1 DEF Tick, dbVars, workerVars, OwnerInv, TypeOK, Statement
  <2>2. CASE Stop(w)
    BY <2>2 DEF Stop, dbVars, workerVars, OwnerInv, TypeOK, Statement
  <2>3. CASE ClaimError(w)
    <3>1. \A r \in Sessions :
            \/ stmt[r].owner # w /\ stmt'[r] = stmt[r]
            \/ stmt[r].owner = w /\ (stmt'[r] = Free \/ RunsOn(r))
      BY <2>3, DisownSteps DEF ClaimError
    <3>2. \A v \in Workers \ {w} : pc'[v] = pc[v]
      BY <2>3 DEF ClaimError, TypeOK
    <3> QED
      BY <3>1, <3>2, FreeFields DEF OwnerInv, RunsOn, SameQuery
  <2>4. CASE EndRun(w)
    BY <2>4 DEF EndRun, dbVars, workerVars, OwnerInv, TypeOK, Statement
  <2>5. CASE Interrupt(w)
    BY <2>5 DEF Interrupt, dbVars, workerVars, OwnerInv, TypeOK, Statement
  <2>6. ASSUME NEW o \in Orders, Begin(w, o) PROVE OwnerInv'
    BY <2>6 DEF Begin, dbVars, workerVars, OwnerInv, TypeOK, Statement
  <2>7. ASSUME NEW result \in Outcomes, Charge(w, result) PROVE OwnerInv'
    BY <2>7 DEF Charge, dbVars, workerVars, OwnerInv, TypeOK, Statement
  <2>8. ASSUME NEW s \in Sessions, SendClaim(w, s) PROVE OwnerInv'
    BY <2>8 DEF SendClaim, dbVars, workerVars, Query, Free, OwnerInv, TypeOK, Statement
  <2>9. ASSUME NEW s \in Sessions, ClaimReply(w, s) PROVE OwnerInv'
    <3>1. /\ \A r \in Sessions \ {s} : stmt'[r] = stmt[r]
          /\ stmt'[s] = Free
      BY <2>9 DEF ClaimReply, TypeOK
    <3>2. \A v \in Workers \ {w} : pc'[v] = pc[v]
      BY <2>9 DEF ClaimReply, TypeOK
    <3>3. \A r \in Sessions : stmt[r].owner = w => r = s
      BY <2>9 DEF ClaimReply, OwnerInv
    <3> QED
      BY <3>1, <3>2, <3>3, FreeFields DEF OwnerInv
  <2>10. ASSUME NEW s \in Sessions, SendMark(w, s) PROVE OwnerInv'
    BY <2>10 DEF SendMark, dbVars, workerVars, Query, Free, OwnerInv, TypeOK, Statement
  <2>11. ASSUME NEW s \in Sessions, MarkReply(w, s) PROVE OwnerInv'
    BY <2>11 DEF MarkReply, dbVars, workerVars, Free, OwnerInv, TypeOK, Statement
  <2> QED
    BY <1>3, <2>1, <2>2, <2>3, <2>4, <2>5, <2>6, <2>7, <2>8, <2>9, <2>10, <2>11 DEF WorkerStep
<1>4. ASSUME NEW w \in Workers, WorkerFault(w) PROVE OwnerInv'
  <2>1. CASE BatchPanic(w)
    <3>1. \A r \in Sessions :
            \/ stmt[r].owner # w /\ stmt'[r] = stmt[r]
            \/ stmt[r].owner = w /\ (stmt'[r] = Free \/ RunsOn(r))
      BY <2>1, DisownSteps DEF BatchPanic
    <3>2. \A v \in Workers \ {w} : pc'[v] = pc[v]
      BY <2>1 DEF BatchPanic, TypeOK
    <3> QED
      BY <3>1, <3>2, FreeFields DEF OwnerInv, RunsOn, SameQuery
  <2>2. CASE ProcessPanic(w)
    BY <2>2 DEF ProcessPanic, dbVars, workerVars, OwnerInv, TypeOK, Statement
  <2>3. CASE MarkTimeout(w)
    <3>1. \A r \in Sessions :
            \/ stmt[r].owner # w /\ stmt'[r] = stmt[r]
            \/ stmt[r].owner = w /\ (stmt'[r] = Free \/ RunsOn(r))
      BY <2>3, DisownSteps DEF MarkTimeout
    <3>2. \A v \in Workers \ {w} : pc'[v] = pc[v]
      BY <2>3 DEF MarkTimeout, TypeOK
    <3> QED
      BY <3>1, <3>2, FreeFields DEF OwnerInv, RunsOn, SameQuery
  <2>4. CASE Shutdown(w)
    BY <2>4 DEF Shutdown, dbVars, workerVars, OwnerInv, TypeOK, Statement
  <2>5. CASE Crash(w)
    <3>1. \A r \in Sessions :
            \/ stmt[r].owner # w /\ stmt'[r] = stmt[r]
            \/ stmt[r].owner = w /\ (stmt'[r] = Free \/ RunsOn(r))
      BY <2>5, DisownSteps DEF Crash
    <3>2. \A v \in Workers \ {w} : pc'[v] = pc[v]
      BY <2>5 DEF Crash, TypeOK
    <3> QED
      BY <3>1, <3>2, FreeFields DEF OwnerInv, RunsOn, SameQuery
  <2> QED
    BY <1>4, <2>1, <2>2, <2>3, <2>4, <2>5 DEF WorkerFault
<1>5. ASSUME NEW w \in Workers, Restart(w) PROVE OwnerInv'
  BY <1>5 DEF Restart, dbVars, workerVars, OwnerInv, TypeOK, Statement
<1>6. CASE UNCHANGED vars
  BY <1>6 DEF vars, dbVars, workerVars, OwnerInv, TypeOK, Statement
<1> QED
  BY <1>1, <1>2, <1>3, <1>4, <1>5, <1>6 DEF Next

(* No step gives an order a second insert or an insert a row that exists. *)
LEMMA InsertInvStep ==
    TypeOK /\ LockInv /\ MarkInv /\ InsertInv /\ [Next]_vars
        => InsertInv'
<1> SUFFICES ASSUME TypeOK, LockInv, MarkInv, InsertInv, [Next]_vars PROVE InsertInv'
  OBVIOUS
<1>1. ASSUME NEW o \in Orders, NEW s \in Sessions, Handler(o, s) PROVE InsertInv'
  <2>1. CASE SendInsert(o, s)
    BY <2>1 DEF SendInsert, dbVars, workerVars, Query, Free, InsertInv, TypeOK, Statement
  <2>2. CASE InsertReply(o, s)
    BY <2>2 DEF InsertReply, dbVars, workerVars, Free, InsertInv, TypeOK, Statement
  <2>3. CASE InsertAbandoned(o, s)
    <3>1. /\ \A r \in Sessions \ {s} : stmt'[r] = stmt[r]
          /\ stmt'[s] = Free \/ RunsOn(s)
      BY <2>3, AbandonSteps DEF InsertAbandoned
    <3> QED
      BY <2>3, <3>1, FreeFields
         DEF InsertAbandoned, InsertInv, RunsOn, SameQuery, workerVars, TypeOK
  <2> QED
    BY <1>1, <2>1, <2>2, <2>3 DEF Handler
<1>2. ASSUME NEW s \in Sessions, Server(s) PROVE InsertInv'
  <2>1. CASE ClaimLock(s)
    BY <2>1 DEF ClaimLock, dbVars, workerVars, InsertInv, TypeOK, Statement
  <2>2. CASE ClaimCommit(s)
    <3>1. /\ \A r \in Sessions \ {s} : stmt'[r] = stmt[r]
          /\ \/ stmt'[s] = Free
             \/ SameQuery(s) /\ stmt'[s].phase \in {"committed"} /\ stmt'[s].owner = stmt[s].owner
      BY <2>2, FinishSteps DEF ClaimCommit
    <3>2. \A o \in Orders : status[o] = "new" => status'[o] = "new"
      BY <2>2 DEF ClaimCommit, LockInv, TypeOK, Statement, Targets, Outcomes
    <3>3. req' = req
      BY <2>2 DEF ClaimCommit
    <3>4. \A r \in Sessions : stmt[r].rows \subseteq Orders
      BY DEF TypeOK, Statement
    <3> QED
      BY <3>1, <3>2, <3>3, <3>4, FreeFields DEF InsertInv, SameQuery
  <2>3. CASE MarkCommit(s)
    <3>1. /\ \A r \in Sessions \ {s} : stmt'[r] = stmt[r]
          /\ \/ stmt'[s] = Free
             \/ SameQuery(s) /\ stmt'[s].owner = stmt[s].owner
                /\ stmt'[s].phase \in {"committed", "conflict"}
      BY <2>3, FinishSteps DEF MarkCommit
    <3>2. \A o \in Orders : status[o] = "new" => status'[o] = "new"
      BY <2>3 DEF MarkCommit, MarkInv, TypeOK, Statement, Targets, Outcomes
    <3>3. req' = req
      BY <2>3 DEF MarkCommit
    <3>4. \A r \in Sessions : stmt[r].rows \subseteq Orders
      BY DEF TypeOK, Statement
    <3> QED
      BY <3>1, <3>2, <3>3, <3>4, FreeFields DEF InsertInv, SameQuery
  <2>4. CASE InsertCommit(s)
    <3>1. /\ \A r \in Sessions \ {s} : stmt'[r] = stmt[r]
          /\ \/ stmt'[s] = Free
             \/ SameQuery(s) /\ stmt'[s].phase \in {"committed"} /\ stmt'[s].owner = stmt[s].owner
      BY <2>4, FinishSteps DEF InsertCommit
    <3>2. \A o \in Orders : o \notin stmt[s].rows => status'[o] = status[o]
      BY <2>4 DEF InsertCommit
    <3>3. req' = req /\ stmt[s].kind = "insert"
      BY <2>4 DEF InsertCommit
    <3>4. \A r \in Sessions : stmt[r].rows \subseteq Orders
      BY DEF TypeOK, Statement
    <3> QED
      BY <3>1, <3>2, <3>3, <3>4, FreeFields DEF InsertInv, SameQuery
  <2>5. CASE Abort(s)
    <3>1. /\ \A r \in Sessions \ {s} : stmt'[r] = stmt[r]
          /\ \/ stmt'[s] = Free
             \/ SameQuery(s) /\ stmt'[s].phase \in {"aborted"} /\ stmt'[s].owner = stmt[s].owner
      BY <2>5, FinishSteps DEF Abort
    <3> QED
      BY <2>5, <3>1, FreeFields DEF Abort, InsertInv, SameQuery, workerVars, TypeOK
  <2> QED
    BY <1>2, <2>1, <2>2, <2>3, <2>4, <2>5 DEF Server
<1>3. ASSUME NEW w \in Workers, WorkerStep(w) PROVE InsertInv'
  <2>1. CASE Tick(w)
    BY <2>1 DEF Tick, dbVars, workerVars, InsertInv, TypeOK, Statement
  <2>2. CASE Stop(w)
    BY <2>2 DEF Stop, dbVars, workerVars, InsertInv, TypeOK, Statement
  <2>3. CASE ClaimError(w)
    BY <2>3, DisownKeeps DEF ClaimError
  <2>4. CASE EndRun(w)
    BY <2>4 DEF EndRun, dbVars, workerVars, InsertInv, TypeOK, Statement
  <2>5. CASE Interrupt(w)
    BY <2>5 DEF Interrupt, dbVars, workerVars, InsertInv, TypeOK, Statement
  <2>6. ASSUME NEW o \in Orders, Begin(w, o) PROVE InsertInv'
    BY <2>6 DEF Begin, dbVars, workerVars, InsertInv, TypeOK, Statement
  <2>7. ASSUME NEW result \in Outcomes, Charge(w, result) PROVE InsertInv'
    BY <2>7 DEF Charge, dbVars, workerVars, InsertInv, TypeOK, Statement
  <2>8. ASSUME NEW s \in Sessions, SendClaim(w, s) PROVE InsertInv'
    BY <2>8 DEF SendClaim, dbVars, workerVars, Query, Free, InsertInv, TypeOK, Statement
  <2>9. ASSUME NEW s \in Sessions, ClaimReply(w, s) PROVE InsertInv'
    BY <2>9 DEF ClaimReply, dbVars, workerVars, Free, InsertInv, TypeOK, Statement
  <2>10. ASSUME NEW s \in Sessions, SendMark(w, s) PROVE InsertInv'
    BY <2>10 DEF SendMark, dbVars, workerVars, Query, Free, InsertInv, TypeOK, Statement
  <2>11. ASSUME NEW s \in Sessions, MarkReply(w, s) PROVE InsertInv'
    BY <2>11 DEF MarkReply, dbVars, workerVars, Free, InsertInv, TypeOK, Statement
  <2> QED
    BY <1>3, <2>1, <2>2, <2>3, <2>4, <2>5, <2>6, <2>7, <2>8, <2>9, <2>10, <2>11 DEF WorkerStep
<1>4. ASSUME NEW w \in Workers, WorkerFault(w) PROVE InsertInv'
  <2>1. CASE BatchPanic(w)
    BY <2>1, DisownKeeps DEF BatchPanic
  <2>2. CASE ProcessPanic(w)
    BY <2>2 DEF ProcessPanic, dbVars, workerVars, InsertInv, TypeOK, Statement
  <2>3. CASE MarkTimeout(w)
    BY <2>3, DisownKeeps DEF MarkTimeout
  <2>4. CASE Shutdown(w)
    BY <2>4 DEF Shutdown, dbVars, workerVars, InsertInv, TypeOK, Statement
  <2>5. CASE Crash(w)
    BY <2>5, DisownKeeps DEF Crash
  <2> QED
    BY <1>4, <2>1, <2>2, <2>3, <2>4, <2>5 DEF WorkerFault
<1>5. ASSUME NEW w \in Workers, Restart(w) PROVE InsertInv'
  BY <1>5 DEF Restart, dbVars, workerVars, InsertInv, TypeOK, Statement
<1>6. CASE UNCHANGED vars
  BY <1>6 DEF vars, dbVars, workerVars, InsertInv, TypeOK, Statement
<1> QED
  BY <1>1, <1>2, <1>3, <1>4, <1>5, <1>6 DEF Next

(* SKIP LOCKED: no step locks a row twice or moves a row that is locked. *)
LEMMA LockInvStep == TypeOK /\ InsertInv /\ LockInv /\ [Next]_vars => LockInv'
<1> SUFFICES ASSUME TypeOK, InsertInv, LockInv, [Next]_vars PROVE LockInv'
  OBVIOUS
<1>1. ASSUME NEW o \in Orders, NEW s \in Sessions, Handler(o, s) PROVE LockInv'
  <2>1. CASE SendInsert(o, s)
    BY <2>1 DEF SendInsert, dbVars, workerVars, Query, Free, LockInv, TypeOK, Statement
  <2>2. CASE InsertReply(o, s)
    BY <2>2 DEF InsertReply, dbVars, workerVars, Free, LockInv, TypeOK, Statement
  <2>3. CASE InsertAbandoned(o, s)
    <3>1. /\ \A r \in Sessions \ {s} : stmt'[r] = stmt[r]
          /\ stmt'[s] = Free \/ RunsOn(s)
      BY <2>3, AbandonSteps DEF InsertAbandoned
    <3> QED
      BY <2>3, <3>1, FreeFields
         DEF InsertAbandoned, LockInv, RunsOn, SameQuery, workerVars, TypeOK
  <2> QED
    BY <1>1, <2>1, <2>2, <2>3 DEF Handler
<1>2. ASSUME NEW s \in Sessions, Server(s) PROVE LockInv'
  <2>1. CASE ClaimLock(s)
    <3>1. \A o \in Oldest(Claimable, BatchSize) :
            status[o] = "pending" /\ \A r \in Sessions : stmt[r].phase = "locked" => o \notin stmt[r].rows
      BY DEF Oldest, Claimable, Locked
    <3>2. /\ \A r \in Sessions \ {s} : stmt'[r] = stmt[r]
          /\ stmt'[s].kind = "claim" /\ stmt'[s].rows = Oldest(Claimable, BatchSize)
      BY <2>1 DEF ClaimLock, TypeOK, Statement
    <3>3. status' = status
      BY <2>1 DEF ClaimLock
    <3> QED
      BY <3>1, <3>2, <3>3 DEF LockInv
  <2>2. CASE ClaimCommit(s)
    <3>1. /\ \A r \in Sessions \ {s} : stmt'[r] = stmt[r]
          /\ \/ stmt'[s] = Free
             \/ SameQuery(s) /\ stmt'[s].phase \in {"committed"} /\ stmt'[s].owner = stmt[s].owner
      BY <2>2, FinishSteps DEF ClaimCommit
    <3>2. \A o \in Orders : status[o] = "pending" /\ o \notin stmt[s].rows => status'[o] = "pending"
      BY <2>2 DEF ClaimCommit, TypeOK, Statement
    <3>3. \A r \in Sessions : stmt[r].rows \subseteq Orders
      BY DEF TypeOK, Statement
    <3>4. stmt[s].phase = "locked"
      BY <2>2 DEF ClaimCommit, LockInv
    <3> QED
      BY <3>1, <3>2, <3>3, <3>4, FreeFields DEF LockInv, SameQuery
  <2>3. CASE MarkCommit(s)
    <3>1. /\ \A r \in Sessions \ {s} : stmt'[r] = stmt[r]
          /\ \/ stmt'[s] = Free
             \/ SameQuery(s) /\ stmt'[s].owner = stmt[s].owner
                /\ stmt'[s].phase \in {"committed", "conflict"}
      BY <2>3, FinishSteps DEF MarkCommit
    <3>2. \A o \in Orders : status[o] = "pending" => status'[o] = "pending"
      BY <2>3 DEF MarkCommit, TypeOK, Statement
    <3>3. \A r \in Sessions : stmt[r].rows \subseteq Orders
      BY DEF TypeOK, Statement
    <3>4. stmt[s].phase # "locked"
      BY <2>3 DEF MarkCommit, LockInv
    <3> QED
      BY <3>1, <3>2, <3>3, <3>4, FreeFields DEF LockInv, SameQuery
  <2>4. CASE InsertCommit(s)
    <3>1. /\ \A r \in Sessions \ {s} : stmt'[r] = stmt[r]
          /\ \/ stmt'[s] = Free
             \/ SameQuery(s) /\ stmt'[s].phase \in {"committed"} /\ stmt'[s].owner = stmt[s].owner
      BY <2>4, FinishSteps DEF InsertCommit
    <3>2. \A o \in Orders : status[o] = "pending" => status'[o] = "pending"
      BY <2>4 DEF InsertCommit, InsertInv, TypeOK, Statement
    <3>3. \A r \in Sessions : stmt[r].rows \subseteq Orders
      BY DEF TypeOK, Statement
    <3>4. stmt[s].phase # "locked"
      BY <2>4 DEF InsertCommit, LockInv
    <3> QED
      BY <3>1, <3>2, <3>3, <3>4, FreeFields DEF LockInv, SameQuery
  <2>5. CASE Abort(s)
    <3>1. /\ \A r \in Sessions \ {s} : stmt'[r] = stmt[r]
          /\ \/ stmt'[s] = Free
             \/ SameQuery(s) /\ stmt'[s].phase \in {"aborted"} /\ stmt'[s].owner = stmt[s].owner
      BY <2>5, FinishSteps DEF Abort
    <3> QED
      BY <2>5, <3>1, FreeFields DEF Abort, LockInv, SameQuery, workerVars, TypeOK
  <2> QED
    BY <1>2, <2>1, <2>2, <2>3, <2>4, <2>5 DEF Server
<1>3. ASSUME NEW w \in Workers, WorkerStep(w) PROVE LockInv'
  <2>1. CASE Tick(w)
    BY <2>1 DEF Tick, dbVars, workerVars, LockInv, TypeOK, Statement
  <2>2. CASE Stop(w)
    BY <2>2 DEF Stop, dbVars, workerVars, LockInv, TypeOK, Statement
  <2>3. CASE ClaimError(w)
    BY <2>3, DisownKeeps DEF ClaimError
  <2>4. CASE EndRun(w)
    BY <2>4 DEF EndRun, dbVars, workerVars, LockInv, TypeOK, Statement
  <2>5. CASE Interrupt(w)
    BY <2>5 DEF Interrupt, dbVars, workerVars, LockInv, TypeOK, Statement
  <2>6. ASSUME NEW o \in Orders, Begin(w, o) PROVE LockInv'
    BY <2>6 DEF Begin, dbVars, workerVars, LockInv, TypeOK, Statement
  <2>7. ASSUME NEW result \in Outcomes, Charge(w, result) PROVE LockInv'
    BY <2>7 DEF Charge, dbVars, workerVars, LockInv, TypeOK, Statement
  <2>8. ASSUME NEW s \in Sessions, SendClaim(w, s) PROVE LockInv'
    BY <2>8 DEF SendClaim, dbVars, workerVars, Query, Free, LockInv, TypeOK, Statement
  <2>9. ASSUME NEW s \in Sessions, ClaimReply(w, s) PROVE LockInv'
    BY <2>9 DEF ClaimReply, dbVars, workerVars, Free, LockInv, TypeOK, Statement
  <2>10. ASSUME NEW s \in Sessions, SendMark(w, s) PROVE LockInv'
    BY <2>10 DEF SendMark, dbVars, workerVars, Query, Free, LockInv, TypeOK, Statement
  <2>11. ASSUME NEW s \in Sessions, MarkReply(w, s) PROVE LockInv'
    BY <2>11 DEF MarkReply, dbVars, workerVars, Free, LockInv, TypeOK, Statement
  <2> QED
    BY <1>3, <2>1, <2>2, <2>3, <2>4, <2>5, <2>6, <2>7, <2>8, <2>9, <2>10, <2>11 DEF WorkerStep
<1>4. ASSUME NEW w \in Workers, WorkerFault(w) PROVE LockInv'
  <2>1. CASE BatchPanic(w)
    BY <2>1, DisownKeeps DEF BatchPanic
  <2>2. CASE ProcessPanic(w)
    BY <2>2 DEF ProcessPanic, dbVars, workerVars, LockInv, TypeOK, Statement
  <2>3. CASE MarkTimeout(w)
    BY <2>3, DisownKeeps DEF MarkTimeout
  <2>4. CASE Shutdown(w)
    BY <2>4 DEF Shutdown, dbVars, workerVars, LockInv, TypeOK, Statement
  <2>5. CASE Crash(w)
    BY <2>5, DisownKeeps DEF Crash
  <2> QED
    BY <1>4, <2>1, <2>2, <2>3, <2>4, <2>5 DEF WorkerFault
<1>5. ASSUME NEW w \in Workers, Restart(w) PROVE LockInv'
  BY <1>5 DEF Restart, dbVars, workerVars, LockInv, TypeOK, Statement
<1>6. CASE UNCHANGED vars
  BY <1>6 DEF vars, dbVars, workerVars, LockInv, TypeOK, Statement
<1> QED
  BY <1>1, <1>2, <1>3, <1>4, <1>5, <1>6 DEF Next

(* Marks and inserts stay statements about one order. *)
LEMMA MarkInvStep == TypeOK /\ WorkerInv /\ MarkInv /\ [Next]_vars => MarkInv'
<1> SUFFICES ASSUME TypeOK, WorkerInv, MarkInv, [Next]_vars PROVE MarkInv'
  OBVIOUS
<1>1. ASSUME NEW o \in Orders, NEW s \in Sessions, Handler(o, s) PROVE MarkInv'
  <2>1. CASE SendInsert(o, s)
    BY <2>1 DEF SendInsert, dbVars, workerVars, Query, Free, MarkInv, TypeOK, Statement
  <2>2. CASE InsertReply(o, s)
    BY <2>2 DEF InsertReply, dbVars, workerVars, Free, MarkInv, TypeOK, Statement
  <2>3. CASE InsertAbandoned(o, s)
    <3>1. /\ \A r \in Sessions \ {s} : stmt'[r] = stmt[r]
          /\ stmt'[s] = Free \/ RunsOn(s)
      BY <2>3, AbandonSteps DEF InsertAbandoned
    <3> QED
      BY <2>3, <3>1, FreeFields DEF InsertAbandoned, MarkInv, RunsOn, SameQuery
  <2> QED
    BY <1>1, <2>1, <2>2, <2>3 DEF Handler
<1>2. ASSUME NEW s \in Sessions, Server(s) PROVE MarkInv'
  <2>1. CASE ClaimLock(s)
    BY <2>1 DEF ClaimLock, dbVars, workerVars, MarkInv, TypeOK, Statement
  <2>2. CASE ClaimCommit(s)
    <3>1. /\ \A r \in Sessions \ {s} : stmt'[r] = stmt[r]
          /\ \/ stmt'[s] = Free
             \/ SameQuery(s) /\ stmt'[s].phase \in {"committed"} /\ stmt'[s].owner = stmt[s].owner
      BY <2>2, FinishSteps DEF ClaimCommit
    <3> QED
      BY <2>2, <3>1, FreeFields DEF ClaimCommit, MarkInv, SameQuery
  <2>3. CASE MarkCommit(s)
    <3>1. /\ \A r \in Sessions \ {s} : stmt'[r] = stmt[r]
          /\ \/ stmt'[s] = Free
             \/ SameQuery(s) /\ stmt'[s].owner = stmt[s].owner
                /\ stmt'[s].phase \in {"committed", "conflict"}
      BY <2>3, FinishSteps DEF MarkCommit
    <3> QED
      BY <2>3, <3>1, FreeFields DEF MarkCommit, MarkInv, SameQuery
  <2>4. CASE InsertCommit(s)
    <3>1. /\ \A r \in Sessions \ {s} : stmt'[r] = stmt[r]
          /\ \/ stmt'[s] = Free
             \/ SameQuery(s) /\ stmt'[s].phase \in {"committed"} /\ stmt'[s].owner = stmt[s].owner
      BY <2>4, FinishSteps DEF InsertCommit
    <3> QED
      BY <2>4, <3>1, FreeFields DEF InsertCommit, MarkInv, SameQuery
  <2>5. CASE Abort(s)
    <3>1. /\ \A r \in Sessions \ {s} : stmt'[r] = stmt[r]
          /\ \/ stmt'[s] = Free
             \/ SameQuery(s) /\ stmt'[s].phase \in {"aborted"} /\ stmt'[s].owner = stmt[s].owner
      BY <2>5, FinishSteps DEF Abort
    <3> QED
      BY <2>5, <3>1, FreeFields DEF Abort, MarkInv, SameQuery
  <2> QED
    BY <1>2, <2>1, <2>2, <2>3, <2>4, <2>5 DEF Server
<1>3. ASSUME NEW w \in Workers, WorkerStep(w) PROVE MarkInv'
  <2>1. CASE Tick(w)
    BY <2>1 DEF Tick, dbVars, workerVars, MarkInv, TypeOK, Statement
  <2>2. CASE Stop(w)
    BY <2>2 DEF Stop, dbVars, workerVars, MarkInv, TypeOK, Statement
  <2>3. CASE ClaimError(w)
    BY <2>3, DisownKeeps DEF ClaimError
  <2>4. CASE EndRun(w)
    BY <2>4 DEF EndRun, dbVars, workerVars, MarkInv, TypeOK, Statement
  <2>5. CASE Interrupt(w)
    BY <2>5 DEF Interrupt, dbVars, workerVars, MarkInv, TypeOK, Statement
  <2>6. ASSUME NEW o \in Orders, Begin(w, o) PROVE MarkInv'
    BY <2>6 DEF Begin, dbVars, workerVars, MarkInv, TypeOK, Statement
  <2>7. ASSUME NEW result \in Outcomes, Charge(w, result) PROVE MarkInv'
    BY <2>7 DEF Charge, dbVars, workerVars, MarkInv, TypeOK, Statement
  <2>8. ASSUME NEW s \in Sessions, SendClaim(w, s) PROVE MarkInv'
    BY <2>8 DEF SendClaim, dbVars, workerVars, Query, Free, MarkInv, TypeOK, Statement
  <2>9. ASSUME NEW s \in Sessions, ClaimReply(w, s) PROVE MarkInv'
    BY <2>9 DEF ClaimReply, dbVars, workerVars, Free, MarkInv, TypeOK, Statement
  <2>10. ASSUME NEW s \in Sessions, SendMark(w, s) PROVE MarkInv'
    <3>1. cur[w] \subseteq Orders /\ outcome[w] \in Targets /\ \E o \in Orders : cur[w] = {o}
      BY <2>10 DEF SendMark, TypeOK, WorkerInv
    <3>2. /\ \A r \in Sessions \ {s} : stmt'[r] = stmt[r]
          /\ stmt'[s].kind = "mark" /\ stmt'[s].rows = cur[w] /\ stmt'[s].to = outcome[w]
      BY <2>10 DEF SendMark, Query, TypeOK
    <3> QED
      BY <3>1, <3>2 DEF MarkInv
  <2>11. ASSUME NEW s \in Sessions, MarkReply(w, s) PROVE MarkInv'
    BY <2>11 DEF MarkReply, dbVars, workerVars, Free, MarkInv, TypeOK, Statement
  <2> QED
    BY <1>3, <2>1, <2>2, <2>3, <2>4, <2>5, <2>6, <2>7, <2>8, <2>9, <2>10, <2>11 DEF WorkerStep
<1>4. ASSUME NEW w \in Workers, WorkerFault(w) PROVE MarkInv'
  <2>1. CASE BatchPanic(w)
    BY <2>1, DisownKeeps DEF BatchPanic
  <2>2. CASE ProcessPanic(w)
    BY <2>2 DEF ProcessPanic, dbVars, workerVars, MarkInv, TypeOK, Statement
  <2>3. CASE MarkTimeout(w)
    BY <2>3, DisownKeeps DEF MarkTimeout
  <2>4. CASE Shutdown(w)
    BY <2>4 DEF Shutdown, dbVars, workerVars, MarkInv, TypeOK, Statement
  <2>5. CASE Crash(w)
    BY <2>5, DisownKeeps DEF Crash
  <2> QED
    BY <1>4, <2>1, <2>2, <2>3, <2>4, <2>5 DEF WorkerFault
<1>5. ASSUME NEW w \in Workers, Restart(w) PROVE MarkInv'
  BY <1>5 DEF Restart, dbVars, workerVars, MarkInv, TypeOK, Statement
<1>6. CASE UNCHANGED vars
  BY <1>6 DEF vars, dbVars, workerVars, MarkInv, TypeOK, Statement
<1> QED
  BY <1>1, <1>2, <1>3, <1>4, <1>5, <1>6 DEF Next

(* The update of MarkOrder always finds its order still processing. *)
LEMMA NeverConflictStep ==
    TypeOK /\ MarkInv /\ ExclusiveCustody /\ NeverConflict /\ [Next]_vars
        => NeverConflict'
<1> SUFFICES ASSUME TypeOK, MarkInv, ExclusiveCustody, NeverConflict,
                    [Next]_vars
             PROVE  NeverConflict'
  OBVIOUS
<1>1. ASSUME NEW o \in Orders, NEW s \in Sessions, Handler(o, s) PROVE NeverConflict'
  <2>1. CASE SendInsert(o, s)
    BY <2>1 DEF SendInsert, dbVars, workerVars, Query, Free, NeverConflict, TypeOK, Statement
  <2>2. CASE InsertReply(o, s)
    BY <2>2 DEF InsertReply, dbVars, workerVars, Free, NeverConflict, TypeOK, Statement
  <2>3. CASE InsertAbandoned(o, s)
    <3>1. /\ \A r \in Sessions \ {s} : stmt'[r] = stmt[r]
          /\ stmt'[s] = Free \/ RunsOn(s)
      BY <2>3, AbandonSteps DEF InsertAbandoned
    <3> QED
      BY <2>3, <3>1, FreeFields DEF InsertAbandoned, NeverConflict, RunsOn, SameQuery
  <2> QED
    BY <1>1, <2>1, <2>2, <2>3 DEF Handler
<1>2. ASSUME NEW s \in Sessions, Server(s) PROVE NeverConflict'
  <2>1. CASE ClaimLock(s)
    BY <2>1 DEF ClaimLock, dbVars, workerVars, NeverConflict, TypeOK, Statement
  <2>2. CASE ClaimCommit(s)
    <3>1. /\ \A r \in Sessions \ {s} : stmt'[r] = stmt[r]
          /\ \/ stmt'[s] = Free
             \/ SameQuery(s) /\ stmt'[s].phase \in {"committed"} /\ stmt'[s].owner = stmt[s].owner
      BY <2>2, FinishSteps DEF ClaimCommit
    <3> QED
      BY <2>2, <3>1, FreeFields DEF ClaimCommit, NeverConflict, SameQuery
  <2>3. CASE MarkCommit(s)
    <3>1. PICK o \in Orders : stmt[s].rows = {o}
      BY <2>3 DEF MarkCommit, MarkInv
    <3>2. Carries(s) = {o} /\ status[o] = "processing"
      BY <2>3, <3>1 DEF MarkCommit, Carries, ExclusiveCustody
    <3>3. stmt' = [stmt EXCEPT ![s] = Finish(s, "committed")]
      BY <2>3, <3>1, <3>2 DEF MarkCommit
    <3>4. /\ \A r \in Sessions \ {s} : stmt'[r] = stmt[r]
          /\ stmt'[s] = Free \/ stmt'[s].phase = "committed"
      BY <3>3, FinishSteps
    <3> QED
      BY <3>4, FreeFields DEF NeverConflict
  <2>4. CASE InsertCommit(s)
    <3>1. /\ \A r \in Sessions \ {s} : stmt'[r] = stmt[r]
          /\ \/ stmt'[s] = Free
             \/ SameQuery(s) /\ stmt'[s].phase \in {"committed"} /\ stmt'[s].owner = stmt[s].owner
      BY <2>4, FinishSteps DEF InsertCommit
    <3> QED
      BY <2>4, <3>1, FreeFields DEF InsertCommit, NeverConflict, SameQuery
  <2>5. CASE Abort(s)
    <3>1. /\ \A r \in Sessions \ {s} : stmt'[r] = stmt[r]
          /\ \/ stmt'[s] = Free
             \/ SameQuery(s) /\ stmt'[s].phase \in {"aborted"} /\ stmt'[s].owner = stmt[s].owner
      BY <2>5, FinishSteps DEF Abort
    <3> QED
      BY <2>5, <3>1, FreeFields DEF Abort, NeverConflict, SameQuery
  <2> QED
    BY <1>2, <2>1, <2>2, <2>3, <2>4, <2>5 DEF Server
<1>3. ASSUME NEW w \in Workers, WorkerStep(w) PROVE NeverConflict'
  <2>1. CASE Tick(w)
    BY <2>1 DEF Tick, dbVars, workerVars, NeverConflict, TypeOK, Statement
  <2>2. CASE Stop(w)
    BY <2>2 DEF Stop, dbVars, workerVars, NeverConflict, TypeOK, Statement
  <2>3. CASE ClaimError(w)
    BY <2>3, DisownKeeps DEF ClaimError
  <2>4. CASE EndRun(w)
    BY <2>4 DEF EndRun, dbVars, workerVars, NeverConflict, TypeOK, Statement
  <2>5. CASE Interrupt(w)
    BY <2>5 DEF Interrupt, dbVars, workerVars, NeverConflict, TypeOK, Statement
  <2>6. ASSUME NEW o \in Orders, Begin(w, o) PROVE NeverConflict'
    BY <2>6 DEF Begin, dbVars, workerVars, NeverConflict, TypeOK, Statement
  <2>7. ASSUME NEW result \in Outcomes, Charge(w, result) PROVE NeverConflict'
    BY <2>7 DEF Charge, dbVars, workerVars, NeverConflict, TypeOK, Statement
  <2>8. ASSUME NEW s \in Sessions, SendClaim(w, s) PROVE NeverConflict'
    BY <2>8 DEF SendClaim, dbVars, workerVars, Query, Free, NeverConflict, TypeOK, Statement
  <2>9. ASSUME NEW s \in Sessions, ClaimReply(w, s) PROVE NeverConflict'
    BY <2>9 DEF ClaimReply, dbVars, workerVars, Free, NeverConflict, TypeOK, Statement
  <2>10. ASSUME NEW s \in Sessions, SendMark(w, s) PROVE NeverConflict'
    BY <2>10 DEF SendMark, dbVars, workerVars, Query, Free, NeverConflict, TypeOK, Statement
  <2>11. ASSUME NEW s \in Sessions, MarkReply(w, s) PROVE NeverConflict'
    BY <2>11 DEF MarkReply, dbVars, workerVars, Free, NeverConflict, TypeOK, Statement
  <2> QED
    BY <1>3, <2>1, <2>2, <2>3, <2>4, <2>5, <2>6, <2>7, <2>8, <2>9, <2>10, <2>11 DEF WorkerStep
<1>4. ASSUME NEW w \in Workers, WorkerFault(w) PROVE NeverConflict'
  <2>1. CASE BatchPanic(w)
    BY <2>1, DisownKeeps DEF BatchPanic
  <2>2. CASE ProcessPanic(w)
    BY <2>2 DEF ProcessPanic, dbVars, workerVars, NeverConflict, TypeOK, Statement
  <2>3. CASE MarkTimeout(w)
    BY <2>3, DisownKeeps DEF MarkTimeout
  <2>4. CASE Shutdown(w)
    BY <2>4 DEF Shutdown, dbVars, workerVars, NeverConflict, TypeOK, Statement
  <2>5. CASE Crash(w)
    BY <2>5, DisownKeeps DEF Crash
  <2> QED
    BY <1>4, <2>1, <2>2, <2>3, <2>4, <2>5 DEF WorkerFault
<1>5. ASSUME NEW w \in Workers, Restart(w) PROVE NeverConflict'
  BY <1>5 DEF Restart, dbVars, workerVars, NeverConflict, TypeOK, Statement
<1>6. CASE UNCHANGED vars
  BY <1>6 DEF vars, dbVars, workerVars, NeverConflict, TypeOK, Statement
<1> QED
  BY <1>1, <1>2, <1>3, <1>4, <1>5, <1>6 DEF Next

(* runOnce and processOne keep their local variables in step with the pc. *)
LEMMA WorkerInvStep == TypeOK /\ WorkerInv /\ [Next]_vars => WorkerInv'
<1> SUFFICES ASSUME TypeOK, WorkerInv, [Next]_vars PROVE WorkerInv'
  OBVIOUS
<1>1. ASSUME NEW o \in Orders, NEW s \in Sessions, Handler(o, s) PROVE WorkerInv'
  <2>1. CASE SendInsert(o, s)
    BY <2>1 DEF SendInsert, dbVars, workerVars, Query, Free, WorkerInv, TypeOK
  <2>2. CASE InsertReply(o, s)
    BY <2>2 DEF InsertReply, dbVars, workerVars, Free, WorkerInv, TypeOK
  <2>3. CASE InsertAbandoned(o, s)
    BY <2>3 DEF InsertAbandoned, dbVars, workerVars, WorkerInv, TypeOK
  <2> QED
    BY <1>1, <2>1, <2>2, <2>3 DEF Handler
<1>2. ASSUME NEW s \in Sessions, Server(s) PROVE WorkerInv'
  <2>1. CASE ClaimLock(s)
    BY <2>1 DEF ClaimLock, dbVars, workerVars, WorkerInv, TypeOK
  <2>2. CASE ClaimCommit(s)
    BY <2>2 DEF ClaimCommit, dbVars, workerVars, WorkerInv, TypeOK
  <2>3. CASE MarkCommit(s)
    BY <2>3 DEF MarkCommit, dbVars, workerVars, WorkerInv, TypeOK
  <2>4. CASE InsertCommit(s)
    BY <2>4 DEF InsertCommit, dbVars, workerVars, WorkerInv, TypeOK
  <2>5. CASE Abort(s)
    BY <2>5 DEF Abort, dbVars, workerVars, WorkerInv, TypeOK
  <2> QED
    BY <1>2, <2>1, <2>2, <2>3, <2>4, <2>5 DEF Server
<1>3. ASSUME NEW w \in Workers, WorkerStep(w) PROVE WorkerInv'
  <2>1. CASE Tick(w)
    BY <2>1 DEF Tick, dbVars, workerVars, WorkerInv, TypeOK
  <2>2. CASE Stop(w)
    BY <2>2 DEF Stop, dbVars, workerVars, WorkerInv, TypeOK
  <2>3. CASE ClaimError(w)
    BY <2>3 DEF ClaimError, dbVars, workerVars, ClaimInterrupted, WorkerInv, TypeOK
  <2>4. CASE EndRun(w)
    BY <2>4 DEF EndRun, dbVars, workerVars, WorkerInv, TypeOK
  <2>5. CASE Interrupt(w)
    BY <2>5 DEF Interrupt, dbVars, workerVars, WorkerInv, TypeOK
  <2>6. ASSUME NEW o \in Orders, Begin(w, o) PROVE WorkerInv'
    BY <2>6 DEF Begin, dbVars, workerVars, WorkerInv, TypeOK
  <2>7. ASSUME NEW result \in Outcomes, Charge(w, result) PROVE WorkerInv'
    BY <2>7 DEF Charge, dbVars, workerVars, WorkerInv, TypeOK
  <2>8. ASSUME NEW s \in Sessions, SendClaim(w, s) PROVE WorkerInv'
    BY <2>8 DEF SendClaim, dbVars, workerVars, Query, Free, WorkerInv, TypeOK
  <2>9. ASSUME NEW s \in Sessions, ClaimReply(w, s) PROVE WorkerInv'
    BY <2>9 DEF ClaimReply, dbVars, workerVars, Free, WorkerInv, TypeOK
  <2>10. ASSUME NEW s \in Sessions, SendMark(w, s) PROVE WorkerInv'
    BY <2>10 DEF SendMark, dbVars, workerVars, Query, Free, WorkerInv, TypeOK
  <2>11. ASSUME NEW s \in Sessions, MarkReply(w, s) PROVE WorkerInv'
    BY <2>11 DEF MarkReply, dbVars, workerVars, Free, WorkerInv, TypeOK
  <2> QED
    BY <1>3, <2>1, <2>2, <2>3, <2>4, <2>5, <2>6, <2>7, <2>8, <2>9, <2>10, <2>11 DEF WorkerStep
<1>4. ASSUME NEW w \in Workers, WorkerFault(w) PROVE WorkerInv'
  <2>1. CASE BatchPanic(w)
    BY <2>1 DEF BatchPanic, dbVars, workerVars, WorkerInv, TypeOK
  <2>2. CASE ProcessPanic(w)
    BY <2>2 DEF ProcessPanic, dbVars, workerVars, WorkerInv, TypeOK
  <2>3. CASE MarkTimeout(w)
    BY <2>3 DEF MarkTimeout, dbVars, workerVars, WorkerInv, TypeOK
  <2>4. CASE Shutdown(w)
    BY <2>4 DEF Shutdown, dbVars, workerVars, WorkerInv, TypeOK
  <2>5. CASE Crash(w)
    BY <2>5 DEF Crash, dbVars, workerVars, WorkerInv, TypeOK
  <2> QED
    BY <1>4, <2>1, <2>2, <2>3, <2>4, <2>5 DEF WorkerFault
<1>5. ASSUME NEW w \in Workers, Restart(w) PROVE WorkerInv'
  BY <1>5 DEF Restart, dbVars, workerVars, WorkerInv, TypeOK
<1>6. CASE UNCHANGED vars
  BY <1>6 DEF vars, dbVars, workerVars, WorkerInv, TypeOK
<1> QED
  BY <1>1, <1>2, <1>3, <1>4, <1>5, <1>6 DEF Next

\* Custody that only shrinks stays exclusive.
LEMMA CustodyShrinks ==
    ASSUME ExclusiveCustody,
           \A v \in Workers : Holds(v)' \subseteq Holds(v),
           \A r \in Sessions : Carries(r)' \subseteq Carries(r),
           \A v \in Workers : \A o \in Holds(v)' : status'[o] = status[o],
           \A r \in Sessions : \A o \in Carries(r)' : status'[o] = status[o]
    PROVE  ExclusiveCustody'
  BY DEF ExclusiveCustody

(* Custody passes from claim to worker to mark and is never shared. *)
LEMMA CustodyStep ==
    TypeOK /\ OwnerInv /\ InsertInv /\ LockInv /\ WorkerInv /\ ExclusiveCustody /\ [Next]_vars
        => ExclusiveCustody'
<1> SUFFICES ASSUME TypeOK, OwnerInv, InsertInv, LockInv, WorkerInv, ExclusiveCustody,
                    [Next]_vars
             PROVE  ExclusiveCustody'
  OBVIOUS
<1>1. ASSUME NEW o \in Orders, NEW s \in Sessions, Handler(o, s) PROVE ExclusiveCustody'
  <2>1. CASE SendInsert(o, s)
    <3>2. \A v \in Workers : Holds(v)' \subseteq Holds(v)
      BY <2>1 DEF SendInsert, Holds, TypeOK, workerVars
    <3>3. \A r \in Sessions : Carries(r)' \subseteq Carries(r)
      BY <2>1, FreeFields DEF SendInsert, Carries, TypeOK, dbVars, Query, Free
    <3> QED
      BY <2>1, <3>2, <3>3, CustodyShrinks DEF SendInsert, dbVars
  <2>2. CASE InsertReply(o, s)
    <3>2. \A v \in Workers : Holds(v)' \subseteq Holds(v)
      BY <2>2 DEF InsertReply, Holds, TypeOK, workerVars
    <3>3. \A r \in Sessions : Carries(r)' \subseteq Carries(r)
      BY <2>2, FreeFields DEF InsertReply, Carries, TypeOK, dbVars, Free
    <3> QED
      BY <2>2, <3>2, <3>3, CustodyShrinks DEF InsertReply, dbVars
  <2>3. CASE InsertAbandoned(o, s)
    <3>1. /\ \A r \in Sessions \ {s} : stmt'[r] = stmt[r]
          /\ stmt'[s] = Free \/ RunsOn(s)
      BY <2>3, AbandonSteps DEF InsertAbandoned
    <3>2. \A r \in Sessions : Carries(r)' \subseteq Carries(r)
      BY <3>1, FreeFields DEF Carries, RunsOn, SameQuery
    <3> QED
      BY <2>3, <3>2, CustodyShrinks DEF InsertAbandoned, Holds, workerVars
  <2> QED
    BY <1>1, <2>1, <2>2, <2>3 DEF Handler
<1>2. ASSUME NEW s \in Sessions, Server(s) PROVE ExclusiveCustody'
  <2>1. CASE ClaimLock(s)
    <3>2. \A v \in Workers : Holds(v)' \subseteq Holds(v)
      BY <2>1 DEF ClaimLock, Holds, TypeOK, workerVars
    <3>3. \A r \in Sessions : Carries(r)' \subseteq Carries(r)
      BY <2>1, FreeFields DEF ClaimLock, Carries, TypeOK, dbVars, Statement
    <3> QED
      BY <2>1, <3>2, <3>3, CustodyShrinks DEF ClaimLock, dbVars
  <2>2. CASE ClaimCommit(s)
    <3>1. /\ \A r \in Sessions \ {s} : stmt'[r] = stmt[r]
          /\ \/ stmt'[s] = Free
             \/ SameQuery(s) /\ stmt'[s].phase \in {"committed"} /\ stmt'[s].owner = stmt[s].owner
      BY <2>2, FinishSteps DEF ClaimCommit
    <3>2. \A r \in Sessions \ {s} : Carries(r)' = Carries(r)
      BY <3>1 DEF Carries
    <3>3. Carries(s)' \subseteq stmt[s].rows
      BY <3>1, FreeFields DEF Carries, SameQuery
    <3>4. \A o \in stmt[s].rows : status[o] = "pending" /\ status'[o] = "processing"
      BY <2>2 DEF ClaimCommit, LockInv, TypeOK, Statement
    <3>5. \A o \in Orders \ stmt[s].rows : status'[o] = status[o]
      BY <2>2 DEF ClaimCommit
    <3>6. \A v \in Workers : Holds(v)' = Holds(v) /\ Holds(v) \subseteq Orders
      BY <2>2 DEF ClaimCommit, Holds, workerVars, TypeOK
    <3>7. \A r \in Sessions : Carries(r) \subseteq Orders
      BY DEF Carries, TypeOK, Statement
    <3> QED
      BY <3>2, <3>3, <3>4, <3>5, <3>6, <3>7 DEF ExclusiveCustody
  <2>3. CASE MarkCommit(s)
    <3>1. /\ \A r \in Sessions \ {s} : stmt'[r] = stmt[r]
          /\ \/ stmt'[s] = Free
             \/ SameQuery(s) /\ stmt'[s].owner = stmt[s].owner
                /\ stmt'[s].phase \in {"committed", "conflict"}
      BY <2>3, FinishSteps DEF MarkCommit
    <3>2. \A r \in Sessions \ {s} : Carries(r)' = Carries(r)
      BY <3>1 DEF Carries
    <3>3. Carries(s) = stmt[s].rows /\ Carries(s)' = {}
      BY <2>3, <3>1, FreeFields DEF MarkCommit, Carries, SameQuery
    <3>4. \A o \in Orders \ stmt[s].rows : status'[o] = status[o]
      BY <2>3 DEF MarkCommit
    <3>5. \A v \in Workers : Holds(v)' = Holds(v) /\ Holds(v) \subseteq Orders
      BY <2>3 DEF MarkCommit, Holds, workerVars, TypeOK
    <3>6. \A r \in Sessions : Carries(r) \subseteq Orders
      BY DEF Carries, TypeOK, Statement
    <3>7. \A v \in Workers : \A o \in Holds(v)' : status'[o] = status[o]
      BY <3>3, <3>4, <3>5 DEF ExclusiveCustody
    <3>8. \A r \in Sessions : \A o \in Carries(r)' : status'[o] = status[o]
      BY <3>2, <3>3, <3>4, <3>6 DEF ExclusiveCustody
    <3> QED
      BY <3>2, <3>3, <3>5, <3>7, <3>8, CustodyShrinks
  <2>4. CASE InsertCommit(s)
    <3>1. /\ \A r \in Sessions \ {s} : stmt'[r] = stmt[r]
          /\ \/ stmt'[s] = Free
             \/ SameQuery(s) /\ stmt'[s].phase \in {"committed"} /\ stmt'[s].owner = stmt[s].owner
      BY <2>4, FinishSteps DEF InsertCommit
    <3>2. \A r \in Sessions : Carries(r)' \subseteq Carries(r) /\ Carries(r) \subseteq Orders
      BY <2>4, <3>1, FreeFields DEF InsertCommit, Carries, SameQuery, TypeOK, Statement
    <3>3. \A v \in Workers : Holds(v)' = Holds(v) /\ Holds(v) \subseteq Orders
      BY <2>4 DEF InsertCommit, Holds, workerVars, TypeOK
    <3>4. \A o \in Orders : status[o] = "processing" => status'[o] = "processing"
      BY <2>4 DEF InsertCommit, InsertInv
    <3> QED
      BY <3>2, <3>3, <3>4, CustodyShrinks DEF ExclusiveCustody
  <2>5. CASE Abort(s)
    <3>1. /\ \A r \in Sessions \ {s} : stmt'[r] = stmt[r]
          /\ stmt'[s] = Free \/ stmt'[s].phase = "aborted"
      BY <2>5, FinishSteps DEF Abort
    <3>2. \A r \in Sessions : Carries(r)' \subseteq Carries(r)
      BY <3>1, FreeFields DEF Carries
    <3> QED
      BY <2>5, <3>2, CustodyShrinks DEF Abort, Holds, workerVars
  <2> QED
    BY <1>2, <2>1, <2>2, <2>3, <2>4, <2>5 DEF Server
<1>3. ASSUME NEW w \in Workers, WorkerStep(w) PROVE ExclusiveCustody'
  <2>1. CASE Tick(w)
    BY <2>1, CustodyShrinks DEF Tick, Holds, Carries, dbVars, workerVars
  <2>2. CASE Stop(w)
    BY <2>2, CustodyShrinks DEF Stop, Holds, Carries, dbVars, workerVars
  <2>3. CASE ClaimError(w)
    <3>2. \A v \in Workers : Holds(v)' \subseteq Holds(v)
      BY <2>3 DEF ClaimError, Holds, TypeOK, workerVars
    <3>3. \A r \in Sessions : Carries(r)' \subseteq Carries(r)
      BY <2>3, DisownKeeps DEF ClaimError
    <3> QED
      BY <2>3, <3>2, <3>3, CustodyShrinks DEF ClaimError, dbVars
  <2>4. CASE EndRun(w)
    BY <2>4, CustodyShrinks DEF EndRun, Holds, Carries, dbVars, workerVars
  <2>5. CASE Interrupt(w)
    BY <2>5, CustodyShrinks DEF Interrupt, Holds, Carries, dbVars, workerVars
  <2>6. ASSUME NEW o \in Orders, Begin(w, o) PROVE ExclusiveCustody'
    <3>1. \A v \in Workers : Holds(v)' \subseteq Holds(v)
      BY <2>6 DEF Begin, Holds, TypeOK
    <3> QED
      BY <2>6, <3>1, CustodyShrinks DEF Begin, Carries, dbVars
  <2>7. ASSUME NEW result \in Outcomes, Charge(w, result) PROVE ExclusiveCustody'
    BY <2>7, CustodyShrinks DEF Charge, Holds, Carries, dbVars, workerVars
  <2>8. ASSUME NEW s \in Sessions, SendClaim(w, s) PROVE ExclusiveCustody'
    <3>2. \A v \in Workers : Holds(v)' \subseteq Holds(v)
      BY <2>8 DEF SendClaim, Holds, TypeOK, workerVars
    <3>3. \A r \in Sessions : Carries(r)' \subseteq Carries(r)
      BY <2>8, FreeFields DEF SendClaim, Carries, TypeOK, dbVars, Query, Free
    <3> QED
      BY <2>8, <3>2, <3>3, CustodyShrinks DEF SendClaim, dbVars
  <2>9. ASSUME NEW s \in Sessions, ClaimReply(w, s) PROVE ExclusiveCustody'
    <3>1. stmt[s].kind = "claim" /\ stmt[s].phase = "committed"
      BY <2>9 DEF ClaimReply, OwnerInv
    <3>2. Holds(w)' = Carries(s) /\ Carries(s)' = {}
      BY <2>9, <3>1, FreeFields DEF ClaimReply, Holds, Carries, TypeOK, WorkerInv
    <3>3. \A v \in Workers \ {w} : Holds(v)' = Holds(v)
      BY <2>9 DEF ClaimReply, Holds, TypeOK
    <3>4. \A r \in Sessions \ {s} : Carries(r)' = Carries(r)
      BY <2>9 DEF ClaimReply, Carries, TypeOK
    <3>5. status' = status
      BY <2>9 DEF ClaimReply
    <3> QED
      BY <3>2, <3>3, <3>4, <3>5 DEF ExclusiveCustody
  <2>10. ASSUME NEW s \in Sessions, SendMark(w, s) PROVE ExclusiveCustody'
    <3>1. Holds(w)' = batch[w] /\ Carries(s)' = cur[w]
      BY <2>10 DEF SendMark, Holds, Carries, Query, TypeOK
    <3>2. cur[w] \cap batch[w] = {} /\ cur[w] \subseteq Holds(w) /\ batch[w] \subseteq Holds(w)
      BY DEF WorkerInv, Holds
    <3>3. \A v \in Workers \ {w} : Holds(v)' = Holds(v)
      BY <2>10 DEF SendMark, Holds, TypeOK
    <3>4. \A r \in Sessions \ {s} : Carries(r)' = Carries(r)
      BY <2>10 DEF SendMark, Carries, TypeOK
    <3>5. status' = status
      BY <2>10 DEF SendMark
    <3> QED
      BY <3>1, <3>2, <3>3, <3>4, <3>5 DEF ExclusiveCustody
  <2>11. ASSUME NEW s \in Sessions, MarkReply(w, s) PROVE ExclusiveCustody'
    <3>2. \A v \in Workers : Holds(v)' \subseteq Holds(v)
      BY <2>11 DEF MarkReply, Holds, TypeOK, workerVars
    <3>3. \A r \in Sessions : Carries(r)' \subseteq Carries(r)
      BY <2>11, FreeFields DEF MarkReply, Carries, TypeOK, dbVars, Free
    <3> QED
      BY <2>11, <3>2, <3>3, CustodyShrinks DEF MarkReply, dbVars
  <2> QED
    BY <1>3, <2>1, <2>2, <2>3, <2>4, <2>5, <2>6, <2>7, <2>8, <2>9, <2>10, <2>11 DEF WorkerStep
<1>4. ASSUME NEW w \in Workers, WorkerFault(w) PROVE ExclusiveCustody'
  <2>1. CASE BatchPanic(w)
    <3>2. \A v \in Workers : Holds(v)' \subseteq Holds(v)
      BY <2>1 DEF BatchPanic, Holds, TypeOK, workerVars
    <3>3. \A r \in Sessions : Carries(r)' \subseteq Carries(r)
      BY <2>1, DisownKeeps DEF BatchPanic
    <3> QED
      BY <2>1, <3>2, <3>3, CustodyShrinks DEF BatchPanic, dbVars
  <2>2. CASE ProcessPanic(w)
    <3>2. \A v \in Workers : Holds(v)' \subseteq Holds(v)
      BY <2>2 DEF ProcessPanic, Holds, TypeOK, workerVars
    <3>3. \A r \in Sessions : Carries(r)' \subseteq Carries(r)
      BY <2>2, FreeFields DEF ProcessPanic, Carries, TypeOK, dbVars
    <3> QED
      BY <2>2, <3>2, <3>3, CustodyShrinks DEF ProcessPanic, dbVars
  <2>3. CASE MarkTimeout(w)
    <3>2. \A v \in Workers : Holds(v)' \subseteq Holds(v)
      BY <2>3 DEF MarkTimeout, Holds, TypeOK, workerVars
    <3>3. \A r \in Sessions : Carries(r)' \subseteq Carries(r)
      BY <2>3, DisownKeeps DEF MarkTimeout
    <3> QED
      BY <2>3, <3>2, <3>3, CustodyShrinks DEF MarkTimeout, dbVars
  <2>4. CASE Shutdown(w)
    BY <2>4, CustodyShrinks DEF Shutdown, Holds, Carries, dbVars, workerVars
  <2>5. CASE Crash(w)
    <3>2. \A v \in Workers : Holds(v)' \subseteq Holds(v)
      BY <2>5 DEF Crash, Holds, TypeOK, workerVars
    <3>3. \A r \in Sessions : Carries(r)' \subseteq Carries(r)
      BY <2>5, DisownKeeps DEF Crash
    <3> QED
      BY <2>5, <3>2, <3>3, CustodyShrinks DEF Crash, dbVars
  <2> QED
    BY <1>4, <2>1, <2>2, <2>3, <2>4, <2>5 DEF WorkerFault
<1>5. ASSUME NEW w \in Workers, Restart(w) PROVE ExclusiveCustody'
  BY <1>5, CustodyShrinks DEF Restart, Holds, Carries, dbVars, workerVars
<1>6. CASE UNCHANGED vars
  BY <1>6 DEF vars, dbVars, workerVars, ExclusiveCustody, Holds, Carries
<1> QED
  BY <1>1, <1>2, <1>3, <1>4, <1>5, <1>6 DEF Next

\* Session r carries what it carried, or nothing any more.
CarriesAsBefore(r) ==
    \/ Carries(r)' = {}
    \/ /\ Carries(r)' = Carries(r)
       /\ stmt'[r].kind = stmt[r].kind /\ stmt'[r].to = stmt[r].to

\* Where nothing is charged and custody only shrinks, the histories still fit.
LEMMA ChargesShrink ==
    ASSUME ChargeInv, charges' = charges, status' = status,
           \A v \in Workers : batch'[v] \subseteq batch[v],
           \A v \in Workers : cur'[v] = {} \/ (cur'[v] = cur[v] /\ pc'[v] = pc[v] /\ outcome'[v] = outcome[v]),
           \A r \in Sessions : CarriesAsBefore(r)
    PROVE  ChargeInv'
  BY DEF ChargeInv, CarriesAsBefore

(* Each place an order can be in implies its payment history. *)
LEMMA ChargeInvStep ==
    TypeOK /\ OwnerInv /\ InsertInv /\ LockInv /\ WorkerInv /\ MarkInv /\ ExclusiveCustody /\ ChargeInv /\ [Next]_vars
        => ChargeInv'
<1> SUFFICES ASSUME TypeOK, OwnerInv, InsertInv, LockInv, WorkerInv, MarkInv, ExclusiveCustody, ChargeInv,
                    [Next]_vars
             PROVE  ChargeInv'
  OBVIOUS
<1>1. ASSUME NEW o \in Orders, NEW s \in Sessions, Handler(o, s) PROVE ChargeInv'
  <2>1. CASE SendInsert(o, s)
    <3>1. \A v \in Workers : batch'[v] \subseteq batch[v]
      BY <2>1 DEF SendInsert, TypeOK, workerVars
    <3>2. \A v \in Workers :
            cur'[v] = {} \/ (cur'[v] = cur[v] /\ pc'[v] = pc[v] /\ outcome'[v] = outcome[v])
      BY <2>1 DEF SendInsert, TypeOK, workerVars, WorkerInv
    <3>3. \A r \in Sessions : CarriesAsBefore(r)
      BY <2>1, FreeFields DEF SendInsert, Carries, TypeOK, Query, Free, CarriesAsBefore
    <3> QED
      BY <2>1, <3>1, <3>2, <3>3, ChargesShrink DEF SendInsert, dbVars
  <2>2. CASE InsertReply(o, s)
    <3>1. \A v \in Workers : batch'[v] \subseteq batch[v]
      BY <2>2 DEF InsertReply, TypeOK, workerVars
    <3>2. \A v \in Workers :
            cur'[v] = {} \/ (cur'[v] = cur[v] /\ pc'[v] = pc[v] /\ outcome'[v] = outcome[v])
      BY <2>2 DEF InsertReply, TypeOK, workerVars, WorkerInv
    <3>3. \A r \in Sessions : CarriesAsBefore(r)
      BY <2>2, FreeFields DEF InsertReply, Carries, TypeOK, Free, CarriesAsBefore
    <3> QED
      BY <2>2, <3>1, <3>2, <3>3, ChargesShrink DEF InsertReply, dbVars
  <2>3. CASE InsertAbandoned(o, s)
    <3>1. \A v \in Workers : batch'[v] \subseteq batch[v]
      BY <2>3 DEF InsertAbandoned, TypeOK, workerVars
    <3>2. \A v \in Workers :
            cur'[v] = {} \/ (cur'[v] = cur[v] /\ pc'[v] = pc[v] /\ outcome'[v] = outcome[v])
      BY <2>3 DEF InsertAbandoned, TypeOK, workerVars
    <3>3. \A r \in Sessions : CarriesAsBefore(r)
      <4>1. /\ \A r \in Sessions \ {s} : stmt'[r] = stmt[r]
            /\ stmt'[s] = Free \/ RunsOn(s)
        BY <2>3, AbandonSteps DEF InsertAbandoned
      <4> QED
        BY <4>1, FreeFields DEF Carries, RunsOn, SameQuery, CarriesAsBefore
    <3> QED
      BY <2>3, <3>1, <3>2, <3>3, ChargesShrink DEF InsertAbandoned, dbVars
  <2> QED
    BY <1>1, <2>1, <2>2, <2>3 DEF Handler
<1>2. ASSUME NEW s \in Sessions, Server(s) PROVE ChargeInv'
  <2>1. CASE ClaimLock(s)
    <3>1. \A v \in Workers : batch'[v] \subseteq batch[v]
      BY <2>1 DEF ClaimLock, TypeOK, workerVars
    <3>2. \A v \in Workers :
            cur'[v] = {} \/ (cur'[v] = cur[v] /\ pc'[v] = pc[v] /\ outcome'[v] = outcome[v])
      BY <2>1 DEF ClaimLock, TypeOK, workerVars
    <3>3. \A r \in Sessions : CarriesAsBefore(r)
      BY <2>1 DEF ClaimLock, Carries, TypeOK, Statement, CarriesAsBefore
    <3> QED
      BY <2>1, <3>1, <3>2, <3>3, ChargesShrink DEF ClaimLock, dbVars
  <2>2. CASE ClaimCommit(s)
    <3>1. /\ \A r \in Sessions \ {s} : stmt'[r] = stmt[r]
          /\ \/ stmt'[s] = Free
             \/ SameQuery(s) /\ stmt'[s].phase \in {"committed"} /\ stmt'[s].owner = stmt[s].owner
      BY <2>2, FinishSteps DEF ClaimCommit
    <3>2. UNCHANGED <<charges, pc, batch, cur, outcome>>
      BY <2>2 DEF ClaimCommit, workerVars
    <3>3. \A r \in Sessions \ {s} : Carries(r)' = Carries(r)
      BY <3>1 DEF Carries
    <3>4. Carries(s)' \subseteq stmt[s].rows
      BY <3>1, FreeFields DEF Carries, SameQuery
    <3>5. \A o \in stmt[s].rows : charges[o] = <<>>
      BY <2>2 DEF ClaimCommit, LockInv, ChargeInv, TypeOK, Statement
    <3>6. \A o \in Orders : status'[o] = status[o] \/ status'[o] = "processing"
      BY <2>2 DEF ClaimCommit
    <3>7. stmt'[s] = Free \/ stmt'[s].kind = "claim"
      BY <2>2, <3>1 DEF ClaimCommit, SameQuery
    <3> QED
      BY <3>1, <3>2, <3>3, <3>4, <3>5, <3>6, <3>7, FreeFields DEF ChargeInv, Outcomes
  <2>3. CASE MarkCommit(s)
    <3>1. /\ \A r \in Sessions \ {s} : stmt'[r] = stmt[r]
          /\ \/ stmt'[s] = Free
             \/ SameQuery(s) /\ stmt'[s].owner = stmt[s].owner
                /\ stmt'[s].phase \in {"committed", "conflict"}
      BY <2>3, FinishSteps DEF MarkCommit
    <3>2. UNCHANGED <<charges, pc, batch, cur, outcome>>
      BY <2>3 DEF MarkCommit, workerVars
    <3>3. \A r \in Sessions \ {s} : Carries(r)' = Carries(r)
      BY <3>1 DEF Carries
    <3>4. Carries(s) = stmt[s].rows /\ Carries(s)' = {}
      BY <2>3, <3>1, FreeFields DEF MarkCommit, Carries, SameQuery
    <3>5. \A o \in Orders : status'[o] = status[o] \/ (o \in stmt[s].rows /\ status'[o] = stmt[s].to)
      BY <2>3 DEF MarkCommit
    <3>6. stmt[s].to \in Targets /\ stmt[s].kind = "mark"
      BY <2>3 DEF MarkCommit, MarkInv
    <3>7. \A o \in stmt[s].rows : charges[o] = Expected(stmt[s].to)
      BY <3>4, <3>6 DEF ChargeInv
    <3> QED
      BY <3>1, <3>2, <3>3, <3>4, <3>5, <3>6, <3>7 DEF ChargeInv, Expected, Targets, Outcomes
  <2>4. CASE InsertCommit(s)
    <3>1. /\ \A r \in Sessions \ {s} : stmt'[r] = stmt[r]
          /\ \/ stmt'[s] = Free
             \/ SameQuery(s) /\ stmt'[s].phase \in {"committed"} /\ stmt'[s].owner = stmt[s].owner
      BY <2>4, FinishSteps DEF InsertCommit
    <3>2. UNCHANGED <<charges, pc, batch, cur, outcome>>
      BY <2>4 DEF InsertCommit, workerVars
    <3>3. \A r \in Sessions : Carries(r)' = {} \/ (Carries(r)' = Carries(r) /\ stmt'[r] = stmt[r])
      BY <2>4, <3>1, FreeFields DEF InsertCommit, Carries, SameQuery
    <3>4. \A o \in Orders : status'[o] = status[o] \/ (status[o] = "new" /\ status'[o] = "pending")
      BY <2>4 DEF InsertCommit, InsertInv
    <3> QED
      BY <3>2, <3>3, <3>4 DEF ChargeInv, Outcomes
  <2>5. CASE Abort(s)
    <3>1. \A v \in Workers : batch'[v] \subseteq batch[v]
      BY <2>5 DEF Abort, TypeOK, workerVars
    <3>2. \A v \in Workers :
            cur'[v] = {} \/ (cur'[v] = cur[v] /\ pc'[v] = pc[v] /\ outcome'[v] = outcome[v])
      BY <2>5 DEF Abort, TypeOK, workerVars
    <3>3. \A r \in Sessions : CarriesAsBefore(r)
      <4>1. /\ \A r \in Sessions \ {s} : stmt'[r] = stmt[r]
            /\ stmt'[s] = Free \/ stmt'[s].phase = "aborted"
        BY <2>5, FinishSteps DEF Abort
      <4> QED
        BY <4>1, FreeFields DEF Carries, CarriesAsBefore
    <3> QED
      BY <2>5, <3>1, <3>2, <3>3, ChargesShrink DEF Abort, dbVars
  <2> QED
    BY <1>2, <2>1, <2>2, <2>3, <2>4, <2>5 DEF Server
<1>3. ASSUME NEW w \in Workers, WorkerStep(w) PROVE ChargeInv'
  <2>1. CASE Tick(w)
    <3>1. \A v \in Workers : batch'[v] \subseteq batch[v]
      BY <2>1 DEF Tick, TypeOK, workerVars
    <3>2. \A v \in Workers :
            cur'[v] = {} \/ (cur'[v] = cur[v] /\ pc'[v] = pc[v] /\ outcome'[v] = outcome[v])
      BY <2>1 DEF Tick, TypeOK, workerVars, WorkerInv
    <3>3. \A r \in Sessions : CarriesAsBefore(r)
      BY <2>1 DEF Tick, Carries, dbVars, CarriesAsBefore
    <3> QED
      BY <2>1, <3>1, <3>2, <3>3, ChargesShrink DEF Tick, dbVars
  <2>2. CASE Stop(w)
    <3>1. \A v \in Workers : batch'[v] \subseteq batch[v]
      BY <2>2 DEF Stop, TypeOK, workerVars
    <3>2. \A v \in Workers :
            cur'[v] = {} \/ (cur'[v] = cur[v] /\ pc'[v] = pc[v] /\ outcome'[v] = outcome[v])
      BY <2>2 DEF Stop, TypeOK, workerVars, WorkerInv
    <3>3. \A r \in Sessions : CarriesAsBefore(r)
      BY <2>2 DEF Stop, Carries, dbVars, CarriesAsBefore
    <3> QED
      BY <2>2, <3>1, <3>2, <3>3, ChargesShrink DEF Stop, dbVars
  <2>3. CASE ClaimError(w)
    <3>1. \A v \in Workers : batch'[v] \subseteq batch[v]
      BY <2>3 DEF ClaimError, TypeOK, workerVars
    <3>2. \A v \in Workers :
            cur'[v] = {} \/ (cur'[v] = cur[v] /\ pc'[v] = pc[v] /\ outcome'[v] = outcome[v])
      BY <2>3 DEF ClaimError, TypeOK, workerVars, WorkerInv, ClaimInterrupted
    <3>3. \A r \in Sessions : CarriesAsBefore(r)
      <4>1. \A r \in Sessions : stmt'[r] = stmt[r] \/ stmt'[r] = Free \/ RunsOn(r)
        BY <2>3, DisownSteps DEF ClaimError
      <4> QED
        BY <4>1, FreeFields DEF Carries, RunsOn, SameQuery, CarriesAsBefore
    <3> QED
      BY <2>3, <3>1, <3>2, <3>3, ChargesShrink DEF ClaimError, dbVars
  <2>4. CASE EndRun(w)
    <3>1. \A v \in Workers : batch'[v] \subseteq batch[v]
      BY <2>4 DEF EndRun, TypeOK, workerVars
    <3>2. \A v \in Workers :
            cur'[v] = {} \/ (cur'[v] = cur[v] /\ pc'[v] = pc[v] /\ outcome'[v] = outcome[v])
      BY <2>4 DEF EndRun, TypeOK, workerVars, WorkerInv
    <3>3. \A r \in Sessions : CarriesAsBefore(r)
      BY <2>4 DEF EndRun, Carries, dbVars, CarriesAsBefore
    <3> QED
      BY <2>4, <3>1, <3>2, <3>3, ChargesShrink DEF EndRun, dbVars
  <2>5. CASE Interrupt(w)
    <3>1. pc[w] = "working" /\ pc'[w] = "marking" /\ outcome'[w] = "pending"
      BY <2>5 DEF Interrupt, StatusToWrite, TypeOK
    <3>2. \A v \in Workers \ {w} : outcome'[v] = outcome[v] /\ pc'[v] = pc[v]
      BY <2>5 DEF Interrupt, TypeOK
    <3>3. UNCHANGED <<status, charges, stmt, batch, cur>>
      BY <2>5 DEF Interrupt, dbVars
    <3>4. \A r \in Sessions : Carries(r)' = Carries(r)
      BY <3>3 DEF Carries
    <3> QED
      BY <3>1, <3>2, <3>3, <3>4 DEF ChargeInv, Expected
  <2>6. ASSUME NEW o \in Orders, Begin(w, o) PROVE ChargeInv'
    <3>1. batch'[w] \subseteq batch[w] /\ cur'[w] \subseteq batch[w] /\ pc'[w] = "working"
      BY <2>6 DEF Begin, TypeOK
    <3>2. \A v \in Workers \ {w} : batch'[v] = batch[v] /\ cur'[v] = cur[v] /\ pc'[v] = pc[v]
      BY <2>6 DEF Begin, TypeOK
    <3>3. UNCHANGED <<status, charges, stmt, outcome>>
      BY <2>6 DEF Begin, dbVars
    <3>4. \A r \in Sessions : Carries(r)' = Carries(r)
      BY <3>3 DEF Carries
    <3> QED
      BY <3>1, <3>2, <3>3, <3>4 DEF ChargeInv
  <2>7. ASSUME NEW result \in Outcomes, Charge(w, result) PROVE ChargeInv'
    <3>1. PICK o \in Orders : cur[w] = {o}
      BY <2>7 DEF Charge, WorkerInv
    <3>2. charges[o] = <<>> /\ o \in Holds(w) /\ status[o] = "processing"
      BY <2>7, <3>1 DEF Charge, ChargeInv, ExclusiveCustody, Holds
    <3>3. charges'[o] = <<result>> /\ \A p \in Orders \ {o} : charges'[p] = charges[p]
      <4>1. Append(<<>>, result) = <<result>>
        OBVIOUS
      <4>2. charges' = [p \in Orders |-> IF p \in {o} THEN Append(charges[p], result) ELSE charges[p]]
        BY <2>7, <3>1 DEF Charge
      <4> QED
        BY <4>1, <4>2, <3>2
    <3>4. pc'[w] = "marking" /\ outcome'[w] = result
      BY <2>7 DEF Charge, StatusToWrite, TypeOK
    <3>5. \A v \in Workers \ {w} : outcome'[v] = outcome[v] /\ pc'[v] = pc[v] /\ o \notin Holds(v)
      BY <2>7, <3>2 DEF Charge, TypeOK, ExclusiveCustody
    <3>6. UNCHANGED <<status, stmt, batch, cur>> /\ o \notin batch[w]
      BY <2>7, <3>1 DEF Charge, dbVars, WorkerInv
    <3>7. \A r \in Sessions : Carries(r)' = Carries(r) /\ o \notin Carries(r) /\ Carries(r) \subseteq Orders
      BY <3>2, <3>6 DEF Carries, ExclusiveCustody, TypeOK, Statement
    <3>8. \A v \in Workers : batch[v] \subseteq Orders /\ cur[v] \subseteq Orders
      BY DEF TypeOK
    <3>9. Expected(result) = <<result>>
      BY DEF Expected, Outcomes
    <3> QED
      BY <3>1, <3>2, <3>3, <3>4, <3>5, <3>6, <3>7, <3>8, <3>9 DEF ChargeInv, Outcomes, Holds
  <2>8. ASSUME NEW s \in Sessions, SendClaim(w, s) PROVE ChargeInv'
    <3>1. \A v \in Workers : batch'[v] \subseteq batch[v]
      BY <2>8 DEF SendClaim, TypeOK, workerVars
    <3>2. \A v \in Workers :
            cur'[v] = {} \/ (cur'[v] = cur[v] /\ pc'[v] = pc[v] /\ outcome'[v] = outcome[v])
      BY <2>8 DEF SendClaim, TypeOK, workerVars, WorkerInv
    <3>3. \A r \in Sessions : CarriesAsBefore(r)
      BY <2>8, FreeFields DEF SendClaim, Carries, TypeOK, Query, Free, CarriesAsBefore
    <3> QED
      BY <2>8, <3>1, <3>2, <3>3, ChargesShrink DEF SendClaim, dbVars
  <2>9. ASSUME NEW s \in Sessions, ClaimReply(w, s) PROVE ChargeInv'
    <3>1. stmt[s].kind = "claim" /\ stmt[s].phase = "committed"
      BY <2>9 DEF ClaimReply, OwnerInv
    <3>2. batch'[w] = Carries(s) /\ Carries(s)' = {}
      BY <2>9, <3>1, FreeFields DEF ClaimReply, Carries, TypeOK
    <3>3. \A v \in Workers \ {w} : batch'[v] = batch[v] /\ pc'[v] = pc[v]
      BY <2>9 DEF ClaimReply, TypeOK
    <3>4. \A r \in Sessions \ {s} : Carries(r)' = Carries(r) /\ stmt'[r] = stmt[r]
      BY <2>9 DEF ClaimReply, Carries, TypeOK
    <3>5. UNCHANGED <<status, charges, cur, outcome>> /\ cur[w] = {}
      BY <2>9 DEF ClaimReply, WorkerInv
    <3> QED
      BY <3>1, <3>2, <3>3, <3>4, <3>5 DEF ChargeInv
  <2>10. ASSUME NEW s \in Sessions, SendMark(w, s) PROVE ChargeInv'
    <3>1. /\ Carries(s)' = cur[w] /\ stmt'[s].kind = "mark" /\ stmt'[s].to = outcome[w]
          /\ cur'[w] = {} /\ pc[w] = "marking"
      BY <2>10 DEF SendMark, Carries, Query, TypeOK
    <3>2. \A v \in Workers \ {w} : cur'[v] = cur[v] /\ outcome'[v] = outcome[v] /\ pc'[v] = pc[v]
      BY <2>10 DEF SendMark, TypeOK
    <3>3. \A r \in Sessions \ {s} : Carries(r)' = Carries(r) /\ stmt'[r] = stmt[r]
      BY <2>10 DEF SendMark, Carries, TypeOK
    <3>4. UNCHANGED <<status, charges, batch>>
      BY <2>10 DEF SendMark
    <3> QED
      BY <3>1, <3>2, <3>3, <3>4 DEF ChargeInv
  <2>11. ASSUME NEW s \in Sessions, MarkReply(w, s) PROVE ChargeInv'
    <3>1. \A v \in Workers : batch'[v] \subseteq batch[v]
      BY <2>11 DEF MarkReply, TypeOK, workerVars
    <3>2. \A v \in Workers :
            cur'[v] = {} \/ (cur'[v] = cur[v] /\ pc'[v] = pc[v] /\ outcome'[v] = outcome[v])
      BY <2>11 DEF MarkReply, TypeOK, workerVars, WorkerInv
    <3>3. \A r \in Sessions : CarriesAsBefore(r)
      BY <2>11, FreeFields DEF MarkReply, Carries, TypeOK, Free, CarriesAsBefore
    <3> QED
      BY <2>11, <3>1, <3>2, <3>3, ChargesShrink DEF MarkReply, dbVars
  <2> QED
    BY <1>3, <2>1, <2>2, <2>3, <2>4, <2>5, <2>6, <2>7, <2>8, <2>9, <2>10, <2>11 DEF WorkerStep
<1>4. ASSUME NEW w \in Workers, WorkerFault(w) PROVE ChargeInv'
  <2>1. CASE BatchPanic(w)
    <3>1. \A v \in Workers : batch'[v] \subseteq batch[v]
      BY <2>1 DEF BatchPanic, TypeOK, workerVars
    <3>2. \A v \in Workers :
            cur'[v] = {} \/ (cur'[v] = cur[v] /\ pc'[v] = pc[v] /\ outcome'[v] = outcome[v])
      BY <2>1 DEF BatchPanic, TypeOK, workerVars, WorkerInv
    <3>3. \A r \in Sessions : CarriesAsBefore(r)
      <4>1. \A r \in Sessions : stmt'[r] = stmt[r] \/ stmt'[r] = Free \/ RunsOn(r)
        BY <2>1, DisownSteps DEF BatchPanic
      <4> QED
        BY <4>1, FreeFields DEF Carries, RunsOn, SameQuery, CarriesAsBefore
    <3> QED
      BY <2>1, <3>1, <3>2, <3>3, ChargesShrink DEF BatchPanic, dbVars
  <2>2. CASE ProcessPanic(w)
    <3>1. \A v \in Workers : batch'[v] \subseteq batch[v]
      BY <2>2 DEF ProcessPanic, TypeOK, workerVars
    <3>2. \A v \in Workers :
            cur'[v] = {} \/ (cur'[v] = cur[v] /\ pc'[v] = pc[v] /\ outcome'[v] = outcome[v])
      BY <2>2 DEF ProcessPanic, TypeOK, workerVars, WorkerInv
    <3>3. \A r \in Sessions : CarriesAsBefore(r)
      BY <2>2 DEF ProcessPanic, Carries, dbVars, CarriesAsBefore
    <3> QED
      BY <2>2, <3>1, <3>2, <3>3, ChargesShrink DEF ProcessPanic, dbVars
  <2>3. CASE MarkTimeout(w)
    <3>1. \A v \in Workers : batch'[v] \subseteq batch[v]
      BY <2>3 DEF MarkTimeout, TypeOK, workerVars
    <3>2. \A v \in Workers :
            cur'[v] = {} \/ (cur'[v] = cur[v] /\ pc'[v] = pc[v] /\ outcome'[v] = outcome[v])
      BY <2>3 DEF MarkTimeout, TypeOK, workerVars, WorkerInv
    <3>3. \A r \in Sessions : CarriesAsBefore(r)
      <4>1. \A r \in Sessions : stmt'[r] = stmt[r] \/ stmt'[r] = Free \/ RunsOn(r)
        BY <2>3, DisownSteps DEF MarkTimeout
      <4> QED
        BY <4>1, FreeFields DEF Carries, RunsOn, SameQuery, CarriesAsBefore
    <3> QED
      BY <2>3, <3>1, <3>2, <3>3, ChargesShrink DEF MarkTimeout, dbVars
  <2>4. CASE Shutdown(w)
    <3>1. \A v \in Workers : batch'[v] \subseteq batch[v]
      BY <2>4 DEF Shutdown, TypeOK, workerVars
    <3>2. \A v \in Workers :
            cur'[v] = {} \/ (cur'[v] = cur[v] /\ pc'[v] = pc[v] /\ outcome'[v] = outcome[v])
      BY <2>4 DEF Shutdown, TypeOK, workerVars, WorkerInv
    <3>3. \A r \in Sessions : CarriesAsBefore(r)
      BY <2>4 DEF Shutdown, Carries, dbVars, CarriesAsBefore
    <3> QED
      BY <2>4, <3>1, <3>2, <3>3, ChargesShrink DEF Shutdown, dbVars
  <2>5. CASE Crash(w)
    <3>1. \A v \in Workers : batch'[v] \subseteq batch[v]
      BY <2>5 DEF Crash, TypeOK, workerVars
    <3>2. \A v \in Workers :
            cur'[v] = {} \/ (cur'[v] = cur[v] /\ pc'[v] = pc[v] /\ outcome'[v] = outcome[v])
      BY <2>5 DEF Crash, TypeOK, workerVars, WorkerInv
    <3>3. \A r \in Sessions : CarriesAsBefore(r)
      <4>1. \A r \in Sessions : stmt'[r] = stmt[r] \/ stmt'[r] = Free \/ RunsOn(r)
        BY <2>5, DisownSteps DEF Crash
      <4> QED
        BY <4>1, FreeFields DEF Carries, RunsOn, SameQuery, CarriesAsBefore
    <3> QED
      BY <2>5, <3>1, <3>2, <3>3, ChargesShrink DEF Crash, dbVars
  <2> QED
    BY <1>4, <2>1, <2>2, <2>3, <2>4, <2>5 DEF WorkerFault
<1>5. ASSUME NEW w \in Workers, Restart(w) PROVE ChargeInv'
  <3>1. \A v \in Workers : batch'[v] \subseteq batch[v]
    BY <1>5 DEF Restart, TypeOK, workerVars
  <3>2. \A v \in Workers :
          cur'[v] = {} \/ (cur'[v] = cur[v] /\ pc'[v] = pc[v] /\ outcome'[v] = outcome[v])
    BY <1>5 DEF Restart, TypeOK, workerVars, WorkerInv
  <3>3. \A r \in Sessions : CarriesAsBefore(r)
    BY <1>5 DEF Restart, Carries, dbVars, CarriesAsBefore
  <3> QED
    BY <1>5, <3>1, <3>2, <3>3, ChargesShrink DEF Restart, dbVars
<1>6. CASE UNCHANGED vars
  BY <1>6 DEF vars, dbVars, workerVars, ChargeInv, Carries
<1> QED
  BY <1>1, <1>2, <1>3, <1>4, <1>5, <1>6 DEF Next

-----------------------------------------------------------------------------
(* An empty table with idle workers satisfies the invariant. *)
LEMMA InitIInv == Init => IInv
<1> SUFFICES ASSUME Init PROVE IInv
  OBVIOUS
<1>1. TypeOK
  BY StatementTypes, MaxFaultsAssumption
     DEF Init, TypeOK, Free, Statement, Outcomes, Statuses, Targets, Transitions, Requests,
         Locations, RunStates
<1>2. \A s \in Sessions : stmt[s] = Free
  BY DEF Init
<1>3. NeverConflict /\ OwnerInv /\ LockInv /\ MarkInv
  BY <1>2, FreeFields DEF NeverConflict, OwnerInv, LockInv, MarkInv
<1>4. InsertInv
  BY <1>2, FreeFields DEF Init, InsertInv
<1>5. WorkerInv
  BY DEF Init, WorkerInv
<1>6. (\A w \in Workers : Holds(w) = {}) /\ (\A s \in Sessions : Carries(s) = {})
  BY <1>2, FreeFields DEF Init, Holds, Carries
<1>7. ExclusiveCustody
  BY <1>6 DEF ExclusiveCustody
<1>8. ChargeInv
  BY <1>6 DEF Init, ChargeInv, Outcomes
<1> QED
  BY <1>1, <1>3, <1>4, <1>5, <1>7, <1>8 DEF IInv

(* Every order has one party that may act on it and the payment history that *)
(* this party expects: the inductive invariant of the whole service.         *)
THEOREM Invariance == Spec => []IInv
<1>1. IInv /\ [Next]_vars => IInv'
  BY TypeOKStep, NeverConflictStep, CustodyStep, OwnerInvStep, InsertInvStep, LockInvStep,
     WorkerInvStep, MarkInvStep, ChargeInvStep DEF IInv
<1> QED
  BY <1>1, InitIInv, PTL DEF Spec

(* The state keeps its types, whatever fails. *)
THEOREM TypeCorrect == Spec => []TypeOK
<1>1. IInv => TypeOK
  BY DEF IInv
<1> QED
  BY <1>1, Invariance, PTL

(* At most one worker, reply or update in flight may act on a processing order, *)
(* for any number of replicas: no order is processed twice at a time.           *)
THEOREM CustodyIsExclusive == Spec => []ExclusiveCustody
<1>1. IInv => ExclusiveCustody
  BY DEF IInv
<1> QED
  BY <1>1, Invariance, PTL

(* MarkOrder never returns ErrConflict. *)
THEOREM MarksNeverConflict == Spec => []NeverConflict
<1>1. IInv => NeverConflict
  BY DEF IInv
<1> QED
  BY <1>1, Invariance, PTL

(* No order is charged twice, whatever times out, crashes or commits late. *)
THEOREM NoDoubleCharge == Spec => []ChargedAtMostOnce
<1>1. Len(<<>>) = 0 /\ Len(<<"paid">>) = 1 /\ Len(<<"failed">>) = 1
  OBVIOUS
<1>2. ASSUME IInv, NEW o \in Orders PROVE Len(charges[o]) <= 1
  <2>1. charges[o] \in {<<>>, <<"paid">>, <<"failed">>}
    BY <1>2 DEF IInv, ChargeInv
  <2>2. Len(charges[o]) = 0 \/ Len(charges[o]) = 1
    BY <2>1, <1>1, Zenon
  <2>3. \A n : n = 0 \/ n = 1 => n <= 1
    OBVIOUS
  <2> QED
    BY <2>2, <2>3, Zenon
<1>3. IInv => ChargedAtMostOnce
  BY <1>2 DEF ChargedAtMostOnce
<1> QED
  BY <1>3, Invariance, PTL

(* A settled order carries the result of its one payment attempt. *)
THEOREM SettledFaithfully == Spec => []SettledAsCharged
<1>1. IInv => SettledAsCharged
  BY DEF IInv, ChargeInv, SettledAsCharged
<1> QED
  BY <1>1, Invariance, PTL
-----------------------------------------------------------------------------
(* The service implements the order lifecycle: every step of a replica, of the *)
(* pool or of Postgres creates, claims, charges, settles or releases orders as  *)
(* OrderLifecycle allows, or leaves them alone.                                 *)

(* Every step of the service is a step of the lifecycle or leaves it alone. *)
LEMMA LifecycleStep ==
    IInv /\ [Next]_vars => [Lifecycle!LifecycleNext]_(Lifecycle!lifecycleVars)
<1> SUFFICES ASSUME IInv, [Next]_vars
             PROVE  Lifecycle!LifecycleNext \/ UNCHANGED <<status, charges>>
  BY DEF Lifecycle!lifecycleVars
<1> USE DEF IInv
<1>1. ASSUME NEW o \in Orders, NEW s \in Sessions, Handler(o, s) PROVE UNCHANGED <<status, charges>>
  BY <1>1 DEF Handler, SendInsert, InsertReply, InsertAbandoned
<1>2. ASSUME NEW s \in Sessions, Server(s)
      PROVE  Lifecycle!LifecycleNext \/ UNCHANGED <<status, charges>>
  <2>1. CASE ClaimLock(s) \/ Abort(s)
    BY <2>1 DEF ClaimLock, Abort
  <2>2. CASE ClaimCommit(s)
    <3>1. stmt[s].rows \in SUBSET Orders /\ \A o \in stmt[s].rows : status[o] = "pending"
      BY <2>2 DEF ClaimCommit, LockInv, TypeOK, Statement
    <3>2. /\ status' = [o \in Orders |-> IF o \in stmt[s].rows THEN "processing" ELSE status[o]]
          /\ charges' = charges
      BY <2>2 DEF ClaimCommit
    <3>3. CASE stmt[s].rows = {}
      BY <3>2, <3>3 DEF TypeOK
    <3>4. CASE stmt[s].rows # {}
      <4>1. Lifecycle!Claim(stmt[s].rows)
        BY <3>1, <3>2, <3>4 DEF Lifecycle!Claim
      <4> QED
        BY <4>1, <3>1 DEF Lifecycle!LifecycleNext
    <3> QED
      BY <3>3, <3>4
  <2>3. CASE MarkCommit(s)
    <3>1. PICK o \in Orders : stmt[s].rows = {o}
      BY <2>3 DEF MarkCommit, MarkInv
    <3>2. o \in Carries(s) /\ stmt[s].kind = "mark" /\ stmt[s].to \in Targets
      BY <2>3, <3>1 DEF MarkCommit, Carries, MarkInv
    <3>3. status[o] = "processing" /\ charges[o] = Expected(stmt[s].to)
      BY <3>2 DEF ExclusiveCustody, ChargeInv
    <3>4. status' = [status EXCEPT ![o] = stmt[s].to] /\ charges' = charges
      BY <2>3, <3>1, <3>3 DEF MarkCommit, TypeOK
    <3>5. CASE stmt[s].to = "pending"
      <4>1. Lifecycle!Release(o)
        BY <3>3, <3>4, <3>5 DEF Lifecycle!Release, Expected
      <4> QED
        BY <4>1 DEF Lifecycle!LifecycleNext
    <3>6. CASE stmt[s].to \in Outcomes
      <4>1. Lifecycle!Settle(o, stmt[s].to)
        BY <3>3, <3>4, <3>6 DEF Lifecycle!Settle, Expected, Outcomes
      <4> QED
        BY <4>1, <3>6 DEF Lifecycle!LifecycleNext, Lifecycle!Outcomes, Outcomes
    <3> QED
      BY <3>2, <3>5, <3>6 DEF Targets
  <2>4. CASE InsertCommit(s)
    <3>1. PICK o \in Orders : stmt[s].rows = {o} /\ stmt[s].to = "pending" /\ status[o] = "new"
      BY <2>4 DEF InsertCommit, InsertInv, MarkInv
    <3>2. status' = [status EXCEPT ![o] = "pending"] /\ charges' = charges
      BY <2>4, <3>1 DEF InsertCommit, TypeOK
    <3>3. Lifecycle!Create(o)
      BY <3>1, <3>2 DEF Lifecycle!Create
    <3> QED
      BY <3>3 DEF Lifecycle!LifecycleNext
  <2> QED
    BY <1>2, <2>1, <2>2, <2>3, <2>4 DEF Server
<1>3. ASSUME NEW w \in Workers, WorkerStep(w)
      PROVE  Lifecycle!LifecycleNext \/ UNCHANGED <<status, charges>>
  <2>1. ASSUME NEW result \in Outcomes, Charge(w, result) PROVE Lifecycle!LifecycleNext
    <3>1. PICK o \in Orders : cur[w] = {o}
      BY <2>1 DEF Charge, WorkerInv
    <3>2. o \in cur[w] /\ o \in Holds(w) /\ pc[w] = "working"
      BY <2>1, <3>1 DEF Charge, Holds
    <3>3. status[o] = "processing" /\ charges[o] = <<>>
      BY <3>2 DEF ExclusiveCustody, ChargeInv
    <3>4. charges' = [charges EXCEPT ![o] = Append(@, result)] /\ status' = status
      BY <2>1, <3>1 DEF Charge, dbVars, TypeOK
    <3>5. Lifecycle!Charge(o, result)
      BY <3>3, <3>4 DEF Lifecycle!Charge
    <3> QED
      BY <3>5 DEF Lifecycle!LifecycleNext, Lifecycle!Outcomes, Outcomes
  <2>2. CASE Tick(w) \/ Stop(w) \/ ClaimError(w) \/ EndRun(w) \/ Interrupt(w)
    BY <2>2 DEF Tick, Stop, ClaimError, EndRun, Interrupt, dbVars
  <2>3. ASSUME NEW o \in Orders, Begin(w, o) PROVE UNCHANGED <<status, charges>>
    BY <2>3 DEF Begin, dbVars
  <2>4. ASSUME NEW s \in Sessions,
               SendClaim(w, s) \/ ClaimReply(w, s) \/ SendMark(w, s) \/ MarkReply(w, s)
        PROVE  UNCHANGED <<status, charges>>
    BY <2>4 DEF SendClaim, ClaimReply, SendMark, MarkReply
  <2> QED
    BY <1>3, <2>1, <2>2, <2>3, <2>4 DEF WorkerStep
<1>4. ASSUME NEW w \in Workers, WorkerFault(w) \/ Restart(w) PROVE UNCHANGED <<status, charges>>
  BY <1>4
     DEF WorkerFault, BatchPanic, ProcessPanic, MarkTimeout, Shutdown, Crash, Restart, dbVars
<1>5. CASE UNCHANGED vars
  BY <1>5 DEF vars, dbVars, workerVars
<1> QED
  BY <1>1, <1>2, <1>3, <1>4, <1>5 DEF Next

(* The service implements the order lifecycle for any number of replicas,    *)
(* orders and sessions and any pattern of faults.                            *)
THEOREM Refinement == Spec => ImplementsLifecycle
<1>1. Init => Lifecycle!LifecycleInit
  BY DEF Init, Lifecycle!LifecycleInit
<1> QED
  BY <1>1, LifecycleStep, Invariance, PTL DEF Spec, ImplementsLifecycle, Lifecycle!LifecycleSpec
-----------------------------------------------------------------------------
(* The counters.  A counter lags behind the table by at least the replies that *)
(* are still on their way to be counted.                                       *)

CountedAs(s) ==
    IF stmt[s].kind = "insert" THEN "create"
    ELSE IF stmt[s].kind = "claim" THEN "claim" ELSE Transition(stmt[s].to)

Awaiting(o, t) ==
    {s \in Sessions : stmt[s].phase = "committed" /\ o \in stmt[s].rows /\ CountedAs(s) = t}

LedgerInv ==
    \A o \in Orders, t \in Transitions :
        counted[o][t] + Cardinality(Awaiting(o, t)) <= happened[o][t]

(* Bump adds one to one cell per order and nothing elsewhere. *)
LEMMA BumpValue ==
    ASSUME NEW ledger \in [Orders -> [Transitions -> Nat]], NEW os, NEW t \in Transitions,
           NEW o \in Orders, NEW u \in Transitions
    PROVE  Bump(ledger, os, t)[o][u] = IF o \in os /\ u = t THEN ledger[o][u] + 1 ELSE ledger[o][u]
  BY DEF Bump

(* The replies on their way are finitely many. *)
LEMMA AwaitingFinite ==
    ASSUME NEW o, NEW t
    PROVE  IsFiniteSet(Awaiting(o, t)) /\ Cardinality(Awaiting(o, t)) \in Nat
<1>1. Awaiting(o, t) \subseteq Sessions
  BY DEF Awaiting
<1> QED
  BY <1>1, FiniteAssumption, FS_Subset, FS_CardinalityType

\* One counter of one order: nothing new happens to it, one more transition is
\* committed and awaited, or one that was awaited is counted.
LEMMA LedgerCell ==
    ASSUME NEW o \in Orders, NEW t \in Transitions, TypeOK, TypeOK',
           counted[o][t] + Cardinality(Awaiting(o, t)) <= happened[o][t],
           \/ /\ counted'[o][t] = counted[o][t] /\ happened'[o][t] = happened[o][t]
              /\ Awaiting(o, t)' \subseteq Awaiting(o, t)
           \/ /\ counted'[o][t] = counted[o][t] /\ happened'[o][t] = happened[o][t] + 1
              /\ \E s \in Sessions : Awaiting(o, t)' \subseteq Awaiting(o, t) \cup {s}
           \/ /\ counted'[o][t] = counted[o][t] + 1 /\ happened'[o][t] = happened[o][t]
              /\ \E s \in Awaiting(o, t) : Awaiting(o, t)' \subseteq Awaiting(o, t) \ {s}
    PROVE  counted'[o][t] + Cardinality(Awaiting(o, t)') <= happened'[o][t]
<1> DEFINE A == Awaiting(o, t)
           B == Awaiting(o, t)'
<1>1. IsFiniteSet(A) /\ Cardinality(A) \in Nat
  BY AwaitingFinite
<1>2. counted[o][t] \in Nat /\ happened[o][t] \in Nat
  BY DEF TypeOK
<1>3. ASSUME NEW S, IsFiniteSet(S), B \subseteq S PROVE Cardinality(B) \in Nat /\ Cardinality(B) <= Cardinality(S)
  BY <1>3, FS_Subset, FS_CardinalityType
<1> HIDE DEF A, B
<1>4. CASE B \subseteq A /\ counted'[o][t] = counted[o][t] /\ happened'[o][t] = happened[o][t]
  <2>1. Cardinality(B) \in Nat /\ Cardinality(B) <= Cardinality(A)
    BY <1>1, <1>3, <1>4
  <2> QED
    BY <2>1, <1>1, <1>2, <1>4 DEF A, B
<1>5. ASSUME NEW s \in Sessions, B \subseteq A \cup {s},
             counted'[o][t] = counted[o][t], happened'[o][t] = happened[o][t] + 1
      PROVE  counted'[o][t] + Cardinality(B) <= happened'[o][t]
  <2>1. /\ IsFiniteSet(A \cup {s})
        /\ Cardinality(A \cup {s}) = IF s \in A THEN Cardinality(A) ELSE Cardinality(A) + 1
    BY <1>1, FS_AddElement
  <2>2. Cardinality(B) \in Nat /\ Cardinality(B) <= Cardinality(A \cup {s})
    BY <2>1, <1>3, <1>5
  <2> QED
    BY <2>1, <2>2, <1>1, <1>2, <1>5 DEF A
<1>6. ASSUME NEW s \in A, B \subseteq A \ {s},
             counted'[o][t] = counted[o][t] + 1, happened'[o][t] = happened[o][t]
      PROVE  counted'[o][t] + Cardinality(B) <= happened'[o][t]
  <2>1. IsFiniteSet(A \ {s}) /\ Cardinality(A \ {s}) = Cardinality(A) - 1
    BY <1>1, FS_RemoveElement
  <2>2. Cardinality(B) \in Nat /\ Cardinality(B) <= Cardinality(A \ {s})
    BY <2>1, <1>3, <1>6
  <2> QED
    BY <2>1, <2>2, <1>1, <1>2, <1>6 DEF A
<1> QED
  BY <1>4, <1>5, <1>6 DEF A, B

(* Commits and replies keep every counter behind the table. *)
LEMMA LedgerStep == IInv /\ IInv' /\ LedgerInv /\ [Next]_vars => LedgerInv'
<1> SUFFICES ASSUME IInv, IInv', LedgerInv, [Next]_vars PROVE LedgerInv'
  OBVIOUS
<1> USE DEF IInv
<1>1. ASSUME UNCHANGED <<counted, happened>>,
             \A r \in Sessions : stmt'[r] = stmt[r] \/ stmt'[r].phase # "committed"
      PROVE  LedgerInv'
  <2>1. \A o \in Orders, t \in Transitions : Awaiting(o, t)' \subseteq Awaiting(o, t)
    BY <1>1 DEF Awaiting, CountedAs
  <2> QED
    BY <1>1, <2>1, LedgerCell DEF LedgerInv
<1>2. ASSUME NEW s \in Sessions, NEW os \in SUBSET Orders,
             counted' = counted, happened' = Bump(happened, os, CountedAs(s)),
             \A r \in Sessions \ {s} : stmt'[r] = stmt[r],
             CountedAs(s) \in Transitions,
             \/ stmt'[s].phase # "committed"
             \/ SameQuery(s) /\ stmt[s].rows = os
      PROVE  LedgerInv'
  <2> SUFFICES ASSUME NEW o \in Orders, NEW t \in Transitions
               PROVE  counted'[o][t] + Cardinality(Awaiting(o, t)') <= happened'[o][t]
    BY DEF LedgerInv
  <2>1. happened'[o][t] = IF o \in os /\ t = CountedAs(s) THEN happened[o][t] + 1 ELSE happened[o][t]
    <3>1. happened \in [Orders -> [Transitions -> Nat]]
      BY DEF TypeOK
    <3>2. Bump(happened, os, CountedAs(s))[o][t] =
            IF o \in os /\ t = CountedAs(s) THEN happened[o][t] + 1 ELSE happened[o][t]
      BY <1>2, <3>1, BumpValue
    <3> QED
      BY <1>2, <3>2
  <2>2. CASE o \in os /\ t = CountedAs(s)
    <3>1. Awaiting(o, t)' \subseteq Awaiting(o, t) \cup {s}
      BY <1>2 DEF Awaiting, CountedAs
    <3> QED
      BY <1>2, <2>1, <2>2, <3>1, LedgerCell DEF LedgerInv
  <2>3. CASE ~(o \in os /\ t = CountedAs(s))
    <3>1. Awaiting(o, t)' \subseteq Awaiting(o, t)
      BY <1>2, <2>3 DEF Awaiting, CountedAs, SameQuery
    <3> QED
      BY <1>2, <2>1, <2>3, <3>1, LedgerCell DEF LedgerInv
  <2> QED
    BY <2>2, <2>3
<1>3. ASSUME NEW s \in Sessions, happened' = happened, stmt[s].phase = "committed",
             counted' = Bump(counted, stmt[s].rows, CountedAs(s)),
             stmt' = [stmt EXCEPT ![s] = Free], CountedAs(s) \in Transitions
      PROVE  LedgerInv'
  <2> SUFFICES ASSUME NEW o \in Orders, NEW t \in Transitions
               PROVE  counted'[o][t] + Cardinality(Awaiting(o, t)') <= happened'[o][t]
    BY DEF LedgerInv
  <2>1. \A r \in Sessions \ {s} : stmt'[r] = stmt[r]
    BY <1>3 DEF TypeOK
  <2>2. stmt'[s].phase # "committed"
    BY <1>3, FreeFields DEF TypeOK
  <2>3. Awaiting(o, t)' \subseteq Awaiting(o, t) \ {s}
    BY <2>1, <2>2 DEF Awaiting, CountedAs
  <2>4. counted'[o][t] = IF o \in stmt[s].rows /\ t = CountedAs(s) THEN counted[o][t] + 1 ELSE counted[o][t]
    <3>1. counted \in [Orders -> [Transitions -> Nat]]
      BY DEF TypeOK
    <3>2. Bump(counted, stmt[s].rows, CountedAs(s))[o][t] =
            IF o \in stmt[s].rows /\ t = CountedAs(s) THEN counted[o][t] + 1 ELSE counted[o][t]
      BY <1>3, <3>1, BumpValue
    <3> QED
      BY <1>3, <3>2
  <2>5. CASE o \in stmt[s].rows /\ t = CountedAs(s)
    <3>1. s \in Awaiting(o, t)
      BY <1>3, <2>5 DEF Awaiting
    <3> QED
      BY <1>3, <2>3, <2>4, <2>5, <3>1, LedgerCell DEF LedgerInv
  <2>6. CASE ~(o \in stmt[s].rows /\ t = CountedAs(s))
    BY <1>3, <2>3, <2>4, <2>6, LedgerCell DEF LedgerInv
  <2> QED
    BY <2>5, <2>6
<1>4. ASSUME NEW o \in Orders, NEW s \in Sessions, Handler(o, s) PROVE LedgerInv'
  <2>1. CASE SendInsert(o, s)
    BY <1>1, <2>1 DEF SendInsert, Query, TypeOK
  <2>2. CASE InsertReply(o, s)
    <3>1. CASE stmt[s].phase = "committed"
      BY <1>3, <2>2, <3>1 DEF InsertReply, Counts, CountedAs, Transitions
    <3>2. CASE stmt[s].phase # "committed"
      BY <1>1, <2>2, <3>2, FreeFields DEF InsertReply, Counts, TypeOK
    <3> QED
      BY <3>1, <3>2
  <2>3. CASE InsertAbandoned(o, s)
    <3>1. (\A r \in Sessions \ {s} : stmt'[r] = stmt[r]) /\ (stmt'[s] = Free \/ RunsOn(s))
      BY <2>3, AbandonSteps DEF InsertAbandoned
    <3> QED
      BY <1>1, <2>3, <3>1, FreeFields DEF InsertAbandoned, RunsOn
  <2> QED
    BY <1>4, <2>1, <2>2, <2>3 DEF Handler
<1>5. ASSUME NEW s \in Sessions, Server(s) PROVE LedgerInv'
  <2>1. CASE ClaimLock(s)
    BY <1>1, <2>1 DEF ClaimLock, TypeOK, Statement
  <2>2. CASE ClaimCommit(s)
    <3>1. /\ \A r \in Sessions \ {s} : stmt'[r] = stmt[r]
          /\ \/ stmt'[s] = Free
             \/ SameQuery(s) /\ stmt'[s].phase \in {"committed"} /\ stmt'[s].owner = stmt[s].owner
      BY <2>2, FinishSteps DEF ClaimCommit
    <3>2. stmt[s].rows \in SUBSET Orders /\ CountedAs(s) = "claim" /\ "claim" \in Transitions
      BY <2>2 DEF ClaimCommit, CountedAs, TypeOK, Statement, Transitions
    <3> QED
      BY <1>2, <2>2, <3>1, <3>2, FreeFields DEF ClaimCommit
  <2>3. CASE MarkCommit(s)
    <3>1. PICK o \in Orders : stmt[s].rows = {o}
      BY <2>3 DEF MarkCommit, MarkInv
    <3>2. Carries(s) = {o} /\ status[o] = "processing"
      BY <2>3, <3>1 DEF MarkCommit, Carries, ExclusiveCustody
    <3>3. /\ stmt' = [stmt EXCEPT ![s] = Finish(s, "committed")]
          /\ happened' = Bump(happened, {o}, Transition(stmt[s].to)) /\ counted' = counted
      BY <2>3, <3>1, <3>2 DEF MarkCommit
    <3>4. /\ \A r \in Sessions \ {s} : stmt'[r] = stmt[r]
          /\ stmt'[s] = Free \/ SameQuery(s)
      BY <3>3, FinishSteps
    <3>5. CountedAs(s) = Transition(stmt[s].to) /\ Transition(stmt[s].to) \in Transitions
      BY <2>3 DEF MarkCommit, CountedAs, Transition, MarkInv, Targets, Transitions, Outcomes
    <3> QED
      BY <1>2, <3>1, <3>3, <3>4, <3>5, FreeFields
  <2>4. CASE InsertCommit(s)
    <3>1. /\ \A r \in Sessions \ {s} : stmt'[r] = stmt[r]
          /\ \/ stmt'[s] = Free
             \/ SameQuery(s) /\ stmt'[s].phase \in {"committed"} /\ stmt'[s].owner = stmt[s].owner
      BY <2>4, FinishSteps DEF InsertCommit
    <3>2. stmt[s].rows \in SUBSET Orders /\ CountedAs(s) = "create" /\ "create" \in Transitions
      BY <2>4 DEF InsertCommit, CountedAs, TypeOK, Statement, Transitions
    <3> QED
      BY <1>2, <2>4, <3>1, <3>2, FreeFields DEF InsertCommit
  <2>5. CASE Abort(s)
    <3>1. (\A r \in Sessions \ {s} : stmt'[r] = stmt[r]) /\ (stmt'[s] = Free \/ stmt'[s].phase = "aborted")
      BY <2>5, FinishSteps DEF Abort
    <3> QED
      BY <1>1, <2>5, <3>1, FreeFields DEF Abort
  <2> QED
    BY <1>5, <2>1, <2>2, <2>3, <2>4, <2>5 DEF Server
<1>6. ASSUME NEW w \in Workers, stmt' = Disown(w), UNCHANGED <<counted, happened>> PROVE LedgerInv'
  <2>1. \A r \in Sessions : stmt'[r] = stmt[r] \/ stmt'[r] = Free \/ RunsOn(r)
    BY <1>6, DisownSteps
  <2> QED
    BY <1>1, <1>6, <2>1, FreeFields DEF RunsOn
<1>7. ASSUME NEW w \in Workers, WorkerStep(w) PROVE LedgerInv'
  <2>1. CASE Tick(w) \/ Stop(w) \/ EndRun(w) \/ Interrupt(w)
    BY <1>1, <2>1 DEF Tick, Stop, EndRun, Interrupt, dbVars
  <2>2. CASE ClaimError(w)
    BY <1>6, <2>2 DEF ClaimError
  <2>3. ASSUME NEW o \in Orders, Begin(w, o) PROVE LedgerInv'
    BY <1>1, <2>3 DEF Begin, dbVars
  <2>4. ASSUME NEW result \in Outcomes, Charge(w, result) PROVE LedgerInv'
    BY <1>1, <2>4 DEF Charge, dbVars
  <2>5. ASSUME NEW s \in Sessions, SendClaim(w, s) \/ SendMark(w, s) PROVE LedgerInv'
    BY <1>1, <2>5 DEF SendClaim, SendMark, Query, TypeOK
  <2>6. ASSUME NEW s \in Sessions, ClaimReply(w, s) PROVE LedgerInv'
    BY <1>3, <2>6 DEF ClaimReply, OwnerInv, CountedAs, Transitions
  <2>7. ASSUME NEW s \in Sessions, MarkReply(w, s) PROVE LedgerInv'
    <3>1. stmt[s].kind = "mark"
      BY <2>7 DEF MarkReply, OwnerInv
    <3>2. CountedAs(s) = Transition(stmt[s].to) /\ Transition(stmt[s].to) \in Transitions
      BY <3>1 DEF CountedAs, Transition, MarkInv, Targets, Transitions, Outcomes
    <3>3. CASE stmt[s].phase = "committed"
      BY <1>3, <2>7, <3>2, <3>3 DEF MarkReply, Counts
    <3>4. CASE stmt[s].phase # "committed"
      BY <1>1, <2>7, <3>4, FreeFields DEF MarkReply, Counts, TypeOK
    <3> QED
      BY <3>3, <3>4
  <2> QED
    BY <1>7, <2>1, <2>2, <2>3, <2>4, <2>5, <2>6, <2>7 DEF WorkerStep
<1>8. ASSUME NEW w \in Workers, WorkerFault(w) \/ Restart(w) PROVE LedgerInv'
  <2>1. CASE BatchPanic(w) \/ MarkTimeout(w) \/ Crash(w)
    BY <1>6, <2>1 DEF BatchPanic, MarkTimeout, Crash
  <2>2. CASE ProcessPanic(w) \/ Shutdown(w) \/ Restart(w)
    BY <1>1, <2>2 DEF ProcessPanic, Shutdown, Restart, dbVars
  <2> QED
    BY <1>8, <2>1, <2>2 DEF WorkerFault
<1>9. CASE UNCHANGED vars
  BY <1>1, <1>9 DEF vars, dbVars, workerVars
<1> QED
  BY <1>4, <1>5, <1>7, <1>8, <1>9 DEF Next

(* No counter is ever ahead of the table, for any number of replicas and       *)
(* whatever is lost between a commit and its reply.                            *)
THEOREM CountersNeverAhead == Spec => []NeverOvercounted
<1>1. Init => LedgerInv
  <2> SUFFICES ASSUME Init, NEW o \in Orders, NEW t \in Transitions
               PROVE  counted[o][t] + Cardinality(Awaiting(o, t)) <= happened[o][t]
    BY DEF LedgerInv
  <2>1. Awaiting(o, t) = {}
    BY FreeFields DEF Init, Awaiting
  <2>2. Cardinality(Awaiting(o, t)) = 0
    BY <2>1, FS_EmptySet
  <2>3. counted[o][t] = 0 /\ happened[o][t] = 0
    BY DEF Init
  <2> QED
    BY <2>2, <2>3
<1>2. IInv /\ LedgerInv => NeverOvercounted
  <2> SUFFICES ASSUME IInv, LedgerInv, NEW o \in Orders, NEW t \in Transitions
               PROVE  counted[o][t] <= happened[o][t]
    BY DEF NeverOvercounted
  <2>1. counted[o][t] \in Nat /\ happened[o][t] \in Nat
    BY DEF IInv, TypeOK
  <2>2. Cardinality(Awaiting(o, t)) \in Nat
    BY AwaitingFinite
  <2> QED
    BY <2>1, <2>2 DEF LedgerInv
<1> QED
  BY <1>1, <1>2, LedgerStep, Invariance, PTL DEF Spec

-----------------------------------------------------------------------------
(* The heartbeat.                                                              *)

(* Every way back to Run's select records the run, except through runOnce's    *)
(* guard, which counts a panic, and behind a cancelled context, which only the *)
(* next start of the process replaces.                                         *)
LEMMA HeartbeatStep == TypeOK /\ HeartbeatUnbroken /\ [Next]_vars => HeartbeatUnbroken'
<1> SUFFICES ASSUME TypeOK, HeartbeatUnbroken, [Next]_vars PROVE HeartbeatUnbroken'
  OBVIOUS
<1>1. ASSUME UNCHANGED <<pc, ctx, run>> PROVE HeartbeatUnbroken'
  BY <1>1 DEF HeartbeatUnbroken
<1>2. ASSUME NEW o \in Orders, NEW s \in Sessions, Handler(o, s) PROVE HeartbeatUnbroken'
  <2>1. UNCHANGED <<pc, ctx, run>>
    BY <1>2 DEF Handler, SendInsert, InsertReply, InsertAbandoned, workerVars
  <2> QED
    BY <2>1, <1>1
<1>3. ASSUME NEW s \in Sessions, Server(s) PROVE HeartbeatUnbroken'
  <2>1. UNCHANGED <<pc, ctx, run>>
    BY <1>3 DEF Server, ClaimLock, ClaimCommit, MarkCommit, InsertCommit, Abort, workerVars
  <2> QED
    BY <2>1, <1>1
<1>4. ASSUME NEW w \in Workers, WorkerStep(w) PROVE HeartbeatUnbroken'
  <2>1. CASE Tick(w)
    BY <2>1 DEF Tick, HeartbeatUnbroken, TypeOK
  <2>2. CASE Stop(w)
    BY <2>2 DEF Stop, HeartbeatUnbroken, TypeOK
  <2>3. CASE ClaimError(w)
    BY <2>3 DEF ClaimError, Silent, HeartbeatUnbroken, TypeOK
  <2>4. CASE EndRun(w)
    BY <2>4 DEF EndRun, HeartbeatUnbroken, TypeOK
  <2>5. CASE Interrupt(w)
    BY <2>5 DEF Interrupt, HeartbeatUnbroken, TypeOK
  <2>6. ASSUME NEW o \in Orders, Begin(w, o) PROVE HeartbeatUnbroken'
    BY <2>6 DEF Begin, HeartbeatUnbroken, TypeOK
  <2>7. ASSUME NEW result \in Outcomes, Charge(w, result) PROVE HeartbeatUnbroken'
    BY <2>7 DEF Charge, HeartbeatUnbroken, TypeOK
  <2>8. ASSUME NEW s \in Sessions, SendClaim(w, s) PROVE HeartbeatUnbroken'
    BY <2>8 DEF SendClaim, HeartbeatUnbroken, TypeOK
  <2>9. ASSUME NEW s \in Sessions, ClaimReply(w, s) PROVE HeartbeatUnbroken'
    <3>1. /\ UNCHANGED ctx /\ pc[w] = "claimwait"
          /\ \/ pc' = [pc EXCEPT ![w] = "idle"] /\ run' = [run EXCEPT ![w] = "recorded"]
             \/ pc' = [pc EXCEPT ![w] = "batch"] /\ UNCHANGED run
      BY <2>9 DEF ClaimReply
    <3> QED
      BY <3>1 DEF HeartbeatUnbroken, TypeOK
  <2>10. ASSUME NEW s \in Sessions, SendMark(w, s) PROVE HeartbeatUnbroken'
    BY <2>10 DEF SendMark, HeartbeatUnbroken, TypeOK
  <2>11. ASSUME NEW s \in Sessions, MarkReply(w, s) PROVE HeartbeatUnbroken'
    BY <2>11 DEF MarkReply, HeartbeatUnbroken, TypeOK
  <2> QED
    BY <1>4, <2>1, <2>2, <2>3, <2>4, <2>5, <2>6, <2>7, <2>8, <2>9, <2>10, <2>11 DEF WorkerStep
<1>5. ASSUME NEW w \in Workers, WorkerFault(w) PROVE HeartbeatUnbroken'
  <2>1. CASE BatchPanic(w)
    BY <2>1 DEF BatchPanic, Fault, HeartbeatUnbroken, TypeOK
  <2>2. CASE ProcessPanic(w)
    BY <2>2 DEF ProcessPanic, HeartbeatUnbroken, TypeOK
  <2>3. CASE MarkTimeout(w)
    BY <2>3 DEF MarkTimeout, HeartbeatUnbroken, TypeOK
  <2>4. CASE Shutdown(w)
    BY <2>4 DEF Shutdown, HeartbeatUnbroken, TypeOK
  <2>5. CASE Crash(w)
    BY <2>5 DEF Crash, HeartbeatUnbroken, TypeOK
  <2> QED
    BY <1>5, <2>1, <2>2, <2>3, <2>4, <2>5 DEF WorkerFault
<1>6. ASSUME NEW w \in Workers, Restart(w) PROVE HeartbeatUnbroken'
  BY <1>6 DEF Restart, HeartbeatUnbroken, TypeOK
<1>7. CASE UNCHANGED vars
  BY <1>1, <1>7 DEF vars, dbVars, workerVars
<1> QED
  BY <1>2, <1>3, <1>4, <1>5, <1>6, <1>7 DEF Next

(* A replica that is not shutting down is at Run's select only with a WorkerRun *)
(* recorded, whatever fails in runOnce or processOne, or with a panic counted.  *)
THEOREM HeartbeatHolesArePanics == Spec => []HeartbeatUnbroken
<1>1. Init => HeartbeatUnbroken
  BY DEF Init, HeartbeatUnbroken
<1> QED
  BY <1>1, HeartbeatStep, TypeCorrect, PTL DEF Spec

(* Where nothing panics, runOnce's "every exit path records a WorkerRun" holds  *)
(* of every replica that is not shutting down.                                 *)
THEOREM HeartbeatHasNoHoles == ASSUME "panic" \notin FaultKinds PROVE Spec => []EveryRunRecorded
<1>1. HeartbeatUnbroken => EveryRunRecorded
  BY DEF HeartbeatUnbroken, EveryRunRecorded
<1> QED
  BY <1>1, HeartbeatHolesArePanics, PTL
-----------------------------------------------------------------------------
(* Where a processing order can be lost.                                       *)

\* Somebody may still act on an order.
Kept(o) == (\E w \in Workers : o \in Holds(w)) \/ (\E s \in Sessions : o \in Carries(s))

\* An update that was sent is waited for.
MarkOwned == \A s \in Sessions : stmt[s].kind = "mark" => stmt[s].owner # "gone"

\* A step that is no fault of the server, the network, the code or the process.
Gentle ==
    /\ "timeout" \notin FaultKinds
    /\ \A kind \in {"dberror", "connloss", "panic", "crash"} : ~Fault(kind)

(* Gentle steps leave no update without its worker. *)
LEMMA MarkOwnedStep == IInv /\ MarkOwned /\ Gentle /\ [Next]_vars => MarkOwned'
<1> SUFFICES ASSUME IInv, MarkOwned, Gentle, [Next]_vars PROVE MarkOwned'
  OBVIOUS
<1> USE DEF IInv
<1>0. "gone" \notin Workers
  BY OwnersAssumption
<1>1. ASSUME \A r \in Sessions : \/ stmt'[r] = stmt[r] \/ stmt'[r].kind # "mark"
                                 \/ stmt'[r].owner \in Workers
                                 \/ stmt'[r].kind = stmt[r].kind /\ stmt'[r].owner = stmt[r].owner
      PROVE  MarkOwned'
  BY <1>0, <1>1 DEF MarkOwned
<1>2. ASSUME stmt' = stmt PROVE MarkOwned'
  BY <1>1, <1>2
<1>3. ASSUME NEW s \in Sessions, NEW phase, stmt' = [stmt EXCEPT ![s] = Finish(s, phase)]
      PROVE  MarkOwned'
  BY <1>1, <1>3, FinishSteps, FreeFields DEF SameQuery
<1>4. ASSUME NEW s \in Sessions, stmt' = [stmt EXCEPT ![s] = Free] PROVE MarkOwned'
  BY <1>1, <1>4, FreeFields DEF TypeOK
<1>5. ASSUME NEW o \in Orders, NEW s \in Sessions, Handler(o, s) PROVE MarkOwned'
  <2>1. CASE SendInsert(o, s)
    BY <1>1, <2>1 DEF SendInsert, Query, TypeOK
  <2>2. CASE InsertReply(o, s)
    BY <1>4, <2>2 DEF InsertReply
  <2>3. CASE InsertAbandoned(o, s)
    <3>1. stmt[s].kind = "insert" /\ stmt' = [stmt EXCEPT ![s] = Abandon(@)]
      BY <2>3 DEF InsertAbandoned
    <3>2. (\A r \in Sessions \ {s} : stmt'[r] = stmt[r]) /\ (stmt'[s] = Free \/ RunsOn(s))
      BY <3>1, AbandonSteps
    <3> QED
      BY <1>1, <3>1, <3>2, FreeFields DEF RunsOn, SameQuery
  <2> QED
    BY <1>5, <2>1, <2>2, <2>3 DEF Handler
<1>6. ASSUME NEW s \in Sessions, Server(s) PROVE MarkOwned'
  <2>1. CASE ClaimLock(s)
    BY <1>1, <2>1 DEF ClaimLock, TypeOK, Statement
  <2>2. CASE ClaimCommit(s) \/ MarkCommit(s) \/ InsertCommit(s) \/ Abort(s)
    BY <1>3, <2>2 DEF ClaimCommit, MarkCommit, InsertCommit, Abort
  <2> QED
    BY <1>6, <2>1, <2>2 DEF Server
<1>7. ASSUME NEW w \in Workers, WorkerStep(w) PROVE MarkOwned'
  <2>1. CASE Tick(w) \/ Stop(w) \/ EndRun(w) \/ Interrupt(w)
    BY <1>2, <2>1 DEF Tick, Stop, EndRun, Interrupt, dbVars
  <2>2. CASE ClaimError(w)
    <3>1. pc[w] \in {"claiming", "claimwait"} /\ stmt' = Disown(w)
      BY <2>2 DEF ClaimError, ClaimInterrupted
    <3>2. \A r \in Sessions : stmt[r].owner = w => stmt[r].kind = "claim"
      BY <3>1 DEF OwnerInv
    <3> QED
      BY <1>1, <3>1, <3>2, DisownSteps, FreeFields DEF RunsOn, SameQuery
  <2>3. ASSUME NEW o \in Orders, Begin(w, o) PROVE MarkOwned'
    BY <1>2, <2>3 DEF Begin, dbVars
  <2>4. ASSUME NEW result \in Outcomes, Charge(w, result) PROVE MarkOwned'
    BY <1>2, <2>4 DEF Charge, dbVars
  <2>5. ASSUME NEW s \in Sessions, SendClaim(w, s) \/ SendMark(w, s) PROVE MarkOwned'
    BY <1>1, <2>5 DEF SendClaim, SendMark, Query, TypeOK
  <2>6. ASSUME NEW s \in Sessions, ClaimReply(w, s) \/ MarkReply(w, s) PROVE MarkOwned'
    BY <1>4, <2>6 DEF ClaimReply, MarkReply
  <2> QED
    BY <1>7, <2>1, <2>2, <2>3, <2>4, <2>5, <2>6 DEF WorkerStep
<1>8. ASSUME NEW w \in Workers, WorkerFault(w) \/ Restart(w) PROVE MarkOwned'
  <2>1. ~BatchPanic(w) /\ ~ProcessPanic(w) /\ ~MarkTimeout(w) /\ ~Crash(w)
    BY DEF Gentle, BatchPanic, ProcessPanic, MarkTimeout, Crash
  <2>2. stmt' = stmt
    BY <1>8, <2>1 DEF WorkerFault, Shutdown, Restart, dbVars
  <2> QED
    BY <1>2, <2>2
<1>9. CASE UNCHANGED vars
  BY <1>2, <1>9 DEF vars, dbVars
<1> QED
  BY <1>5, <1>6, <1>7, <1>8, <1>9 DEF Next

\* A claim that commits with nobody waiting, and one whose reply is on its way to a worker that
\* does not wait any more.
CommitUnheard(o, s) == ClaimCommit(s) /\ stmt[s].owner = "gone" /\ o \in stmt[s].rows
ReplyUnheard(o, w, s) ==
    /\ ClaimError(w) /\ stmt[s].owner = w
    /\ stmt[s].kind = "claim" /\ stmt[s].phase = "committed" /\ o \in stmt[s].rows

(* In a gentle step custody of an order passes on, unless a claim goes unheard. *)
LEMMA CustodyPasses ==
    ASSUME IInv, MarkOwned, Gentle, [Next]_vars, NEW o \in Orders,
           status'[o] = "processing", status[o] = "processing" => Kept(o)
    PROVE  \/ Kept(o)'
           \/ \E s \in Sessions : CommitUnheard(o, s)
           \/ \E w \in Workers, s \in Sessions : ReplyUnheard(o, w, s)
<1> USE DEF IInv
<1>1. ASSUME status'[o] = status[o],
             \A w \in Workers : o \in Holds(w) => Kept(o)',
             \A s \in Sessions : o \in Carries(s) => Kept(o)'
      PROVE  Kept(o)'
  BY <1>1 DEF Kept
<1>2. ASSUME NEW w \in Workers, batch' [w] = batch[w], cur'[w] = cur[w], o \in Holds(w)
      PROVE  Kept(o)'
  BY <1>2 DEF Kept, Holds
<1>3. ASSUME NEW s \in Sessions, stmt'[s] = stmt[s], o \in Carries(s)
      PROVE  Kept(o)'
  BY <1>3 DEF Kept, Carries
<1>4. ASSUME NEW s \in Sessions, status'[o] = status[o], UNCHANGED <<batch, cur>>,
             \A r \in Sessions \ {s} : stmt'[r] = stmt[r], o \notin Carries(s)
      PROVE  Kept(o)'
  BY <1>1, <1>2, <1>3, <1>4
<1>5. ASSUME UNCHANGED <<status, stmt, batch, cur>> PROVE Kept(o)'
  BY <1>1, <1>2, <1>3, <1>5
<1>6. \A s \in Sessions : stmt[s] = Free => Carries(s) = {}
  BY FreeFields DEF Carries
<1>7. ASSUME NEW p \in Orders, NEW s \in Sessions, Handler(p, s) PROVE Kept(o)'
  <2>1. UNCHANGED <<status, batch, cur>> /\ Carries(s) = {}
    BY <1>6, <1>7 DEF Handler, SendInsert, InsertReply, InsertAbandoned, workerVars, Carries
  <2>2. \A r \in Sessions \ {s} : stmt'[r] = stmt[r]
    BY <1>7 DEF Handler, SendInsert, InsertReply, InsertAbandoned, TypeOK
  <2> QED
    BY <1>4, <2>1, <2>2
<1>8. ASSUME NEW s \in Sessions, Server(s) PROVE Kept(o)' \/ CommitUnheard(o, s)
  <2>0. UNCHANGED <<batch, cur>> /\ \A r \in Sessions \ {s} : stmt'[r] = stmt[r]
    BY <1>8 DEF Server, ClaimLock, ClaimCommit, MarkCommit, InsertCommit, Abort, workerVars, TypeOK
  <2>1. CASE ClaimLock(s)
    BY <1>4, <2>0, <2>1 DEF ClaimLock, Carries
  <2>2. CASE ClaimCommit(s)
    <3>1. CASE o \in stmt[s].rows /\ stmt[s].owner # "gone"
      <4>1. stmt'[s] = [stmt[s] EXCEPT !.phase = "committed"] /\ stmt[s].kind = "claim"
        BY <2>2, <3>1 DEF ClaimCommit, Finish, TypeOK
      <4>2. stmt'[s].kind = "claim" /\ stmt'[s].phase = "committed" /\ stmt'[s].rows = stmt[s].rows
        BY <4>1 DEF TypeOK, Statement
      <4> QED
        BY <3>1, <4>2 DEF Kept, Carries
    <3>2. CASE o \notin stmt[s].rows
      <4>1. status'[o] = status[o] /\ o \notin Carries(s)
        BY <2>2, <3>2 DEF ClaimCommit, Carries
      <4> QED
        BY <1>4, <2>0, <4>1
    <3> QED
      BY <2>2, <3>1, <3>2 DEF CommitUnheard
  <2>3. CASE MarkCommit(s)
    <3>1. stmt[s].to # "processing"
      BY <2>3 DEF MarkCommit, MarkInv, Targets, Outcomes
    <3>2. status'[o] = IF o \in {p \in stmt[s].rows : status[p] = "processing"} THEN stmt[s].to
                       ELSE status[o]
      BY <2>3 DEF MarkCommit
    <3>3. status'[o] = status[o] /\ o \notin stmt[s].rows
      BY <3>1, <3>2
    <3>4. o \notin Carries(s)
      BY <3>3 DEF Carries
    <3> QED
      BY <1>4, <2>0, <3>3, <3>4
  <2>4. CASE InsertCommit(s)
    <3>1. stmt[s].to = "pending" /\ stmt[s].kind = "insert"
      BY <2>4 DEF InsertCommit, InsertInv
    <3>2. status'[o] = status[o]
      BY <2>4, <3>1 DEF InsertCommit
    <3>3. o \notin Carries(s)
      BY <3>1 DEF Carries
    <3> QED
      BY <1>4, <2>0, <3>2, <3>3
  <2>5. CASE Abort(s)
    <3>1. stmt[s].owner = "gone" /\ stmt[s].phase \in {"sent", "locked"} /\ status' = status
      BY <2>5 DEF Abort, Gentle
    <3>2. o \notin Carries(s)
      BY <3>1 DEF Carries, MarkOwned
    <3> QED
      BY <1>4, <2>0, <3>1, <3>2
  <2> QED
    BY <1>8, <2>1, <2>2, <2>3, <2>4, <2>5 DEF Server
<1>9. ASSUME NEW w \in Workers, WorkerStep(w)
      PROVE  Kept(o)' \/ \E s \in Sessions : ReplyUnheard(o, w, s)
  <2>1. CASE Tick(w) \/ Stop(w) \/ EndRun(w) \/ Interrupt(w)
    BY <1>5, <2>1 DEF Tick, Stop, EndRun, Interrupt, dbVars
  <2>2. CASE ClaimError(w)
    <3>1. pc[w] \in {"claiming", "claimwait"} /\ stmt' = Disown(w) /\ UNCHANGED <<status, batch, cur>>
      BY <2>2 DEF ClaimError, ClaimInterrupted
    <3>2. \A r \in Sessions : stmt[r].owner = w => stmt[r].kind = "claim"
      BY <3>1 DEF OwnerInv
    <3>3. \A r \in Sessions : stmt[r].owner # w => stmt'[r] = stmt[r]
      BY <3>1, DisownSteps
    <3>4. ASSUME NEW r \in Sessions, o \in Carries(r)
          PROVE  Kept(o)' \/ \E s \in Sessions : ReplyUnheard(o, w, s)
      <4>1. CASE stmt[r].owner # w
        BY <1>3, <3>3, <3>4, <4>1
      <4>2. CASE stmt[r].owner = w
        <5>1. stmt[r].kind = "claim" /\ stmt[r].phase = "committed" /\ o \in stmt[r].rows
          BY <3>2, <3>4, <4>2 DEF Carries
        <5> QED
          BY <2>2, <4>2, <5>1 DEF ReplyUnheard
      <4> QED
        BY <4>1, <4>2
    <3>5. \A v \in Workers : o \in Holds(v) => Kept(o)'
      BY <1>2, <3>1
    <3> QED
      BY <3>1, <3>4, <3>5 DEF Kept
  <2>3. ASSUME NEW p \in Orders, Begin(w, p) PROVE Kept(o)'
    <3>1. /\ p \in batch[w] /\ UNCHANGED <<status, stmt>>
          /\ batch' = [batch EXCEPT ![w] = @ \ {p}] /\ cur' = [cur EXCEPT ![w] = {p}]
          /\ cur[w] = {}
      BY <2>3 DEF Begin, dbVars, WorkerInv
    <3>2. Holds(w) \subseteq Holds(w)'
      BY <3>1 DEF Holds, TypeOK
    <3>3. \A v \in Workers \ {w} : batch'[v] = batch[v] /\ cur'[v] = cur[v]
      BY <3>1 DEF TypeOK
    <3>4. \A v \in Workers : o \in Holds(v) => Kept(o)'
      BY <1>2, <3>2, <3>3 DEF Kept
    <3> QED
      BY <1>1, <1>3, <3>1, <3>4
  <2>4. ASSUME NEW result \in Outcomes, Charge(w, result) PROVE Kept(o)'
    BY <1>5, <2>4 DEF Charge, dbVars
  <2>5. ASSUME NEW s \in Sessions, SendClaim(w, s) PROVE Kept(o)'
    <3>1. UNCHANGED <<status, batch, cur>> /\ o \notin Carries(s)
      BY <1>6, <2>5 DEF SendClaim
    <3>2. \A r \in Sessions \ {s} : stmt'[r] = stmt[r]
      BY <2>5 DEF SendClaim, TypeOK
    <3> QED
      BY <1>4, <3>1, <3>2
  <2>6. ASSUME NEW s \in Sessions, ClaimReply(w, s) PROVE Kept(o)'
    <3>1. /\ UNCHANGED <<status, cur>> /\ batch' = [batch EXCEPT ![w] = stmt[s].rows] /\ batch[w] = {}
      BY <2>6 DEF ClaimReply, WorkerInv
    <3>2. \A r \in Sessions \ {s} : stmt'[r] = stmt[r]
      BY <2>6 DEF ClaimReply, TypeOK
    <3>3. o \in Carries(s) => o \in Holds(w)'
      BY <3>1 DEF Carries, Holds, TypeOK
    <3>4. \A v \in Workers : o \in Holds(v) => o \in Holds(v)'
      BY <3>1 DEF Holds, TypeOK
    <3> QED
      BY <1>1, <1>3, <3>1, <3>2, <3>3, <3>4 DEF Kept
  <2>7. ASSUME NEW s \in Sessions, SendMark(w, s) PROVE Kept(o)'
    <3>1. /\ UNCHANGED <<status, batch>> /\ cur' = [cur EXCEPT ![w] = {}] /\ o \notin Carries(s)
          /\ stmt' = [stmt EXCEPT ![s] = Query("mark", cur[w], outcome[w], w)]
      BY <1>6, <2>7 DEF SendMark
    <3>2. (\A r \in Sessions \ {s} : stmt'[r] = stmt[r]) /\ Carries(s)' = cur[w]
      BY <3>1 DEF TypeOK, Carries, Query
    <3>3. \A v \in Workers : o \in Holds(v) => o \in Holds(v)' \/ o \in Carries(s)'
      BY <3>1, <3>2 DEF Holds, TypeOK
    <3>4. \A v \in Workers : o \in Holds(v) => Kept(o)'
      BY <3>3 DEF Kept
    <3> QED
      BY <1>1, <1>3, <3>1, <3>2, <3>4
  <2>8. ASSUME NEW s \in Sessions, MarkReply(w, s) PROVE Kept(o)'
    <3>1. UNCHANGED <<status, batch, cur>> /\ o \notin Carries(s)
      BY <2>8 DEF MarkReply, OwnerInv, Carries
    <3>2. \A r \in Sessions \ {s} : stmt'[r] = stmt[r]
      BY <2>8 DEF MarkReply, TypeOK
    <3> QED
      BY <1>4, <3>1, <3>2
  <2> QED
    BY <1>9, <2>1, <2>2, <2>3, <2>4, <2>5, <2>6, <2>7, <2>8 DEF WorkerStep
<1>10. ASSUME NEW w \in Workers, WorkerFault(w) \/ Restart(w) PROVE Kept(o)'
  <2>1. ~BatchPanic(w) /\ ~ProcessPanic(w) /\ ~MarkTimeout(w) /\ ~Crash(w)
    BY DEF Gentle, BatchPanic, ProcessPanic, MarkTimeout, Crash
  <2>2. UNCHANGED <<status, stmt, batch, cur>>
    BY <1>10, <2>1 DEF WorkerFault, Shutdown, Restart, dbVars
  <2> QED
    BY <1>5, <2>2
<1>11. CASE UNCHANGED vars
  BY <1>5, <1>11 DEF vars, dbVars, workerVars
<1> QED
  BY <1>7, <1>8, <1>9, <1>10, <1>11 DEF Next

(* Claims are never taken back, and one is counted only for an order whose     *)
(* reply was under way.                                                        *)
LEMMA ClaimsOf ==
    ASSUME IInv, [Next]_vars, NEW o \in Orders
    PROVE  /\ happened'[o]["claim"] \in {happened[o]["claim"], happened[o]["claim"] + 1}
           /\ \/ counted'[o]["claim"] = counted[o]["claim"]
              \/ \E s \in Sessions : o \in Carries(s)
<1> USE DEF IInv
<1>0. /\ happened \in [Orders -> [Transitions -> Nat]] /\ counted \in [Orders -> [Transitions -> Nat]]
      /\ "claim" \in Transitions
  BY DEF TypeOK, Transitions
<1>1. ASSUME UNCHANGED <<counted, happened>>
      PROVE  /\ happened'[o]["claim"] \in {happened[o]["claim"], happened[o]["claim"] + 1}
             /\ counted'[o]["claim"] = counted[o]["claim"]
  BY <1>1
<1>2. ASSUME NEW os, NEW t \in Transitions, happened' = Bump(happened, os, t)
      PROVE  happened'[o]["claim"] \in {happened[o]["claim"], happened[o]["claim"] + 1}
  <2>1. Bump(happened, os, t)[o]["claim"] =
          IF o \in os /\ "claim" = t THEN happened[o]["claim"] + 1 ELSE happened[o]["claim"]
    BY <1>0, BumpValue
  <2> QED
    BY <1>2, <2>1
<1>3. ASSUME NEW os, NEW t \in Transitions, counted' = Bump(counted, os, t), t # "claim" \/ o \notin os
      PROVE  counted'[o]["claim"] = counted[o]["claim"]
  <2>1. Bump(counted, os, t)[o]["claim"] =
          IF o \in os /\ "claim" = t THEN counted[o]["claim"] + 1 ELSE counted[o]["claim"]
    BY <1>0, BumpValue
  <2> QED
    BY <1>3, <2>1
<1>4. \A s \in Sessions : stmt[s].kind = "mark" =>
        Transition(stmt[s].to) \in Transitions /\ Transition(stmt[s].to) # "claim"
  BY DEF MarkInv, Transition, Targets, Transitions, Outcomes
<1>5. ASSUME NEW p \in Orders, NEW s \in Sessions, Handler(p, s)
      PROVE  happened' = happened /\ counted'[o]["claim"] = counted[o]["claim"]
  <2>1. happened' = happened
    BY <1>5 DEF Handler, SendInsert, InsertReply, InsertAbandoned
  <2>2. counted' = counted \/ counted' = Bump(counted, {p}, "create")
    BY <1>5 DEF Handler, SendInsert, InsertReply, InsertAbandoned
  <2>3. "create" \in Transitions
    BY DEF Transitions
  <2> QED
    BY <1>3, <2>1, <2>2, <2>3
<1>6. ASSUME NEW s \in Sessions, Server(s)
      PROVE  /\ happened'[o]["claim"] \in {happened[o]["claim"], happened[o]["claim"] + 1}
             /\ counted' = counted
  <2>1. CASE ClaimLock(s) \/ Abort(s)
    BY <2>1 DEF ClaimLock, Abort
  <2>2. CASE ClaimCommit(s)
    BY <1>0, <1>2, <2>2 DEF ClaimCommit
  <2>3. CASE MarkCommit(s)
    BY <1>2, <1>4, <2>3 DEF MarkCommit
  <2>4. CASE InsertCommit(s)
    <3>1. "create" \in Transitions
      BY DEF Transitions
    <3> QED
      BY <1>2, <2>4, <3>1 DEF InsertCommit
  <2> QED
    BY <1>6, <2>1, <2>2, <2>3, <2>4 DEF Server
<1>7. ASSUME NEW w \in Workers, WorkerStep(w)
      PROVE  /\ happened' = happened
             /\ counted'[o]["claim"] = counted[o]["claim"] \/ \E s \in Sessions : o \in Carries(s)
  <2>1. CASE Tick(w) \/ Stop(w) \/ EndRun(w) \/ Interrupt(w) \/ ClaimError(w)
    BY <2>1 DEF Tick, Stop, EndRun, Interrupt, ClaimError, dbVars
  <2>2. ASSUME NEW p \in Orders, Begin(w, p) PROVE UNCHANGED <<counted, happened>>
    BY <2>2 DEF Begin, dbVars
  <2>3. ASSUME NEW result \in Outcomes, Charge(w, result) PROVE UNCHANGED <<counted, happened>>
    BY <2>3 DEF Charge, dbVars
  <2>4. ASSUME NEW s \in Sessions, SendClaim(w, s) \/ SendMark(w, s)
        PROVE  UNCHANGED <<counted, happened>>
    BY <2>4 DEF SendClaim, SendMark
  <2>5. ASSUME NEW s \in Sessions, ClaimReply(w, s)
        PROVE  /\ happened' = happened
               /\ counted'[o]["claim"] = counted[o]["claim"] \/ o \in Carries(s)
    <3>1. /\ happened' = happened /\ counted' = Bump(counted, stmt[s].rows, "claim")
          /\ Carries(s) = stmt[s].rows
      BY <2>5 DEF ClaimReply, OwnerInv, Carries
    <3> QED
      BY <1>0, <1>3, <3>1
  <2>6. ASSUME NEW s \in Sessions, MarkReply(w, s)
        PROVE  happened' = happened /\ counted'[o]["claim"] = counted[o]["claim"]
    <3>1. stmt[s].kind = "mark" /\ happened' = happened
      BY <2>6 DEF MarkReply, OwnerInv
    <3>2. counted' = counted \/ counted' = Bump(counted, stmt[s].rows, Transition(stmt[s].to))
      BY <2>6 DEF MarkReply
    <3> QED
      BY <1>3, <1>4, <3>1, <3>2
  <2> QED
    BY <1>7, <2>1, <2>2, <2>3, <2>4, <2>5, <2>6 DEF WorkerStep
<1>8. ASSUME NEW w \in Workers, WorkerFault(w) \/ Restart(w) PROVE UNCHANGED <<counted, happened>>
  BY <1>8 DEF WorkerFault, BatchPanic, ProcessPanic, MarkTimeout, Shutdown, Crash, Restart, dbVars
<1>9. CASE UNCHANGED vars
  BY <1>1, <1>9 DEF vars, dbVars
<1> QED
  BY <1>1, <1>5, <1>6, <1>7, <1>8, <1>9 DEF Next

\* A processing order is in custody, or a claim of it was never counted.
KeptInv ==
    \A o \in Orders : status[o] = "processing" =>
        Kept(o) \/ counted[o]["claim"] < happened[o]["claim"]

(* Shutdowns lose an order only with the reply to a claim. *)
LEMMA KeptStep ==
    IInv /\ LedgerInv /\ MarkOwned /\ Gentle /\ KeptInv /\ [Next]_vars => KeptInv'
<1> SUFFICES ASSUME IInv, LedgerInv, MarkOwned, Gentle, KeptInv, [Next]_vars,
                    NEW o \in Orders, status'[o] = "processing", ~Kept(o)'
             PROVE  counted'[o]["claim"] < happened'[o]["claim"]
  BY DEF KeptInv
<1>1. counted[o]["claim"] \in Nat /\ happened[o]["claim"] \in Nat /\ "claim" \in Transitions
  BY DEF IInv, TypeOK, Transitions
<1>2. /\ counted[o]["claim"] + Cardinality(Awaiting(o, "claim")) <= happened[o]["claim"]
      /\ IsFiniteSet(Awaiting(o, "claim")) /\ Cardinality(Awaiting(o, "claim")) \in Nat
  BY <1>1, AwaitingFinite DEF LedgerInv
<1>3. /\ happened'[o]["claim"] \in {happened[o]["claim"], happened[o]["claim"] + 1}
      /\ counted'[o]["claim"] = counted[o]["claim"] \/ \E s \in Sessions : o \in Carries(s)
  BY ClaimsOf
<1>4. CASE status[o] = "processing" /\ ~Kept(o)
  <2>1. counted[o]["claim"] < happened[o]["claim"]
    BY <1>4 DEF KeptInv
  <2>2. counted'[o]["claim"] = counted[o]["claim"]
    BY <1>3, <1>4 DEF Kept
  <2> QED
    BY <1>1, <1>3, <2>1, <2>2
<1>5. CASE status[o] = "processing" => Kept(o)
  <2>1. \/ \E s \in Sessions : CommitUnheard(o, s)
        \/ \E w \in Workers, s \in Sessions : ReplyUnheard(o, w, s)
    BY <1>5, CustodyPasses
  <2>2. ASSUME NEW s \in Sessions, CommitUnheard(o, s)
        PROVE  counted'[o]["claim"] < happened'[o]["claim"]
    <3>1. counted' = counted /\ happened' = Bump(happened, stmt[s].rows, "claim") /\ o \in stmt[s].rows
      BY <2>2 DEF CommitUnheard, ClaimCommit
    <3>2. Bump(happened, stmt[s].rows, "claim")[o]["claim"] = happened[o]["claim"] + 1
      <4>1. happened \in [Orders -> [Transitions -> Nat]]
        BY DEF IInv, TypeOK
      <4> QED
        BY <1>1, <3>1, <4>1, BumpValue
    <3> QED
      BY <1>1, <1>2, <3>1, <3>2
  <2>3. ASSUME NEW w \in Workers, NEW s \in Sessions, ReplyUnheard(o, w, s)
        PROVE  counted'[o]["claim"] < happened'[o]["claim"]
    <3>1. UNCHANGED <<counted, happened>> /\ s \in Awaiting(o, "claim")
      BY <2>3 DEF ReplyUnheard, ClaimError, Awaiting, CountedAs
    <3>2. Cardinality(Awaiting(o, "claim")) # 0
      BY <1>2, <3>1, FS_EmptySet
    <3> QED
      BY <1>1, <1>2, <3>1, <3>2
  <2> QED
    BY <2>1, <2>2, <2>3
<1> QED
  BY <1>4, <1>5

(* Where shutdowns and requests that hang up are the only disturbances, every  *)
(* order a worker received is settled or released: an order is stranded only   *)
(* when the reply to its claim found no worker waiting (worker.go:163).        *)
THEOREM DeliveredIsNeverStranded ==
    ASSUME FaultKinds \subseteq {"shutdown", "disconnect"}
    PROVE  Spec => []DeliveredNeverStranded
<1>1. Gentle
  BY DEF Gentle, Fault
<1>2. Init => LedgerInv /\ MarkOwned /\ KeptInv
  <2> SUFFICES ASSUME Init PROVE LedgerInv /\ MarkOwned /\ KeptInv
    OBVIOUS
  <2>1. LedgerInv
    <3> SUFFICES ASSUME NEW o \in Orders, NEW t \in Transitions
                 PROVE  counted[o][t] + Cardinality(Awaiting(o, t)) <= happened[o][t]
      BY DEF LedgerInv
    <3>1. Awaiting(o, t) = {}
      BY FreeFields DEF Init, Awaiting
    <3>2. Cardinality(Awaiting(o, t)) = 0
      BY <3>1, FS_EmptySet
    <3>3. counted[o][t] = 0 /\ happened[o][t] = 0
      BY DEF Init
    <3> QED
      BY <3>2, <3>3
  <2>2. MarkOwned /\ KeptInv
    BY FreeFields DEF Init, MarkOwned, KeptInv
  <2> QED
    BY <2>1, <2>2
<1>3. /\ IInv /\ IInv' /\ LedgerInv /\ MarkOwned /\ KeptInv /\ [Next]_vars
      => (LedgerInv /\ MarkOwned /\ KeptInv)'
  BY <1>1, LedgerStep, MarkOwnedStep, KeptStep
<1>4. KeptInv => DeliveredNeverStranded
  BY DEF KeptInv, Kept, DeliveredNeverStranded, Stranded
<1> QED
  BY <1>2, <1>3, <1>4, Invariance, PTL DEF Spec
-----------------------------------------------------------------------------
(* Before the first fault.                                                     *)

\* What LedgerExact assumes of a state.
Calm == faults = 0 /\ "timeout" \notin FaultKinds

\* Everybody who asked still waits, and the server refused nothing.
Attended ==
    /\ \A w \in Workers : ctx[w] = "live"
    /\ \A s \in Sessions : stmt[s].kind # "free" => stmt[s].owner # "gone"
    /\ \A s \in Sessions : stmt[s].phase # "aborted"

\* Every reply on its way is one transition that is still to be counted, and no other is.
LedgerEven ==
    \A o \in Orders, t \in Transitions :
        counted[o][t] + Cardinality(Awaiting(o, t)) = happened[o][t]

NoneLost == \A o \in Orders : status[o] = "processing" => Kept(o)

CalmInv == Calm => Attended /\ MarkOwned /\ LedgerEven /\ NoneLost

(* A calm state is reached by calm steps only: none of them is a fault. *)
LEMMA CalmBefore ==
    ASSUME TypeOK, [Next]_vars, Calm'
    PROVE  Calm /\ (\A kind : ~Fault(kind)) /\ faults' = faults
<1>1. faults \in Nat /\ faults' = 0 /\ "timeout" \notin FaultKinds
  BY MaxFaultsAssumption DEF TypeOK, Calm
<1>2. \A kind : ~Fault(kind)
  BY <1>1 DEF Fault
<1>3. ASSUME NEW o \in Orders, NEW s \in Sessions, Handler(o, s) PROVE faults' = faults
  BY <1>2, <1>3 DEF Handler, SendInsert, InsertReply, InsertAbandoned
<1>4. ASSUME NEW s \in Sessions, Server(s) PROVE faults' = faults
  BY <1>2, <1>4 DEF Server, ClaimLock, ClaimCommit, MarkCommit, InsertCommit, Abort
<1>5. ASSUME NEW w \in Workers, WorkerStep(w) PROVE faults' = faults
  BY <1>2, <1>5 DEF WorkerStep, Tick, Stop, ClaimError, EndRun, Interrupt, Begin, Charge, SendClaim,
     ClaimReply, SendMark, MarkReply
<1>6. ASSUME NEW w \in Workers, WorkerFault(w) \/ Restart(w) PROVE faults' = faults
  BY <1>2, <1>6 DEF WorkerFault, BatchPanic, ProcessPanic, MarkTimeout, Shutdown, Crash, Restart
<1>7. ASSUME UNCHANGED vars PROVE faults' = faults
  BY <1>7 DEF vars, dbVars, workerVars
<1>8. faults' = faults
  BY <1>3, <1>4, <1>5, <1>6, <1>7 DEF Next
<1> QED
  BY <1>1, <1>2, <1>8 DEF Calm

(* The steps that a calm state rules out. *)
LEMMA CalmExcludes ==
    ASSUME Attended, "timeout" \notin FaultKinds, \A kind : ~Fault(kind)
    PROVE  /\ \A o \in Orders, s \in Sessions : ~InsertAbandoned(o, s)
           /\ \A s \in Sessions : ~Abort(s)
           /\ \A w \in Workers : ~WorkerFault(w) /\ ~ClaimError(w) /\ ~Stop(w) /\ ~Interrupt(w)
<1>1. \A o \in Orders, s \in Sessions : ~InsertAbandoned(o, s)
  BY DEF InsertAbandoned
<1>2. \A s \in Sessions : ~Abort(s)
  BY DEF Abort, Attended
<1>3. \A w \in Workers : ~WorkerFault(w)
  BY DEF WorkerFault, BatchPanic, ProcessPanic, MarkTimeout, Shutdown, Crash
<1>4. \A w \in Workers : ~ClaimError(w) /\ ~Stop(w) /\ ~Interrupt(w)
  BY DEF ClaimError, ClaimInterrupted, Stop, Interrupt, Attended
<1> QED
  BY <1>1, <1>2, <1>3, <1>4

(* A calm step leaves nobody unattended. *)
LEMMA AttendedStep ==
    ASSUME IInv, Attended, "timeout" \notin FaultKinds, \A kind : ~Fault(kind), [Next]_vars
    PROVE  Attended'
<1> USE DEF IInv
<1>0. "gone" \notin Workers
  BY OwnersAssumption
<1>1. ASSUME ctx' = ctx,
             \A r \in Sessions :
                \/ stmt'[r] = stmt[r] \/ stmt'[r] = Free
                \/ stmt'[r].owner # "gone" /\ stmt'[r].phase # "aborted"
      PROVE  Attended'
  BY <1>1, FreeFields DEF Attended
<1>2. ASSUME NEW s \in Sessions, NEW phase, phase # "aborted", ctx' = ctx, stmt[s].kind # "free",
             stmt' = [stmt EXCEPT ![s] = Finish(s, phase)]
      PROVE  Attended'
  <2>1. /\ \A r \in Sessions \ {s} : stmt'[r] = stmt[r]
        /\ \/ stmt'[s] = Free
           \/ SameQuery(s) /\ stmt'[s].phase = phase /\ stmt'[s].owner = stmt[s].owner
    BY <1>2, FinishSteps
  <2>2. stmt[s].owner # "gone"
    BY <1>2 DEF Attended
  <2> QED
    BY <1>1, <1>2, <2>1, <2>2
<1>3. ASSUME NEW s \in Sessions, ctx' = ctx, stmt' = [stmt EXCEPT ![s] = Free] PROVE Attended'
  BY <1>1, <1>3 DEF TypeOK
<1>4. ASSUME UNCHANGED <<ctx, stmt>> PROVE Attended'
  BY <1>1, <1>4
<1>5. ASSUME NEW o \in Orders, NEW s \in Sessions, Handler(o, s) PROVE Attended'
  <2>1. CASE SendInsert(o, s)
    BY <1>1, <2>1 DEF SendInsert, Query, TypeOK, workerVars
  <2>2. CASE InsertReply(o, s)
    BY <1>3, <2>2 DEF InsertReply, workerVars
  <2> QED
    BY <1>5, <2>1, <2>2, CalmExcludes DEF Handler
<1>6. ASSUME NEW s \in Sessions, Server(s) PROVE Attended'
  <2>1. CASE ClaimLock(s)
    <3>1. \A r \in Sessions \ {s} : stmt'[r] = stmt[r]
      BY <2>1 DEF ClaimLock, TypeOK
    <3>2. stmt[s].owner # "gone" /\ stmt[s] \in Statement
      BY <2>1 DEF ClaimLock, TypeOK, Attended
    <3>3. stmt'[s].owner # "gone" /\ stmt'[s].phase # "aborted"
      BY <2>1, <3>2 DEF ClaimLock, TypeOK, Statement
    <3> QED
      BY <1>1, <2>1, <3>1, <3>3 DEF ClaimLock, workerVars
  <2>2. CASE ClaimCommit(s)
    BY <1>2, <2>2 DEF ClaimCommit, workerVars
  <2>3. CASE MarkCommit(s)
    BY <1>2, <2>3 DEF MarkCommit, workerVars
  <2>4. CASE InsertCommit(s)
    BY <1>2, <2>4 DEF InsertCommit, workerVars
  <2> QED
    BY <1>6, <2>1, <2>2, <2>3, <2>4, CalmExcludes DEF Server
<1>7. ASSUME NEW w \in Workers, WorkerStep(w) PROVE Attended'
  <2>1. CASE Tick(w) \/ EndRun(w)
    BY <1>4, <2>1 DEF Tick, EndRun, dbVars
  <2>2. ASSUME NEW o \in Orders, Begin(w, o) PROVE Attended'
    BY <1>4, <2>2 DEF Begin, dbVars
  <2>3. ASSUME NEW result \in Outcomes, Charge(w, result) PROVE Attended'
    BY <1>4, <2>3 DEF Charge, dbVars
  <2>4. ASSUME NEW s \in Sessions, SendClaim(w, s) \/ SendMark(w, s) PROVE Attended'
    BY <1>0, <1>1, <2>4 DEF SendClaim, SendMark, Query, TypeOK
  <2>5. ASSUME NEW s \in Sessions, ClaimReply(w, s) \/ MarkReply(w, s) PROVE Attended'
    BY <1>3, <2>5 DEF ClaimReply, MarkReply
  <2> QED
    BY <1>7, <2>1, <2>2, <2>3, <2>4, <2>5, CalmExcludes DEF WorkerStep
<1>8. ASSUME NEW w \in Workers, Restart(w) PROVE Attended'
  BY <1>8 DEF Restart, Attended, dbVars, TypeOK
<1>9. CASE UNCHANGED vars
  BY <1>4, <1>9 DEF vars, dbVars, workerVars
<1> QED
  BY <1>5, <1>6, <1>7, <1>8, <1>9, CalmExcludes DEF Next

\* One counter of one order, exactly.
LEMMA EvenCell ==
    ASSUME NEW o \in Orders, NEW t \in Transitions, TypeOK,
           counted[o][t] + Cardinality(Awaiting(o, t)) = happened[o][t],
           \/ /\ counted'[o][t] = counted[o][t] /\ happened'[o][t] = happened[o][t]
              /\ Awaiting(o, t)' = Awaiting(o, t)
           \/ /\ counted'[o][t] = counted[o][t] /\ happened'[o][t] = happened[o][t] + 1
              /\ \E s \in Sessions : s \notin Awaiting(o, t) /\ Awaiting(o, t)' = Awaiting(o, t) \cup {s}
           \/ /\ counted'[o][t] = counted[o][t] + 1 /\ happened'[o][t] = happened[o][t]
              /\ \E s \in Awaiting(o, t) : Awaiting(o, t)' = Awaiting(o, t) \ {s}
    PROVE  counted'[o][t] + Cardinality(Awaiting(o, t)') = happened'[o][t]
<1> DEFINE A == Awaiting(o, t)
           B == Awaiting(o, t)'
<1>1. IsFiniteSet(A) /\ Cardinality(A) \in Nat
  BY AwaitingFinite
<1>2. counted[o][t] \in Nat /\ happened[o][t] \in Nat
  BY DEF TypeOK
<1> HIDE DEF A, B
<1>3. CASE B = A /\ counted'[o][t] = counted[o][t] /\ happened'[o][t] = happened[o][t]
  BY <1>3 DEF A, B
<1>4. ASSUME NEW s \in Sessions, s \notin A, B = A \cup {s},
             counted'[o][t] = counted[o][t], happened'[o][t] = happened[o][t] + 1
      PROVE  counted'[o][t] + Cardinality(B) = happened'[o][t]
  <2>1. Cardinality(B) = Cardinality(A) + 1
    BY <1>1, <1>4, FS_AddElement
  <2> QED
    BY <2>1, <1>1, <1>2, <1>4 DEF A
<1>5. ASSUME NEW s \in A, B = A \ {s},
             counted'[o][t] = counted[o][t] + 1, happened'[o][t] = happened[o][t]
      PROVE  counted'[o][t] + Cardinality(B) = happened'[o][t]
  <2>1. Cardinality(B) = Cardinality(A) - 1
    BY <1>1, <1>5, FS_RemoveElement
  <2> QED
    BY <2>1, <1>1, <1>2, <1>5 DEF A
<1> QED
  BY <1>3, <1>4, <1>5 DEF A, B

(* A calm step counts what was committed, once. *)
LEMMA EvenStep ==
    ASSUME IInv, Attended, "timeout" \notin FaultKinds, \A kind : ~Fault(kind), LedgerEven, [Next]_vars
    PROVE  LedgerEven'
<1> USE DEF IInv
<1>1. ASSUME UNCHANGED <<counted, happened>>,
             \A r \in Sessions :
                \/ stmt'[r] = stmt[r]
                \/ stmt[r].phase # "committed" /\ stmt'[r].phase # "committed"
      PROVE  LedgerEven'
  <2>1. \A o \in Orders, t \in Transitions : Awaiting(o, t)' = Awaiting(o, t)
    BY <1>1 DEF Awaiting, CountedAs
  <2> QED
    BY <1>1, <2>1, EvenCell DEF LedgerEven
<1>2. ASSUME NEW s \in Sessions, stmt[s].phase # "committed",
             counted' = counted, happened' = Bump(happened, stmt[s].rows, CountedAs(s)),
             \A r \in Sessions \ {s} : stmt'[r] = stmt[r],
             CountedAs(s) \in Transitions,
             SameQuery(s), stmt'[s].phase = "committed"
      PROVE  LedgerEven'
  <2> SUFFICES ASSUME NEW o \in Orders, NEW t \in Transitions
               PROVE  counted'[o][t] + Cardinality(Awaiting(o, t)') = happened'[o][t]
    BY DEF LedgerEven
  <2>1. happened'[o][t] =
          IF o \in stmt[s].rows /\ t = CountedAs(s) THEN happened[o][t] + 1 ELSE happened[o][t]
    <3>1. happened \in [Orders -> [Transitions -> Nat]]
      BY DEF TypeOK
    <3>2. Bump(happened, stmt[s].rows, CountedAs(s))[o][t] =
            IF o \in stmt[s].rows /\ t = CountedAs(s) THEN happened[o][t] + 1 ELSE happened[o][t]
      BY <1>2, <3>1, BumpValue
    <3> QED
      BY <1>2, <3>2
  <2>2. CountedAs(s)' = CountedAs(s) /\ \A r \in Sessions \ {s} : CountedAs(r)' = CountedAs(r)
    BY <1>2 DEF CountedAs, SameQuery
  <2>3. s \notin Awaiting(o, t)
    BY <1>2 DEF Awaiting
  <2>4. CASE o \in stmt[s].rows /\ t = CountedAs(s)
    <3>1. Awaiting(o, t)' = Awaiting(o, t) \cup {s}
      BY <1>2, <2>2, <2>4 DEF Awaiting, SameQuery
    <3> QED
      BY <1>2, <2>1, <2>3, <2>4, <3>1, EvenCell DEF LedgerEven
  <2>5. CASE ~(o \in stmt[s].rows /\ t = CountedAs(s))
    <3>1. Awaiting(o, t)' = Awaiting(o, t)
      BY <1>2, <2>2, <2>5 DEF Awaiting, SameQuery
    <3> QED
      BY <1>2, <2>1, <2>5, <3>1, EvenCell DEF LedgerEven
  <2> QED
    BY <2>4, <2>5
<1>3. ASSUME NEW s \in Sessions, happened' = happened, stmt[s].phase = "committed",
             counted' = Bump(counted, stmt[s].rows, CountedAs(s)),
             stmt' = [stmt EXCEPT ![s] = Free], CountedAs(s) \in Transitions
      PROVE  LedgerEven'
  <2> SUFFICES ASSUME NEW o \in Orders, NEW t \in Transitions
               PROVE  counted'[o][t] + Cardinality(Awaiting(o, t)') = happened'[o][t]
    BY DEF LedgerEven
  <2>1. \A r \in Sessions \ {s} : stmt'[r] = stmt[r]
    BY <1>3 DEF TypeOK
  <2>2. stmt'[s].phase # "committed"
    BY <1>3, FreeFields DEF TypeOK
  <2>3. Awaiting(o, t)' = Awaiting(o, t) \ {s}
    BY <2>1, <2>2 DEF Awaiting, CountedAs
  <2>4. counted'[o][t] =
          IF o \in stmt[s].rows /\ t = CountedAs(s) THEN counted[o][t] + 1 ELSE counted[o][t]
    <3>1. counted \in [Orders -> [Transitions -> Nat]]
      BY DEF TypeOK
    <3>2. Bump(counted, stmt[s].rows, CountedAs(s))[o][t] =
            IF o \in stmt[s].rows /\ t = CountedAs(s) THEN counted[o][t] + 1 ELSE counted[o][t]
      BY <1>3, <3>1, BumpValue
    <3> QED
      BY <1>3, <3>2
  <2>5. CASE o \in stmt[s].rows /\ t = CountedAs(s)
    <3>1. s \in Awaiting(o, t)
      BY <1>3, <2>5 DEF Awaiting
    <3> QED
      BY <1>3, <2>3, <2>4, <2>5, <3>1, EvenCell DEF LedgerEven
  <2>6. CASE ~(o \in stmt[s].rows /\ t = CountedAs(s))
    <3>1. Awaiting(o, t)' = Awaiting(o, t)
      BY <2>3, <2>6 DEF Awaiting
    <3> QED
      BY <1>3, <2>4, <2>6, <3>1, EvenCell DEF LedgerEven
  <2> QED
    BY <2>5, <2>6
<1>4. ASSUME NEW s \in Sessions, stmt[s].kind # "free", stmt[s].phase # "committed",
             stmt' = [stmt EXCEPT ![s] = Finish(s, "committed")]
      PROVE  /\ \A r \in Sessions \ {s} : stmt'[r] = stmt[r]
             /\ SameQuery(s) /\ stmt'[s].phase = "committed"
  <2>1. stmt[s].owner # "gone" /\ stmt[s] \in Statement
    BY <1>4 DEF Attended, TypeOK
  <2>2. stmt'[s] = [stmt[s] EXCEPT !.phase = "committed"]
    BY <1>4, <2>1 DEF Finish, TypeOK
  <2> QED
    BY <1>4, <2>1, <2>2 DEF SameQuery, Statement, TypeOK
<1>5. ASSUME NEW o \in Orders, NEW s \in Sessions, Handler(o, s) PROVE LedgerEven'
  <2>1. CASE SendInsert(o, s)
    BY <1>1, <2>1, FreeFields DEF SendInsert, Query, TypeOK
  <2>2. CASE InsertReply(o, s)
    <3>1. stmt[s].phase = "committed"
      BY <2>2 DEF InsertReply, Attended
    <3> QED
      BY <1>3, <2>2, <3>1 DEF InsertReply, Counts, CountedAs, Transitions
  <2> QED
    BY <1>5, <2>1, <2>2, CalmExcludes DEF Handler
<1>6. ASSUME NEW s \in Sessions, Server(s) PROVE LedgerEven'
  <2>1. CASE ClaimLock(s)
    <3>1. stmt[s].phase # "committed" /\ stmt'[s].phase # "committed"
      BY <2>1 DEF ClaimLock, TypeOK, Statement
    <3>2. \A r \in Sessions \ {s} : stmt'[r] = stmt[r]
      BY <2>1 DEF ClaimLock, TypeOK
    <3> QED
      BY <1>1, <2>1, <3>1, <3>2 DEF ClaimLock
  <2>2. CASE ClaimCommit(s)
    <3>1. CountedAs(s) = "claim" /\ "claim" \in Transitions
      BY <2>2 DEF ClaimCommit, CountedAs, Transitions
    <3> QED
      BY <1>2, <1>4, <2>2, <3>1 DEF ClaimCommit
  <2>3. CASE MarkCommit(s)
    <3>1. PICK o \in Orders : stmt[s].rows = {o}
      BY <2>3 DEF MarkCommit, MarkInv
    <3>2. Carries(s) = {o} /\ status[o] = "processing"
      BY <2>3, <3>1 DEF MarkCommit, Carries, ExclusiveCustody
    <3>3. /\ stmt' = [stmt EXCEPT ![s] = Finish(s, "committed")]
          /\ happened' = Bump(happened, stmt[s].rows, Transition(stmt[s].to)) /\ counted' = counted
      BY <2>3, <3>1, <3>2 DEF MarkCommit
    <3>4. CountedAs(s) = Transition(stmt[s].to) /\ Transition(stmt[s].to) \in Transitions
      BY <2>3 DEF MarkCommit, CountedAs, Transition, MarkInv, Targets, Transitions, Outcomes
    <3> QED
      BY <1>2, <1>4, <2>3, <3>3, <3>4 DEF MarkCommit
  <2>4. CASE InsertCommit(s)
    <3>1. CountedAs(s) = "create" /\ "create" \in Transitions
      BY <2>4 DEF InsertCommit, CountedAs, Transitions
    <3> QED
      BY <1>2, <1>4, <2>4, <3>1 DEF InsertCommit
  <2> QED
    BY <1>6, <2>1, <2>2, <2>3, <2>4, CalmExcludes DEF Server
<1>7. ASSUME NEW w \in Workers, WorkerStep(w) PROVE LedgerEven'
  <2>1. CASE Tick(w) \/ EndRun(w)
    BY <1>1, <2>1 DEF Tick, EndRun, dbVars
  <2>2. ASSUME NEW o \in Orders, Begin(w, o) PROVE LedgerEven'
    BY <1>1, <2>2 DEF Begin, dbVars
  <2>3. ASSUME NEW result \in Outcomes, Charge(w, result) PROVE LedgerEven'
    BY <1>1, <2>3 DEF Charge, dbVars
  <2>4. ASSUME NEW s \in Sessions, SendClaim(w, s) \/ SendMark(w, s) PROVE LedgerEven'
    BY <1>1, <2>4, FreeFields DEF SendClaim, SendMark, Query, TypeOK
  <2>5. ASSUME NEW s \in Sessions, ClaimReply(w, s) PROVE LedgerEven'
    BY <1>3, <2>5 DEF ClaimReply, OwnerInv, CountedAs, Transitions
  <2>6. ASSUME NEW s \in Sessions, MarkReply(w, s) PROVE LedgerEven'
    <3>1. stmt[s].kind = "mark" /\ stmt[s].phase = "committed"
      BY <2>6 DEF MarkReply, OwnerInv, Attended, NeverConflict
    <3>2. CountedAs(s) = Transition(stmt[s].to) /\ Transition(stmt[s].to) \in Transitions
      BY <3>1 DEF CountedAs, Transition, MarkInv, Targets, Transitions, Outcomes
    <3> QED
      BY <1>3, <2>6, <3>1, <3>2 DEF MarkReply, Counts
  <2> QED
    BY <1>7, <2>1, <2>2, <2>3, <2>4, <2>5, <2>6, CalmExcludes DEF WorkerStep
<1>8. ASSUME NEW w \in Workers, Restart(w) PROVE LedgerEven'
  BY <1>1, <1>8 DEF Restart, dbVars
<1>9. CASE UNCHANGED vars
  BY <1>1, <1>9 DEF vars, dbVars, workerVars
<1> QED
  BY <1>5, <1>6, <1>7, <1>8, <1>9, CalmExcludes DEF Next

(* Calm states follow one another without a loss. *)
LEMMA CalmStep == IInv /\ CalmInv /\ [Next]_vars => CalmInv'
<1> SUFFICES ASSUME IInv, CalmInv, [Next]_vars, Calm'
             PROVE  (Attended /\ MarkOwned /\ LedgerEven /\ NoneLost)'
  BY DEF CalmInv
<1>1. TypeOK
  BY DEF IInv
<1>2. Calm /\ (\A kind : ~Fault(kind)) /\ "timeout" \notin FaultKinds
  BY <1>1, CalmBefore DEF Calm
<1>3. Attended /\ MarkOwned /\ LedgerEven /\ NoneLost
  BY <1>2 DEF CalmInv
<1>4. Gentle
  BY <1>2 DEF Gentle
<1>5. Attended' /\ MarkOwned' /\ LedgerEven'
  BY <1>2, <1>3, <1>4, AttendedStep, EvenStep, MarkOwnedStep
<1>6. ASSUME NEW o \in Orders, status'[o] = "processing" PROVE Kept(o)'
  <2>1. \A s \in Sessions : ~CommitUnheard(o, s)
    BY <1>3 DEF CommitUnheard, ClaimCommit, Attended
  <2>2. \A w \in Workers, s \in Sessions : ~ReplyUnheard(o, w, s)
    BY <1>2, <1>3, CalmExcludes DEF ReplyUnheard
  <2> QED
    BY <1>3, <1>4, <1>6, <2>1, <2>2, CustodyPasses DEF NoneLost
<1> QED
  BY <1>5, <1>6 DEF NoneLost

\* A row is inserted once, and a creation that was answered is counted.
CreateInv ==
    \A o \in Orders :
        /\ status[o] = "new" => happened[o]["create"] = 0
        /\ happened[o]["create"] <= 1
        /\ req[o] = "created" => counted[o]["create"] >= 1

(* The handler counts before it answers, and only an insert makes a row. *)
LEMMA CreateStep == IInv /\ CreateInv /\ [Next]_vars => CreateInv'
<1> SUFFICES ASSUME IInv, CreateInv, [Next]_vars PROVE CreateInv'
  OBVIOUS
<1> USE DEF IInv
<1> "create" \in Transitions
  BY DEF Transitions
<1>1. /\ counted \in [Orders -> [Transitions -> Nat]]
      /\ happened \in [Orders -> [Transitions -> Nat]]
      /\ status \in [Orders -> Statuses] /\ req \in [Orders -> Requests]
  BY DEF TypeOK
<1>2. ASSUME NEW os, NEW t \in Transitions, NEW o \in Orders
      PROVE  /\ Bump(counted, os, t)[o]["create"] >= counted[o]["create"]
             /\ Bump(happened, os, t)[o]["create"] =
                  IF o \in os /\ t = "create" THEN happened[o]["create"] + 1
                                             ELSE happened[o]["create"]
  <2>1. /\ Bump(counted, os, t)[o]["create"] =
                IF o \in os /\ t = "create" THEN counted[o]["create"] + 1
                                           ELSE counted[o]["create"]
        /\ counted[o]["create"] \in Nat
    BY <1>1, BumpValue
  <2>2. Bump(happened, os, t)[o]["create"] =
            IF o \in os /\ t = "create" THEN happened[o]["create"] + 1
                                       ELSE happened[o]["create"]
    BY <1>1, BumpValue
  <2> QED
    BY <2>1, <2>2
<1>3. ASSUME UNCHANGED <<status, happened>>,
             \A o \in Orders : req'[o] = "created" => req[o] = "created",
             \A o \in Orders : counted'[o]["create"] >= counted[o]["create"],
             counted' \in [Orders -> [Transitions -> Nat]]
      PROVE  CreateInv'
  <2> SUFFICES ASSUME NEW o \in Orders, req'[o] = "created" PROVE counted'[o]["create"] >= 1
    BY <1>3 DEF CreateInv
  <2>1. counted[o]["create"] \in Nat /\ counted'[o]["create"] \in Nat
    BY <1>1, <1>3
  <2> QED
    BY <1>3, <2>1 DEF CreateInv
<1>4. TypeOK'
  BY TypeOKStep
<1>5. counted' \in [Orders -> [Transitions -> Nat]]
  BY <1>4 DEF TypeOK
<1>6. ASSUME NEW o \in Orders, NEW s \in Sessions, Handler(o, s) PROVE CreateInv'
  <2>1. CASE SendInsert(o, s) \/ InsertAbandoned(o, s)
    <3>1. UNCHANGED <<status, happened, counted>> /\ req' \in {[req EXCEPT ![o] = "inserting"],
                                                            [req EXCEPT ![o] = "failed"]}
      BY <2>1 DEF SendInsert, InsertAbandoned
    <3>2. \A x \in Orders : req'[x] = "created" => req[x] = "created"
      BY <1>1, <3>1
    <3>3. \A x \in Orders : counted[x]["create"] \in Nat
      BY <1>1
    <3> QED
      BY <1>3, <1>5, <3>1, <3>2, <3>3
  <2>2. CASE InsertReply(o, s)
    <3>1. UNCHANGED <<status, happened>>
      BY <2>2 DEF InsertReply
    <3>2. CASE stmt[s].phase = "committed"
      <4>1. counted' = Bump(counted, {o}, "create") /\ req' = [req EXCEPT ![o] = "created"]
        BY <2>2, <3>2 DEF InsertReply, Counts
      <4>2. counted'[o]["create"] = counted[o]["create"] + 1
        BY <1>1, <4>1, BumpValue
      <4>3. ASSUME NEW x \in Orders, req'[x] = "created" PROVE counted'[x]["create"] >= 1
        <5>1. counted[x]["create"] \in Nat /\ counted'[x]["create"] \in Nat
          BY <1>1, <1>5
        <5>2. CASE x = o
          BY <4>2, <5>1, <5>2
        <5>3. CASE x # o
          <6>1. req[x] = "created"
            BY <1>1, <4>1, <4>3, <5>3
          <6>2. counted'[x]["create"] >= counted[x]["create"]
            BY <1>2, <4>1
          <6> QED
            BY <5>1, <6>1, <6>2 DEF CreateInv
        <5> QED
          BY <5>2, <5>3
      <4> QED
        BY <3>1, <4>3 DEF CreateInv
    <3>3. CASE stmt[s].phase # "committed"
      <4>1. counted' = counted /\ req' = [req EXCEPT ![o] = "failed"]
        BY <2>2, <3>3 DEF InsertReply, Counts
      <4>2. \A x \in Orders : req'[x] = "created" => req[x] = "created"
        BY <1>1, <4>1
      <4>3. \A x \in Orders : counted[x]["create"] \in Nat
        BY <1>1
      <4> QED
        BY <1>3, <1>5, <3>1, <4>1, <4>2, <4>3
    <3> QED
      BY <3>2, <3>3
  <2> QED
    BY <1>6, <2>1, <2>2 DEF Handler
<1>7. ASSUME NEW s \in Sessions, Server(s) PROVE CreateInv'
  <2>1. CASE ClaimLock(s) \/ Abort(s)
    BY <1>1, <2>1 DEF ClaimLock, Abort, CreateInv
  <2>2. CASE ClaimCommit(s) \/ MarkCommit(s)
    <3>1. ASSUME NEW o \in Orders, status'[o] = "new" PROVE status[o] = "new"
      BY <1>1, <2>2, <3>1 DEF ClaimCommit, MarkCommit, MarkInv, Targets, Outcomes
    <3>2. /\ UNCHANGED <<req, counted>>
          /\ \E os, t : t \in Transitions \ {"create"} /\ happened' = Bump(happened, os, t)
      BY <2>2 DEF ClaimCommit, MarkCommit, MarkInv, Targets, Outcomes, Transition, Transitions
    <3>3. \A o \in Orders : happened'[o]["create"] = happened[o]["create"]
      BY <1>2, <3>2
    <3> QED
      BY <3>1, <3>2, <3>3 DEF CreateInv
  <2>3. CASE InsertCommit(s)
    <3>1. /\ stmt[s].to = "pending" /\ \A o \in stmt[s].rows : status[o] = "new"
          /\ UNCHANGED <<req, counted>>
          /\ happened' = Bump(happened, stmt[s].rows, "create")
          /\ \A o \in Orders : status'[o] = IF o \in stmt[s].rows THEN "pending" ELSE status[o]
      BY <2>3 DEF InsertCommit, InsertInv
    <3>2. ASSUME NEW o \in Orders
          PROVE  /\ status'[o] = "new" => happened'[o]["create"] = 0
                 /\ happened'[o]["create"] <= 1
      <4>1. CASE o \in stmt[s].rows
        BY <1>2, <3>1, <4>1 DEF CreateInv
      <4>2. CASE o \notin stmt[s].rows
        BY <1>2, <3>1, <4>2 DEF CreateInv
      <4> QED
        BY <4>1, <4>2
    <3> QED
      BY <3>1, <3>2 DEF CreateInv
  <2> QED
    BY <1>7, <2>1, <2>2, <2>3 DEF Server
<1>8. ASSUME NEW w \in Workers, WorkerStep(w) \/ WorkerFault(w) \/ Restart(w) PROVE CreateInv'
  <2>1. UNCHANGED <<status, happened, req>>
    BY <1>8 DEF WorkerStep, WorkerFault, Tick, Stop, ClaimError, EndRun, Interrupt, Begin, Charge,
                SendClaim, ClaimReply, SendMark, MarkReply, BatchPanic, ProcessPanic, MarkTimeout,
                Shutdown, Crash, Restart, dbVars
  <2>2. \/ counted' = counted
        \/ \E os, t : t \in Transitions /\ counted' = Bump(counted, os, t)
    <3>1. ASSUME NEW s \in Sessions, ClaimReply(w, s)
          PROVE  \E os, t : t \in Transitions /\ counted' = Bump(counted, os, t)
      BY <3>1 DEF ClaimReply, Transitions
    <3>2. ASSUME NEW s \in Sessions, MarkReply(w, s)
          PROVE  \/ counted' = counted
                 \/ \E os, t : t \in Transitions /\ counted' = Bump(counted, os, t)
      <4>1. stmt[s].kind = "mark"
        BY <3>2 DEF MarkReply, OwnerInv
      <4>2. Transition(stmt[s].to) \in Transitions
        BY <4>1 DEF Transition, MarkInv, Targets, Transitions, Outcomes
      <4> QED
        BY <3>2, <4>2 DEF MarkReply
    <3>3. \/ counted' = counted
          \/ \E s \in Sessions : ClaimReply(w, s) \/ MarkReply(w, s)
      BY <1>8 DEF WorkerStep, WorkerFault, Tick, Stop, ClaimError, EndRun, Interrupt, Begin,
                  Charge, SendClaim, SendMark, BatchPanic, ProcessPanic, MarkTimeout, Shutdown,
                  Crash, Restart
    <3> QED
      BY <3>1, <3>2, <3>3
  <2>3. \A o \in Orders : counted[o]["create"] \in Nat
    BY <1>1
  <2>4. \A o \in Orders : counted'[o]["create"] >= counted[o]["create"]
    BY <1>2, <2>2, <2>3
  <2> QED
    BY <1>3, <1>5, <2>1, <2>4
<1>9. CASE UNCHANGED vars
  BY <1>9 DEF vars, dbVars, workerVars, CreateInv
<1> QED
  BY <1>6, <1>7, <1>8, <1>9 DEF Next

(* Before the first fault, and where writes do not time out, no order is       *)
(* stranded, and the counters agree with the table whenever no statement is in *)
(* flight; and whatever fails, every order whose creation was answered with    *)
(* 201 is counted, for any number of replicas, orders and sessions.            *)
THEOREM LedgerStaysExact == Spec => []LedgerExact
<1>1. Init => CalmInv
  <2> SUFFICES ASSUME Init PROVE Attended /\ MarkOwned /\ LedgerEven /\ NoneLost
    BY DEF CalmInv
  <2>1. Attended /\ MarkOwned /\ NoneLost
    BY FreeFields DEF Init, Attended, MarkOwned, NoneLost
  <2>2. ASSUME NEW o \in Orders, NEW t \in Transitions
        PROVE  counted[o][t] + Cardinality(Awaiting(o, t)) = happened[o][t]
    <3>1. Awaiting(o, t) = {}
      BY FreeFields DEF Init, Awaiting
    <3>2. Cardinality(Awaiting(o, t)) = 0
      BY <3>1, FS_EmptySet
    <3>3. counted[o][t] = 0 /\ happened[o][t] = 0
      BY DEF Init
    <3> QED
      BY <3>2, <3>3
  <2> QED
    BY <2>1, <2>2 DEF LedgerEven
<1>2. IInv /\ CalmInv /\ Calm =>
          /\ \A o \in Orders : ~Stranded(o)
          /\ (\A s \in Sessions : stmt[s] = Free) => counted = happened
  <2> SUFFICES ASSUME IInv, Attended, LedgerEven, NoneLost
               PROVE  /\ \A o \in Orders : ~Stranded(o)
                      /\ (\A s \in Sessions : stmt[s] = Free) => counted = happened
    BY DEF CalmInv
  <2>1. \A o \in Orders : ~Stranded(o)
    BY DEF NoneLost, Kept, Stranded
  <2>2. ASSUME \A s \in Sessions : stmt[s] = Free PROVE counted = happened
    <3>1. counted \in [Orders -> [Transitions -> Nat]] /\ happened \in [Orders -> [Transitions -> Nat]]
      BY DEF IInv, TypeOK
    <3>2. ASSUME NEW o \in Orders, NEW t \in Transitions PROVE counted[o][t] = happened[o][t]
      <4>1. Awaiting(o, t) = {}
        BY <2>2, FreeFields DEF Awaiting
      <4>2. Cardinality(Awaiting(o, t)) = 0
        BY <4>1, FS_EmptySet
      <4>3. counted[o][t] \in Nat /\ counted[o][t] + Cardinality(Awaiting(o, t)) = happened[o][t]
        BY <3>1 DEF LedgerEven
      <4> QED
        BY <4>2, <4>3
    <3>3. \A o \in Orders : counted[o] = happened[o]
      BY <3>1, <3>2
    <3> QED
      BY <3>1, <3>3
  <2> QED
    BY <2>1, <2>2
<1>3. Init => LedgerInv /\ CreateInv
  <2> SUFFICES ASSUME Init PROVE LedgerInv /\ CreateInv
    OBVIOUS
  <2>1. ASSUME NEW o \in Orders, NEW t \in Transitions
        PROVE  counted[o][t] + Cardinality(Awaiting(o, t)) <= happened[o][t]
    <3>1. Awaiting(o, t) = {}
      BY FreeFields DEF Init, Awaiting
    <3>2. Cardinality(Awaiting(o, t)) = 0 /\ counted[o][t] = 0 /\ happened[o][t] = 0
      BY <3>1, FS_EmptySet DEF Init
    <3> QED
      BY <3>2
  <2>2. CreateInv
    BY DEF Init, CreateInv, Transitions
  <2> QED
    BY <2>1, <2>2 DEF LedgerInv
<1>4. IInv /\ LedgerInv /\ CreateInv =>
          \A o \in Orders :
              req[o] = "created" => counted[o]["create"] = 1 /\ happened[o]["create"] = 1
  <2> SUFFICES ASSUME IInv, LedgerInv, CreateInv, NEW o \in Orders, req[o] = "created"
               PROVE  counted[o]["create"] = 1 /\ happened[o]["create"] = 1
    OBVIOUS
  <2>1. "create" \in Transitions
    BY DEF Transitions
  <2>2. counted[o]["create"] \in Nat /\ happened[o]["create"] \in Nat
    BY <2>1 DEF IInv, TypeOK
  <2>3. Cardinality(Awaiting(o, "create")) \in Nat
    BY AwaitingFinite
  <2>4. counted[o]["create"] + Cardinality(Awaiting(o, "create")) <= happened[o]["create"]
    BY <2>1 DEF LedgerInv
  <2> QED
    BY <2>2, <2>3, <2>4 DEF CreateInv
<1>5. IInv /\ LedgerInv /\ CreateInv /\ CalmInv => LedgerExact
  BY <1>2, <1>4 DEF LedgerExact, Calm
<1> QED
  BY <1>1, <1>3, <1>5, CalmStep, LedgerStep, CreateStep, Invariance, PTL DEF Spec
=============================================================================
