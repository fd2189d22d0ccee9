--------------------------- MODULE OrderLifecycle ---------------------------
(***************************************************************************)
(* What the orders service promises about one table of orders, with no     *)
(* replicas, statements, timeouts or crashes in sight (domain/order.go).   *)
(*                                                                         *)
(* An order is created pending, is claimed in batches, is charged at most  *)
(* once, and settles with exactly the outcome its one charge had.  A claim *)
(* may be taken back, but only before the order was charged.  An order may *)
(* also stay in processing for ever: nothing in this specification is      *)
(* obliged to happen.                                                      *)
(***************************************************************************)
EXTENDS Sequences

CONSTANT
    Orders       \* the orders that are ever built, named by their created_at

VARIABLES
    status,      \* [Orders -> Statuses], "new" while the order has no row
    charges      \* [Orders -> Seq(Outcomes)], completed payment attempts

lifecycleVars == <<status, charges>>

\* The statuses an order can reach.  domain.StatusCancelled is declared in the
\* source and written by no statement of it, so it is not among them.
Outcomes == {"paid", "failed"}
Statuses == {"new", "pending", "processing"} \cup Outcomes

LifecycleInit ==
    /\ status  = [o \in Orders |-> "new"]
    /\ charges = [o \in Orders |-> <<>>]

\* new -> pending: the row is inserted.
Create(o) ==
    /\ status[o] = "new"
    /\ status' = [status EXCEPT ![o] = "pending"]
    /\ UNCHANGED charges

\* pending -> processing, for a whole batch at once.
Claim(batch) ==
    /\ batch # {}
    /\ \A o \in batch : status[o] = "pending"
    /\ status' = [o \in Orders |-> IF o \in batch THEN "processing" ELSE status[o]]
    /\ UNCHANGED charges

\* The payment attempt of a processing order completes.
Charge(o, outcome) ==
    /\ status[o] = "processing"
    /\ charges[o] = <<>>
    /\ charges' = [charges EXCEPT ![o] = Append(@, outcome)]
    /\ UNCHANGED status

\* processing -> paid and processing -> failed.
Settle(o, outcome) ==
    /\ status[o] = "processing"
    /\ charges[o] = <<outcome>>
    /\ status' = [status EXCEPT ![o] = outcome]
    /\ UNCHANGED charges

\* processing -> pending: an attempt that never happened gives the order back.
Release(o) ==
    /\ status[o] = "processing"
    /\ charges[o] = <<>>
    /\ status' = [status EXCEPT ![o] = "pending"]
    /\ UNCHANGED charges

LifecycleNext ==
    \/ \E o \in Orders : Create(o) \/ Release(o)
    \/ \E batch \in SUBSET Orders : Claim(batch)
    \/ \E o \in Orders, outcome \in Outcomes : Charge(o, outcome) \/ Settle(o, outcome)

LifecycleSpec == LifecycleInit /\ [][LifecycleNext]_lifecycleVars
=============================================================================
