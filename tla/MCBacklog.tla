----------------------------- MODULE MCBacklog -----------------------------
EXTENDS Backlog, TLC

\* Orders are interchangeable.
Symmetry == Permutations(Orders)

\* Two orders are followed for one unit of time and without a shutdown, one order
\* alone to MaxTime.
MCNext ==
    /\ Next
    /\ Cardinality({o \in Orders : status'[o] # "new"}) > 1 => now' <= 1 /\ ctx' = "live"

MCSpec == Init /\ [][MCNext]_vars
============================================================================
