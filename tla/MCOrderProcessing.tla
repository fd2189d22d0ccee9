-------------------------- MODULE MCOrderProcessing -------------------------
(* Small instances of OrderProcessing for TLC. *)
EXTENDS OrderProcessing, TLC

\* Workers and sessions are interchangeable.  Used in safety runs only.
Symmetry == Permutations(Workers) \cup Permutations(Sessions)
=============================================================================
