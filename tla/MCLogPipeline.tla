---------------------------- MODULE MCLogPipeline ---------------------------
(* Instances of LogPipeline for TLC. *)
EXTENDS LogPipeline, TLC

Symmetry == Permutations(Loggers) \cup Permutations(Admins) \cup Permutations(Msgs)
=============================================================================
