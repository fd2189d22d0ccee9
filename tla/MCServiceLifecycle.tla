----------------------- MODULE MCServiceLifecycle -----------------------
(* An instance of ServiceLifecycle for TLC: the requests as model values. *)
EXTENDS ServiceLifecycle

CONSTANTS r1, r2
=========================================================================
