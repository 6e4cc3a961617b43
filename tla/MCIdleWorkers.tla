---------------------------- MODULE MCIdleWorkers ----------------------------
(* Instances of IdleWorkers: one or two workers. *)
EXTENDS IdleWorkers

CONSTANTS w1, w2
OneWorker == <<w1>>
TwoWorkers == <<w1, w2>>
=============================================================================
