------------------------------ MODULE MCMumule ------------------------------
(* Instances of the thread pool for TLC. *)
EXTENDS MumuleInv

CONSTANTS w1, w2

OneWorker == {w1}
TwoWorkers == {w1, w2}
=============================================================================
