------------------------------ MODULE MCMuVec ------------------------------
(* Instances of MuVec for TLC. *)
EXTENDS MuVec, TLC

ASSUME ExtentsAreOrdered == ExtentsOrdered /\ ExtentsAdjoin

Symmetry == Permutations(Threads)
=============================================================================
