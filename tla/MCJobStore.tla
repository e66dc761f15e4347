----------------------------- MODULE MCJobStore -----------------------------
(* Small instances of the job store for TLC.                               *)
EXTENDS JobStoreRefinement, TLC

Symmetry == Permutations(Worker)
=============================================================================
