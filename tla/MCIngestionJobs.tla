-------------------------- MODULE MCIngestionJobs --------------------------
(* IngestionJobs and its refinement on small instances.                     *)
EXTENDS IngestionJobsRefinement, TLC

CONSTANTS d1, d2, w1, w2

MCDoc == {d1, d2}
MCOneDoc == {d1}
MCWorker == {w1, w2}
Symmetry == Permutations(MCDoc)
=============================================================================
