------------------------------- MODULE MCJobs -------------------------------
(* The symmetry of the process ids, for the runs of Jobs.                  *)
EXTENDS Jobs, TLC

Symmetry == Permutations(Procs)
=============================================================================
