---------------------------- MODULE MCForeground ----------------------------
(* The symmetry of the process ids, for the runs of Foreground.            *)
EXTENDS Foreground, TLC

Symmetry == Permutations(Procs)
=============================================================================
