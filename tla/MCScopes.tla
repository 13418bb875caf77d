------------------------------ MODULE MCScopes ------------------------------
(* The symmetry of names, and lists of parameters, for the runs of Scopes. *)
EXTENDS Scopes, TLC

CONSTANTS p, q

FewLists == {<<p, q>>}

Symmetry == Permutations(Names)
=============================================================================
