------------------------------- MODULE MCEval -------------------------------
(* The kinds of items that the runs of Eval give their scripts.            *)
EXTENDS Eval

\* Functions, loops and conditions under return and errexit.
FlowKinds  == {"status", "errexit", "return", "call", "if", "while", "for", "case",
               "source"}

\* Signal and EXIT traps.
TrapKinds  == {"status", "trap", "exit", "external"}
=============================================================================
