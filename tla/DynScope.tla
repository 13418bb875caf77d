------------------------------ MODULE DynScope ------------------------------
(***************************************************************************)
(* What functions and `local` of petrush promise: dynamic scoping.  Each   *)
(* call in progress has a scope with the variables it declared local and   *)
(* with its own positional parameters; scope 0 is that of the script.  A   *)
(* name means the variable of the innermost scope that declares it, and    *)
(* the end of a call takes its scope away and touches nothing else.        *)
(***************************************************************************)
EXTENDS Integers, Sequences

CONSTANTS
    Names,          \* names of variables
    Values,         \* their values
    Words,          \* what $0 may be
    Unset,          \* the value of a variable that is not set
    Undeclared,     \* the scope does not declare the name
    Lists           \* the lists of parameters that a script or a call may have

VARIABLES
    level,          \* how many calls are in progress
    scope           \* the variables and parameters of scopes 0..level

Params == [zero : Words, args : Lists]

Means(n, d) ==
    /\ scope[d].vars[n] # Undeclared
    /\ \A e \in (d + 1)..level : scope[e].vars[n] = Undeclared

Init ==
    /\ level = 0
    /\ \E v \in [Names -> Values \cup {Unset}], p \in Params :
         scope = [d \in 0..0 |-> [vars |-> v, params |-> p]]

\* A variable is assigned, or unset.
Assign(n, v) ==
    /\ scope' = [d \in 0..level |->
                   IF Means(n, d) THEN [scope[d] EXCEPT !.vars[n] = v] ELSE scope[d]]
    /\ UNCHANGED level

Declare(n, v) ==
    /\ level > 0
    /\ scope' = [scope EXCEPT ![level].vars[n] = v]
    /\ UNCHANGED level

Set(args) ==
    scope' = [scope EXCEPT ![level].params.args = args] /\ UNCHANGED level

\* shift by more than there are changes nothing.
Shift(k) ==
    LET args == scope[level].params.args
    IN  IF k <= Len(args) THEN Set(SubSeq(args, k + 1, Len(args)))
                          ELSE UNCHANGED <<level, scope>>

Call(p) ==
    /\ level' = level + 1
    /\ scope' = [d \in 0..(level + 1) |->
                   IF d = level + 1
                     THEN [vars |-> [n \in Names |-> Undeclared], params |-> p]
                     ELSE scope[d]]

Leave ==
    /\ level > 0
    /\ level' = level - 1
    /\ scope' = [d \in 0..(level - 1) |-> scope[d]]

Next ==
    \/ \E n \in Names, v \in Values \cup {Unset} : Assign(n, v) \/ Declare(n, v)
    \/ \E args \in Lists : Set(args)
    \/ \E k \in 0..Len(scope[level].params.args) : Shift(k)
    \/ \E p \in Params : Call(p)
    \/ Leave

Spec == Init /\ [][Next]_<<level, scope>>
=============================================================================
