------------------------------ MODULE AliasMap ------------------------------
(***************************************************************************)
(* What the aliases promise: a finite map from names to values.  A name    *)
(* that is asked for is defined, unless it is not a name, the value is too *)
(* long, or the map is full and does not hold the name; a name that is     *)
(* taken back is gone.                                                     *)
(***************************************************************************)
EXTENDS Naturals, FiniteSets, Sequences

CONSTANTS
    Names,      \* what may be an alias
    Slots,      \* how many there may be
    ValueMax    \* the words a value may have

VARIABLES
    map,        \* from names to values
    ask         \* what is asked of it: op is "none", "set", "unset" or "gone"

vars == <<map, ask>>

Without(n) == [m \in DOMAIN map \ {n} |-> map[m]]
With(n, v) == [m \in DOMAIN map \cup {n} |-> IF m = n THEN v ELSE map[m]]

Accepts(n, v) == /\ n \in Names
                 /\ Len(v) <= ValueMax
                 /\ n \in DOMAIN map \/ Cardinality(DOMAIN map) < Slots

Nothing == [n \in {} |-> <<>>]

Init == map = Nothing /\ ask.op = "none"

\* What is asked is answered before the next question, unless the shell ends.
Ask == ask.op = "none" /\ UNCHANGED map

Define ==
    /\ ask.op = "set"
    /\ map' = IF Accepts(ask.name, ask.value) THEN With(ask.name, ask.value) ELSE map
    /\ ask'.op = "none"

Undefine ==
    /\ ask.op = "unset"
    /\ map' = Without(ask.name)
    /\ ask'.op = "none"

End == ask'.op = "gone" /\ UNCHANGED map

\* The aliases of a shell do not outlive it.
Restart == ask.op = "gone" /\ map' = Nothing /\ ask'.op = "none"

Next == Ask \/ Define \/ Undefine \/ End \/ Restart

Spec == Init /\ [][Next]_vars
=============================================================================
