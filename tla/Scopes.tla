------------------------------- MODULE Scopes -------------------------------
(***************************************************************************)
(* Variables and positional parameters across function calls.              *)
(*                                                                         *)
(* petrush keeps no scopes: every variable is in the environment of the    *)
(* process, and `local` pushes what it is about to overwrite on one undo   *)
(* log, g_locals, tagged with the depth of the call.  call_fn undoes the   *)
(* entries of its depth when the body is done, and puts back the           *)
(* parameters that it saved.                                               *)
(***************************************************************************)
EXTENDS Integers, Sequences

CONSTANTS
    Names,          \* names of variables
    Values,         \* their values
    Words,          \* the values of the parameters, $0 among them
    Lists,          \* the lists of parameters given to the script, calls and set
    Unset,          \* getenv returns NULL
    Undeclared,     \* see DynScope
    MaxLocals,      \* PETRUSH_LOCAL_STACK_MAX
    IntMax,         \* INT_MAX; UINT_MAX is 2 * IntMax + 1
    MaxCalls,       \* bound: nested calls
    MaxShift        \* bound: the largest count given to shift

ASSUME ScopesAssumption ==
    /\ Unset \notin Values
    /\ Undeclared \notin Values \cup {Unset}
    /\ Lists \subseteq Seq(Words)
    /\ MaxLocals \in Nat /\ IntMax \in Nat
    /\ MaxCalls \in Nat
    /\ MaxShift \in 0..(2 * IntMax + 1)

VARIABLES
    env,            \* the environment
    depth,          \* g_fn_depth
    locals,         \* g_locals, g_local_n
    arg0, args,     \* g_pos_arg0; g_pos_args and g_pos_nargs
    saved,          \* saved0, oldn and saved of every call_fn in progress
    leaving         \* the innermost call_fn is undoing its locals

vars == <<env, depth, locals, arg0, args, saved, leaving>>

Cells == Values \cup {Unset}
Entry == [depth : Nat, name : Names, old : Cells]
Frame == [zero : Words, args : Seq(Words)]

\* Every variable keeps its type; each call in progress has saved parameters.
TypeOK ==
    /\ env \in [Names -> Cells]
    /\ depth \in Nat
    /\ locals \in Seq(Entry)
    /\ arg0 \in Words /\ args \in Seq(Words)
    /\ saved \in Seq(Frame) /\ Len(saved) = depth
    /\ leaving \in BOOLEAN

-----------------------------------------------------------------------------
(* Commands that touch variables and parameters *)

\* export, read and the word of a for, and unset.
Assign(n, v) ==
    /\ ~leaving
    /\ env' = [env EXCEPT ![n] = v]
    /\ UNCHANGED <<depth, locals, arg0, args, saved, leaving>>

\* Mutant: the entry is tagged with the depth of the caller.
local_push_caller(n) ==
    /\ Len(locals) < MaxLocals
    /\ locals' = Append(locals, [depth |-> depth - 1, name |-> n, old |-> env[n]])

local_push(n) ==
    /\ Len(locals) < MaxLocals
    /\ locals' = Append(locals, [depth |-> depth, name |-> n, old |-> env[n]])

\* One argument, name=value or a name alone; a full log refuses the rest.
builtin_local(n, v) ==
    /\ ~leaving /\ depth > 0
    /\ local_push(n)
    /\ env' = [env EXCEPT ![n] = v]
    /\ UNCHANGED <<depth, arg0, args, saved, leaving>>

\* set -- list; $0 stays.
builtin_set(list) ==
    /\ ~leaving
    /\ args' = list
    /\ UNCHANGED <<env, depth, locals, arg0, saved, leaving>>

\* The unsigned count of shift as the (int)n that the code tests and uses.
AsInt(n) == IF n <= IntMax THEN n ELSE n - 2 * (IntMax + 1)

\* memmove down by k: a slot whose source lies outside holds anything.
MovedDown(k) ==
    {s \in [1..(Len(args) - k) -> Words] :
       \A i \in DOMAIN s : i + k \in DOMAIN args => s[i] = args[i + k]}

builtin_shift(n) ==
    /\ ~leaving
    /\ IF AsInt(n) > Len(args) THEN UNCHANGED args
                               ELSE args' \in MovedDown(AsInt(n))
    /\ UNCHANGED <<env, depth, locals, arg0, saved, leaving>>

-----------------------------------------------------------------------------
(* call_fn *)

call_fn(name, list) ==
    /\ ~leaving /\ depth < MaxCalls
    /\ saved' = Append(saved, [zero |-> arg0, args |-> args])
    /\ depth' = depth + 1
    /\ arg0' = name /\ args' = list
    /\ UNCHANGED <<env, locals, leaving>>

\* The body is done, or a return or an abort has ended it.
BodyEnds ==
    /\ ~leaving /\ depth > 0
    /\ leaving' = TRUE
    /\ UNCHANGED <<env, depth, locals, arg0, args, saved>>

Newest == locals[Len(locals)]
ToUndo == locals # <<>> /\ Newest.depth = depth

\* Mutant: the entries of the call are undone in the order they were pushed.
local_restore_frame_oldest ==
    /\ leaving /\ ToUndo
    /\ \E i \in DOMAIN locals :
         /\ locals[i].depth = depth
         /\ \A j \in 1..(i - 1) : locals[j].depth # depth
         /\ env' = [env EXCEPT ![locals[i].name] = locals[i].old]
         /\ locals' = [j \in 1..(Len(locals) - 1) |->
                         locals[IF j < i THEN j ELSE j + 1]]
    /\ UNCHANGED <<depth, arg0, args, saved, leaving>>

\* One turn of the loop.
local_restore_frame ==
    /\ leaving /\ ToUndo
    /\ env' = [env EXCEPT ![Newest.name] = Newest.old]
    /\ locals' = SubSeq(locals, 1, Len(locals) - 1)
    /\ UNCHANGED <<depth, arg0, args, saved, leaving>>

\* Mutants: an early way out of call_fn skips the decrement, or the restore.
CallReturns_keeps_depth ==
    /\ leaving /\ ~ToUndo
    /\ arg0' = saved[Len(saved)].zero
    /\ args' = saved[Len(saved)].args
    /\ saved' = SubSeq(saved, 1, Len(saved) - 1)
    /\ leaving' = FALSE
    /\ UNCHANGED <<env, depth, locals>>

CallReturns_keeps_params ==
    /\ leaving /\ ~ToUndo
    /\ depth' = depth - 1
    /\ saved' = SubSeq(saved, 1, Len(saved) - 1)
    /\ leaving' = FALSE
    /\ UNCHANGED <<env, locals, arg0, args>>

\* The loop is over; the call ends and the parameters come back.
CallReturns ==
    /\ leaving /\ ~ToUndo
    /\ depth' = depth - 1
    /\ arg0' = saved[Len(saved)].zero
    /\ args' = saved[Len(saved)].args
    /\ saved' = SubSeq(saved, 1, Len(saved) - 1)
    /\ leaving' = FALSE
    /\ UNCHANGED <<env, locals>>

-----------------------------------------------------------------------------

Init ==
    /\ env \in [Names -> Cells]
    /\ depth = 0 /\ locals = <<>>
    /\ arg0 \in Words /\ args \in Lists
    /\ saved = <<>> /\ leaving = FALSE

Next ==
    \/ \E n \in Names, v \in Cells : Assign(n, v) \/ builtin_local(n, v)
    \/ \E list \in Lists :
         builtin_set(list) \/ (\E name \in Words : call_fn(name, list))
    \/ \E n \in 0..MaxShift : builtin_shift(n)
    \/ BodyEnds \/ local_restore_frame \/ CallReturns

Spec == Init /\ [][Next]_vars

-----------------------------------------------------------------------------
(* The scopes that the undo log stands for *)

\* The calls whose scope is still there.
Level == IF leaving THEN depth - 1 ELSE depth

Declared(log, n, d) ==
    \E i \in DOMAIN log : log[i].depth = d /\ log[i].name = n

\* The entry that holds what n was in the scope of depth d: the oldest one
\* pushed by a deeper call.
Covers(log, i, n, d) ==
    /\ i \in DOMAIN log
    /\ log[i].name = n /\ log[i].depth > d
    /\ \A j \in 1..(i - 1) : log[j].name = n => log[j].depth <= d

Variable(log, e, n, d) ==
    IF \E i \in DOMAIN log : Covers(log, i, n, d)
      THEN log[CHOOSE i \in DOMAIN log : Covers(log, i, n, d)].old
      ELSE e[n]

ScopeVars(log, e, d) ==
    [n \in Names |-> IF d = 0 \/ Declared(log, n, d) THEN Variable(log, e, n, d)
                                                   ELSE Undeclared]

ScopeParams(d) ==
    IF d < depth THEN saved[d + 1] ELSE [zero |-> arg0, args |-> args]

ScopeOf ==
    [d \in 0..Level |->
       [vars |-> ScopeVars(locals, env, d), params |-> ScopeParams(d)]]

DS == INSTANCE DynScope WITH level <- Level, scope <- ScopeOf

\* This step, if it is that of a command, does what the command means.
CommandMeans ==
    /\ \A n \in Names, v \in Cells :
         /\ Assign(n, v) => DS!Assign(n, v)
         /\ builtin_local(n, v) => DS!Declare(n, v)
    /\ \A list \in Lists :
         /\ builtin_set(list) => DS!Set(list)
         /\ \A name \in Words :
              call_fn(name, list) => DS!Call([zero |-> name, args |-> list])
    /\ \A n \in 0..MaxShift : builtin_shift(n) => DS!Shift(n)
    /\ BodyEnds => DS!Leave
    /\ local_restore_frame \/ CallReturns => UNCHANGED <<Level, ScopeOf>>

\* Every command does to the scopes that the undo log stands for what it does
\* in dynamic scoping (OSH-7, OSH-8), through any nesting of calls, repeated
\* declarations and writes to the variables of callers: an assignment reaches
\* the innermost declaration and no other, the end of the body takes one scope
\* away, and undoing its entries one by one disturbs none that is left.
CommandsMean == [][CommandMeans]_vars

\* So the whole is an implementation of DynScope.
ImplementsDynScope == DS!Spec

\* The undo log is in the order of the calls, and no entry is left of a call
\* that has ended: a later call of the same depth would undo it as its own.
UndoOrdered ==
    /\ \A i \in DOMAIN locals : locals[i].depth \in 1..depth
    /\ \A i, j \in DOMAIN locals : i < j => locals[i].depth <= locals[j].depth
=============================================================================
