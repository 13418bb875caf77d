-------------------------------- MODULE Jobs --------------------------------
(***************************************************************************)
(* Background jobs of petrush: the table of job.c, its users in            *)
(* dispatcher.c and main.c, and the kernel's processes underneath.         *)
(*                                                                         *)
(* Every process that runs shell code has a table: the shell itself, and   *)
(* each child it forks to run a builtin, a function or a command           *)
(* substitution, which starts from a copy of its parent's table.  Children *)
(* run and end at any moment, between any two waitpid calls of a reap.     *)
(* A process id is free again once its process has been waited for, and    *)
(* the next fork may reuse it.                                             *)
(***************************************************************************)
EXTENDS Integers, FiniteSets

CONSTANTS
    Procs,          \* the process ids that fork may return
    Shell,          \* the first shell process
    Nobody,         \* no process, and the parent of orphans
    N,              \* PETRUSH_JOB_MAX
    MaxCopies,      \* bound: children that run shell code at the same time
    Interactive     \* whether Shell runs the loop of main or a script

ASSUME JobsAssumption ==
    /\ Shell \notin Procs
    /\ Nobody \notin Procs \cup {Shell}
    /\ N \in Nat \ {0}
    /\ MaxCopies \in Nat
    /\ Interactive \in BOOLEAN

VARIABLES
    kern,           \* the kernel's view of each process id
    parent,         \* who may wait for it
    table,          \* g_jobs and g_used, in each process
    at,             \* where each process is in the code of the shell
    op,             \* what called petrush_job_reap
    slot,           \* the index petrush_job_reap has reached
    child           \* the child just forked, or waited for

vars == <<kern, parent, table, at, op, slot, child>>

Everyone == Procs \cup {Shell}

Free  == [pid |-> Nobody, state |-> "free"]
Entry == {Free} \cup [pid : Procs, state : {"running", "done"}]
Empty == [i \in 1..N |-> Free]

\* Every variable keeps its type: slots hold one process id or none.
TypeOK ==
    /\ kern \in [Procs -> {"free", "live", "zombie"}]
    /\ parent \in [Procs -> Everyone \cup {Nobody}]
    /\ table \in [Everyone -> [1..N -> Entry]]
    /\ at \in [Everyone -> {"program", "idle", "reap", "add", "wait"}]
    /\ op \in [Everyone -> {"prompt", "jobs", "background"}]
    /\ slot \in [Everyone -> 1..N + 1]
    /\ child \in [Everyone -> Procs \cup {Nobody}]

Full(p) == \A i \in 1..N : table[p][i].state # "free"

-----------------------------------------------------------------------------
(* The kernel *)

\* p forks c: another program, or more code of the shell with a copy of the
\* table; p itself goes on at next.
Fork(p, c, next) ==
    /\ kern[c] = "free"
    /\ kern' = [kern EXCEPT ![c] = "live"]
    /\ parent' = [parent EXCEPT ![c] = p]
    /\ \/ /\ at' = [at EXCEPT ![p] = next]
          /\ UNCHANGED table
       \/ /\ Cardinality({d \in Procs : at[d] # "program"}) < MaxCopies
          /\ at' = [at EXCEPT ![p] = next, ![c] = "idle"]
          /\ table' = [table EXCEPT ![c] = table[p]]
    /\ child' = [child EXCEPT ![p] = c]
    /\ slot' = [slot EXCEPT ![p] = 1]
    /\ op' = [op EXCEPT ![p] = "jobs"]

\* waitpid: the zombie c is gone and its process id is free.
Collect(c) ==
    /\ kern' = [kern EXCEPT ![c] = "free"]
    /\ parent' = [parent EXCEPT ![c] = Nobody]

\* A process ends.  Its children are orphans, whom init waits for.
Exit(c) ==
    /\ kern[c] = "live"
    /\ kern' = [d \in Procs |->
                  IF d = c THEN IF parent[c] = Nobody THEN "free" ELSE "zombie"
                  ELSE IF parent[d] = c /\ kern[d] = "zombie" THEN "free"
                  ELSE kern[d]]
    /\ parent' = [d \in Procs |-> IF parent[d] = c THEN Nobody ELSE parent[d]]
    /\ table' = [table EXCEPT ![c] = Empty]
    /\ at' = [at EXCEPT ![c] = "program"]
    /\ slot' = [slot EXCEPT ![c] = 1]
    /\ child' = [child EXCEPT ![c] = Nobody]
    /\ op' = [op EXCEPT ![c] = "jobs"]

-----------------------------------------------------------------------------
(* The three callers of petrush_job_reap, and its loop *)

Reaps(p, caller) ==
    /\ at[p] = "idle"
    /\ at' = [at EXCEPT ![p] = "reap"]
    /\ op' = [op EXCEPT ![p] = caller]
    /\ slot' = [slot EXCEPT ![p] = 1]
    /\ UNCHANGED <<kern, parent, table, child>>

Prompt                        == Interactive /\ Reaps(Shell, "prompt")
builtin_jobs(p)               == Reaps(p, "jobs")
dispatch_pipeline_background(p) == Reaps(p, "background")

NextSlot(p) ==
    /\ slot' = [slot EXCEPT ![p] = @ + 1]
    /\ UNCHANGED <<at, op, child>>

SetDone(p, i) == table' = [table EXCEPT ![p][i].state = "done"]

\* Mutant: a waitpid that returns 0 counts as an end.
petrush_job_reap_zero(p) ==
    /\ at[p] = "reap" /\ slot[p] \in 1..N
    /\ LET i == slot[p]
       IN  \/ table[p][i].state = "running" /\ SetDone(p, i)
           \/ table[p][i].state # "running" /\ UNCHANGED table
    /\ NextSlot(p)
    /\ UNCHANGED <<kern, parent>>

\* Mutant: the test of g_used is dropped, and waitpid of pid 0 fails.
petrush_job_reap_unused(p) ==
    /\ at[p] = "reap" /\ slot[p] \in 1..N
    /\ \/ table[p][slot[p]].state = "free" /\ SetDone(p, slot[p])
       \/ table[p][slot[p]].state # "free" /\ UNCHANGED table
    /\ NextSlot(p)
    /\ UNCHANGED <<kern, parent>>

\* One turn of the loop.  The child has ended; or waitpid fails, since this is
\* no child of p; or there is nothing to do.
petrush_job_reap(p) ==
    /\ at[p] = "reap" /\ slot[p] \in 1..N
    /\ LET i == slot[p]
           e == table[p][i]
       IN  \/ /\ e.state = "running"
              /\ parent[e.pid] = p /\ kern[e.pid] = "zombie"
              /\ Collect(e.pid) /\ SetDone(p, i)
           \/ /\ e.state = "running" /\ parent[e.pid] # p
              /\ SetDone(p, i) /\ UNCHANGED <<kern, parent>>
           \/ /\ e.state = "running" =>
                   parent[e.pid] = p /\ kern[e.pid] = "live"
              /\ UNCHANGED <<kern, parent, table>>
    /\ NextSlot(p)

Reaped(p, caller) == at[p] = "reap" /\ slot[p] = N + 1 /\ op[p] = caller

ToIdle(p) ==
    /\ at' = [at EXCEPT ![p] = "idle"]
    /\ child' = [child EXCEPT ![p] = Nobody]
    /\ slot' = [slot EXCEPT ![p] = 1]
    /\ op' = [op EXCEPT ![p] = "jobs"]

\* Every Done job is printed and its slot is cleared.
ClearDone(p) ==
    table' = [table EXCEPT ![p] =
                [i \in 1..N |-> IF @[i].state = "done" THEN Free ELSE @[i]]]

\* Mutant: the jobs are printed and their slots stay taken.
petrush_job_notify_keeps ==
    Reaped(Shell, "prompt") /\ ToIdle(Shell) /\ UNCHANGED <<kern, parent, table>>

petrush_job_notify ==
    Reaped(Shell, "prompt") /\ ClearDone(Shell) /\ ToIdle(Shell)
    /\ UNCHANGED <<kern, parent>>

petrush_job_prune_done(p) ==
    Reaped(p, "jobs") /\ ClearDone(p) /\ ToIdle(p) /\ UNCHANGED <<kern, parent>>

-----------------------------------------------------------------------------
(* dispatch_pipeline_background after its reap *)

\* Mutant: the ceiling is not tested before the fork.
BackgroundForks_unchecked(p, c) ==
    Reaped(p, "background") /\ Fork(p, c, "add")

BackgroundForks(p, c) ==
    Reaped(p, "background") /\ ~Full(p) /\ Fork(p, c, "add")

\* The ceiling is reached.
BackgroundRefused(p) ==
    /\ Reaped(p, "background") /\ Full(p)
    /\ ToIdle(p)
    /\ UNCHANGED <<kern, parent, table>>

ForkFails(p) ==
    /\ Reaped(p, "background") /\ ~Full(p)
    /\ ToIdle(p)
    /\ UNCHANGED <<kern, parent, table>>

petrush_job_add(p) ==
    /\ at[p] = "add"
    /\ \E i \in 1..N :
         /\ table[p][i].state = "free"
         /\ \A j \in 1..(i - 1) : table[p][j].state # "free"
         /\ table' = [table EXCEPT ![p][i] =
                        [pid |-> child[p], state |-> "running"]]
    /\ ToIdle(p)
    /\ UNCHANGED <<kern, parent>>

-----------------------------------------------------------------------------
(* execute_external, execute_pipeline_with_hook, petrush_run_cmdsubst *)

Foreground(p, c) == at[p] = "idle" /\ Fork(p, c, "wait")

\* Mutant: the wait takes any child that has ended, as waitpid(-1) would.
ForegroundEnds_any(p) ==
    /\ at[p] = "wait"
    /\ \E c \in Procs : parent[c] = p /\ kern[c] = "zombie" /\ Collect(c)
    /\ ToIdle(p)
    /\ UNCHANGED table

ForegroundEnds(p) ==
    /\ at[p] = "wait"
    /\ parent[child[p]] = p /\ kern[child[p]] = "zombie"
    /\ Collect(child[p])
    /\ ToIdle(p)
    /\ UNCHANGED table

\* WUNTRACED: a stopped child ends the wait, and is forgotten.
ForegroundStops(p) ==
    /\ at[p] = "wait" /\ kern[child[p]] = "live"
    /\ ToIdle(p)
    /\ UNCHANGED <<kern, parent, table>>

-----------------------------------------------------------------------------

Init ==
    /\ kern = [c \in Procs |-> "free"]
    /\ parent = [c \in Procs |-> Nobody]
    /\ table = [p \in Everyone |-> Empty]
    /\ at = [p \in Everyone |-> IF p = Shell THEN "idle" ELSE "program"]
    /\ op = [p \in Everyone |-> "jobs"]
    /\ slot = [p \in Everyone |-> 1]
    /\ child = [p \in Everyone |-> Nobody]

\* What a process does next by itself, once it is inside an operation.
Continues(p) ==
    \/ petrush_job_reap(p) \/ petrush_job_prune_done(p)
    \/ (\E c \in Procs : BackgroundForks(p, c))
    \/ BackgroundRefused(p) \/ ForkFails(p) \/ petrush_job_add(p)
    \/ ForegroundEnds(p)

\* What its input makes it do.
Begins(p) ==
    \/ builtin_jobs(p) \/ dispatch_pipeline_background(p)
    \/ (\E c \in Procs : Foreground(p, c))

Next ==
    \/ Prompt \/ petrush_job_notify
    \/ \E p \in Everyone : Begins(p) \/ Continues(p) \/ ForegroundStops(p)
    \/ \E c \in Procs : Exit(c)

Spec == Init /\ [][Next]_vars

\* The shell goes on with what it is doing, a command that it waits for ends,
\* and however many commands a line holds the loop of main comes round again.
\* No background job has to end.
LiveSpec ==
    /\ Spec
    /\ WF_vars(Continues(Shell)) /\ WF_vars(petrush_job_notify)
    /\ SF_vars(Prompt)
    /\ \A c \in Procs :
         WF_vars(at[Shell] = "wait" /\ child[Shell] = c /\ Exit(c))

-----------------------------------------------------------------------------
(* Properties *)

JobOf(i) ==
    IF table[Shell][i].state = "running" /\ kern[table[Shell][i].pid] = "zombie"
      THEN "ended"
      ELSE table[Shell][i].state

job == [i \in 1..N |-> JobOf(i)]

Table == INSTANCE JobTable WITH job <- job

\* The table of the first shell is a JobTable: whatever its children do with
\* their copies, whichever ids the kernel reuses, and wherever between fork and
\* petrush_job_add a child ends, a job keeps its number until it has really
\* ended and is then freed by one report.
ImplementsJobTable == Table!Spec

\* The loop of main reports every job that ends.
EndedReported == Table!EndedReported

Runs(i) == table[Shell][i].state = "running"

\* A job the first shell counts as running is a child of its own that nobody
\* has waited for yet, no two jobs are the same child, and none of them is the
\* command it waits for in the foreground.
RunningOwned ==
    \A i \in 1..N : Runs(i) =>
      LET c == table[Shell][i].pid IN
      /\ parent[c] = Shell /\ kern[c] # "free"
      /\ \A j \in 1..N : Runs(j) /\ table[Shell][j].pid = c => i = j
      /\ c # child[Shell]

\* The job just forked always finds a slot: the table cannot fill up between
\* the test of the ceiling and petrush_job_add, and no job runs unregistered.
AddFits == \A p \in Everyone : at[p] = "add" => ~Full(p)
=============================================================================
