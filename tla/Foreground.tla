----------------------------- MODULE Foreground -----------------------------
(***************************************************************************)
(* Commands in the foreground: execute_external and                        *)
(* execute_pipeline_with_hook of foundation/process.c, run by the shell    *)
(* and by the copies of it that a substitution or & forks, over process    *)
(* groups, one terminal and one trap on INT.                               *)
(*                                                                         *)
(* Parent and children run interleaved from fork on.  A program may end,   *)
(* read the terminal, or be interrupted at any time; it reads its pipe to  *)
(* the end.                                                                *)
(***************************************************************************)
EXTENDS Integers, Sequences

CONSTANTS
    Procs,      \* the process ids that fork may return
    Shell,      \* the interactive shell, leader of its group
    Nobody,     \* no process, and the parent of orphans
    N,          \* the stages of a pipeline
    Kinds       \* what happens beside commands and pipelines: "subst",
                \* "background", "redirected" (cmd < file &), "forkFails", "killed"

ASSUME ForegroundAssumption ==
    /\ Shell \notin Procs
    /\ Nobody \notin Procs \cup {Shell}
    /\ N \in Nat /\ N > 1

Everyone == Procs \cup {Shell}

VARIABLES
    tty,        \* the group in the foreground of the terminal
    proc,       \* the processes: see Process
    code,       \* where the shell and its copies are: see Code
    jobs,       \* the copies in the table of jobs
    disp,       \* what INT does to the shell: "own" (the empty handler of main, or
                \* the default), "ign", "trap"
    saved,      \* old_int
    trap,       \* its trap on INT: "none", "command", "ignore"
    pending,    \* a caught signal waits for the poll
    gaps        \* ghost: what has come in between, see Gaps

vars == <<tty, proc, code, jobs, disp, saved, trap, pending, gaps>>

\* A child of a pipeline has a place in it, and the group of its first stage
\* to join.  input: it reads the terminal; out: it writes to a substitution.
Process == [st : {"free", "child", "program", "stopped", "zombie", "copy"},
            group : Everyone, parent : Everyone \cup {Nobody},
            lead : Everyone, pos : 0..N, input : BOOLEAN, out : BOOLEAN]

Points == {"none", "prompt", "fork", "group", "give", "close", "wait", "poll",
           "take", "restore", "capture", "reap"}

\* stages: the children so far; open: the pipes; input: stdin is the terminal.
Code == [at : Points, n : 1..N, stages : Seq(Procs), waited : 0..N,
         open : BOOLEAN, input : BOOLEAN]

Idle == [at |-> "none", n |-> 1, stages |-> <<>>, waited |-> 0, open |-> FALSE,
         input |-> TRUE]
Absent == [st |-> "free", group |-> Shell, parent |-> Nobody, lead |-> Shell,
           pos |-> 0, input |-> FALSE, out |-> FALSE]

\* "tty": a copy has given or taken the terminal, a fork has failed in the
\* middle of a pipeline, or an action in a wait has run a command; "trap": an
\* action has set the trap that a wait is about to restore.
Gaps == {"tty", "trap"}

Init ==
    /\ tty = Shell
    /\ proc = [q \in Procs |-> Absent]
    /\ code = [p \in Everyone |-> IF p = Shell THEN [Idle EXCEPT !.at = "prompt"] ELSE Idle]
    /\ jobs = {}
    /\ disp = "own" /\ saved = "own" /\ trap = "none"
    /\ pending = FALSE
    /\ gaps = {}

Signals == <<disp, saved, trap, pending>>

\* A number that is no process and no group, nor the group of a pipeline.
Fresh(q) == proc[q].st = "free" /\ tty # q
            /\ \A r \in Procs : q \notin {proc[r].group, proc[r].lead}
GroupOf(p) == IF p = Shell THEN Shell ELSE proc[p].group
Goto(p, point) == code' = [code EXCEPT ![p].at = point]
Current(p) == code[p].stages[Len(code[p].stages)]
Lead(p)    == code[p].stages[1]

\* Where a process is after its command: at the prompt, or at its end.
Home(p) == IF p = Shell THEN "prompt" ELSE "none"
Done(p) == code' = [code EXCEPT ![p] = [Idle EXCEPT !.at = Home(p)]]
PutBack(p) == disp' = IF p = Shell THEN saved ELSE disp

-----------------------------------------------------------------------------
(* A command, run by the shell or a copy p *)

\* Mutant: the disposition is saved after INT is ignored.
Begin_saves_late(p, n) ==
    /\ code' = [code EXCEPT ![p] = [@ EXCEPT !.at = "fork", !.n = n, !.open = (n # 1)]]
    /\ disp' = IF p = Shell /\ trap # "command" THEN "ign" ELSE disp
    /\ saved' = IF p = Shell THEN disp' ELSE saved
    /\ UNCHANGED <<tty, proc, jobs, trap, pending, gaps>>

\* The pipes are made; INT is saved, and ignored unless it has an action.
Begin(p, n) ==
    /\ code' = [code EXCEPT ![p] = [@ EXCEPT !.at = "fork", !.n = n, !.open = (n # 1)]]
    /\ saved' = IF p = Shell THEN disp ELSE saved
    /\ disp' = IF p = Shell /\ trap # "command" THEN "ign" ELSE disp
    /\ UNCHANGED <<tty, proc, jobs, trap, pending, gaps>>

Fork(p) ==
    /\ code[p].at = "fork"
    /\ \E q \in Procs :
        LET pos == Len(code[p].stages) + 1
        IN  /\ Fresh(q)
            /\ proc' = [proc EXCEPT ![q] =
                 [st |-> "child", group |-> GroupOf(p), parent |-> p,
                  lead |-> IF pos = 1 THEN q ELSE Lead(p), pos |-> pos,
                  input |-> code[p].input /\ pos = 1 /\ p \notin jobs,
                  out |-> p # Shell /\ proc[p].out]]
            /\ code' = [code EXCEPT ![p].at = "group", ![p].stages = Append(@, q)]
    /\ UNCHANGED <<tty, jobs, Signals, gaps>>

\* fork fails: pipeline_abort closes the pipes and restores INT, and neither
\* waits for the stages before this one nor takes the terminal back.
ForkFails(p) ==
    /\ code[p].at = "fork" /\ "forkFails" \in Kinds
    /\ Done(p)
    /\ PutBack(p)
    /\ gaps' = IF code[p].stages # <<>> THEN gaps \cup {"tty"} ELSE gaps
    /\ UNCHANGED <<tty, proc, jobs, saved, trap, pending>>

\* Where p goes when a child is in its group.
AfterGroup(c) ==
    IF Len(c.stages) = 1 THEN "give" ELSE IF Len(c.stages) < c.n THEN "fork" ELSE "close"

\* Mutant: only the first child is moved by its parent.
SetGroup_first_only(p) ==
    /\ code[p].at = "group"
    /\ Goto(p, AfterGroup(code[p]))
    /\ proc' = IF Len(code[p].stages) = 1 THEN [proc EXCEPT ![Current(p)].group = Lead(p)]
               ELSE proc
    /\ UNCHANGED <<tty, jobs, Signals, gaps>>

\* The parent's setpgid, which runs before or after the child's.
SetGroup(p) ==
    /\ code[p].at = "group"
    /\ Goto(p, AfterGroup(code[p]))
    /\ proc' = [proc EXCEPT ![Current(p)].group = Lead(p)]
    /\ UNCHANGED <<tty, jobs, Signals, gaps>>

\* Whoever moves the terminal: the shell closes the gaps, a copy opens one.
Moved(p) == IF p = Shell THEN gaps \ {"tty"} ELSE gaps \cup {"tty"}

give_terminal_to(p) ==
    /\ code[p].at = "give"
    /\ Goto(p, IF Len(code[p].stages) < code[p].n THEN "fork" ELSE "close")
    /\ tty' = IF code[p].input THEN Lead(p) ELSE tty
    /\ gaps' = IF code[p].input THEN Moved(p) ELSE gaps
    /\ UNCHANGED <<proc, jobs, Signals>>

\* Mutant: the parent waits with its ends of the pipes open.
Close_keeps(p) ==
    /\ code[p].at = "close"
    /\ code' = [code EXCEPT ![p].at = "wait"]
    /\ UNCHANGED <<tty, proc, jobs, Signals, gaps>>

Close(p) ==
    /\ code[p].at = "close"
    /\ code' = [code EXCEPT ![p].at = "wait", ![p].open = FALSE]
    /\ UNCHANGED <<tty, proc, jobs, Signals, gaps>>

Awaited(p) == code[p].stages[code[p].waited + 1]

\* waitpid with WUNTRACED, for one stage after the other: a stage that is
\* stopped is not waited for again.
WaitStage(p) ==
    /\ code[p].at = "wait"
    /\ proc[Awaited(p)].st \in {"zombie", "stopped"}
    /\ proc' = IF proc[Awaited(p)].st = "zombie"
               THEN [proc EXCEPT ![Awaited(p)] = Absent] ELSE proc
    /\ code' = [code EXCEPT ![p].waited = @ + 1,
                            ![p].at = IF code[p].waited + 1 = code[p].n THEN "poll" ELSE @]
    /\ UNCHANGED <<tty, jobs, Signals, gaps>>

\* An action may set or reset INT.
Disposition(t) == [none |-> "own", command |-> "trap", ignore |-> "ign"][t]
Sets(t) == trap' = t /\ disp' = Disposition(t)

\* petrush_traps_poll, in the wait (EINTR) and after it: the action sets the
\* trap on INT, runs a command in the foreground (which gives the terminal
\* back to the shell), or does neither.
Polled ==
    /\ pending' = FALSE
    /\ \/ \E t \in {"none", "command", "ignore"} :
            Sets(t) /\ gaps' = gaps \cup {"trap"} /\ UNCHANGED tty
       \/ tty' = Shell /\ gaps' = gaps \cup {"tty"} /\ UNCHANGED <<trap, disp>>
       \/ UNCHANGED <<tty, gaps, trap, disp>>

PollInWait ==
    /\ code[Shell].at = "wait" /\ pending
    /\ Polled
    /\ UNCHANGED <<proc, code, jobs, saved>>

Poll(p) ==
    /\ code[p].at = "poll"
    /\ Goto(p, "take")
    /\ IF p = Shell /\ pending THEN Polled ELSE UNCHANGED <<tty, gaps, trap, disp, pending>>
    /\ UNCHANGED <<proc, jobs, saved>>

\* Mutant: the terminal is taken back only from stages that have ended.
take_terminal_back_ended(p) ==
    /\ code[p].at = "take"
    /\ Goto(p, "restore")
    /\ tty' = IF code[p].input /\ proc[Lead(p)].st # "stopped" THEN p ELSE tty
    /\ gaps' = IF code[p].input THEN Moved(p) ELSE gaps
    /\ UNCHANGED <<proc, jobs, Signals>>

\* tcsetpgrp(getpid()): the shell's group, but for a copy its own number.
take_terminal_back(p) ==
    /\ code[p].at = "take"
    /\ Goto(p, "restore")
    /\ tty' = IF code[p].input THEN p ELSE tty
    /\ gaps' = IF code[p].input THEN Moved(p) ELSE gaps
    /\ UNCHANGED <<proc, jobs, Signals>>

Restore(p) ==
    /\ code[p].at = "restore"
    /\ Done(p)
    /\ PutBack(p)
    /\ UNCHANGED <<tty, proc, jobs, saved, trap, pending, gaps>>

-----------------------------------------------------------------------------
(* The children *)

\* setpgid(0, lead): without a member there is no such group, and q stays in its own.
GroupFor(q) ==
    IF proc[q].lead \in {q} \cup {proc[r].group : r \in Procs}
    THEN proc[q].lead ELSE proc[q].group

\* Mutant: only the parent calls setpgid.
Exec_no_group(q) ==
    /\ proc[q].st = "child"
    /\ proc' = [proc EXCEPT ![q].st = "program"]
    /\ UNCHANGED <<tty, code, jobs, Signals, gaps>>

\* pipeline_child, and the child of execute_external: its group (a failure is
\* ignored), INT to its default, its ends of the pipes.  give_terminal_to(0)
\* there moves nothing.
Exec(q) ==
    /\ proc[q].st = "child"
    /\ proc' = [proc EXCEPT ![q].st = "program", ![q].group = GroupFor(q)]
    /\ UNCHANGED <<tty, code, jobs, Signals, gaps>>

Alive(q) == proc[q].st \notin {"free", "zombie"}

\* A process that ends is a zombie until its parent waits, or nothing.
Ended(ps) ==
    [q \in Procs |->
        IF q \in ps THEN IF proc[q].parent = Nobody THEN Absent
                         ELSE [proc[q] EXCEPT !.st = "zombie"]
        ELSE proc[q]]

\* Somebody could still write to the pipe that q reads.
HasWriter(q) ==
    \/ \E r \in Procs : /\ Alive(r) /\ proc[r].lead = proc[q].lead /\ r # q
                        /\ proc[r].st = "child" \/ proc[r].pos = proc[q].pos - 1
                        /\ proc[r].pos > 0
    \/ proc[q].parent # Nobody /\ code[proc[q].parent].open
       /\ \E i \in 1..Len(code[proc[q].parent].stages) : code[proc[q].parent].stages[i] = q

ProgramEnds(q) ==
    /\ proc[q].st = "program"
    /\ proc[q].pos > 1 => ~HasWriter(q)
    /\ proc' = Ended({q})
    /\ UNCHANGED <<tty, code, jobs, Signals, gaps>>

\* A read from the terminal by a group in the background stops the group.
ProgramReads(q) ==
    /\ proc[q].st = "program" /\ proc[q].input /\ proc[q].parent # Nobody
    /\ tty # proc[q].group
    /\ proc' = [r \in Procs |-> IF proc[r].st = "program" /\ proc[r].group = proc[q].group
                                THEN [proc[r] EXCEPT !.st = "stopped"] ELSE proc[r]]
    /\ UNCHANGED <<tty, code, jobs, Signals, gaps>>

\* The user types the interrupt key.
Interrupt ==
    LET hit == {q \in Procs : proc[q].st = "program" /\ proc[q].group = tty}
    IN  /\ hit # {}
        /\ proc' = Ended(hit)
        /\ UNCHANGED <<tty, code, jobs, Signals, gaps>>

\* A caught signal reaches the shell in a wait (the polls between commands
\* are in Eval).
Signal ==
    /\ code[Shell].at \in {"wait", "reap"} /\ ~pending
    /\ pending' = TRUE
    /\ UNCHANGED <<tty, proc, code, jobs, disp, saved, trap, gaps>>

-----------------------------------------------------------------------------
(* The lines of the user *)

AtPrompt == code[Shell].at = "prompt"

Line(n) == AtPrompt /\ Begin(Shell, n)

\* trap ... INT
builtin_trap ==
    /\ AtPrompt
    /\ \E t \in {"none", "command", "ignore"} : Sets(t)
    /\ gaps' = gaps \ {"trap"}
    /\ UNCHANGED <<tty, proc, code, jobs, saved, pending>>

\* A copy of the shell: where it is, its group and where it reads and writes.
Copy(q, group, input, out) ==
    [st |-> "copy", group |-> group, parent |-> Shell, lead |-> Shell, pos |-> 0,
     input |-> input, out |-> out]

\* petrush_run_cmdsubst: the copy stays in the group of the shell.
petrush_run_cmdsubst ==
    /\ "subst" \in Kinds /\ AtPrompt
    /\ \E q \in Procs :
        /\ Fresh(q)
        /\ proc' = [proc EXCEPT ![q] = Copy(q, Shell, TRUE, TRUE)]
        /\ code' = [code EXCEPT ![q] = [Idle EXCEPT !.at = "prompt"],
                                ![Shell].at = "capture", ![Shell].stages = <<q>>]
    /\ UNCHANGED <<tty, jobs, Signals, gaps>>

\* The output is read until nobody can write to it.
Captured ==
    /\ code[Shell].at = "capture"
    /\ ~\E q \in Procs : Alive(q) /\ proc[q].out
    /\ Goto(Shell, "reap")
    /\ UNCHANGED <<tty, proc, jobs, Signals, gaps>>

\* The copy is waited for, unless a signal interrupts that: then it is lost.
CopyReaped ==
    /\ code[Shell].at = "reap"
    /\ \/ proc' = [proc EXCEPT ![Lead(Shell)] = Absent]
       \/ pending /\ UNCHANGED proc
    /\ Done(Shell)
    /\ pending' = FALSE
    /\ UNCHANGED <<tty, jobs, disp, saved, trap, gaps>>

\* dispatch_pipeline_background: the copy leads a group of its own, and reads
\* the terminal only if its first stage has a redirection.
dispatch_pipeline_background ==
    /\ AtPrompt
    /\ \E q \in Procs, input \in BOOLEAN :
        /\ input => "redirected" \in Kinds
        /\ ~input => "background" \in Kinds
        /\ Fresh(q)
        /\ proc' = [proc EXCEPT ![q] = Copy(q, q, input, FALSE)]
        /\ code' = [code EXCEPT ![q] = [Idle EXCEPT !.at = "prompt", !.input = input]]
        /\ jobs' = jobs \cup {q}
    /\ UNCHANGED <<tty, Signals, gaps>>

\* Mutant: a job that has ended stays in the table.
petrush_job_reap_keeps ==
    /\ AtPrompt
    /\ \E q \in jobs :
        /\ proc[q].st = "zombie"
        /\ proc' = [proc EXCEPT ![q] = Absent]
    /\ UNCHANGED <<tty, code, jobs, Signals, gaps>>

petrush_job_reap ==
    /\ AtPrompt
    /\ \E q \in jobs :
        /\ proc[q].st = "zombie"
        /\ proc' = [proc EXCEPT ![q] = Absent]
        /\ jobs' = jobs \ {q}
    /\ UNCHANGED <<tty, code, Signals, gaps>>

\* A copy runs one command and ends; it may be killed before.
CopyRuns(q, n) == q # Shell /\ code[q].at = "prompt" /\ Begin(q, n)

\* Its children are orphans, and the kernel hangs up a stopped group of them.
HungUp(q, r) ==
    /\ proc[r].parent = q /\ proc[r].st \in {"program", "stopped"}
    /\ \E s \in Procs : proc[s].parent = q /\ proc[s].st = "stopped"
                       /\ proc[s].group = proc[r].group

CopyEnds(q) ==
    /\ proc[q].st = "copy"
    /\ code[q].at \in {"none", "prompt"} \/ "killed" \in Kinds
    /\ proc' = [r \in Procs |->
         IF proc[r].parent = q /\ (proc[r].st = "zombie" \/ HungUp(q, r)) THEN Absent
         ELSE IF proc[r].parent = q THEN [proc[r] EXCEPT !.parent = Nobody]
         ELSE Ended({q})[r]]
    /\ code' = [code EXCEPT ![q] = Idle]
    /\ UNCHANGED <<tty, jobs, Signals, gaps>>

CodeStep(p) ==
    \/ Fork(p) \/ ForkFails(p) \/ SetGroup(p) \/ give_terminal_to(p) \/ Close(p)
    \/ WaitStage(p) \/ Poll(p) \/ take_terminal_back(p) \/ Restore(p)

ChildStep(q) == Exec(q) \/ ProgramEnds(q)

Next ==
    \/ \E p \in Everyone : CodeStep(p)
    \/ \E q \in Procs : ChildStep(q) \/ ProgramReads(q) \/ CopyEnds(q)
    \/ \E q \in Procs, n \in {1, N} : CopyRuns(q, n)
    \/ \E n \in {1, N} : Line(n)
    \/ PollInWait \/ Interrupt \/ Signal \/ builtin_trap
    \/ petrush_run_cmdsubst \/ Captured \/ CopyReaped
    \/ dispatch_pipeline_background \/ petrush_job_reap

Spec == Init /\ [][Next]_vars

-----------------------------------------------------------------------------
(* Properties *)

TypeOK ==
    /\ tty \in Everyone
    /\ proc \in [Procs -> Process]
    /\ code \in [Everyone -> Code]
    /\ jobs \subseteq {q \in Procs : proc[q].st \in {"copy", "zombie"}}
    /\ disp \in {"own", "ign", "trap"} /\ saved \in {"own", "ign", "trap"}
    /\ trap \in {"none", "command", "ignore"}
    /\ pending \in BOOLEAN
    /\ gaps \subseteq Gaps

\* While the shell waits, every stage it still waits for is its own child, in
\* one group, whichever setpgid ran first; and that group has the terminal
\* unless a copy or an action has moved it.
ForegroundTogether ==
    code[Shell].at = "wait" =>
        /\ \A i \in code[Shell].waited + 1..code[Shell].n :
             LET q == code[Shell].stages[i]
             IN  /\ proc[q].parent = Shell /\ proc[q].st # "free"
                 /\ proc[q].group = Lead(Shell)
        /\ "tty" \notin gaps => tty = Lead(Shell)

\* Whichever setpgid ran first, no program runs in the group of the shell, but an
\* orphan that was not the first stage: its copy of the shell was killed before
\* its own setpgid, and the child's comes too late for the group.
ProgramsApart ==
    \A q \in Procs :
        proc[q].st \in {"program", "stopped"} /\ proc[q].group = Shell =>
            proc[q].parent = Nobody /\ proc[q].lead # q

\* At the prompt the terminal is the shell's, unless a copy has taken it or a
\* fork has failed in a pipeline since.
TerminalHome == (AtPrompt /\ "tty" \notin gaps) => tty = Shell

\* At the prompt the trap on INT is in force, unless an action has changed it
\* during a wait.
DispositionsReturn == (AtPrompt /\ "trap" \notin gaps) => disp = Disposition(trap)

\* A process that waits for nobody, and one whose end is noticed.
Moves(q) == \/ proc[q].st = "child"
            \/ proc[q].st = "program" /\ (proc[q].pos = 1 \/ ~HasWriter(q))

\* Whatever the shell waits for comes: as long as no stage is stopped, the
\* stage it awaits has ended or some stage of the pipeline can go on.
NobodyHangs ==
    code[Shell].at = "wait" =>
        \/ proc[Awaited(Shell)].st \in {"zombie", "stopped"}
        \/ \E i \in 1..code[Shell].n :
              LET q == code[Shell].stages[i]
              IN  proc[q].lead = Lead(Shell) /\ (Moves(q) \/ proc[q].st = "stopped")

\* The terminal is back with the shell whenever it prompts.
TerminalAtPrompt == AtPrompt => tty = Shell
=============================================================================
