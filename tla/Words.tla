------------------------------- MODULE Words --------------------------------
(***************************************************************************)
(* What happens to the words of a command between the tree of the parser   *)
(* and the moment it runs: dispatch_pipeline and dispatch_command each     *)
(* expand them, in place; for, case and functions work on a copy of their  *)
(* body, a background command in a forked process, while on the tree.      *)
(***************************************************************************)
EXTENDS Tests

CONSTANTS
    Cases,      \* commands and contexts: records of a set jobs and a set contexts
    After,      \* the variables that the other commands of a loop leave behind
    MaxRounds   \* how often a loop runs its body, or a function is called

\* A job is a command in a construct.  Its context holds what its words refer
\* to: variables, parameters, set -u, $?, and the depth of substitutions.
Constructs == {"once", "stage", "background", "while", "for", "call", "case",
               "dbracket"}

IsSeq(s) == Len(s) \in Nat /\ s = [i \in 1..Len(s) |-> s[i]]

IsCommand(cmd) ==
    /\ DOMAIN cmd = {"argv", "files", "body", "bodyQuoted"}
    /\ IsSeq(cmd.argv) /\ \A i \in 1..Len(cmd.argv) : cmd.argv[i].quoted \in 0..2
    /\ IsSeq(cmd.files)

AllTexts(cmd) == {cmd.argv[i].text : i \in 1..Len(cmd.argv)} \cup ToSet(cmd.files) \cup {cmd.body}

ASSUME WordsAssumption ==
    /\ MaxRounds \in Nat \ {0}
    /\ \A c \in Cases : \A j \in c.jobs :
          /\ j.construct \in Constructs /\ IsCommand(j.cmd) /\ IsSeq(j.head) /\ IsSeq(j.arms)
          /\ \A t \in AllTexts(j.cmd) : IsSeq(t)
    /\ \A c \in Cases : \A x \in c.contexts :
          /\ DOMAIN x = {"env", "params", "u", "last", "depth"}
          /\ IsSeq(x.params) /\ x.depth = 0

VARIABLES
    job,       \* the job at hand
    ctx,       \* its context at this moment
    tree,      \* the command in the tree of the line, or in the table of functions
    work,      \* the command that is being dispatched
    phase,     \* "idle", "head" (the word of case, or [[ ]]), "pipeline", "command",
               \* "ran", "refused", "skipped", "killed" (SIGFPE)
    round,
    abort,     \* g_shell_abort
    answer     \* the arm of case; the status of [[ ]], test or [

vars == <<job, ctx, tree, work, phase, round, abort, answer>>

NoCmd == [argv |-> <<>>, files |-> <<>>, body |-> <<>>, bodyQuoted |-> FALSE]

Init ==
    /\ \E c \in Cases : job \in c.jobs /\ ctx \in c.contexts
    /\ tree = job.cmd /\ work = NoCmd
    /\ phase = "idle" /\ round = 1
    /\ abort = FALSE /\ answer = 0

\* clone_list, and the copy that fork makes.
Cloned(construct) == construct \in {"for", "call", "case", "background"}

\* Mutant: only a division by zero keeps a command from running.
take_expand_errors_div0(r) == r.arith

take_expand_errors(r) == r.arith \/ r.unset

\* Some text divides the lowest integer by -1.
Trapped(texts) == \E t \in texts : \E i \in 1..Len(t) :
    t[i][1] = "calc" /\ eval_arith(Tokens(ctx, t[i][2])).err = "trap"

TextsOf(cmd) ==
    {w.text : w \in {v \in ToSet(cmd.argv) : v.quoted # 1}} \cup ToSet(cmd.files)
    \cup IF cmd.bodyQuoted THEN {} ELSE {cmd.body}

\* An item is dispatched: case and [[ ]] have a word or words to look at first.
Dispatch ==
    /\ phase = "idle"
    /\ phase' = IF job.construct \in {"case", "dbracket"} THEN "head" ELSE "pipeline"
    /\ work' = IF phase' = "head" THEN NoCmd ELSE tree
    /\ UNCHANGED <<job, ctx, tree, round, abort, answer>>

Choose(r) ==
    /\ answer' = IF take_expand_errors(r) THEN 0 ELSE SelectArm(r.text, job.arms)
    /\ abort' = r.unset
    /\ phase' = IF take_expand_errors(r) THEN "refused"
                ELSE IF answer' = 0 THEN "skipped" ELSE "pipeline"
    /\ work' = IF phase' = "pipeline" THEN tree ELSE work

\* dispatch_case: its word is expanded once, whatever its quotes.
CaseHead ==
    /\ phase = "head" /\ job.construct = "case" /\ ~Trapped({job.head[1].text})
    /\ Choose(expand_word(ctx, job.head[1].text))
    /\ UNCHANGED <<job, ctx, tree, round>>

Judge(rs) ==
    /\ abort' = \E i \in 1..Len(rs) : rs[i].unset
    /\ IF \E i \in 1..Len(rs) : take_expand_errors(rs[i])
       THEN phase' = "refused" /\ answer' = 1
       ELSE /\ phase' = "skipped"
            /\ answer' = dbr_eval_expr([i \in 1..Len(rs) |-> Word(rs[i].text, job.head[i].quoted)])

\* dispatch_dbracket: every word is expanded once, and the tree keeps them.
DbracketHead ==
    /\ phase = "head" /\ job.construct = "dbracket"
    /\ ~Trapped({w.text : w \in ToSet(job.head)})
    /\ Judge(MapSeq(job.head, LAMBDA w : expand_word(ctx, w.text)))
    /\ UNCHANGED <<job, ctx, tree, work, round>>

HeadTrap ==
    /\ phase = "head" /\ Trapped({w.text : w \in ToSet(job.head)})
    /\ phase' = "killed"
    /\ UNCHANGED <<job, ctx, tree, work, round, abort, answer>>

\* The words arrive in the command, in the tree or in its copy.
Arrive(r, next) ==
    /\ work' = r.cmd
    /\ tree' = IF Cloned(job.construct) THEN tree ELSE r.cmd
    /\ abort' = r.unset
    /\ phase' = IF take_expand_errors(r) THEN "refused" ELSE next
    /\ answer' = IF phase' = "ran" /\ r.cmd.argv # <<>>
                    /\ r.cmd.argv[1].text \in {Op("["), Op("test")}
                 THEN builtin_test(MapSeq(r.cmd.argv, LAMBDA w : w.text))
                 ELSE answer

\* One pass over the words of the command.
Pass(next) ==
    IF Trapped(TextsOf(work))
    THEN phase' = "killed" /\ UNCHANGED <<tree, work, abort, answer>>
    ELSE Arrive(expand_cmd_argv(ctx, work), next)

\* dispatch_pipeline; a stage of a longer pipeline runs its words after it.
ExpandPipeline ==
    /\ phase = "pipeline"
    /\ Pass(IF job.construct = "stage" THEN "ran" ELSE "command")
    /\ UNCHANGED <<job, ctx, round>>

\* dispatch_command, for a pipeline of one stage.
ExpandCommand ==
    /\ phase = "command"
    /\ Pass("ran")
    /\ UNCHANGED <<job, ctx, round>>

\* The next round of a loop, or the next call: other commands have run.
NextRound ==
    /\ phase \in {"ran", "refused"} /\ ~abort
    /\ job.construct \in {"while", "for", "call"} /\ round < MaxRounds
    /\ round' = round + 1 /\ phase' = "idle"
    /\ ctx' = [ctx EXCEPT !.env = After]
    /\ work' = NoCmd
    /\ UNCHANGED <<job, tree, abort, answer>>

Next ==
    \/ Dispatch \/ CaseHead \/ DbracketHead \/ HeadTrap
    \/ ExpandPipeline \/ ExpandCommand \/ NextRound

Spec == Init /\ [][Next]_vars

-----------------------------------------------------------------------------
(* Properties *)

TypeOK ==
    /\ job.construct \in Constructs /\ ctx.depth = 0
    /\ phase \in {"idle", "head", "pipeline", "command", "ran", "refused", "skipped", "killed"}
    /\ round \in 1..MaxRounds /\ abort \in BOOLEAN
    /\ answer \in 0..2 \cup 1..Len(job.arms)
    /\ \A i \in 1..Len(work.argv) : work.argv[i].quoted \in 0..2

\* Parameters that $@ or "$@" hands on arrive unchanged, one word each, whatever
\* they contain: forms, * or blanks.
ParamsArriveWhole ==
    (phase = "ran" /\ round = 1) =>
        \A i \in 1..Len(job.cmd.argv) :
            (job.cmd.argv[i].text = <<All("@")>> /\ job.cmd.argv[i].quoted # 1) =>
                \E k \in 0..Len(work.argv) - Len(ctx.params) :
                    \A n \in 1..Len(ctx.params) : work.argv[k + n] = Word(ctx.params[n], 1)

\* An unset parameter under set -u, or a division by zero, keeps the command
\* from running, wherever in the command it is, but for the text behind ~/, when
\* it is reached for the first time.  In the later rounds of a while the words of
\* the first one run, and their errors with them.
Refusable(c, t) ==
    \E i \in 1..Len(t) : t[1] # Chr("~") /\
        \/ c.u /\ t[i][1] \in {"var", "size"} /\ c.env[t[i][2]] = Unset
        \/ c.u /\ t[i][1] = "par" /\ ~(t[i][2] <= Len(c.params))
        \/ t[i][1] = "calc" /\ eval_arith(Tokens(c, t[i][2])).err = "div0"
NothingRunsOnError ==
    (phase = "ran" /\ round = 1) =>
        LET cmd == job.cmd
        IN  /\ \A i \in 1..Len(cmd.argv) :
                 cmd.argv[i].quoted # 1 => ~Refusable(ctx, cmd.argv[i].text)
            /\ \A i \in 1..Len(cmd.files) : ~Refusable(ctx, cmd.files[i])
            /\ ~cmd.bodyQuoted => ~Refusable(ctx, cmd.body)
=============================================================================
