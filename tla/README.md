# A verification development of petrush

petrush is an interactive shell and script interpreter in C23. This directory
holds TLA+ models of its core, the TLC configurations that check them, and
proofs that TLAPS checks. The models are translated from the C sources; the
docs and comments are quoted only where a run shows that the code departs from
them.

## 1. Inventory of the system

petrush is one process with one thread. What makes it hard is not threads but

- recursion unwound by global flags instead of exceptions (`g_returning`,
  `g_shell_abort`, `g_fn_depth`, `g_no_errexit`), which every caller has to
  test after every call;
- signal handlers that mark a signal at any moment, and actions (shell code)
  that are run at poll points in the middle of other shell code;
- children that run, stop and end whenever they like, of which some are copies
  of the shell and run shell code themselves, with a copy of every global;
- global tables (jobs, locals, functions, aliases, traps) with fixed sizes.

| component | state | operations | interacts with | correct when |
|---|---|---|---|---|
| evaluator, `mid/dispatcher.c` | the C stack, `g_returning`, `g_return_status`, `g_fn_depth`, `g_shell_abort`, `g_no_errexit`, `$?` | `dispatch_list`, `_if`, `_while`, `_for`, `_case`, `call_fn`, `return`, `set -e` | everything | a return stops at its function, an abort at its runner; the counters agree with the calls in progress; errexit keeps out of conditions |
| traps, `mid/dispatcher.c` | `g_trap_action`, `g_trap_pending`, `g_in_trap_poll`, `g_in_exit` | `trap`, the handler, `petrush_traps_poll`, `petrush_run_exit_trap` | evaluator, waits | every caught signal is served; `$?` survives; EXIT runs once, and always |
| source runner, `mid/source.c` | `g_source_depth`, the file position | `petrush_source_file`, `petrush_run_script`, `run_file_lines` | evaluator, parser (here-documents) | the depth is exact; an abort is taken by the runner of its file |
| interactive loop, `main.c` | where it is in its loop; the history file | rc file, reap, notify, prompt, recall, remember, evaluate, save; SIGTERM and SIGHUP | evaluator, job table, linenoise | ended jobs are reported; the file holds the latest lines after every end of a session that saves |
| job table, `foundation/job.c` | `g_jobs`, `g_used` | add, reap, notify, print and prune | kernel, forks | a job keeps its number until it has ended and is reported once |
| process execution, `foundation/process.c` | process groups, the terminal, saved dispositions | `execute_external`, `execute_pipeline`, redirections, PATH | kernel, traps | stages share a group that has the terminal; the terminal returns to the shell; dispositions are put back; no wait is for ever |
| command substitution, `mid/dispatcher.c` | a forked copy of the shell, its output | `petrush_run_cmdsubst` | expansion, job table, terminal | the copy disturbs neither the jobs nor the terminal of the shell |
| function scopes, `mid/dispatcher.c`, `mid/expand.c` | `environ`, `g_locals`, `g_pos_args` | `local`, `export`, `unset`, `read`, `set --`, `shift`, `call_fn` | evaluator | dynamic scoping |
| word expansion, `mid/expand.c`, `asm/glob_match.S` | two error flags; rewrites the words of the command in place | `$name`, `${ }`, `$(( ))`, `$( )`, globs, quotes; `test`, `[[ ]]`, `case` on the result | scopes, command substitution | words arrive as one substitution makes them; an error keeps the command from running; arithmetic keeps its 64 bits |
| parser, `mid/parser.c` | the tree, pending here-documents | `petrush_parse_list`, the collection of here-documents | runner, evaluator | a text means the tree it was written from; nothing accepted is lost; each document goes to its command |
| aliases, `mid/alias.c` | 64 entries | `alias`, `unalias`, one expansion of the first word | loop | a map of names |
| directory stack, `mid/dirstack.c` | stack of 32 paths | `pushd`, `popd`, `dirs` | `chdir`, `cd` | popd leads back |
| history expansion, `mid/hist_expand.c` | none | `!!`, `!n`, `!$`, `!^` | the history of linenoise | the line that was meant |
| linenoise, `vendor` | the history, with the line being edited as its last entry; how far back the keys have gone | add, load, save, edit, the lines before | loop | no line of the user is dropped or invented, unless the keys rewrite one |
| plugins, `foundation/plugin_load.c` | table of plugins | load with ABI and trust checks, unload | only its unit test | a failed load leaves nothing behind |
| pudo and pudod | none | one request checked and executed | exec | straight-line code |
| wai, netcom | none | reports from /proc, /sys, netlink | | I/O only |
| prompt, completion, highlighting | none | formatting, lookup | linenoise | |
| rc_trust, xdg_paths, env, i18n | none | predicates, string building, libc wrappers | | |
| assembly islands, `src/asm` | none | parse_i64, crc32, ... | | pure functions |
| configsh, `src/cxx` | an INI file | a separate screen program | | |

`PROJECT.json` lists the same parts with their state of modelling, and under
`hazards` the places where this code can go wrong and a test hardly looks,
each with the properties that watch it.

## 2. Plan

1. `Eval`: evaluator, traps, source runner, main programs; its invariant
   proved. **Done.**
2. `JobTable` and `Jobs`: the job table over the kernel, with forked copies;
   the refinement proved. **Done.**
3. `DynScope` and `Scopes`: variables and parameters across calls; the
   refinement proved. **Done.**
4. `Stage`, `Parser`, `Heredocs` and `Lines`: the grammar with here-documents,
   under the runner of files and the prompt; what a command of a line and its
   documents are, proved. **Done.**
5. `Arith`, `Expand`, `Tests`, `Words`: expansion and what decides on its
   result, in every construct; its invariant proved. **Done.**
6. `Foreground`: pipelines, process groups, the terminal, dispositions,
   substitutions; its invariant proved. **Done.**
7. `AliasMap` and `Session`: a session at the prompt over its history with the
   keys that go through it, aliases and directories, with crashes; the
   refinement proved. **Done.**
8. `EvalControl_proofs`, the history in `Session_proofs`, and `NobodyHangs` in
   `Foreground_proofs`: the remaining invariants of `Eval`, `Foreground` and
   `Session` as theorems. **Done.**
9. Next: what a forked child inherits of traps and flags.

## 3. Modules

| module | models | composed of |
|---|---|---|
| `Eval` | dispatcher.c, source.c, main.c, the wait of process.c | |
| `MCEval` | sets of kinds of items for the runs | `Eval` |
| `Eval_proofs` | theorems about `Eval`: types and counters | `Eval` |
| `EvalControl_proofs` | theorems about `Eval`: unwinding, `$?`, EXIT | `Eval_proofs` |
| `JobTable` | abstract: what the job table promises | |
| `Jobs` | job.c, its callers, the kernel | instance of `JobTable` |
| `MCJobs`, `Jobs_proofs` | symmetry; theorems | `Jobs` |
| `DynScope` | abstract: dynamic scoping | |
| `Scopes` | `g_locals`, `call_fn`, positional parameters | instance of `DynScope` |
| `MCScopes`, `Scopes_proofs` | symmetry, lists of parameters; theorems | `Scopes` |
| `Stage` | one command of a pipeline: `build_stage`, `cmd_heredoc_feed` | |
| `Parser` | the grammar of parser.c | `Stage` |
| `Heredocs` | abstract: how the commands of a line get their documents | `Stage` |
| `Heredocs_proofs` | theorems about commands and documents | `Heredocs` |
| `Lines` | the readers of lines in source.c and main.c | `Parser`, `Heredocs` |
| `MCLines` | program texts | `Lines` |
| `Arith` | `$(( ))`, the matcher of patterns | |
| `Expand` | expand.c: one expansion of a word | `Arith` |
| `Tests` | `test`, `[[ ]]`, the arms of `case` | `Expand` |
| `Words` | where the dispatcher expands, and what it copies | `Tests` |
| `WordsMeant` | reference: one substitution, split and matched | `Words` |
| `MCWords`, `Words_proofs` | commands and contexts; theorems | `WordsMeant`, `Words` |
| `Foreground` | process.c, substitutions and background jobs over the kernel | |
| `MCForeground`, `Foreground_proofs` | symmetry; theorems | `Foreground` |
| `AliasMap` | abstract: a bounded map of names | |
| `Session` | main.c, alias.c, dirstack.c, hist_expand.c, the history of linenoise | instance of `AliasMap` |
| `MCSession`, `Session_proofs` | keyboards; theorems | `Session` |

### Eval

The C stack is the sequence `stack` of frames; a frame says where in which
function it is (`at`), its local `status` (`st`), the items a list has left
(`todo`) and the index of a poll (`cur`). `rv` is the value the last callee
returned. The globals are variables under their own names without `g_`. An
action is the code between two calls of functions that are themselves
modelled, so every test that a caller makes, and every test it forgets, is in
an action. The text of the program is not stored: the kind of each item is
chosen when it is reached, so that all programs over `Kinds` are behaviours.

`Deliver` is the signal handler, enabled in every state. `CallPoll` is
`petrush_traps_poll` as called after each item, in the interrupted wait of an
external command, and before EXIT.

Abstracted: exit statuses are success, failure and 128+n; the conditions of an
`and` or `or` are kept, pipelines are one item; the body of a simple command is
a status. Left out: failed allocations, redirections of compound commands,
SIGTERM and SIGHUP, signals that kill the shell, and the evaluator in forked
children.

### Jobs

Each process that runs shell code (the shell and its forked copies) has a
table and a program counter; `kern` and `parent` are the kernel's view of the
process ids. `petrush_job_reap` is one action per turn of its loop, so children
end between the turns. `Collect` frees an id, which the next `Fork` may reuse.
`ForegroundStops` is a wait that ends without collecting the child: a stopped
child under WUNTRACED, and the wait of a command substitution, which is not
retried after a signal. A pipeline of several stages is one child here.

### Scopes

`env` is the environment, `locals` the undo log with its tags, `saved` what the
calls in progress keep on the C stack, `leaving` says that the innermost call
is in the loop of `local_restore_frame`, one action per turn. `Level` and
`ScopeOf` compute the scopes for which the log stands. `builtin_local` is one
argument of `local`; nothing can happen between its arguments. Counts of
`shift` have the width of an `unsigned`, cut down to `2 * IntMax + 1`, and are
cast to `int` as in the code.

### Stage, Parser, Heredocs, Lines

A line is a sequence of lexemes, since all scanners of the code skip quoted
text and `$( )` as one group; a position is an index into it, and the parsers
are operators under the names of the C functions. Their error returns are
`Failed`. `Text` prints a tree; the run compares what the parser makes of the
text with the tree.

`Stage` is the part without recursion: what `build_stage` makes of the lexemes
of one command, one after the other (`CommandAt`), and what one line does to a
command that waits for a here-document (`cmd_feed`). `StageMeans` says what the
lexemes mean, by positions and without a state. `Heredocs` sees a line as the
sequence of its commands, wherever in the tree they are: its `DocSpec` makes
each command from its stretch of the line and gives each further line to the
first command that waits. `Lines` is the code's way to the same end, over the
tree: `list_pending` and its relatives look for the command, the file runner
feeds it one line at a time, and the prompt refuses a line that waits for one.
The run `Lines` checks that every one of its behaviours is one of `DocSpec`
(`FilledInOrder`, which also asks for the right bodies when a line starts to
run); what follows from `DocSpec` is proved.

### Arith, Expand, Tests, Words

A text is a sequence of atoms: a character, a numeral, or a form that begins
with `$`. Values are texts too, so that a second pass finds what a first one
has brought in. An expansion returns its text and the error flags. `Arith` has
the grammar and the wrapping of `$(( ))` for integers of `Width` bits, with the
division that traps as an outcome of its own, and the matcher. `Words` follows
one command from the tree to the moment it runs: `expand_cmd_argv` in
`dispatch_pipeline`, again in `dispatch_command`, in place or on a copy,
depending on the construct; then the choice of an arm or the status of a test.

`expand_params_inner` calls itself on the text inside a form (`${x:-text}`,
`$(echo text)`, a backslash). In `Expand` that call is the constant `Inner`,
which `MCWords` ties to `expand_params_inner`; the proofs ask nothing of it, so
they hold for every depth. `WordsMeant` has a reference that substitutes once
and splits, with which `ArrivesAsMeant` compares.

### Foreground

`proc` is the kernel's table of processes with their groups and places in a
pipeline (a number is not given out again while it is the group of one, or the
group that a stage is about to join), `tty` the group in the foreground, `code`
the program counter of the shell and of each of its copies. Parent and child are
interleaved from `fork` on, so either may call `setpgid` first; it fails when
the group it names has no process left, and the code ignores that (`GroupFor`).
`SIGTTIN`, stops, hang-ups and interrupts are actions of the kernel. `gaps`
records that something came in between which the code does not undo (a copy took
the terminal, a fork failed, an action changed the trap); the properties say
what holds otherwise, and `ForegroundTerminal` what happens then. QUIT is
treated by the code like INT and is left out, as are the modes of the terminal.

### Session

`phase` is where the process is between its start and its end: loading the
history, at the prompt, in the editor, in a command, saving. The lines of a
load and of a save are steps of their own, so a signal or a kill finds the
process in the middle of them; `Restart` is the next session on what the file
holds then. While a line is edited the history has one entry more, as in
linenoise, which is empty until the keys put text there. `HistoryNext` is a
press of Up, Down, Ctrl-P or Ctrl-N: the buffer goes into the entry it came
from, `index` entries from the last, which may be one of the user. `Enter` is
one turn of the loop of main up to the dispatch: recall,
remember, expand the alias; `Run` is the command. `log` and `how` are ghosts:
the lines that were meant, and how the session ended; `rewritten` is a third,
set when a key puts another line into an entry of the user, or a prompt ends
with text in the entry of the editor that nothing will drop (`Stray`). A
`Keyboard` bounds what the user of a behaviour does, and says whether the keys
for the lines before are used (`browses`); without a terminal (`tty` is FALSE)
there is no editor and no entry for it. What the user types between two keys is
any line of the keyboard or of the history. `HOME` is taken to be set. A signal
falls between two changes of the history, never into one.

## 4. Runs

| run | asks | bounds |
|---|---|---|
| `EvalAll` | all kinds of items, script and prompt, one signal: types, exact counters, a frame for every return, EXIT started once, errexit out of conditions | lists of 1, one compound level (5 frames), files 2 deep |
| `EvalFlow` | functions, files, loops, `case`, conditions: no item starts while a return or an abort unwinds, but below the lines left of a file that a call has sourced; the runner takes the abort | lists of 2, 8 frames, files 2 deep |
| `EvalSignals` | traps, exit and waits: `$?` kept, EXIT not lost, every signal served | 2 signals, lists of 1, 5 frames |
| `JobsTable` | the table is a `JobTable`, jobs are owned, the slot tested is there, ended jobs are reported | 2 ids, 2 slots, 1 copy |
| `Scopes` | every command means what it does in dynamic scoping | 2 names, 2 calls, log of 3 |
| `Lines` | a text means its tree; nothing accepted is lost; each command is what its lexemes mean; the readers fill documents as `DocSpec` does | the texts of all constructs two deep, their neighbours at one edit, triples of redirections, two commands with one each, bodies of 1 line |
| `Words` | words, paths and documents arrive as meant; parameters whole; errors stop the command; expressions, patterns and conditions agree with their reference | each form in each quoting and construct, expressions of up to 7 tokens with 4 bits, 2 rounds |
| `Foreground` | one group with the terminal; programs apart from the shell, but for orphans of a copy that was killed; terminal and INT come back; no wait is for ever | 3 processes, 2 stages |
| `Session` | the latest lines in memory and in the file unless the keys rewrite one; the slots are a map; recalls and popd lead to the right place | 3 sessions of 2 lines, a history of 4; 2 sessions of 2 lines with the keys for the lines before; 5 lines on 3 names in 2 slots; 4 lines on 3 directories and a stack of 2 |
| `WordsTwice`, `WordsWhile`, `ForegroundTerminal` | violations: see below | |

Why the bounds are enough. In `Eval` the interesting cases need a caller, a
callee that unwinds, and one more item behind the caller: lists of 2 (or the
next line of a file) and a caller two levels deep. The main program, its file
and a list are three frames and each level is two more, so the 8 frames of
`EvalFlow` hold two levels (a compound in a function, a call in a compound, a
function that sources a file) and the 5 of the others one; three levels are
left to the proofs. `MaxStack` bounds only where a compound item, call or file
may still start; polls, EXIT and lists are never refused. `Deliver` is free, so
one signal already falls into every state; a second one is what "a higher
signal is being served" needs. `EvalFlow` has no signals: of the poll that runs
shell code between two items of an unwinding list only `Balanced`, in `EvalAll`,
says something. The hazards of `Jobs` need an id that is reused while an
entry for it exists in some table: two ids, one of them of a copy of the shell;
it was also checked with three ids under symmetry, without liveness. In
`Scopes`, a log of 3 has a name declared twice in one call below a call that
declares it too. `JobsTable` has no symmetry because its liveness property
would be unsound under it; `Scopes` and `Foreground` are symmetric.

A level of the parser can be confused only with the one around it, hence two
levels; a document can be displaced by one before it, hence two of them, in one
command, in two stages or in two lists. The second pass over a word needs one
form inside the value of another. Four bits hold every sign, the wrap and the
division that traps. In `Foreground` three processes are a pipeline of two and a
copy of the shell beside it, which is what it takes for a group to be taken
over; with the copy killed, they are also the orphan that comes too late for its
group. A history of 4 is full after two sessions of two lines, with the editor's
entry on top, and the third session starts from what a crash of the second has
left. With the keys for the lines before, two lines and two sessions are enough
for each of the exceptions that `rewritten` makes: without it `HistoryIsRecent`,
`FileIsRecent` and `RecallsRight` are violated, as `RecallsRight` is without
asking that the file repeat no line at once. Two slots with three names make
holes, and a full table. `Lines`, `Words` and `Session` end when the input or
the keyboard is spent, hence no check for deadlock there.

The proofs do not depend on these bounds.

### What the violations show

- `WordsTwice`: paths and documents of a command outside a pipeline are
  expanded twice, so a `$` that a value brought in is expanded as well.
- `WordsWhile`: `while` runs its condition and body on the tree itself, so the
  words of the first round are those of every later one.
- `ForegroundTerminal`: a program in a command substitution leaves the terminal
  with a group that has ended.

### Other departures, stated in the models but not as runs

Evaluator: `f && x` with a failing command inside `f` ends the script under
`set -e`. The loop of `main` never takes the abort, so each later line stops
after its first item (main.c:221). `exit` in a signal action loses the other
pending signals (dispatcher.c:2206). A `return` or an abort in a signal action
lets one more item of the interrupted list start. A `return` in a file that a
function sources does not end the file (source.c:107), and the functions that
its later lines call run with the return still raised. End of input at the
prompt, and `exit` with a bad operand, skip the EXIT action.

Jobs and scopes: `jobs | cat` shows running jobs as Done (job.c:88); in a
script, jobs that are Done count against the ceiling (dispatcher.c:566); a
count of `shift` above INT_MAX passes the test (expand.c:206).

Lines and words: `<` after `<<` cancels the document, which is then not read;
`<<A <<-B` strips both (parser.c:2232); the return 2 of `fill_heredocs` cannot
happen; a numeral out of range counts as 0; the lowest integer divided by -1
stops the shell (SIGFPE); the words of `for` are never expanded; text behind
`~/` is not expanded in a pipeline; a line of more than 4095 bytes is split.

Children: a fork that fails in a pipeline leaves the stages before it
unwaited, and the terminal with them; a background child sets INT and QUIT to
their default even under `trap '' INT`; stages of a pipeline keep the traps; a
stopped child is forgotten; a stage whose copy of the shell was killed between
its fork and its `setpgid`, when the first stage was gone already, runs in the
group of the shell, since the child ignores that its own `setpgid` fails
(process.c:471).

Session: the keys for the lines before put the buffer into the entry it came
from (linenoise.c:1616), so after Up, an edit and Up a line of the user is
another one, in memory and in the file that is saved; typed text that is left by
Up stays in the history as a line when Ctrl-C or SIGTERM ends the prompt, or a
signal without effect interrupts it; two entries made equal in this way are one
when the file is loaded, so `history` and `!n` number differently. Ctrl-C at the
prompt ends the shell, since linenoise returns EAGAIN
and main.c:188 tests EINTR; `exit` as a command does not save the history; a
SIGTERM at the prompt saves the empty line being edited, and one while the
file loads truncates it; a bang word without event is remembered as it is,
though the comment at main.c:201 says it is not; `!!` finds nothing once a full
history holds only empty entries and `!!` itself; a full history loses its
oldest entry to the line being edited; `history` numbers the file and `!n` the
memory; a `popd` that fails drops its entry; `pushd` and `popd` do not set PWD
and OLDPWD.

## 5. Fairness

`EvalSignals` assumes `WF_vars(ShellNext)`: one thread keeps running and the
children it waits for end. Nobody has to send a signal. Scripts whose trap
actions loop are left out (no loops among `TrapKinds`): such an action starves
every other, in the code too.

`JobsTable` assumes that the shell goes on inside an operation, that a
foreground child ends, and strong fairness of `Prompt`: however many commands
a line holds, the loop of `main` comes round again. Background jobs need not
end.

The other specifications state safety only. `NobodyHangs` says without
fairness that whatever the shell waits for can still come.

## 6. Proofs

All theorems hold for every value of the constants under the ASSUMEs of the
modules, which only give the constants their types.

- `Eval_proofs`: `TypeCorrect`, `CountersBalanced`, `ReturnContained`,
  `ErrexitScoped`. `Balanced` is nearly inductive: each counter equals the
  number of frames at certain points. It needs in addition that the stack
  always has the frame of a main program at the bottom (`Based`), so that it is
  never popped empty, and `ReturnHasFrame`. Three lemmas say what a step, a
  call and a return of the stack do to the count of frames of *any* class, and
  each action then adds up.
- `EvalControl_proofs`: `CallShape`, `StatusBetweenItems`, `ExitActionOnce`,
  `ExitActionRuns`, `ReturnsUnwind`, `AbortsStop`, `ScriptsUnwind`. These
  invariants speak of which function called which, so the proof goes through an
  abstraction: every action of `Eval` is one of four moves of the stack (`Move`:
  the top is replaced, it calls, it returns, nothing happens), with what each
  may do to the flags and `$?` (lemma `Moves`). The invariants are then kept by
  the moves: every frame may have been called by the one below it (`Shaped`),
  the status of the last item is in `$?`, or in the poll above the list that
  will put it back (`Kept`); the EXIT action has been started once while it
  runs and when the process is about to end (`OneExit`, `ExitTaken`); while a
  flag is raised the top of the stack is at a point that unwinds (`ReturnHeld`,
  `AbortHeld`).
  The hypotheses are those of the code: a return or an abort inside a signal
  action lets one more item of the interrupted list start, so `ReturnsUnwind`
  and `AbortsStop` are about behaviours in which no signal action runs, and
  `ScriptsUnwind` gives the scripts that have no other; the loop of `main` never
  takes the abort, and an exit with a bad operand or the end of input skips the
  EXIT action, so `AbortsStop` and `ExitActionRuns` are about scripts.
- `Jobs_proofs`: `JobsTypeCorrect`, `JobsOwned`, `AddAlwaysFits`,
  `JobsRefines`. The invariant says which process owns each running entry and
  the child in hand (`at = "add"` or `"wait"`), and that ids without a process
  have no parent; without the latter a reused id could belong to two entries.
- `Scopes_proofs`: `ScopesTypeCorrect`, `UndoLogOrdered`, `DynamicScoping`,
  `ScopesRefine`. The invariant is that the tags of the log do not decrease
  and lie between 1 and the depth. Three lemmas say what assigning, pushing
  and popping do to the oldest deeper entry of a name, for any log. The last
  two theorems assume that no count of `shift` exceeds INT_MAX: beyond it the
  cast at expand.c:206 makes the count negative.
- `Foreground_proofs`: `ForegroundTypes`, `ForegroundTogetherHolds`,
  `ProgramsApartHolds`, `TerminalHomeHolds`, `DispositionsReturnHolds`,
  `NobodyHangsHolds`, for any number of processes and stages. The properties
  speak of the prompt and of the wait only; the invariant follows a pipeline
  through all points in between: what the stages not yet waited for are
  (`Owned`), which copies the shell has (`Copies`), that a program is in the
  group of its first stage whichever `setpgid` ran, or an orphan (`Grouped`), who
  has the terminal at which point (`Terminal`), and where the disposition of INT is kept
  (`Traps`). That `ProgramsApart` has no other exception than orphans rests on a
  child whose parent lives being in its group, or leading it, or being moved by
  its parent next (`Joining`), and on nobody else running commands (`Running`).
  `NobodyHangsHolds` needs two facts more: whoever has the leader of the
  pipeline as its own is one of its stages, so no reused number joins it
  (`Members`), and the shell has closed its ends of the pipes before it waits
  (`Closed`). Then the first stage that still lives has no writer and can go on.
- `Session_proofs`: `SessionTypes`, `EditorStaysInside`, `TableImplementsMap`,
  `StackIsWayBack`. That the types hold rests on the history having an entry,
  and the index of the keys lying inside it, whenever a line is edited, or Enter
  would pop an empty history and Up write beside it. The refinement rests on no
  name being in two slots: `MapReads` then says what a slot means in the map,
  `SetDefines` and `FreeForgets` what setting and freeing a slot do to the map,
  and `RoomIsFree` counts names by a bijection with the used slots. The history
  (`HistoryHoldsLatest`, `BangsRecallRight`) has an invariant of its own. It is
  about the history with the entry of the editor taken for empty, whatever the
  keys put there (`Entries`), and asks nothing once they have rewritten an entry
  (`Intact`). The properties count where an entry of the history is in the log;
  the invariant has a map from the entries to the places of the log instead
  (`Mirrors`), which adding to the history, dropping its first entry, and
  dropping the entry of the editor extend or cut. `MirrorsRecent` shows by
  descent that the places that the property counts are those of the map. A
  history that is not complete is full, or was so until the editor's entry was
  dropped (`Spent`); that no line repeats the one before it (`Clean`) is what
  makes the difference visible. The rest of `HistInv` follows the file: `Saved`
  while it is written, `Loaded` while it is read, and `KeptUntilFull`, by which
  `!n` and `history` number alike.
- `Heredocs_proofs`: `HeredocsTypeCorrect`, `BodiesFilledInOrder`,
  `ReadersFillInOrder`, `StageAsTyped`, `StagesAsTyped`, for any number of
  commands and documents and any ceiling. The invariant counts the documents of
  each command that have ended (`Counted`, `Idle`), keeps their ends in the
  order of the text (`InOrder`, `EndsFirst`), and says of the last document of
  each command that its body is the stretch of `fed` up to its end (`Filled`),
  or up to now for the one being read (`Filling`); `Finished` and `RunsFilled`
  are that no line was taken in excess and that nothing runs before all are
  read. `StageAsTyped` is about `build_stage` alone, for any lexemes: by descent
  on their prefixes, the files, documents and arguments of `CommandAt` are those
  that `StageMeans` finds by position.
- `Words_proofs`: `WordsTypeCorrect`, `ParamsWhole`, `ErrorsStopCommands`, for
  any command, context, directory and depth of forms, when the command is
  reached for the first time: in the later rounds of a `while` it is what the
  first one made of it (`WordsWhile`). Both properties look back from the moment
  a command runs, so the invariant says at each point before it where the words
  given are: in the tree up to the first pass (`AsGiven`), in the command at
  hand when it begins (`Taken`), and behind it in one run among the words that
  were made (`Passed`). The lemma `Flattened` says what joining the words of all
  arguments does, `RunKept` that a run of words that a pass leaves alone stays a
  run, and `RunThroughPass` that quotes are enough to be left alone, by both
  loops of `expand_cmd_argv`. For the errors, `FaultyText` follows a flag from
  an atom to its word and `PassRefuses` from a word to the command. The
  assumptions are that words, paths and documents are sequences, quotes are 0, 1
  or 2, and directories are finite.

Where an operator is defined by a recursive function on a sequence
(`CommandAt`, `FlattenSeq`, the rounds of `[[ ]]`), the proofs first show that
the function exists: otherwise a least length without one would have one.

Only model-checked: liveness (`PendingServed`, `EndedReported`), which is out of
the prover's reach; and what compares the code with a recursive reference, or
is about recursive trees: that a text means its tree and nothing of it is lost
(`MeansWhatItSays`, `NothingLost`), that `Lines` implements `DocSpec`, and that
words, expressions, patterns and conditions are what their reference says
(`ArrivesAsMeant`, `ChoosesAsMeant`). Everything else that a passing run checks
is a theorem.

## 7. Not modelled

`PROJECT.json` gives the reason for each component that is `not_modelled`: they
are single passes of formatting, of system calls in a straight line, of reports
from /proc, or pure functions on bytes, and the plugin loader, which only its
test calls. Within the modelled parts the following is left out: failed
allocations; the search in PATH and the files of redirections; the modes of the
terminal; QUIT, which goes the way of INT; the traps and flags that a forked
child inherits; the length of lines and outputs; the keys of the line editor but
for those that go through the history, its screen and its completion; a signal
in the middle of a change of the history (linenoise.c:1616 and 2481); two shells
that share one history file.
