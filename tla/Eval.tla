-------------------------------- MODULE Eval --------------------------------
(***************************************************************************)
(* The evaluator of petrush: how one shell process runs lists of commands. *)
(*                                                                         *)
(* The C code is a set of mutually recursive functions (dispatch_list,     *)
(* dispatch_if, dispatch_while, dispatch_for, dispatch_case, call_fn, the  *)
(* line runner of source.c, petrush_traps_poll, petrush_run_exit_trap, the *)
(* wait of execute_external, the two main programs).  What unwinds them is *)
(* not an exception but global flags that every function must test when a  *)
(* callee returns: g_returning, g_shell_abort, and the counters g_fn_depth *)
(* and g_no_errexit.  Here the C stack is an explicit sequence of frames   *)
(* and the globals are variables, so that a test forgotten after one call  *)
(* is visible as a reachable state.                                        *)
(*                                                                         *)
(* The program text is not stored: when dispatch_list reaches an item, the *)
(* kind of that item is chosen then, among Kinds.  Every terminating or    *)
(* looping script over those kinds is one of the behaviours.               *)
(***************************************************************************)
EXTENDS Integers, Sequences, FiniteSets

CONSTANTS
    Entries,    \* "script" (petrush file), "repl" (interactive), or both
    Kinds,      \* the kinds of items that lists may hold
    NSig,       \* the signals a trap may name are 1..NSig
    MaxItems,   \* bound: items in one list
    MaxStack,   \* bound: frames under which compound items still nest
    MaxSource   \* PETRUSH_SOURCE_MAX_DEPTH

AllKinds == { "status",   \* a builtin, [[ ]], definition or & job: 0 or 1
              "nounset",  \* an expansion error under set -u
              "special",  \* a usage error of set or trap
              "errexit",  \* set -e, set +e
              "return", "trap", "exit", "badexit",
              "external", "source", "call", "if", "while", "for", "case" }

ASSUME EvalAssumption ==
    /\ Entries \subseteq {"script", "repl"}
    /\ Kinds \subseteq AllKinds
    /\ NSig \in Nat
    /\ MaxItems \in Nat \ {0}
    /\ MaxStack \in Nat
    /\ MaxSource \in Nat \ {0}

VARIABLES
    stack,      \* the C stack: a sequence of frames, the running one last
    rv,         \* the value the last callee returned, Void when consumed
    fnDepth,    \* g_fn_depth
    returning,  \* g_returning
    retStatus,  \* g_return_status
    abort,      \* g_shell_abort
    noErrexit,  \* g_no_errexit
    optE,       \* petrush_shellopt_get('e')
    last,       \* petrush_last_status(), the value of $?
    srcDepth,   \* g_source_depth
    inPoll,     \* g_in_trap_poll
    inExit,     \* g_in_exit
    pending,    \* the signals s with g_trap_pending[s] = 1
    trapAct,    \* g_trap_action: slot 0 is EXIT, slot s is signal s
    alive,      \* FALSE once the process has exited
    exitRuns    \* history: how many times the EXIT action was started

unwind == <<fnDepth, returning, retStatus>>
traps  == <<inPoll, pending, trapAct>>
exits  == <<inExit, alive, exitRuns>>
vars   == <<stack, rv, unwind, abort, noErrexit, optE, last, srcDepth,
            traps, exits>>

-----------------------------------------------------------------------------
(* Types *)

Sigs    == 1..NSig
Status  == {0, 1}                          \* success, and any failure
Codes   == Status \cup {128 + s : s \in Sigs} \* the values of $?
Void    == -1
Actions == {"default", "ignore", "command"}

\* How an item hangs on the one before it; "first" stands for i = 0.
Conds    == {"first", "always", "and", "or"}
WellConnected(c) == \A i \in DOMAIN c : (c[i] = "first") <=> (i = 1)

\* A body may be empty; a condition and a parsed line may not.
Bodies == {c \in UNION {[1..n -> Conds] : n \in 0..MaxItems} : WellConnected(c)}
Lists  == Bodies \ {<<>>}

Points == { "list:item", "list:after",
            "ext:wait", "ext:done",
            "if:arm", "if:cond", "if:body", "if:else",
            "while:test", "while:cond", "while:body",
            "for:word", "for:body", "case:arm", "case:body",
            "fn:enter", "fn:body",
            "file:line", "file:ran",
            "poll:scan", "poll:ran",
            "exit:poll", "exit:guard", "exit:ran",
            "exit:over",
            "main:ran", "main:exit",
            "repl:rc", "repl:rcran", "repl:prompt",
            "repl:ran" }

\* at: function and point in it; st: its local `status` (or `saved`);
\* todo: the items a list has left; cur: the index a poll has reached.
Frame == [at : Points, st : Codes, todo : Seq(Conds), cur : 0..NSig]

At(point)        == [at |-> point, st |-> 0, todo |-> <<>>, cur |-> 0]
ListFrame(items) == [At("list:item") EXCEPT !.todo = items]

\* Every variable and every frame keeps its type; the statuses stay codes of $?.
TypeOK ==
    /\ stack \in Seq(Frame)
    /\ rv \in Codes \cup {Void}
    /\ fnDepth \in Nat
    /\ returning \in BOOLEAN
    /\ retStatus \in Status
    /\ abort \in BOOLEAN
    /\ noErrexit \in Nat
    /\ optE \in BOOLEAN
    /\ last \in Codes
    /\ srcDepth \in Nat
    /\ inPoll \in BOOLEAN
    /\ inExit \in BOOLEAN
    /\ pending \subseteq Sigs
    /\ trapAct \in [0..NSig -> Actions]
    /\ alive \in BOOLEAN
    /\ exitRuns \in Nat

-----------------------------------------------------------------------------
(* The stack *)

Top            == stack[Len(stack)]
Running(point) == alive /\ Top.at = point
Resume(f)      == [stack EXCEPT ![Len(stack)] = f]
Goto(point)    == [Top EXCEPT !.at = point]

\* The running function becomes f and calls g; it moves on; it returns s.
Call(f, g) == stack' = Append(Resume(f), g) /\ rv' = Void
Step(f)    == stack' = Resume(f) /\ rv' = Void
Return(s)  == stack' = SubSeq(stack, 1, Len(stack) - 1) /\ rv' = s

\* petrush_traps_poll() called by the running function, which resumes as f.
\* With nothing pending, or inside another poll, the call has no effect.
CallPoll(f) ==
    /\ rv' = Void
    /\ IF pending = {} \/ inPoll
         THEN stack' = Resume(f) /\ UNCHANGED inPoll
         ELSE stack' = Append(Resume(f), At("poll:scan")) /\ inPoll' = TRUE

Room == Len(stack) + 2 <= MaxStack

-----------------------------------------------------------------------------
(* dispatch_list: taking the next item *)

ShortCircuit == \/ Head(Top.todo) = "and" /\ Top.st # 0
                \/ Head(Top.todo) = "or"  /\ Top.st = 0

NextItems == SubSeq(Top.todo, 2, Len(Top.todo))

\* The loop is at an item of this kind and will dispatch it.
Item(kind) ==
    /\ Running("list:item") /\ Top.todo # <<>> /\ ~ShortCircuit
    /\ kind \in Kinds

\* A command that completes at once with this status, and a call.
Completes(s) == stack' = Resume(Goto("list:after")) /\ rv' = s
Calls(g)     == Call(Goto("list:after"), g)

SkipItem ==
    /\ Running("list:item") /\ Top.todo # <<>> /\ ShortCircuit
    /\ Step([Top EXCEPT !.todo = NextItems])
    /\ UNCHANGED <<unwind, abort, noErrexit, optE, last, srcDepth, traps, exits>>

EndOfList ==
    /\ Running("list:item") /\ Top.todo = <<>>
    /\ Return(Top.st)
    /\ UNCHANGED <<unwind, abort, noErrexit, optE, last, srcDepth, traps, exits>>

RunStatus ==
    /\ Item("status")
    /\ \E s \in Status : Completes(s)
    /\ UNCHANGED <<unwind, abort, noErrexit, optE, last, srcDepth, traps, exits>>

\* take_expand_errors and the usage errors of special builtins; set applies
\* the options before the one it refuses.
RunAborting ==
    /\ \/ Item("nounset") /\ UNCHANGED optE
       \/ Item("special") /\ optE' \in BOOLEAN
    /\ Completes(1)
    /\ abort' = TRUE
    /\ UNCHANGED <<unwind, noErrexit, last, srcDepth, traps, exits>>

RunSetErrexit ==
    /\ Item("errexit")
    /\ Completes(0)
    /\ optE' \in BOOLEAN
    /\ UNCHANGED <<unwind, abort, noErrexit, last, srcDepth, traps, exits>>

builtin_return ==
    /\ Item("return")
    /\ IF fnDepth = 0
         THEN Completes(1) /\ UNCHANGED unwind
         ELSE \E s \in Status :
                /\ Completes(s)
                /\ returning' = TRUE /\ retStatus' = s /\ UNCHANGED fnDepth
    /\ UNCHANGED <<abort, noErrexit, optE, last, srcDepth, traps, exits>>

\* trap_set_slot on each condition in turn, until one that is not valid.  The
\* pending flag is cleared before the disposition changes, so a signal that
\* falls between the two is left pending without an action.
builtin_trap ==
    /\ Item("trap")
    /\ \E slots \in SUBSET (0..NSig), act \in Actions :
         /\ trapAct' = [i \in 0..NSig |-> IF i \in slots THEN act ELSE trapAct[i]]
         /\ \/ act = "command" /\ UNCHANGED pending
            \/ /\ act # "command"
               /\ \E late \in SUBSET {s \in slots \ {0} : trapAct[s] = "command"} :
                    pending' = (pending \ slots) \cup late
    /\ \/ Completes(0) /\ UNCHANGED abort
       \/ Completes(1) /\ abort' = TRUE
    /\ UNCHANGED <<unwind, noErrexit, optE, last, srcDepth, inPoll, exits>>

\* exit [n] calls petrush_run_exit_trap; a bad operand exits at once.
builtin_exit ==
    /\ Item("exit")
    /\ \E s \in Status : Calls([At("exit:poll") EXCEPT !.st = s])
    /\ UNCHANGED <<unwind, abort, noErrexit, optE, last, srcDepth, traps, exits>>

ExitBadOperand ==
    /\ Item("badexit")
    /\ alive' = FALSE
    /\ UNCHANGED <<stack, rv, unwind, abort, noErrexit, optE, last, srcDepth,
                   traps, inExit, exitRuns>>

RunExternal ==
    /\ Item("external") /\ Room
    /\ Calls(At("ext:wait"))
    /\ UNCHANGED <<unwind, abort, noErrexit, optE, last, srcDepth, traps, exits>>

RunCompound ==
    /\ Room
    /\ \/ Item("if")    /\ Calls(At("if:arm"))
       \/ Item("while") /\ Calls(At("while:test"))
       \/ Item("for")   /\ Calls(At("for:word"))
    /\ UNCHANGED <<unwind, abort, noErrexit, optE, last, srcDepth, traps, exits>>

-----------------------------------------------------------------------------
(* dispatch_list: after the item *)

AndOrNotLast(f) == Len(f.todo) > 1 /\ f.todo[2] \in {"and", "or"}

\* Mutant: the exemption of conditions is forgotten.
maybe_errexit_no_exemption(s) == s # 0 /\ optE /\ ~AndOrNotLast(Top)

maybe_errexit(s) == s # 0 /\ optE /\ noErrexit = 0 /\ ~AndOrNotLast(Top)

ItemDone == Running("list:after") /\ rv # Void /\ last' = rv

ItemReturns ==
    /\ ItemDone /\ returning
    /\ Return(retStatus)
    /\ UNCHANGED <<unwind, abort, noErrexit, optE, srcDepth, traps, exits>>

ItemAborts ==
    /\ ItemDone /\ ~returning
    /\ abort \/ maybe_errexit(rv)
    /\ abort' = TRUE
    /\ Return(rv)
    /\ UNCHANGED <<unwind, noErrexit, optE, srcDepth, traps, exits>>

ItemContinues ==
    /\ ItemDone /\ ~returning /\ ~abort /\ ~maybe_errexit(rv)
    /\ CallPoll([ListFrame(NextItems) EXCEPT !.st = rv])
    /\ UNCHANGED <<unwind, abort, noErrexit, optE, srcDepth, pending, trapAct,
                   exits>>

-----------------------------------------------------------------------------
(* dispatch_if *)

\* The next arm with a condition, the else arm, or no arm left.
IfTest ==
    /\ Running("if:arm")
    /\ \E c \in Lists : Call(Goto("if:cond"), ListFrame(c))
    /\ noErrexit' = noErrexit + 1
    /\ UNCHANGED <<unwind, abort, optE, last, srcDepth, traps, exits>>

\* st = 1 says that an arm was tried: the first arm is never the else.
IfElse ==
    /\ Running("if:arm") /\ Top.st = 1
    /\ \/ \E c \in Bodies : Call(Goto("if:else"), ListFrame(c))
       \/ Return(0)
    /\ UNCHANGED <<unwind, abort, noErrexit, optE, last, srcDepth, traps, exits>>

\* Mutant: the abort is tested before the decrement.
IfTested_early_abort ==
    /\ Running("if:cond") /\ rv # Void
    /\ noErrexit' = IF abort THEN noErrexit ELSE noErrexit - 1
    /\ \/ abort /\ Return(rv)
       \/ ~abort /\ returning /\ Return(retStatus)
       \/ /\ ~returning /\ ~abort /\ rv = 0
          /\ \E c \in Bodies : Call(Goto("if:body"), ListFrame(c))
       \/ /\ ~returning /\ ~abort /\ rv # 0
          /\ Step([Goto("if:arm") EXCEPT !.st = 1])
    /\ UNCHANGED <<unwind, abort, optE, last, srcDepth, traps, exits>>

IfTested ==
    /\ Running("if:cond") /\ rv # Void
    /\ noErrexit' = noErrexit - 1
    /\ \/ returning /\ Return(retStatus)
       \/ ~returning /\ abort /\ Return(rv)
       \/ /\ ~returning /\ ~abort /\ rv = 0
          /\ \E c \in Bodies : Call(Goto("if:body"), ListFrame(c))
       \/ /\ ~returning /\ ~abort /\ rv # 0
          /\ Step([Goto("if:arm") EXCEPT !.st = 1])
    /\ UNCHANGED <<unwind, abort, optE, last, srcDepth, traps, exits>>

\* Mutant: the counter is lowered again after the body.
IfRan_lowers ==
    /\ rv # Void
    /\ Running("if:body") /\ Return(IF returning THEN retStatus ELSE rv)
    /\ noErrexit' = noErrexit - 1
    /\ UNCHANGED <<unwind, abort, optE, last, srcDepth, traps, exits>>

IfRan ==
    /\ rv # Void
    /\ \/ Running("if:body") /\ Return(IF returning THEN retStatus ELSE rv)
       \/ Running("if:else") /\ Return(rv)
    /\ UNCHANGED <<unwind, abort, noErrexit, optE, last, srcDepth, traps, exits>>

-----------------------------------------------------------------------------
(* dispatch_while, dispatch_for, dispatch_case, call_fn *)

WhileTest ==
    /\ Running("while:test")
    /\ \E c \in Lists : Call(Goto("while:cond"), ListFrame(c))
    /\ noErrexit' = noErrexit + 1
    /\ UNCHANGED <<unwind, abort, optE, last, srcDepth, traps, exits>>

WhileTested ==
    /\ Running("while:cond") /\ rv # Void
    /\ noErrexit' = noErrexit - 1
    /\ \/ returning /\ Return(retStatus)
       \/ ~returning /\ abort /\ Return(rv)
       \/ ~returning /\ ~abort /\ rv # 0 /\ Return(Top.st)
       \/ /\ ~returning /\ ~abort /\ rv = 0
          /\ \E c \in Bodies : Call(Goto("while:body"), ListFrame(c))
    /\ UNCHANGED <<unwind, abort, optE, last, srcDepth, traps, exits>>

\* Mutants: a loop that does not look at g_returning, or at g_shell_abort.
LoopRan_no_return(point, next) ==
    /\ Running(point) /\ rv # Void
    /\ \/ abort /\ Return(rv)
       \/ ~abort /\ Step([Goto(next) EXCEPT !.st = rv])
    /\ UNCHANGED <<unwind, abort, noErrexit, optE, last, srcDepth, traps, exits>>

LoopRan_no_abort(point, next) ==
    /\ Running(point) /\ rv # Void
    /\ \/ returning /\ Return(retStatus)
       \/ ~returning /\ Step([Goto(next) EXCEPT !.st = rv])
    /\ UNCHANGED <<unwind, abort, noErrexit, optE, last, srcDepth, traps, exits>>

\* After the body of a loop: leave it, or go round with status rv.
LoopRan(point, next) ==
    /\ Running(point) /\ rv # Void
    /\ \/ returning /\ Return(retStatus)
       \/ ~returning /\ abort /\ Return(rv)
       \/ ~returning /\ ~abort /\ Step([Goto(next) EXCEPT !.st = rv])
    /\ UNCHANGED <<unwind, abort, noErrexit, optE, last, srcDepth, traps, exits>>

WhileRan == LoopRan("while:body", "while:test")
ForRan   == LoopRan("for:body", "for:word")

ForWord ==
    /\ Running("for:word")
    /\ \/ Return(Top.st)
       \/ \E c \in Bodies : Call(Goto("for:body"), ListFrame(c))
    /\ UNCHANGED <<unwind, abort, noErrexit, optE, last, srcDepth, traps, exits>>

\* The word may fail to expand, no arm may match, or one arm runs.
RunCase ==
    /\ Item("case")
    /\ \/ Completes(1) /\ abort' = TRUE
       \/ \E s \in Status : Completes(s) /\ UNCHANGED abort
       \/ Room /\ Calls(At("case:arm")) /\ UNCHANGED abort
    /\ UNCHANGED <<unwind, noErrexit, optE, last, srcDepth, traps, exits>>

CaseArm ==
    /\ Running("case:arm")
    /\ \E c \in Bodies : Call(Goto("case:body"), ListFrame(c))
    /\ UNCHANGED <<unwind, abort, noErrexit, optE, last, srcDepth, traps, exits>>

CaseRan ==
    /\ Running("case:body") /\ rv # Void
    /\ Return(IF returning THEN retStatus ELSE rv)
    /\ UNCHANGED <<unwind, abort, noErrexit, optE, last, srcDepth, traps, exits>>

call_fn ==
    /\ Item("call") /\ Room
    /\ Calls(At("fn:enter"))
    /\ fnDepth' = fnDepth + 1
    /\ UNCHANGED <<returning, retStatus, abort, noErrexit, optE, last, srcDepth,
                   traps, exits>>

FnEnter ==
    /\ Running("fn:enter")
    /\ \E c \in Bodies : Call(Goto("fn:body"), ListFrame(c))
    /\ UNCHANGED <<unwind, abort, noErrexit, optE, last, srcDepth, traps, exits>>

\* Mutant: the call does not consume the return.
FnLeave_keeps_return ==
    /\ Running("fn:body") /\ rv # Void
    /\ Return(IF returning THEN retStatus ELSE rv)
    /\ fnDepth' = fnDepth - 1
    /\ UNCHANGED <<returning, retStatus, abort, noErrexit, optE, last, srcDepth,
                   traps, exits>>

FnLeave ==
    /\ Running("fn:body") /\ rv # Void
    /\ Return(IF returning THEN retStatus ELSE rv)
    /\ returning' = FALSE
    /\ fnDepth' = fnDepth - 1
    /\ UNCHANGED <<retStatus, abort, noErrexit, optE, last, srcDepth, traps, exits>>

-----------------------------------------------------------------------------
(* execute_external: the parent's wait *)

\* A trapped signal interrupts waitpid; the child ends; the status is returned.
WaitInterrupted ==
    /\ Running("ext:wait") /\ pending # {}
    /\ ~inPoll
    /\ CallPoll(Top)
    /\ UNCHANGED <<unwind, abort, noErrexit, optE, last, srcDepth, pending,
                   trapAct, exits>>

ChildEnds ==
    /\ Running("ext:wait")
    /\ CallPoll(Goto("ext:done"))
    /\ UNCHANGED <<unwind, abort, noErrexit, optE, last, srcDepth, pending,
                   trapAct, exits>>

ExternalDone ==
    /\ Running("ext:done")
    /\ \E s \in Status : Return(s)
    /\ UNCHANGED <<unwind, abort, noErrexit, optE, last, srcDepth, traps, exits>>

-----------------------------------------------------------------------------
(* source.c: run_file_lines *)

\* Too deep, missing, or refused by petrush_rc_stat_ok.
SourceRefused ==
    /\ Item("source")
    /\ Completes(1)
    /\ UNCHANGED <<unwind, abort, noErrexit, optE, last, srcDepth, traps, exits>>

petrush_source_file ==
    /\ Item("source") /\ Room
    /\ srcDepth < MaxSource
    /\ Calls(At("file:line"))
    /\ srcDepth' = srcDepth + 1
    /\ abort' = FALSE
    /\ UNCHANGED <<unwind, noErrexit, optE, last, traps, exits>>

FileLine ==
    /\ Running("file:line")
    /\ \E c \in Lists : Call(Goto("file:ran"), ListFrame(c))
    /\ UNCHANGED <<unwind, abort, noErrexit, optE, last, srcDepth, traps, exits>>

\* A line that does not parse is reported and the next one is read.
FileBadLine ==
    /\ Running("file:line") /\ Step([Top EXCEPT !.st = 1])
    /\ UNCHANGED <<unwind, abort, noErrexit, optE, last, srcDepth, traps, exits>>

\* End of file, or a here-document without its end.
FileEnds ==
    /\ Running("file:line")
    /\ Return(Top.st) \/ Return(1)
    /\ srcDepth' = srcDepth - 1
    /\ UNCHANGED <<unwind, abort, noErrexit, optE, last, traps, exits>>

FileRan ==
    /\ Running("file:ran") /\ rv # Void
    /\ abort' = FALSE
    /\ \/ /\ ~abort /\ Step([Goto("file:line") EXCEPT !.st = rv])
          /\ UNCHANGED srcDepth
       \/ \* aborted, or the here-document read the last line of the file
          Return(rv) /\ srcDepth' = srcDepth - 1
    /\ UNCHANGED <<unwind, noErrexit, optE, last, traps, exits>>

-----------------------------------------------------------------------------
(* petrush_traps_poll *)

\* The handler trap_signal_handler, whenever the kernel runs it.
Deliver(s) ==
    /\ alive
    /\ trapAct[s] = "command" /\ s \notin pending
    /\ pending' = pending \cup {s}
    /\ UNCHANGED <<stack, rv, unwind, abort, noErrexit, optE, last, srcDepth,
                   inPoll, trapAct, exits>>

Ahead == {s \in pending : s > Top.cur}

\* The action is run unless there is none or it does not parse.
PollTake(s) ==
    /\ Running("poll:scan")
    /\ s \in Ahead /\ \A t \in Ahead : s <= t
    /\ pending' = pending \ {s}
    /\ \/ /\ trapAct[s] = "command"
          /\ \E c \in Lists :
               Call([Goto("poll:ran") EXCEPT !.st = last, !.cur = s],
                    ListFrame(c))
          /\ last' = 128 + s
          /\ noErrexit' = noErrexit + 1
       \/ Step([Top EXCEPT !.cur = s]) /\ UNCHANGED <<last, noErrexit>>
    /\ UNCHANGED <<unwind, abort, optE, srcDepth, inPoll, trapAct, exits>>

\* Mutant: $? is left as the action left it.
PollRan_keeps_status ==
    /\ Running("poll:ran") /\ rv # Void
    /\ Step(Goto("poll:scan"))
    /\ noErrexit' = noErrexit - 1
    /\ UNCHANGED <<unwind, abort, optE, last, srcDepth, traps, exits>>

PollRan ==
    /\ Running("poll:ran") /\ rv # Void
    /\ Step(Goto("poll:scan"))
    /\ noErrexit' = noErrexit - 1
    /\ last' = Top.st
    /\ UNCHANGED <<unwind, abort, optE, srcDepth, traps, exits>>

\* Mutant: the guard against nested polls is never released.
PollEnds_keeps_guard ==
    /\ Running("poll:scan") /\ Ahead = {}
    /\ Return(Void)
    /\ UNCHANGED <<unwind, abort, noErrexit, optE, last, srcDepth, traps, exits>>

PollEnds ==
    /\ Running("poll:scan") /\ Ahead = {}
    /\ Return(Void)
    /\ inPoll' = FALSE
    /\ UNCHANGED <<unwind, abort, noErrexit, optE, last, srcDepth, pending,
                   trapAct, exits>>

-----------------------------------------------------------------------------
(* petrush_run_exit_trap, and the end of the process *)

ExitPolls ==
    /\ Running("exit:poll")
    /\ CallPoll(Goto("exit:guard"))
    /\ UNCHANGED <<unwind, abort, noErrexit, optE, last, srcDepth, pending,
                   trapAct, exits>>

\* Already inside the EXIT action, or no action to run.
ExitNoAction ==
    /\ Running("exit:guard")
    /\ inExit \/ trapAct[0] # "command"
    /\ Step(Goto("exit:over"))
    /\ UNCHANGED <<unwind, abort, noErrexit, optE, last, srcDepth, traps, exits>>

\* Mutant: an exit inside the EXIT action starts it again.
ExitAction_reenters ==
    /\ Running("exit:guard") /\ trapAct[0] = "command"
    /\ \E c \in Lists : Call(Goto("exit:ran"), ListFrame(c))
    /\ inExit' = TRUE
    /\ exitRuns' = exitRuns + 1
    /\ last' = Top.st
    /\ noErrexit' = noErrexit + 1
    /\ UNCHANGED <<unwind, abort, optE, srcDepth, traps, alive>>

ExitAction ==
    /\ Running("exit:guard")
    /\ ~inExit /\ trapAct[0] = "command"
    /\ \E c \in Lists : Call(Goto("exit:ran"), ListFrame(c))
    /\ inExit' = TRUE
    /\ exitRuns' = exitRuns + 1
    /\ last' = Top.st
    /\ noErrexit' = noErrexit + 1
    /\ UNCHANGED <<unwind, abort, optE, srcDepth, traps, alive>>

ExitRan ==
    /\ Running("exit:ran") /\ rv # Void
    /\ Step(Goto("exit:over"))
    /\ noErrexit' = noErrexit - 1
    /\ last' = Top.st
    /\ inExit' = FALSE
    /\ UNCHANGED <<unwind, abort, optE, srcDepth, traps, alive, exitRuns>>

\* exit(code), in builtin_exit or by returning from main.
ProcessExits ==
    /\ Running("exit:over")
    /\ alive' = FALSE
    /\ UNCHANGED <<stack, rv, unwind, abort, noErrexit, optE, last, srcDepth,
                   traps, inExit, exitRuns>>

-----------------------------------------------------------------------------
(* The two main programs: petrush_run_script, and the loop of main *)

\* Mutant: the script returns from main without running the EXIT action.
ScriptRan_no_trap ==
    /\ Running("main:ran") /\ rv # Void
    /\ alive' = FALSE
    /\ UNCHANGED <<stack, rv, unwind, abort, noErrexit, optE, last, srcDepth,
                   traps, inExit, exitRuns>>

ScriptRan ==
    /\ Running("main:ran") /\ rv # Void
    /\ Call(Goto("main:exit"), [At("exit:poll") EXCEPT !.st = rv])
    /\ UNCHANGED <<unwind, abort, noErrexit, optE, last, srcDepth, traps, exits>>

load_rc_file ==
    /\ Running("repl:rc")
    /\ \/ /\ Step(Goto("repl:prompt")) /\ UNCHANGED <<abort, srcDepth>>
       \/ /\ Call(Goto("repl:rcran"), At("file:line"))
          /\ abort' = FALSE /\ srcDepth' = srcDepth + 1
    /\ UNCHANGED <<unwind, noErrexit, optE, last, traps, exits>>

ReplLine ==
    /\ Running("repl:prompt")
    /\ \E c \in Lists : Call(Goto("repl:ran"), ListFrame(c))
    /\ UNCHANGED <<unwind, abort, noErrexit, optE, last, srcDepth, traps, exits>>

ReplRan ==
    /\ rv # Void
    /\ Running("repl:ran") \/ Running("repl:rcran")
    /\ Step(Goto("repl:prompt"))
    /\ UNCHANGED <<unwind, abort, noErrexit, optE, last, srcDepth, traps, exits>>

\* End of input, or a line that is just exit or quit.
ReplLeaves ==
    /\ Running("repl:prompt")
    /\ alive' = FALSE
    /\ UNCHANGED <<stack, rv, unwind, abort, noErrexit, optE, last, srcDepth,
                   traps, inExit, exitRuns>>

-----------------------------------------------------------------------------

Init ==
    /\ \/ /\ "script" \in Entries
          /\ stack = <<At("main:ran"), At("file:line")>> /\ srcDepth = 1
       \/ /\ "repl" \in Entries
          /\ stack = <<At("repl:rc")>> /\ srcDepth = 0
    /\ rv = Void
    /\ fnDepth = 0 /\ returning = FALSE /\ retStatus = 0
    /\ abort = FALSE /\ noErrexit = 0 /\ optE = FALSE /\ last = 0
    /\ inPoll = FALSE /\ pending = {} /\ trapAct = [i \in 0..NSig |-> "default"]
    /\ inExit = FALSE /\ alive = TRUE /\ exitRuns = 0

\* Once the process is gone nothing more happens.
Gone == ~alive /\ UNCHANGED vars

ListNext == SkipItem \/ EndOfList \/ ItemReturns \/ ItemAborts \/ ItemContinues

ItemNext ==
    \/ RunStatus \/ RunAborting \/ RunSetErrexit
    \/ builtin_return \/ builtin_trap \/ builtin_exit \/ ExitBadOperand
    \/ RunExternal \/ RunCompound \/ RunCase \/ call_fn
    \/ SourceRefused \/ petrush_source_file

CompoundNext ==
    \/ IfTest \/ IfElse \/ IfTested \/ IfRan
    \/ WhileTest \/ WhileTested \/ WhileRan
    \/ ForWord \/ ForRan \/ CaseArm \/ CaseRan
    \/ FnEnter \/ FnLeave
    \/ WaitInterrupted \/ ChildEnds \/ ExternalDone
    \/ FileLine \/ FileBadLine \/ FileEnds \/ FileRan

TrapNext ==
    \/ \E s \in Sigs : PollTake(s)
    \/ PollRan \/ PollEnds
    \/ ExitPolls \/ ExitNoAction \/ ExitAction \/ ExitRan \/ ProcessExits

MainNext == ScriptRan \/ load_rc_file \/ ReplLine \/ ReplRan \/ ReplLeaves

ShellNext == ListNext \/ ItemNext \/ CompoundNext \/ TrapNext \/ MainNext

Next == ShellNext \/ (\E s \in Sigs : Deliver(s)) \/ Gone

Spec == Init /\ [][Next]_vars

\* The shell keeps running and its children end; nobody has to send signals.
LiveSpec == Spec /\ WF_vars(ShellNext)

-----------------------------------------------------------------------------
(* Properties *)

\* The frames of the stack that are at one of these points.
Where(S, points) == {i \in DOMAIN S : S[i].at \in points}

Exempt == {"if:cond", "while:cond", "poll:ran",
           "exit:ran"}
InFn   == {"fn:enter", "fn:body"}
InFile == {"file:line", "file:ran"}
InPoll == {"poll:scan", "poll:ran"}
InExit == {"exit:ran"}

\* Every counter that unwinding must restore equals the number of frames that
\* raised it: no path out of a condition, a function, a sourced file or a trap
\* action (normal end, return, abort) forgets or repeats its decrement, and
\* neither a poll nor the EXIT action runs inside itself.
Balanced ==
    /\ noErrexit = Cardinality(Where(stack, Exempt))
    /\ fnDepth = Cardinality(Where(stack, InFn))
    /\ srcDepth = Cardinality(Where(stack, InFile))
    /\ Cardinality(Where(stack, InPoll)) = IF inPoll THEN 1 ELSE 0
    /\ Cardinality(Where(stack, InExit)) = IF inExit THEN 1 ELSE 0

\* A pending return always has a function call left to stop at: it never
\* leaks to the top level, where nothing would clear it (OSH-7).
ReturnHasFrame == returning => fnDepth > 0

AtItem == Running("list:item") /\ Top.todo # <<>>

\* A function call in progress has sourced a file that is still being run.
FileInCall == \E i \in Where(stack, InFile), j \in Where(stack, InFn) : j < i

\* While a return unwinds to its call no further item of any list starts, except
\* below the lines that are left of a file which a call has sourced:
\* run_file_lines tests only g_shell_abort, and call_fn does not test
\* g_returning before it runs a body.
ReturnUnwinds == AtItem /\ returning => FileInCall

\* Once g_shell_abort is raised no further item starts until the runner of
\* the file takes it, which it does before it reads the next line (OSH-16,
\* OSH-18).
AbortStops == AtItem \/ Running("file:line") => ~abort

\* After an item of a list $? is the status of that item, whatever traps ran
\* in between and however they ended (OSH-21).  (A list that ends with status 0
\* may have had no item.)
LastIsStatus ==
    /\ Running("list:item")
    /\ IF Top.todo = <<>> THEN Top.st # 0 ELSE Head(Top.todo) # "first"
    => last = Top.st

\* maybe_errexit raises the abort.
Errexits == ItemDone /\ ~returning /\ ~abort /\ abort'

\* set -e never acts below a condition or a trap action, through any depth
\* of functions, loops and sourced files.
ErrexitExempt == [][Errexits => Where(stack, Exempt) = {}]_vars

\* The EXIT action is not started twice, also when a trap action or the EXIT
\* action itself calls exit (OSH-20).
ExitTrapOnce == exitRuns <= 1

\* A process that has exited with an EXIT action set has run it (OSH-20).
ExitTrapRuns == ~alive /\ trapAct[0] = "command" => exitRuns > 0

\* A caught signal is served in the end, also when it arrives during the action
\* of a higher signal, which the poll has already passed (OSH-21).  Scripts
\* whose trap actions loop are left out: such an action starves the others.
PendingServed == \A s \in Sigs : s \in pending ~> s \notin pending \/ ~alive
=============================================================================
