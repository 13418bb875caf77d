------------------------------ MODULE Session ------------------------------
(***************************************************************************)
(* A session at the prompt: the loop of main.c with the history of         *)
(* linenoise and its file, the expansion of the bang words, the table of   *)
(* aliases, and the stack of directories.                                  *)
(*                                                                         *)
(* A session ends by a word, an end of input, a Ctrl-C, an exit, a signal  *)
(* or a kill at any point, and the next one starts from the file it left.  *)
(* A line is a sequence of words after a blank or not.  In between others  *)
(* remove directories and make them again.                                 *)
(***************************************************************************)
EXTENDS Integers, Sequences, SequencesExt, FiniteSets

CONSTANTS
    Words,          \* the words of lines
    Names,          \* the words that valid_name accepts and that fit
    Assign,         \* words of the form name=value: from the word to [name, value]
    NumberOf,       \* words of the form !n: from the word to n
    Dirs, Home,     \* directories, by absolute path
    HistMax,        \* PETRUSH_HISTORY_MAXLEN
    IntRange,       \* 2^32
    WordMax,        \* the words hist_word_designator looks at
    Slots,          \* ALIAS_MAX
    ValueMax,       \* the words that fit ALIAS_VAL_MAX
    StackMax,       \* DIRSTACK_MAX
    Keyboards       \* what a user may do, see Keyboard

Line  == [blank : BOOLEAN, words : Seq(Words)]
Empty == [blank |-> FALSE, words |-> <<>>]
Typed(words) == [blank |-> FALSE, words |-> words]

\* The lines a user has, and whether there are the keys for the lines before; the
\* lines per session and the sessions, bounded; the directories that others remove.
Keyboard == [lines : SUBSET Line, browses : BOOLEAN, entries : Nat, lives : Nat,
             removable : SUBSET Dirs]

NoWord == "no word"

ASSUME SessionAssumption ==
    /\ HistMax \in Nat /\ HistMax > 1
    /\ IntRange \in Nat /\ IntRange > 2 * HistMax
    /\ WordMax \in Nat \ {0}
    /\ Slots \in Nat \ {0}
    /\ {ValueMax, StackMax} \subseteq Nat
    /\ NoWord \notin Words /\ Names \subseteq Words /\ Dirs \subseteq Words /\ Home \in Dirs
    /\ DOMAIN Assign \subseteq Words
    /\ \A w \in DOMAIN Assign : Assign[w].name \in Words /\ Assign[w].value \in Seq(Words)
    /\ DOMAIN NumberOf \subseteq Words \ {"!!", "!$", "!^"}
    /\ \A w \in DOMAIN NumberOf : NumberOf[w] \in Nat \ {0}
    /\ Keyboards \subseteq Keyboard

Free   == [used |-> FALSE, name |-> NoWord, value |-> <<>>]
Entry  == [used : BOOLEAN, name : Words \cup {NoWord}, value : Seq(Words)]

VARIABLES
    keys,       \* the keyboard of this behaviour
    tty,        \* stdin is a terminal with line editing
    phase,      \* "loading" the history, "prompt", "edit", "run", "saving", "ended"
    hist,       \* the history of linenoise, with the line being edited
    at,         \* the lines of the file that are loaded
    index,      \* history_index: how far the editor is from the last entry
    file,       \* the history file
    doing,      \* the words of the command to run
    table,      \* g_aliases
    place,      \* the working directory and what is known of it: see Place
    exists,     \* the directories there are
    how,        \* ghost: how the session ended
    log,        \* ghost: the lines that should be remembered, in order, each
                \* repetition of a line with it
    rewritten,  \* ghost: a key of the editor put another line into an entry of
                \* the user, or left there one that was typed and never entered
    used        \* the entries and the lives spent

vars == <<keys, tty, phase, hist, at, index, file, doing, table, place, exists, how, log,
          rewritten, used>>

\* orphan: the working directory has been removed; old, pwd: OLDPWD and PWD;
\* stack: g_stack.
Place == [cwd : Dirs, orphan : BOOLEAN, old : Dirs \cup {NoWord}, pwd : Dirs,
          stack : Seq(Dirs)]
AtHome == [cwd |-> Home, orphan |-> FALSE, old |-> NoWord, pwd |-> Home, stack |-> <<>>]

-----------------------------------------------------------------------------
(* The history *)

\* Mutant: the oldest entry stays.
Added_no_limit(h, line) == IF h # <<>> /\ h[Len(h)] = line THEN h ELSE Append(h, line)

\* linenoiseHistoryAdd
Added(h, line) ==
    IF h # <<>> /\ h[Len(h)] = line THEN h
    ELSE Append(IF Len(h) = HistMax THEN Tail(h) ELSE h, line)

Popped(h) == SubSeq(h, 1, Len(h) - 1)

\* The log with one more line; empty entries are the editor's.
Logged(line) ==
    IF line = Empty \/ (log # <<>> /\ Last(log) = line) THEN log ELSE Append(log, line)

\* Mutant: empty entries are events.
IsEvent_empty(line) == line # Typed(<<"!!">>)

\* hist_last_event: the last entry that is neither empty nor !!, if there is one.
IsEvent(line) == line \notin {Empty, Typed(<<"!!">>)}
LastEvent(h) ==
    {h[i] : i \in {j \in DOMAIN h :
        IsEvent(h[j]) /\ \A k \in DOMAIN h : k > j => ~IsEvent(h[k])}}

\* hist_word_designator, of the first WordMax words.
Designated(event, w) ==
    LET ws == SubSeq(event.words, 1, WordMax)
        seen == IF Len(event.words) < WordMax THEN Len(event.words) ELSE WordMax
    IN {Typed(<<event.words[i]>>) :
            i \in {j \in 1..seen : j = IF w = "!$" THEN seen ELSE 2}}

\* hist_expand_line: at most one line; a blank before the word does not matter;
\* the number, at least 1, is cut to an int.
Recalled(h, line) ==
    IF Len(line.words) # 1 THEN {}
    ELSE LET w == line.words[1] IN
         CASE w = "!!" -> LastEvent(h)
           [] w \in {"!$", "!^"} -> UNION {Designated(e, w) : e \in LastEvent(h)}
           [] w \in DOMAIN NumberOf -> {h[n] : n \in DOMAIN h \cap {NumberOf[w] % IntRange}}
           [] OTHER -> {}

\* The line that is remembered and run: what was recalled, or the line itself.
Meant(h, line) ==
    IF Recalled(h, line) = {} THEN line ELSE CHOOSE l \in Recalled(h, line) : TRUE

-----------------------------------------------------------------------------
(* The aliases *)

Command == IF doing = <<>> THEN NoWord ELSE doing[1]

Named(n)  == {i \in DOMAIN table : table[i].used /\ table[i].name = n}
Unused    == {i \in DOMAIN table : ~table[i].used}
First(S)  == CHOOSE i \in S : \A j \in S : i <= j

\* alias_expand_line: the first word, once; the blank before it is dropped.
Unaliased(words) ==
    IF words = <<>> \/ Named(words[1]) = {} THEN words
    ELSE table[First(Named(words[1]))].value \o Tail(words)

\* Mutant: one loop, which takes the first slot that is free or has the name.
AliasSet_one_loop(n, v) ==
    LET to == Named(n) \cup Unused IN
    IF n \notin Names \/ Len(v) > ValueMax \/ to = {} THEN UNCHANGED table
    ELSE table' = [table EXCEPT ![First(to)] = [used |-> TRUE, name |-> n, value |-> v]]

\* alias_set; nothing happens when the name or value is refused or the table is full.
AliasSet(n, v) ==
    LET to == IF Named(n) # {} THEN Named(n) ELSE Unused IN
    IF n \notin Names \/ Len(v) > ValueMax \/ to = {} THEN UNCHANGED table
    ELSE table' = [table EXCEPT ![First(to)] = [used |-> TRUE, name |-> n, value |-> v]]

\* alias_unset
AliasUnset(n) ==
    IF Named(n) = {} THEN UNCHANGED table
    ELSE table' = [table EXCEPT ![First(Named(n))] = Free]

\* What builtin_alias and builtin_unalias make of their words.
Request(w) ==
    IF Len(w) > 1 /\ w[1] = "alias" /\ w[2] \in DOMAIN Assign
    THEN [op |-> "set", name |-> Assign[w[2]].name, value |-> Assign[w[2]].value]
    ELSE IF Len(w) > 2 /\ w[1] = "alias"
    THEN [op |-> "set", name |-> w[2], value |-> SubSeq(w, 3, Len(w))]
    ELSE IF Len(w) > 1 /\ w[1] = "unalias"
    THEN [op |-> "unset", name |-> w[2], value |-> <<>>]
    ELSE [op |-> "none", name |-> NoWord, value |-> <<>>]

RunAlias ==
    LET r == Request(doing) IN
    /\ r.op # "none"
    /\ IF r.op = "set" THEN AliasSet(r.name, r.value) ELSE AliasUnset(r.name)
    /\ UNCHANGED place

-----------------------------------------------------------------------------
(* The directories *)

\* chdir: to a directory that is there.
Go(d) == [place EXCEPT !.cwd = d, !.orphan = FALSE]

\* builtin_cd: OLDPWD stays when getcwd fails; cd - needs an OLDPWD.
RunCd ==
    LET d == IF Len(doing) = 1 THEN Home ELSE IF doing[2] = "-" THEN place.old ELSE doing[2]
    IN /\ Command = "cd"
       /\ place' = IF d \notin exists THEN place
                   ELSE [Go(d) EXCEPT !.pwd = d,
                                      !.old = IF place.orphan THEN @ ELSE place.cwd]
       /\ UNCHANGED table

\* dirstack_pushd: nothing when the stack is full, or getcwd or chdir fails.
RunPushd ==
    /\ Command = "pushd" /\ Len(doing) > 1
    /\ place' = IF Len(place.stack) >= StackMax \/ place.orphan \/ doing[2] \notin exists
                THEN place
                ELSE [Go(doing[2]) EXCEPT !.stack = Append(@, place.cwd)]
    /\ UNCHANGED table

\* Mutant: the size is decremented before the entry is read at size - 1.
RunPopd_below ==
    /\ Command = "popd"
    /\ LET s == place.stack IN
       place' = IF Len(s) < 2 THEN place
                ELSE [(IF s[Len(s) - 1] \in exists THEN Go(s[Len(s) - 1]) ELSE place)
                          EXCEPT !.stack = Popped(s)]
    /\ UNCHANGED table

\* dirstack_popd: the entry is gone also when its directory is.
RunPopd ==
    /\ Command = "popd"
    /\ LET s == place.stack IN
       place' = IF s = <<>> THEN place
                ELSE [(IF s[Len(s)] \in exists THEN Go(s[Len(s)]) ELSE place)
                          EXCEPT !.stack = Popped(s)]
    /\ UNCHANGED table

\* Everything else changes nothing here.
RunOther ==
    /\ Request(doing).op = "none"
    /\ Command \notin {"cd", "popd", "exit"}
    /\ ~(Command = "pushd" /\ Len(doing) > 1)
    /\ UNCHANGED <<table, place>>

RemoveDir(d) ==
    /\ d \in exists \cap keys.removable
    /\ exists' = exists \ {d}
    /\ place' = [place EXCEPT !.orphan = @ \/ place.cwd = d]
    /\ UNCHANGED <<keys, tty, phase, hist, at, index, file, doing, table, how, log,
                   rewritten, used>>

MakeDir(d) ==
    /\ d \in keys.removable \ exists
    /\ exists' = exists \cup {d}
    /\ UNCHANGED <<keys, tty, phase, hist, at, index, file, doing, table, place, how,
                   log, rewritten, used>>

-----------------------------------------------------------------------------
(* The session *)

Init ==
    /\ keys \in Keyboards /\ tty \in BOOLEAN
    /\ phase = "loading" /\ hist = <<>> /\ at = 0 /\ index = 0 /\ file = <<>>
    /\ doing = <<>>
    /\ table = [i \in 1..Slots |-> Free]
    /\ place = AtHome /\ exists = Dirs
    /\ how = "running" /\ log = <<>> /\ rewritten = FALSE
    /\ used = [entries |-> 0, lives |-> 1]

\* linenoiseHistoryLoad, a line at a time.
LoadLine ==
    /\ phase = "loading" /\ at < Len(file)
    /\ hist' = Added(hist, file[at + 1])
    /\ log' = Logged(file[at + 1])
    /\ at' = at + 1
    /\ UNCHANGED <<keys, tty, phase, index, file, doing, table, place, exists, how,
                   rewritten, used>>

LoadEnds ==
    /\ phase = "loading" /\ at = Len(file)
    /\ phase' = "prompt"
    /\ UNCHANGED <<keys, tty, hist, at, index, file, doing, table, place, exists, how,
                   log, rewritten, used>>

\* linenoiseEditStart: the line being edited is the last entry of the history.
EditStart ==
    /\ phase = "prompt"
    /\ phase' = "edit"
    /\ hist' = IF tty THEN Added(hist, Empty) ELSE hist
    /\ index' = 0
    /\ UNCHANGED <<keys, tty, at, file, doing, table, place, exists, how, log,
                   rewritten, used>>

\* What the buffer of the editor may hold: a line of the user, or one that the
\* keys or the search have found.
Typable ==
    keys.lines \cup (IF keys.browses /\ tty THEN {hist[i] : i \in DOMAIN hist} ELSE {})

\* linenoiseEditHistoryNext, up or down: the buffer goes into the entry it came
\* from, which may be one of the user; the index stays inside the history.
HistoryNext(text) ==
    /\ phase = "edit" /\ tty /\ keys.browses /\ Len(hist) > 1
    /\ hist' = [hist EXCEPT ![Len(hist) - index] = text]
    /\ rewritten' = (rewritten \/ (index > 0 /\ text # hist[Len(hist) - index]))
    /\ \E to \in {index - 1, index + 1} :
            index' = IF to \in 0..Len(hist) - 1 THEN to ELSE index
    /\ UNCHANGED <<keys, tty, phase, at, file, doing, table, place, exists, how, log,
                   used>>

\* The entry of the editor holds text: it is kept if the editor does not drop it.
Stray == phase = "edit" /\ tty /\ hist[Len(hist)] # Empty
Strays == rewritten' = (rewritten \/ Stray)

\* A signal without effect interrupts the read: a new prompt.
Interrupted ==
    /\ phase = "edit"
    /\ phase' = "prompt" /\ Strays
    /\ UNCHANGED <<keys, tty, hist, at, index, file, doing, table, place, exists, how,
                   log, used>>

\* Mutant: the last entry is dropped without an editor, too.
Left_always == IF hist = <<>> THEN hist ELSE Popped(hist)

\* What is left of the history when linenoise returns a line or an end of input.
Left == IF tty THEN Popped(hist) ELSE hist

\* save_history_file: the file is truncated, then written.
StartSave(reason) ==
    /\ phase' = "saving" /\ how' = reason
    /\ file' = <<>>
    /\ UNCHANGED <<keys, tty, at, index, doing, table, place, exists, log, used>>

\* A line comes in: exit and quit end the loop, an empty line does nothing;
\* any other is recalled, remembered and freed of its alias.
Enter(line) ==
    /\ phase = "edit" /\ used.entries < keys.entries
    /\ line \notin {Empty, Typed(<<"exit">>), Typed(<<"quit">>)}
    /\ LET meant == Meant(Left, line) IN
       /\ hist' = Added(Left, meant)
       /\ log' = Logged(meant)
       /\ doing' = Unaliased(meant.words)
    /\ phase' = "run"
    /\ used' = [used EXCEPT !.entries = @ + 1]
    /\ UNCHANGED <<keys, tty, at, index, file, table, place, exists, how, rewritten>>

EnterNothing ==
    /\ phase = "edit"
    /\ phase' = "prompt" /\ hist' = Left
    /\ UNCHANGED <<keys, tty, at, index, file, doing, table, place, exists, how, log,
                   rewritten, used>>

\* The word exit or quit, or the end of the input.
Leave ==
    /\ phase = "edit"
    /\ hist' = Left
    /\ UNCHANGED rewritten
    /\ StartSave("left")

\* Ctrl-C in the editor: errno is EAGAIN, which main takes for an end of input;
\* the line being edited stays in the history.
CtrlC ==
    /\ phase = "edit" /\ tty
    /\ UNCHANGED hist /\ Strays
    /\ StartSave("left")

\* dispatch_list runs the command.
Run ==
    /\ phase = "run"
    /\ phase' = "prompt" /\ doing' = <<>>
    /\ RunAlias \/ RunCd \/ RunPushd \/ RunPopd \/ RunOther
    /\ UNCHANGED <<keys, tty, hist, at, index, file, exists, how, log, rewritten, used>>

\* builtin_exit ends the process: nothing is saved.
RunExit ==
    /\ phase = "run"
    /\ Command = "exit"
    /\ phase' = "ended" /\ how' = "exit"
    /\ UNCHANGED <<keys, tty, hist, at, index, file, doing, table, place, exists, log,
                   rewritten, used>>

\* handle_terminate, at any point: the handler saves what history there is.
Terminate ==
    /\ phase # "ended"
    /\ UNCHANGED hist /\ Strays
    /\ StartSave(IF phase = "loading" \/ how = "early" THEN "early" ELSE "signal")

Kill ==
    /\ phase # "ended"
    /\ phase' = "ended" /\ how' = "killed"
    /\ UNCHANGED <<keys, tty, hist, at, index, file, doing, table, place, exists, log,
                   rewritten, used>>

SaveLine ==
    /\ phase = "saving" /\ Len(file) < Len(hist)
    /\ file' = Append(file, hist[Len(file) + 1])
    /\ UNCHANGED <<keys, tty, phase, hist, at, index, doing, table, place, exists, how,
                   log, rewritten, used>>

SaveEnds ==
    /\ phase = "saving" /\ Len(file) = Len(hist)
    /\ phase' = "ended"
    /\ UNCHANGED <<keys, tty, hist, at, index, file, doing, table, place, exists, how,
                   log, rewritten, used>>

\* The next session of the user.
Restart ==
    /\ phase = "ended" /\ used.lives < keys.lives
    /\ phase' = "loading" /\ hist' = <<>> /\ at' = 0 /\ index' = 0
    /\ doing' = <<>> /\ log' = <<>> /\ rewritten' = FALSE
    /\ tty' \in BOOLEAN
    /\ table' = [i \in 1..Slots |-> Free]
    /\ place' = [AtHome EXCEPT !.orphan = Home \notin exists]
    /\ how' = "running"
    /\ used' = [entries |-> 0, lives |-> used.lives + 1]
    /\ UNCHANGED <<keys, file, exists>>

Next ==
    \/ LoadLine \/ LoadEnds \/ EditStart \/ Interrupted
    \/ \E line \in Typable : Enter(line)
    \/ \E text \in Typable \cup {Empty} : HistoryNext(text)
    \/ EnterNothing \/ Leave \/ CtrlC
    \/ Run \/ RunExit
    \/ Terminate \/ Kill \/ SaveLine \/ SaveEnds \/ Restart
    \/ \E d \in Dirs : RemoveDir(d) \/ MakeDir(d)

Spec == Init /\ [][Next]_vars

-----------------------------------------------------------------------------
(* Properties *)

TypeOK ==
    /\ keys \in Keyboards /\ tty \in BOOLEAN
    /\ phase \in {"loading", "prompt", "edit", "run", "saving", "ended"}
    /\ hist \in Seq(Line) /\ Len(hist) <= HistMax
    /\ file \in Seq(Line) /\ at \in Nat /\ index \in Nat
    /\ doing \in Seq(Words)
    /\ table \in [1..Slots -> Entry]
    /\ place \in Place /\ Len(place.stack) <= StackMax
    /\ exists \subseteq Dirs
    /\ how \in {"running", "left", "signal", "early", "exit", "killed"}
    /\ log \in Seq(Line) /\ rewritten \in BOOLEAN
    /\ used \in [entries : Nat, lives : Nat]

\* Entry j of h is another line than the last one before it that is not empty.
Changes(h, j) ==
    /\ h[j] # Empty
    /\ \E i \in 1..j - 1 : /\ h[i] \notin {Empty, h[j]}
                           /\ \A k \in i + 1..j - 1 : h[k] = Empty

\* The place of entry i of h in the log, if h ends with the last line of the log.
PlaceInLog(h, i) == Len(log) - Cardinality({j \in i + 1..Len(h) : Changes(h, j)})

\* h holds the end of the log, and nothing else but empty entries; lines are
\* missing only from a full history, or one that gave an entry to the line
\* being edited.
Recent(h) ==
    LET lines == {i \in DOMAIN h : h[i] # Empty}
    IN  /\ \A i \in lines : PlaceInLog(h, i) > 0 /\ h[i] = log[PlaceInLog(h, i)]
        /\ \/ log = <<>> \/ \E i \in lines : PlaceInLog(h, i) = 1
           \/ Len(h) >= HistMax - 1

\* In the editor there is an entry for the line being edited, and the entry that
\* the keys replace is inside the history, on whatever way the prompt was reached,
\* whatever file was loaded and however often the keys were pressed: nothing is
\* dropped from an empty history (history_len--, linenoise.c:2066 and 2099) or
\* written beside it (linenoise.c:1616).
EditorInside == phase = "edit" /\ tty => hist # <<>> /\ index < Len(hist)

\* Through recalls, repetitions, interrupts, a full history, sessions that
\* crashed, the entries that the editor left in the file and the keys, as long as
\* they rewrite nothing, the history without the editor's entry holds the latest
\* lines that were meant, in order (main.c:208, linenoise.c:2462).
HistoryIsRecent ==
    phase \notin {"loading", "ended"} =>
        how = "early" \/ rewritten \/ Recent(IF phase = "edit" THEN Left ELSE hist)

\* A session that ends by a word, an end of input, Ctrl-C or a signal at the
\* prompt, in a command or while it saves leaves the latest lines in the file
\* (main.c:62 and 73), unless the keys have rewritten the history; one that runs
\* exit, is killed, or gets the signal while it loads does not.
FileIsRecent ==
    phase = "ended" /\ how \in {"left", "signal"} /\ ~rewritten => Recent(file)

\* The history, in memory and behind a session, is what the user meant last,
\* unless an entry was edited after Up, or text was left by Ctrl-C or a signal
\* after Up: the editor then has that in the history.
LatestLines == EditorInside /\ HistoryIsRecent /\ FileIsRecent

\* An alias is in the table at most once, whatever was set, taken back and set
\* again before (alias_set looks for the name before it takes a free slot).
OneSlotEach ==
    \A i, j \in DOMAIN table :
        table[i].used /\ table[j].used /\ table[i].name = table[j].name => i = j

\* The table is a map with room for Slots names.
Asked == IF phase = "run" THEN Request(doing)
         ELSE [op |-> IF phase \in {"saving", "ended"} THEN "gone" ELSE "none",
               name |-> NoWord, value |-> <<>>]
Mapped == [n \in {table[i].name : i \in {j \in DOMAIN table : table[j].used}} |->
              table[First(Named(n))].value]
Aliases == INSTANCE AliasMap WITH map <- Mapped, ask <- Asked

\* The slots of alias.c implement the map of names: every alias and unalias does
\* to the map what it asks, and nothing else changes it.
TableIsMap == Aliases!Spec

\* No entry repeats the one before it.
Clean(h) == \A i \in 1..Len(h) - 1 : h[i] # h[i + 1]

\* Between any sessions, as long as the keys of the editor rewrite nothing: !! runs
\* again the last line that was meant, also as the first line and after empty
\* entries (hist_last_event), as long as the history holds it; and as long as the
\* history is not full, !n runs the line that the history builtin lists as n, which
\* it numbers in the file, not in the memory (dispatcher.c:2690).  The file must
\* repeat no line at once: only a session in which the keys rewrote one leaves that.
RecallsRight ==
    [][\A line \in Typable : Enter(line) /\ ~rewritten =>
        LET n == IF line \in {Typed(<<w>>) : w \in DOMAIN NumberOf}
                 THEN NumberOf[line.words[1]] ELSE 0
        IN  /\ line = Typed(<<"!!">>) =>
                  \A e \in LastEvent(log) : (\E i \in DOMAIN Left : Left[i] = e)
                                               => doing' = Unaliased(e.words)
            /\ (n \in DOMAIN file /\ Len(hist) < HistMax /\ file[n] # Empty /\ Clean(file))
                   => doing' = Unaliased(file[n].words)]_vars

\* The stack shrinks only by its last entry, and the shell is there afterwards
\* unless the directory is gone; it grows only by the directory that was left.
StackLeadsBack ==
    [][LET old == place.stack new == place'.stack IN
       phase # "ended" /\ new # old =>
           \/ old # <<>> /\ new = Popped(old)
              /\ (place'.cwd = Last(old) \/ Last(old) \notin exists)
           \/ new = Append(old, place.cwd) /\ ~place.orphan]_vars
=============================================================================
