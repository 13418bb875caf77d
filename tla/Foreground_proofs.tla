------------------------- MODULE Foreground_proofs --------------------------
(***************************************************************************)
(* Proofs about Foreground: types, the groups of the stages, the terminal  *)
(* and the trap on INT, for every number of processes and stages.          *)
(***************************************************************************)
EXTENDS Foreground, WellFoundedInduction, TLAPS

Busy == {"fork", "group", "give", "close", "wait", "poll", "take", "restore"}

\* Where a process is fixes how many stages it has forked and waited for.
Shaped(c) ==
    /\ c.at = "fork"  => Len(c.stages) < c.n /\ c.waited = 0
    /\ c.at = "group" => Len(c.stages) \in 1..c.n /\ c.waited = 0
    /\ c.at = "give"  => Len(c.stages) = 1 /\ c.waited = 0
    /\ c.at = "close" => Len(c.stages) = c.n /\ c.waited = 0
    /\ c.at = "wait"  => Len(c.stages) = c.n /\ c.waited < c.n
    /\ c.at \in {"poll", "take", "restore"} => Len(c.stages) = c.n
    /\ c.at \in {"none", "prompt"} => c.stages = <<>> /\ c.waited = 0
    /\ c.at \in {"capture", "reap"} => Len(c.stages) = 1 /\ c.waited = 0

Shapes ==
    /\ \A p \in Everyone : Shaped(code[p])
    /\ \A p \in Procs : code[p].at \notin {"capture", "reap"}
    /\ code[Shell].at # "none" /\ code[Shell].input

\* A child at place i of p, whose code is c, as long as p has not waited for it.
Stage(p, c, i) ==
    LET q == c.stages[i]
    IN  /\ proc[q].parent = p /\ proc[q].pos = i /\ proc[q].lead = c.stages[1]
        /\ proc[q].st \in {"child", "program", "stopped", "zombie"}
        /\ (c.at = "group" /\ i = Len(c.stages)) \/ proc[q].group = c.stages[1]

Owns(p, c) == c.at \in Busy => \A i \in c.waited + 1..Len(c.stages) : Stage(p, c, i)
Owned == \A p \in Everyone : Owns(p, code[p])

\* The copies: those in the table of jobs, and the one whose output is read.
Copies ==
    /\ \A q \in Procs : proc[q].st = "copy" => proc[q].parent = Shell /\ proc[q].pos = 0
    /\ \A q \in jobs : proc[q].parent = Shell /\ proc[q].pos = 0
    /\ code[Shell].at \in {"capture", "reap"} =>
         /\ Lead(Shell) \notin jobs
         /\ proc[Lead(Shell)].st \in {"copy", "zombie"}
         /\ proc[Lead(Shell)].parent = Shell /\ proc[Lead(Shell)].pos = 0

Grouped ==
    \A q \in Procs :
        /\ proc[q].st \in {"child", "program", "stopped"} => proc[q].lead # Shell
        /\ proc[q].st \in {"program", "stopped"} =>
             proc[q].group = proc[q].lead \/ (proc[q].parent = Nobody /\ proc[q].lead # q)

\* The shell has the terminal, or has given it to its pipeline.
Keeps(c) == c.at \in {"prompt", "capture", "reap", "restore"}
            \/ (c.at = "fork" /\ Len(c.stages) = 0)
Given(c) == c.at \in {"close", "wait"} \/ (c.at = "fork" /\ Len(c.stages) > 0)
            \/ (c.at = "group" /\ Len(c.stages) > 1)

Terminal ==
    "tty" \notin gaps =>
        /\ Keeps(code[Shell]) => tty = Shell
        /\ Given(code[Shell]) => tty = Lead(Shell)

Traps ==
    "trap" \notin gaps =>
        (IF code[Shell].at \in Busy THEN saved ELSE disp) = Disposition(trap)

IInv == TypeOK /\ Shapes /\ Owned /\ Copies /\ Grouped /\ Terminal /\ Traps

\* The child that the code c has just forked.
Newest(c) == c.stages[Len(c.stages)]

\* A child whose parent lives is in its group, or leads it, or its parent is
\* about to move it.
Joining ==
    \A q \in Procs : proc[q].st = "child" /\ proc[q].parent # Nobody =>
        \/ proc[q].group = proc[q].lead \/ proc[q].lead = q
        \/ code[proc[q].parent].at = "group" /\ q = Current(proc[q].parent)

\* Only the shell and its copies run commands, and a copy whose output has been
\* read has ended.
Running ==
    /\ \A q \in Procs : proc[q].st # "copy" => code[q].at = "none"
    /\ code[Shell].at = "capture" /\ proc[Lead(Shell)].st = "copy" =>
         proc[Lead(Shell)].out
    /\ code[Shell].at = "reap" => proc[Lead(Shell)].st # "copy"

-----------------------------------------------------------------------------
(* What the parts of the invariant say of one process *)

LEMMA CodeFields ==
    ASSUME TypeOK, NEW p \in Everyone
    PROVE  /\ code[p] \in Code
           /\ code[p].at \in Points /\ code[p].n \in 1..N /\ code[p].waited \in 0..N
           /\ code[p].open \in BOOLEAN /\ code[p].input \in BOOLEAN
           /\ code[p].stages \in Seq(Procs) /\ Len(code[p].stages) \in Nat
           /\ \A i \in 1..Len(code[p].stages) : code[p].stages[i] \in Procs
    BY DEF TypeOK, Code

LEMMA ProcFields ==
    ASSUME TypeOK, NEW q \in Procs
    PROVE  /\ proc[q] \in Process
           /\ proc[q].group \in Everyone /\ proc[q].parent \in Everyone \cup {Nobody}
           /\ proc[q].lead \in Everyone /\ proc[q].pos \in 0..N
           /\ proc[q].st \in {"free", "child", "program", "stopped", "zombie", "copy"}
    BY DEF TypeOK, Process

LEMMA IdleFields ==
    /\ Idle \in Code
    /\ Idle.at = "none" /\ Idle.stages = <<>> /\ Idle.waited = 0 /\ Idle.input = TRUE
    BY ForegroundAssumption DEF Idle, Code, Points

LEMMA IdleAt ==
    ASSUME NEW a \in Points
    PROVE  LET c == [Idle EXCEPT !.at = a]
           IN  c \in Code /\ c.at = a /\ c.stages = <<>> /\ c.waited = 0 /\ c.input = TRUE
    BY IdleFields DEF Code

LEMMA AbsentFields == Absent \in Process
    BY ForegroundAssumption DEF Absent, Process, Everyone

LEMMA EveryoneFacts ==
    /\ Shell \in Everyone /\ Procs \subseteq Everyone /\ Shell \notin Procs
    /\ Nobody \notin Everyone
    /\ \A p \in Everyone : p \in Procs \/ p = Shell
    BY ForegroundAssumption DEF Everyone

\* A child that is waited for is nobody else's, nor at another place.
LEMMA StageFacts ==
    ASSUME IInv, NEW p \in Everyone, code[p].at \in Busy,
           NEW i \in code[p].waited + 1..Len(code[p].stages)
    PROVE  /\ Stage(p, code[p], i)
           /\ code[p].stages[i] \in Procs /\ i \in 1..Len(code[p].stages)
           /\ proc[code[p].stages[i]].pos = i /\ proc[code[p].stages[i]].parent = p
           /\ code[p].stages[i] \notin jobs
    <1>1. Stage(p, code[p], i)
      BY DEF IInv, Owned, Owns
    <1>2. code[p].stages[i] \in Procs /\ i \in 1..Len(code[p].stages) /\ i > 0
      BY CodeFields DEF IInv
    <1> QED
      BY <1>1, <1>2 DEF Stage, IInv, Copies

LEMMA JobFacts ==
    ASSUME IInv
    PROVE  /\ jobs \subseteq Procs
           /\ code[Shell].at \in {"capture", "reap"} => Lead(Shell) \in Procs
    BY CodeFields, EveryoneFacts DEF IInv, TypeOK, Shapes, Shaped, Lead

-----------------------------------------------------------------------------
(* A step that moves one process and no child: it keeps its stages *)

LEMMA CodeMoves ==
    ASSUME IInv, NEW p \in Everyone, NEW c \in Code,
           code' = [code EXCEPT ![p] = c], UNCHANGED <<proc, jobs>>,
           Shaped(c), Owns(p, c), c.at \notin {"capture", "reap"} \/ c.at = code[p].at,
           c.at \notin {"capture", "reap"} \/ c.stages = code[p].stages,
           p = Shell => c.at # "none" /\ c.input
    PROVE  code' \in [Everyone -> Code] /\ Shapes' /\ Owned' /\ Copies' /\ Grouped'
    <1>1. code' \in [Everyone -> Code]
      BY DEF IInv, TypeOK
    <1>2. code'[p] = c /\ \A r \in Everyone : r # p => code'[r] = code[r]
      BY DEF IInv, TypeOK
    <1>3. Shapes'
      BY <1>2, EveryoneFacts DEF IInv, Shapes, Shaped
    <1>4. Owned'
      <2> SUFFICES ASSUME NEW r \in Everyone PROVE Owns(r, code[r])'
        BY DEF Owned
      <2>1. Owns(r, code[r]) => Owns(r, code[r])' 
        BY <1>2 DEF Owns, Stage
      <2> QED
        BY <2>1, <1>2 DEF IInv, Owned
    <1>5. Copies'
      <2>1. CASE p = Shell
        BY <2>1, <1>2 DEF IInv, Copies, Lead
      <2>2. CASE p # Shell
        BY <2>2, <1>2, EveryoneFacts DEF IInv, Copies, Lead
      <2> QED
        BY <2>1, <2>2
    <1>6. Grouped'
      BY DEF IInv, Grouped
    <1> QED
      BY <1>1, <1>3, <1>4, <1>5, <1>6

-----------------------------------------------------------------------------
(* The steps of a process that runs a command *)

LEMMA BeginKeeps ==
    ASSUME IInv, NEW p \in Everyone, NEW n \in 1..N, code[p].at = "prompt", Begin(p, n)
    PROVE  IInv'
    <1>1. PICK c : c = [code[p] EXCEPT !.at = "fork", !.n = n, !.open = (n # 1)]
      OBVIOUS
    <1>2. code' = [code EXCEPT ![p] = c]
      BY <1>1 DEF Begin
    <1>3. c \in Code
      <2>1. (n # 1) \in BOOLEAN
        OBVIOUS
      <2> QED
        BY <1>1, <2>1, CodeFields DEF IInv, Code, Points
    <1>4. c.at = "fork" /\ c.n = n /\ c.stages = code[p].stages /\ c.waited = code[p].waited
          /\ c.input = code[p].input
      BY <1>1, CodeFields DEF IInv, Code
    <1>5. c.stages = <<>> /\ c.waited = 0 /\ Len(c.stages) = 0
      BY <1>4 DEF IInv, Shapes, Shaped
    <1>6. Shaped(c) /\ Owns(p, c)
      BY <1>4, <1>5, ForegroundAssumption DEF Shaped, Owns
    <1>7. code' \in [Everyone -> Code] /\ Shapes' /\ Owned' /\ Copies' /\ Grouped'
      BY <1>2, <1>3, <1>4, <1>6, CodeMoves DEF Begin, IInv, Shapes
    <1>8. code'[p] = c /\ \A r \in Everyone : r # p => code'[r] = code[r]
      BY <1>2 DEF IInv, TypeOK
    <1>9. TypeOK'
      BY <1>7 DEF Begin, IInv, TypeOK
    <1>10. Terminal'
      <2>1. Keeps(c) /\ ~Given(c) /\ Keeps(code[p])
        BY <1>4, <1>5 DEF Keeps, Given
      <2> QED
        BY <2>1, <1>8, EveryoneFacts DEF Begin, IInv, Terminal, Lead
    <1>11. Traps'
      BY <1>4, <1>8, EveryoneFacts DEF Begin, IInv, Traps, Busy
    <1> QED
      BY <1>7, <1>9, <1>10, <1>11 DEF IInv

\* The stages of p with a new one.
LEMMA Appended ==
    ASSUME NEW s \in Seq(Procs), NEW q \in Procs
    PROVE  /\ Append(s, q) \in Seq(Procs) /\ Len(Append(s, q)) = Len(s) + 1
           /\ Append(s, q)[Len(s) + 1] = q
           /\ \A i \in 1..Len(s) : Append(s, q)[i] = s[i]
    OBVIOUS

LEMMA ForkKeeps ==
    ASSUME IInv, NEW p \in Everyone, Fork(p)
    PROVE  IInv'
    <1> DEFINE s == code[p].stages
               pos == Len(s) + 1
    <1>1. PICK q \in Procs :
            /\ Fresh(q)
            /\ proc' = [proc EXCEPT ![q] =
                 [st |-> "child", group |-> GroupOf(p), parent |-> p,
                  lead |-> IF pos = 1 THEN q ELSE Lead(p), pos |-> pos,
                  input |-> code[p].input /\ pos = 1 /\ p \notin jobs,
                  out |-> p # Shell /\ proc[p].out]]
            /\ code' = [code EXCEPT ![p].at = "group", ![p].stages = Append(@, q)]
      BY DEF Fork
    <1>a. PICK c : c = [code[p] EXCEPT !.at = "group", !.stages = Append(s, q)]
      OBVIOUS
    <1> DEFINE new == [st |-> "child", group |-> GroupOf(p), parent |-> p,
                       lead |-> IF pos = 1 THEN q ELSE Lead(p), pos |-> pos,
                       input |-> code[p].input /\ pos = 1 /\ p \notin jobs,
                       out |-> p # Shell /\ proc[p].out]
    <1>2. /\ code[p].at = "fork" /\ code[p].waited = 0 /\ Len(s) < code[p].n /\ Len(s) \in Nat
          /\ s \in Seq(Procs) /\ code[p].n \in 1..N /\ pos \in 1..N
          /\ \A i \in 1..Len(s) : s[i] \in Procs
      BY CodeFields, ForegroundAssumption DEF Fork, IInv, Shapes, Shaped
    <1>3. code' = [code EXCEPT ![p] = c]
      BY <1>1, <1>a
    <1>4. /\ c \in Code /\ c.at = "group" /\ c.n = code[p].n /\ c.stages = Append(s, q)
          /\ c.waited = 0 /\ c.input = code[p].input
      <2>1. Append(s, q) \in Seq(Procs) /\ code[p] \in Code /\ "group" \in Points
        BY <1>2, CodeFields, Appended DEF IInv, Points
      <2>2. c \in Code
        BY <2>1, <1>a DEF Code
      <2>3. /\ c.at = "group" /\ c.n = code[p].n /\ c.stages = Append(s, q)
            /\ c.waited = code[p].waited /\ c.input = code[p].input
        BY <2>1, <1>a DEF Code
      <2> QED
        BY <2>2, <2>3, <1>2
    <1>5. code'[p] = c /\ \A r \in Everyone : r # p => code'[r] = code[r]
      BY <1>3 DEF IInv, TypeOK
    <1>6. /\ Len(c.stages) = pos /\ c.stages[pos] = q
          /\ \A i \in 1..Len(s) : c.stages[i] = s[i]
      BY <1>2, <1>4, Appended
    <1>7. GroupOf(p) \in Everyone /\ (Len(s) > 0 => Lead(p) \in Procs)
      BY <1>2, EveryoneFacts, ProcFields DEF GroupOf, Lead, IInv
    <1>8. new \in Process
      <2>1. new.out \in BOOLEAN
        BY EveryoneFacts DEF IInv, TypeOK, Process
      <2>2. (IF pos = 1 THEN q ELSE Lead(p)) \in Everyone
        BY <1>2, <1>7, EveryoneFacts
      <2> QED
        BY <1>2, <1>7, <2>1, <2>2, EveryoneFacts DEF Process
    <1>9. /\ proc'[q] = new /\ \A r \in Procs : r # q => proc'[r] = proc[r]
          /\ proc' \in [Procs -> Process]
      BY <1>1, <1>8 DEF IInv, TypeOK
    <1>10. /\ new.st = "child" /\ new.parent = p /\ new.pos = pos
           /\ new.lead = c.stages[1] /\ new.lead # Shell
      BY <1>2, <1>6, <1>7, EveryoneFacts DEF Lead
    <1>11. proc[q].st = "free" /\ q \notin jobs
      BY <1>1 DEF Fresh, IInv, TypeOK
    <1> HIDE DEF new
    <1>12. TypeOK'
      BY <1>4, <1>3, <1>9, <1>11 DEF Fork, Signals, IInv, TypeOK
    <1>13. Shapes'
      <2>1. Shaped(c)
        BY <1>2, <1>4, <1>6 DEF Shaped
      <2>2. \A r \in Everyone : Shaped(code'[r])
        BY <2>1, <1>5 DEF IInv, Shapes
      <2>3. \A r \in Procs : code'[r].at \notin {"capture", "reap"}
        BY <1>4, <1>5, EveryoneFacts DEF IInv, Shapes
      <2>4. code'[Shell].at # "none" /\ code'[Shell].input
        BY <1>4, <1>5, EveryoneFacts DEF IInv, Shapes
      <2> QED
        BY <2>2, <2>3, <2>4 DEF Shapes, Shaped
    <1>14. Owned'
      <2> SUFFICES ASSUME NEW r \in Everyone PROVE Owns(r, code[r])'
        BY DEF Owned
      <2>1. CASE r # p
        <3> SUFFICES ASSUME code[r].at \in Busy,
                            NEW i \in code[r].waited + 1..Len(code[r].stages)
                     PROVE  Stage(r, code[r], i)'
          BY <2>1, <1>5 DEF Owns
        <3>1. Stage(r, code[r], i) /\ code[r].stages[i] \in Procs
          BY StageFacts
        <3> QED
          BY <3>1, <2>1, <1>5, <1>9, <1>11 DEF Stage
      <2>2. CASE r = p
        <3> SUFFICES ASSUME NEW i \in 1..pos PROVE Stage(p, c, i)'
          BY <2>2, <1>2, <1>4, <1>5, <1>6 DEF Owns
        <3>1. CASE i = pos
          BY <3>1, <1>2, <1>4, <1>6, <1>9, <1>10 DEF Stage
        <3>2. CASE i # pos
          <4>1. i \in code[p].waited + 1..Len(s) /\ c.stages[i] = s[i] /\ c.stages[1] = s[1]
            BY <3>2, <1>2, <1>6
          <4>2. Stage(p, code[p], i) /\ s[i] \in Procs
            BY <4>1, <1>2, StageFacts DEF Busy
          <4> QED
            BY <4>1, <4>2, <1>2, <1>9, <1>11 DEF Stage
        <3> QED
          BY <3>1, <3>2
      <2> QED
        BY <2>1, <2>2
    <1>15. Copies'
      <2>1. code'[Shell].at \in {"capture", "reap"} =>
              code'[Shell] = code[Shell] /\ code[Shell].at \in {"capture", "reap"}
        BY <1>4, <1>5, EveryoneFacts
      <2>2. /\ jobs \subseteq Procs /\ jobs' = jobs
            /\ code[Shell].at \in {"capture", "reap"} => Lead(Shell) \in Procs
        BY JobFacts DEF Fork
      <2>3. Absent.pos = 0 /\ (code'[Shell] = code[Shell] => Lead(Shell)' = Lead(Shell))
        BY DEF Absent, Lead
      <2> QED
        BY <2>1, <2>2, <2>3, <1>9, <1>10, <1>11 DEF IInv, Copies
    <1>16. Grouped'
      BY <1>9, <1>10 DEF IInv, Grouped
    <1>17. Terminal'
      <2>1. p = Shell => (Given(c) => Given(code[Shell])) /\ ~Keeps(c)
        BY <1>2, <1>4, <1>6 DEF Given, Keeps
      <2>2. p = Shell /\ Given(c) => Lead(Shell)' = Lead(Shell)
        BY <1>2, <1>4, <1>5, <1>6 DEF Given, Lead
      <2>3. p # Shell => code'[Shell] = code[Shell]
        BY <1>5, EveryoneFacts
      <2> QED
        BY <2>1, <2>2, <2>3, <1>5 DEF Fork, Signals, IInv, Terminal, Lead
    <1>18. Traps'
      BY <1>2, <1>4, <1>5, EveryoneFacts DEF Fork, Signals, IInv, Traps, Busy
    <1> QED
      BY <1>12, <1>13, <1>14, <1>15, <1>16, <1>17, <1>18 DEF IInv

LEMMA MovedAt ==
    ASSUME TypeOK, NEW p \in Everyone, NEW a \in Points, Goto(p, a)
    PROVE  \E c \in Code :
             /\ code' = [code EXCEPT ![p] = c] /\ c.at = a
             /\ c.n = code[p].n /\ c.stages = code[p].stages
             /\ c.waited = code[p].waited /\ c.input = code[p].input
             /\ code'[p] = c /\ \A r \in Everyone : r # p => code'[r] = code[r]
    <1>1. PICK c : c = [code[p] EXCEPT !.at = a]
      OBVIOUS
    <1>2. code' = [code EXCEPT ![p] = c]
      BY <1>1 DEF Goto
    <1>3. c \in Code
      BY <1>1, CodeFields DEF Code
    <1>4. /\ c.at = a /\ c.n = code[p].n /\ c.stages = code[p].stages
          /\ c.waited = code[p].waited /\ c.input = code[p].input
      BY <1>1, CodeFields DEF Code
    <1>5. code'[p] = c /\ \A r \in Everyone : r # p => code'[r] = code[r]
      BY <1>2 DEF TypeOK
    <1> QED
      BY <1>2, <1>3, <1>4, <1>5

\* The end of a command: the process is idle, its children are kept or not.
LEMMA DoneMoves ==
    ASSUME IInv, NEW p \in Everyone, Done(p), UNCHANGED <<proc, jobs>>
    PROVE  /\ code' \in [Everyone -> Code] /\ Shapes' /\ Owned' /\ Copies' /\ Grouped'
           /\ code'[p].at = Home(p)
           /\ \A r \in Everyone : r # p => code'[r] = code[r]
    <1>1. PICK c : c = [Idle EXCEPT !.at = Home(p)]
      OBVIOUS
    <1>2. /\ c \in Code /\ c.at = Home(p) /\ c.stages = <<>> /\ c.waited = 0
          /\ c.input = TRUE
      <2>1. Home(p) \in Points
        BY DEF Home, Points
      <2> QED
        BY <1>1, <2>1, IdleAt
    <1>3. code' = [code EXCEPT ![p] = c]
      BY <1>1 DEF Done
    <1>4. Shaped(c) /\ Owns(p, c)
      BY <1>2 DEF Shaped, Owns, Home, Busy
    <1>5. code' \in [Everyone -> Code] /\ Shapes' /\ Owned' /\ Copies' /\ Grouped'
      BY <1>2, <1>3, <1>4, CodeMoves DEF Home
    <1>6. code'[p] = c /\ \A r \in Everyone : r # p => code'[r] = code[r]
      BY <1>3 DEF IInv, TypeOK
    <1> QED
      BY <1>2, <1>5, <1>6

LEMMA ForkFailsKeeps ==
    ASSUME IInv, NEW p \in Everyone, ForkFails(p)
    PROVE  IInv'
    <1>1. /\ code' \in [Everyone -> Code] /\ Shapes' /\ Owned' /\ Copies' /\ Grouped'
          /\ code'[p].at = Home(p)
          /\ \A r \in Everyone : r # p => code'[r] = code[r]
      BY DoneMoves DEF ForkFails
    <1>2. TypeOK'
      BY <1>1 DEF ForkFails, PutBack, IInv, TypeOK, Gaps
    <1>3. Terminal'
      <2>1. p = Shell => ("tty" \notin gaps' => Keeps(code[p]))
        BY CodeFields DEF ForkFails, Keeps, IInv
      <2>2. p = Shell => ~Given(code[p])'
        BY <1>1 DEF Given, Home
      <2>3. p # Shell => code'[Shell] = code[Shell]
        BY <1>1, EveryoneFacts
      <2>4. tty' = tty /\ ("tty" \in gaps => "tty" \in gaps')
        BY DEF ForkFails
      <2> QED
        BY <2>1, <2>2, <2>3, <2>4 DEF IInv, Terminal, Lead
    <1>4. Traps'
      <2>1. "trap" \in gaps => "trap" \in gaps'
        BY DEF ForkFails
      <2>2. p # Shell => code'[Shell] = code[Shell]
        BY <1>1, EveryoneFacts
      <2> QED
        BY <2>1, <2>2, <1>1 DEF ForkFails, PutBack, IInv, Traps, Busy, Home
    <1> QED
      BY <1>1, <1>2, <1>3, <1>4 DEF IInv

LEMMA RestoreKeeps ==
    ASSUME IInv, NEW p \in Everyone, Restore(p)
    PROVE  IInv'
    <1>1. /\ code' \in [Everyone -> Code] /\ Shapes' /\ Owned' /\ Copies' /\ Grouped'
          /\ code'[p].at = Home(p)
          /\ \A r \in Everyone : r # p => code'[r] = code[r]
      BY DoneMoves DEF Restore
    <1>2. TypeOK'
      BY <1>1 DEF Restore, PutBack, IInv, TypeOK
    <1>3. Terminal'
      <2>1. Keeps(code[p]) /\ (p = Shell => ~Given(code[p])')
        BY <1>1 DEF Restore, Keeps, Given, Home
      <2>2. p # Shell => code'[Shell] = code[Shell]
        BY <1>1, EveryoneFacts
      <2> QED
        BY <2>1, <2>2 DEF Restore, IInv, Terminal, Lead
    <1>4. Traps'
      <2>1. p # Shell => code'[Shell] = code[Shell]
        BY <1>1, EveryoneFacts
      <2> QED
        BY <2>1, <1>1 DEF Restore, PutBack, IInv, Traps, Busy, Home
    <1> QED
      BY <1>1, <1>2, <1>3, <1>4 DEF IInv

LEMMA CloseKeeps ==
    ASSUME IInv, NEW p \in Everyone, Close(p)
    PROVE  IInv'
    <1>1. PICK c : c = [code[p] EXCEPT !.at = "wait", !.open = FALSE]
      OBVIOUS
    <1>2. code' = [code EXCEPT ![p] = c]
      BY <1>1 DEF Close
    <1>3. c \in Code
      BY <1>1, CodeFields DEF IInv, Code, Points
    <1>4. /\ c.at = "wait" /\ c.n = code[p].n /\ c.stages = code[p].stages
          /\ c.waited = code[p].waited /\ c.input = code[p].input
      BY <1>1, CodeFields DEF IInv, Code
    <1>5. Shaped(c) /\ Len(c.stages) \in Nat
      BY <1>4, CodeFields DEF Close, IInv, Shapes, Shaped
    <1>6. Owns(p, c)
      BY <1>4 DEF Close, IInv, Owned, Owns, Stage, Busy
    <1>7. code' \in [Everyone -> Code] /\ Shapes' /\ Owned' /\ Copies' /\ Grouped'
      BY <1>2, <1>3, <1>4, <1>5, <1>6, CodeMoves DEF Close, IInv, Shapes
    <1>8. code'[p] = c /\ \A r \in Everyone : r # p => code'[r] = code[r]
      BY <1>2 DEF IInv, TypeOK
    <1>9. TypeOK'
      BY <1>7 DEF Close, Signals, IInv, TypeOK
    <1>10. Terminal'
      <2>1. Given(code[p]) /\ ~Keeps(c)
        BY <1>4 DEF Close, Keeps, Given
      <2> QED
        BY <2>1, <1>4, <1>8, EveryoneFacts DEF Close, IInv, Terminal, Lead
    <1>11. Traps'
      BY <1>4, <1>8, EveryoneFacts DEF Close, Signals, IInv, Traps, Busy
    <1> QED
      BY <1>7, <1>9, <1>10, <1>11 DEF IInv

LEMMA GiveKeeps ==
    ASSUME IInv, NEW p \in Everyone, give_terminal_to(p)
    PROVE  IInv'
    <1>1. code[p].at = "give" /\ Len(code[p].stages) = 1 /\ code[p].waited = 0
          /\ code[p].n \in 1..N /\ Lead(p) \in Procs
      BY CodeFields DEF give_terminal_to, IInv, Shapes, Shaped, Lead
    <1>2. PICK c \in Code :
             /\ code' = [code EXCEPT ![p] = c]
             /\ c.at = IF Len(code[p].stages) < code[p].n THEN "fork" ELSE "close"
             /\ c.n = code[p].n /\ c.stages = code[p].stages
             /\ c.waited = code[p].waited /\ c.input = code[p].input
             /\ code'[p] = c /\ \A r \in Everyone : r # p => code'[r] = code[r]
      BY MovedAt DEF give_terminal_to, Points, IInv
    <1>3. Shaped(c)
      <2>1. CASE Len(code[p].stages) < code[p].n
        BY <2>1, <1>1, <1>2 DEF Shaped
      <2>2. CASE ~(Len(code[p].stages) < code[p].n)
        <3>1. code[p].n = 1
          BY <2>2, <1>1, ForegroundAssumption
        <3> QED
          BY <2>2, <3>1, <1>1, <1>2 DEF Shaped
      <2> QED
        BY <2>1, <2>2
    <1>4. Owns(p, c)
      BY <1>1, <1>2 DEF IInv, Owned, Owns, Stage, Busy
    <1>5. code' \in [Everyone -> Code] /\ Shapes' /\ Owned' /\ Copies' /\ Grouped'
      BY <1>2, <1>3, <1>4, CodeMoves DEF give_terminal_to, IInv, Shapes
    <1>6. TypeOK'
      BY <1>1, <1>5, EveryoneFacts DEF give_terminal_to, Moved, Signals, IInv, TypeOK, Gaps
    <1>7. Terminal'
      <2>1. p = Shell => tty' = Lead(Shell)' /\ ~Keeps(c)
        BY <1>1, <1>2 DEF give_terminal_to, Lead, Keeps, IInv, Shapes
      <2>2. p # Shell => code'[Shell] = code[Shell]
                         /\ ("tty" \notin gaps' => "tty" \notin gaps /\ tty' = tty)
        BY <1>2, EveryoneFacts DEF give_terminal_to, Moved
      <2> QED
        BY <2>1, <2>2, <1>2 DEF IInv, Terminal, Lead
    <1>8. Traps'
      <2>1. "trap" \in gaps => "trap" \in gaps'
        BY DEF give_terminal_to, Moved
      <2> QED
        BY <2>1, <1>1, <1>2, EveryoneFacts DEF give_terminal_to, Signals, IInv, Traps, Busy
    <1> QED
      BY <1>5, <1>6, <1>7, <1>8 DEF IInv

LEMMA TakeKeeps ==
    ASSUME IInv, NEW p \in Everyone, take_terminal_back(p)
    PROVE  IInv'
    <1>1. code[p].at = "take" /\ Len(code[p].stages) = code[p].n
      BY DEF take_terminal_back, IInv, Shapes, Shaped
    <1>2. PICK c \in Code :
             /\ code' = [code EXCEPT ![p] = c] /\ c.at = "restore"
             /\ c.n = code[p].n /\ c.stages = code[p].stages
             /\ c.waited = code[p].waited /\ c.input = code[p].input
             /\ code'[p] = c /\ \A r \in Everyone : r # p => code'[r] = code[r]
      BY MovedAt DEF take_terminal_back, Points, IInv
    <1>3. Shaped(c)
      BY <1>1, <1>2 DEF Shaped
    <1>4. Owns(p, c)
      BY <1>1, <1>2 DEF IInv, Owned, Owns, Stage, Busy
    <1>5. code' \in [Everyone -> Code] /\ Shapes' /\ Owned' /\ Copies' /\ Grouped'
      BY <1>2, <1>3, <1>4, CodeMoves DEF take_terminal_back, IInv, Shapes
    <1>6. TypeOK'
      BY <1>5 DEF take_terminal_back, Moved, Signals, IInv, TypeOK, Gaps
    <1>7. Terminal'
      <2>1. p = Shell => tty' = Shell /\ ~Given(c)
        BY <1>1, <1>2 DEF take_terminal_back, Given, IInv, Shapes
      <2>2. p # Shell => code'[Shell] = code[Shell]
                         /\ ("tty" \notin gaps' => "tty" \notin gaps /\ tty' = tty)
        BY <1>2, EveryoneFacts DEF take_terminal_back, Moved
      <2> QED
        BY <2>1, <2>2, <1>2 DEF IInv, Terminal, Lead
    <1>8. Traps'
      <2>1. "trap" \in gaps => "trap" \in gaps'
        BY DEF take_terminal_back, Moved
      <2> QED
        BY <2>1, <1>1, <1>2, EveryoneFacts DEF take_terminal_back, Signals, IInv, Traps, Busy
    <1> QED
      BY <1>5, <1>6, <1>7, <1>8 DEF IInv

LEMMA SetGroupKeeps ==
    ASSUME IInv, NEW p \in Everyone, SetGroup(p)
    PROVE  IInv'
    <1> DEFINE q == Current(p)
               s == code[p].stages
    <1>1. /\ code[p].at = "group" /\ code[p].waited = 0 /\ Len(s) \in 1..code[p].n
          /\ code[p].n \in 1..N /\ s \in Seq(Procs) /\ Len(s) \in Nat /\ Len(s) > 0
      BY CodeFields DEF SetGroup, IInv, Shapes, Shaped
    <1>2. /\ q = s[Len(s)] /\ Lead(p) = s[1] /\ q \in Procs /\ Lead(p) \in Procs
          /\ Stage(p, code[p], Len(s)) /\ proc[q].lead = Lead(p)
          /\ proc[q].parent = p /\ proc[q].pos = Len(s) /\ q \notin jobs
          /\ proc[q].st \in {"child", "program", "stopped", "zombie"}
      <2>1. q = s[Len(s)] /\ Lead(p) = s[1]
        BY DEF Current, Lead
      <2>2. Lead(p) \in Procs
        BY <2>1, <1>1, CodeFields DEF IInv
      <2> QED
        BY <2>1, <2>2, <1>1, StageFacts DEF Busy, Stage
    <1>3. PICK c \in Code :
             /\ code' = [code EXCEPT ![p] = c] /\ c.at = AfterGroup(code[p])
             /\ c.n = code[p].n /\ c.stages = code[p].stages
             /\ c.waited = code[p].waited /\ c.input = code[p].input
             /\ code'[p] = c /\ \A r \in Everyone : r # p => code'[r] = code[r]
      BY MovedAt DEF SetGroup, AfterGroup, Points, IInv
    <1>4. /\ proc' \in [Procs -> Process]
          /\ \A r \in Procs : r # q => proc'[r] = proc[r]
          /\ proc'[q].group = Lead(p) /\ proc'[q].lead = proc[q].lead
          /\ proc'[q].st = proc[q].st /\ proc'[q].pos = proc[q].pos
          /\ proc'[q].parent = proc[q].parent
      <2>1. proc' = [proc EXCEPT ![q].group = Lead(p)]
        BY DEF SetGroup
      <2>2. proc[q] \in Process /\ Lead(p) \in Everyone
        BY <1>2, ProcFields, EveryoneFacts DEF IInv
      <2>3. [proc[q] EXCEPT !.group = Lead(p)] \in Process
        BY <2>2 DEF Process
      <2>4. proc'[q] = [proc[q] EXCEPT !.group = Lead(p)]
        BY <2>1, <1>2 DEF IInv, TypeOK
      <2>5. \A r \in Procs : r # q => proc'[r] = proc[r]
        BY <2>1 DEF IInv, TypeOK
      <2>6. proc' \in [Procs -> Process]
        BY <2>1, <2>3, <1>2 DEF IInv, TypeOK
      <2> HIDE DEF q
      <2> QED
        BY <2>2, <2>4, <2>5, <2>6 DEF Process
    <1> HIDE DEF q
    <1>5. code' \in [Everyone -> Code]
      BY <1>3 DEF IInv, TypeOK
    <1>6. TypeOK'
      <2>1. jobs' = jobs /\ \A r \in jobs : r # q
        BY <1>2 DEF SetGroup
      <2> QED
        BY <2>1, <1>4, <1>5 DEF SetGroup, Signals, IInv, TypeOK
    <1>7. Shaped(c) /\ c.at \in {"give", "fork", "close"}
      BY <1>1, <1>3 DEF Shaped, AfterGroup
    <1>8. Shapes'
      BY <1>3, <1>7, EveryoneFacts DEF IInv, Shapes, Shaped
    <1>9. Owned'
      <2> SUFFICES ASSUME NEW r \in Everyone, code'[r].at \in Busy,
                          NEW i \in code'[r].waited + 1..Len(code'[r].stages)
                   PROVE  Stage(r, code[r], i)'
        BY DEF Owned, Owns
      <2>1. CASE r # p
        <3>1. Stage(r, code[r], i) /\ code[r].stages[i] \in Procs /\ code[r].stages[i] # q
          BY <2>1, <1>2, <1>3, StageFacts
        <3> QED
          BY <3>1, <2>1, <1>3, <1>4 DEF Stage
      <2>2. CASE r = p
        <3>1. i \in 1..Len(s) /\ i \in code[p].waited + 1..Len(s)
          BY <2>2, <1>1, <1>3
        <3>2. Stage(p, code[p], i) /\ s[i] \in Procs /\ proc[s[i]].pos = i
          BY <3>1, <1>1, StageFacts DEF Busy
        <3>3. CASE i = Len(s)
          <4>1. s[i] = q /\ code'[p].stages = s
            BY <3>3, <1>2, <1>3
          <4>2. Lead(p) = s[1]
            BY <1>2
          <4>3. /\ proc[q].parent = p /\ proc[q].pos = i /\ proc[q].lead = s[1]
                /\ proc[q].st \in {"child", "program", "stopped", "zombie"}
            BY <3>2, <4>1 DEF Stage
          <4>4. /\ proc'[q].parent = p /\ proc'[q].pos = i /\ proc'[q].lead = s[1]
                /\ proc'[q].st \in {"child", "program", "stopped", "zombie"}
                /\ proc'[q].group = s[1]
            BY ONLY <4>2, <4>3, <1>4
          <4>5. Stage(p, code[p], i)'
            BY ONLY <4>1, <4>4 DEF Stage
          <4> QED
            BY <4>5, <2>2
        <3>4. CASE i # Len(s)
          <4>1. s[i] # q
            BY <3>1, <3>2, <3>4, <1>1, <1>2
          <4> QED
            BY <4>1, <3>2, <3>4, <2>2, <1>1, <1>3, <1>4 DEF Stage
        <3> QED
          BY <3>3, <3>4
      <2> QED
        BY <2>1, <2>2
    <1>10. Copies'
      <2>1. jobs' = jobs /\ jobs \subseteq Procs
        BY JobFacts DEF SetGroup
      <2>2. code'[Shell].at \in {"capture", "reap"} =>
              code'[Shell] = code[Shell] /\ Lead(Shell) \in Procs /\ Lead(Shell) # q
        BY <1>2, <1>3, <1>1, <1>7, JobFacts, EveryoneFacts DEF IInv, Copies
      <2>3. code'[Shell] = code[Shell] => Lead(Shell)' = Lead(Shell)
        BY DEF Lead
      <2> QED
        BY <2>1, <2>2, <2>3, <1>2, <1>4 DEF IInv, Copies
    <1>11. Grouped'
      BY <1>2, <1>4 DEF IInv, Grouped
    <1>12. Terminal'
      <2>1. p = Shell => ~Keeps(c) /\ (Given(c) => Given(code[Shell]))
        <3>1. Len(c.stages) = Len(s) /\ (c.at = "give" \/ Len(s) > 1)
          <4>1. Len(c.stages) = Len(s)
            BY <1>3
          <4>2. CASE Len(s) = 1
            BY <4>1, <4>2, <1>3 DEF AfterGroup
          <4>3. CASE Len(s) # 1
            <5>1. ASSUME NEW m \in Nat, m > 0, m # 1 PROVE m > 1
              BY <5>1
            <5>2. Len(s) > 1
              BY <4>3, <5>1, <1>1
            <5> QED
              BY <4>1, <5>2
          <4> QED
            BY <4>1, <4>2, <4>3
        <3>2. ~Keeps(c) /\ (Given(c) => Len(s) > 1)
          BY <3>1, <1>1, <1>7 DEF Keeps, Given
        <3>3. Len(s) > 1 => Given(code[p])
          BY <1>1 DEF Given
        <3> QED
          BY <3>2, <3>3
      <2>2. p # Shell => code'[Shell] = code[Shell]
        BY <1>3, EveryoneFacts
      <2> QED
        BY <2>1, <2>2, <1>3 DEF SetGroup, Signals, IInv, Terminal, Lead
    <1>13. Traps'
      BY <1>1, <1>3, <1>7, EveryoneFacts DEF SetGroup, Signals, IInv, Traps, Busy
    <1> QED
      BY <1>6, <1>8, <1>9, <1>10, <1>11, <1>12, <1>13 DEF IInv

LEMMA WaitKeeps ==
    ASSUME IInv, NEW p \in Everyone, WaitStage(p)
    PROVE  IInv'
    <1> DEFINE k == code[p].waited + 1
               q == Awaited(p)
    <1>1. /\ code[p].at = "wait" /\ Len(code[p].stages) = code[p].n
          /\ code[p].waited < code[p].n /\ code[p].n \in 1..N /\ code[p].waited \in 0..N
          /\ k \in 1..N /\ k \in code[p].waited + 1..Len(code[p].stages)
      BY CodeFields, ForegroundAssumption DEF WaitStage, IInv, Shapes, Shaped
    <1>2. /\ q \in Procs /\ proc[q].pos = k /\ proc[q].parent = p /\ q \notin jobs
          /\ Stage(p, code[p], k)
      BY <1>1, StageFacts DEF Awaited, Busy
    <1>3. PICK c : c = [code[p] EXCEPT !.waited = k,
                          !.at = IF k = code[p].n THEN "poll" ELSE "wait"]
      OBVIOUS
    <1>4. code' = [code EXCEPT ![p] = c]
      BY <1>1, <1>3 DEF WaitStage
    <1>5. /\ c \in Code /\ c.at = (IF k = code[p].n THEN "poll" ELSE "wait")
          /\ c.waited = k /\ c.stages = code[p].stages /\ c.n = code[p].n
          /\ c.input = code[p].input
      <2>1. (IF k = code[p].n THEN "poll" ELSE "wait") \in Points
        BY DEF Points
      <2>2. k \in 0..N
        BY <1>1, ForegroundAssumption
      <2> QED
        BY <2>1, <2>2, <1>3, CodeFields DEF IInv, Code
    <1>6. code'[p] = c /\ \A r \in Everyone : r # p => code'[r] = code[r]
      BY <1>4 DEF IInv, TypeOK
    <1>7. /\ proc' \in [Procs -> Process]
          /\ \A r \in Procs : r # q => proc'[r] = proc[r]
          /\ proc'[q] = Absent \/ proc'[q] = proc[q]
      BY <1>2, AbsentFields DEF WaitStage, IInv, TypeOK
    <1> HIDE DEF q
    <1>8. TypeOK'
      <2>1. jobs' = jobs /\ \A r \in jobs : r # q
        BY <1>2 DEF WaitStage
      <2>2. code' \in [Everyone -> Code]
        BY <1>4, <1>5 DEF IInv, TypeOK
      <2> QED
        BY <2>1, <2>2, <1>7 DEF WaitStage, Signals, IInv, TypeOK
    <1>9. Shapes'
      <2>1. Shaped(c)
        BY <1>1, <1>5, CodeFields DEF Shaped
      <2> QED
        BY <2>1, <1>5, <1>6, EveryoneFacts DEF IInv, Shapes, Shaped
    <1>10. Owned'
      <2> SUFFICES ASSUME NEW r \in Everyone, code'[r].at \in Busy,
                          NEW i \in code'[r].waited + 1..Len(code'[r].stages)
                   PROVE  Stage(r, code[r], i)'
        BY DEF Owned, Owns
      <2>1. CASE r # p
        <3>1. Stage(r, code[r], i) /\ code[r].stages[i] \in Procs /\ code[r].stages[i] # q
          BY <2>1, <1>2, <1>6, StageFacts
        <3> QED
          BY <3>1, <2>1, <1>6, <1>7 DEF Stage
      <2>2. CASE r = p
        <3>1. i \in code[p].waited + 1..Len(code[p].stages) /\ i # k
          BY <2>2, <1>1, <1>5, <1>6
        <3>2. Stage(p, code[p], i) /\ code[p].stages[i] \in Procs /\ code[p].stages[i] # q
          BY <3>1, <1>1, <1>2, StageFacts DEF Busy
        <3> QED
          BY <3>2, <2>2, <1>1, <1>5, <1>6, <1>7 DEF Stage
      <2> QED
        BY <2>1, <2>2
    <1>11. Copies'
      <2>1. jobs' = jobs /\ jobs \subseteq Procs /\ Absent.st = "free"
        BY JobFacts DEF WaitStage, Absent
      <2>2. code'[Shell].at \in {"capture", "reap"} =>
              code'[Shell] = code[Shell] /\ Lead(Shell) \in Procs /\ Lead(Shell) # q
        BY <1>1, <1>2, <1>5, <1>6, JobFacts, EveryoneFacts DEF IInv, Copies
      <2>3. code'[Shell] = code[Shell] => Lead(Shell)' = Lead(Shell)
        BY DEF Lead
      <2> QED
        BY <2>1, <2>2, <2>3, <1>2, <1>7 DEF IInv, Copies
    <1>12. Grouped'
      BY <1>7 DEF IInv, Grouped, Absent
    <1>13. Terminal'
      <2>1. p = Shell => ~Keeps(c) /\ Given(code[Shell])
        BY <1>1, <1>5 DEF Keeps, Given
      <2>2. p # Shell => code'[Shell] = code[Shell]
        BY <1>6, EveryoneFacts
      <2> QED
        BY <2>1, <2>2, <1>5, <1>6 DEF WaitStage, Signals, IInv, Terminal, Lead
    <1>14. Traps'
      BY <1>1, <1>5, <1>6, EveryoneFacts DEF WaitStage, Signals, IInv, Traps, Busy
    <1> QED
      BY <1>8, <1>9, <1>10, <1>11, <1>12, <1>13, <1>14 DEF IInv

-----------------------------------------------------------------------------
(* The traps *)

LEMMA DispositionFacts ==
    ASSUME NEW t \in {"none", "command", "ignore"}
    PROVE  Disposition(t) \in {"own", "ign", "trap"}
    BY DEF Disposition

LEMMA PolledFacts ==
    ASSUME IInv, Polled
    PROVE  /\ tty' \in Everyone /\ pending' \in BOOLEAN /\ gaps' \subseteq Gaps
           /\ disp' \in {"own", "ign", "trap"} /\ trap' \in {"none", "command", "ignore"}
           /\ "tty" \notin gaps' => tty' = tty /\ "tty" \notin gaps
           /\ "trap" \notin gaps' => trap' = trap /\ disp' = disp /\ "trap" \notin gaps
    <1>1. CASE \E t \in {"none", "command", "ignore"} :
                 Sets(t) /\ gaps' = gaps \cup {"trap"} /\ UNCHANGED tty
      BY <1>1, DispositionFacts DEF Polled, Sets, IInv, TypeOK, Gaps
    <1>2. CASE tty' = Shell /\ gaps' = gaps \cup {"tty"} /\ UNCHANGED <<trap, disp>>
      BY <1>2, EveryoneFacts DEF Polled, IInv, TypeOK, Gaps
    <1>3. CASE UNCHANGED <<tty, gaps, trap, disp>>
      BY <1>3 DEF Polled, IInv, TypeOK
    <1> QED
      BY <1>1, <1>2, <1>3 DEF Polled

LEMMA PollInWaitKeeps ==
    ASSUME IInv, PollInWait
    PROVE  IInv'
    <1>1. code' = code /\ proc' = proc /\ jobs' = jobs /\ saved' = saved
          /\ code[Shell].at = "wait"
      BY DEF PollInWait
    <1>2. TypeOK'
      BY <1>1, PolledFacts DEF PollInWait, IInv, TypeOK
    <1>3. Shapes' /\ Owned' /\ Copies' /\ Grouped'
      BY <1>1 DEF IInv, Shapes, Owned, Owns, Stage, Copies, Grouped, Lead
    <1>4. Terminal' /\ Traps'
      BY <1>1, PolledFacts DEF PollInWait, IInv, Terminal, Traps, Busy, Lead
    <1> QED
      BY <1>2, <1>3, <1>4 DEF IInv

LEMMA PollKeeps ==
    ASSUME IInv, NEW p \in Everyone, Poll(p)
    PROVE  IInv'
    <1>1. PICK c \in Code :
             /\ code' = [code EXCEPT ![p] = c] /\ c.at = "take"
             /\ c.n = code[p].n /\ c.stages = code[p].stages
             /\ c.waited = code[p].waited /\ c.input = code[p].input
             /\ code'[p] = c /\ \A r \in Everyone : r # p => code'[r] = code[r]
      BY MovedAt DEF Poll, Points, IInv
    <1>2. code[p].at = "poll" /\ proc' = proc /\ jobs' = jobs /\ saved' = saved
      BY DEF Poll
    <1>3. Shaped(c)
      BY <1>1, <1>2 DEF IInv, Shapes, Shaped
    <1>4. Owns(p, c)
      BY <1>1, <1>2 DEF IInv, Owned, Owns, Stage, Busy
    <1>5. code' \in [Everyone -> Code] /\ Shapes' /\ Owned' /\ Copies' /\ Grouped'
      BY <1>1, <1>2, <1>3, <1>4, CodeMoves DEF IInv, Shapes
    <1>6. /\ tty' \in Everyone /\ pending' \in BOOLEAN /\ gaps' \subseteq Gaps
          /\ disp' \in {"own", "ign", "trap"} /\ trap' \in {"none", "command", "ignore"}
          /\ "tty" \notin gaps' => tty' = tty /\ "tty" \notin gaps
          /\ "trap" \notin gaps' => trap' = trap /\ disp' = disp /\ "trap" \notin gaps
      BY PolledFacts DEF Poll, IInv, TypeOK
    <1>7. TypeOK'
      BY <1>2, <1>5, <1>6 DEF IInv, TypeOK
    <1>8. Terminal'
      <2>1. p = Shell => ~Keeps(c) /\ ~Given(c)
        BY <1>1 DEF Keeps, Given
      <2> QED
        BY <2>1, <1>1, <1>6, EveryoneFacts DEF IInv, Terminal, Lead
    <1>9. Traps'
      BY <1>1, <1>2, <1>6, EveryoneFacts DEF IInv, Traps, Busy
    <1> QED
      BY <1>5, <1>7, <1>8, <1>9 DEF IInv

LEMMA SignalKeeps ==
    ASSUME IInv, Signal \/ builtin_trap
    PROVE  IInv'
    <1>1. UNCHANGED <<tty, proc, code, jobs, saved>>
      BY DEF Signal, builtin_trap
    <1>2. TypeOK'
      BY <1>1, DispositionFacts DEF Signal, builtin_trap, Sets, IInv, TypeOK
    <1>3. Shapes' /\ Owned' /\ Copies' /\ Grouped'
      BY <1>1 DEF IInv, Shapes, Owned, Owns, Stage, Copies, Grouped, Lead
    <1>4. Terminal'
      BY <1>1 DEF Signal, builtin_trap, IInv, Terminal, Lead
    <1>5. Traps'
      <2>1. CASE Signal
        BY <1>1, <2>1 DEF Signal, IInv, Traps
      <2>2. CASE builtin_trap
        BY <1>1, <2>2 DEF builtin_trap, AtPrompt, Sets, IInv, Traps, Busy
      <2> QED
        BY <2>1, <2>2
    <1> QED
      BY <1>2, <1>3, <1>4, <1>5 DEF IInv

-----------------------------------------------------------------------------
(* The children: none is waited for and gone, and each stays in its place *)

Carries(r) ==
    \/ proc'[r] = proc[r]
    \/ proc[r].parent = Nobody /\ proc[r].st # "copy" /\ proc'[r] = Absent
    \/ /\ proc'[r].parent = proc[r].parent /\ proc'[r].lead = proc[r].lead
       /\ proc'[r].pos = proc[r].pos
       /\ proc[r].st \in {"child", "program", "stopped"}
       /\ proc'[r].st \in {"program", "stopped", "zombie"}
       /\ proc'[r].group \in {proc[r].group, proc[r].lead}
       /\ \/ proc'[r].st = "zombie" \/ proc'[r].group = proc[r].lead
          \/ proc[r].parent = Nobody /\ proc[r].lead # r

LEMMA ChildrenCarry ==
    ASSUME IInv, proc' \in [Procs -> Process], \A r \in Procs : Carries(r),
           UNCHANGED <<tty, code, jobs, disp, saved, trap, pending, gaps>>
    PROVE  IInv'
    <1>1. TypeOK'
      <2> SUFFICES ASSUME NEW r \in jobs PROVE proc'[r].st \in {"copy", "zombie"}
        BY JobFacts DEF IInv, TypeOK
      <2> QED
        BY JobFacts, EveryoneFacts DEF Carries, IInv, TypeOK, Copies
    <1>2. Shapes' /\ Terminal' /\ Traps'
      BY DEF IInv, Shapes, Terminal, Traps, Lead
    <1>3. Owned'
      <2> SUFFICES ASSUME NEW p \in Everyone, code[p].at \in Busy,
                          NEW i \in code[p].waited + 1..Len(code[p].stages)
                   PROVE  Stage(p, code[p], i)'
        BY DEF Owned, Owns
      <2>1. Stage(p, code[p], i) /\ code[p].stages[i] \in Procs
        BY StageFacts
      <2> QED
        BY <2>1, EveryoneFacts DEF Carries, Stage
    <1>4. Copies'
      <2>1. \A q \in Procs : proc'[q].st = "copy" => proc'[q] = proc[q]
        BY DEF Carries, Absent
      <2>2. \A q \in jobs : q \in Procs /\ proc'[q].parent = Shell /\ proc'[q].pos = 0
        BY JobFacts, EveryoneFacts DEF Carries, IInv, Copies
      <2>3. code[Shell].at \in {"capture", "reap"} =>
              /\ proc'[Lead(Shell)].st \in {"copy", "zombie"}
              /\ proc'[Lead(Shell)].parent = Shell /\ proc'[Lead(Shell)].pos = 0
        BY JobFacts, EveryoneFacts DEF Carries, IInv, Copies
      <2>4. Lead(Shell)' = Lead(Shell)
        BY DEF Lead
      <2> QED
        BY <2>1, <2>2, <2>3, <2>4 DEF IInv, Copies
    <1>5. Grouped'
      BY DEF Carries, Absent, IInv, Grouped
    <1> QED
      BY <1>1, <1>2, <1>3, <1>4, <1>5 DEF IInv

LEMMA EndedFacts ==
    ASSUME IInv, NEW ps \in SUBSET Procs, \A q \in ps : proc[q].st \in {"program", "copy"}
    PROVE  /\ Ended(ps) \in [Procs -> Process]
           /\ \A r \in Procs :
                \/ r \notin ps /\ Ended(ps)[r] = proc[r]
                \/ r \in ps /\ proc[r].parent = Nobody /\ Ended(ps)[r] = Absent
                \/ /\ r \in ps /\ proc[r].parent # Nobody /\ Ended(ps)[r].st = "zombie"
                   /\ Ended(ps)[r].parent = proc[r].parent
                   /\ Ended(ps)[r].lead = proc[r].lead /\ Ended(ps)[r].pos = proc[r].pos
                   /\ Ended(ps)[r].group = proc[r].group
    <1> SUFFICES ASSUME NEW r \in Procs
                 PROVE  /\ Ended(ps)[r] \in Process
                        /\ \/ r \notin ps /\ Ended(ps)[r] = proc[r]
                           \/ r \in ps /\ proc[r].parent = Nobody /\ Ended(ps)[r] = Absent
                           \/ /\ r \in ps /\ proc[r].parent # Nobody
                              /\ Ended(ps)[r].st = "zombie"
                              /\ Ended(ps)[r].parent = proc[r].parent
                              /\ Ended(ps)[r].lead = proc[r].lead
                              /\ Ended(ps)[r].pos = proc[r].pos
                              /\ Ended(ps)[r].group = proc[r].group
      BY DEF Ended
    <1>1. proc[r] \in Process
      BY ProcFields DEF IInv
    <1>2. [proc[r] EXCEPT !.st = "zombie"] \in Process
      BY <1>1 DEF Process
    <1>3. LET z == [proc[r] EXCEPT !.st = "zombie"]
          IN  /\ z.st = "zombie" /\ z.parent = proc[r].parent /\ z.lead = proc[r].lead
              /\ z.pos = proc[r].pos /\ z.group = proc[r].group
      BY <1>1 DEF Process
    <1>4. CASE r \notin ps
      BY <1>1, <1>4 DEF Ended
    <1>5. CASE r \in ps /\ proc[r].parent = Nobody
      BY <1>5, AbsentFields DEF Ended
    <1>6. CASE r \in ps /\ proc[r].parent # Nobody
      <2>1. Ended(ps)[r] = [proc[r] EXCEPT !.st = "zombie"]
        BY <1>6 DEF Ended
      <2> QED
        BY <2>1, <1>2, <1>3, <1>6
    <1> QED
      BY <1>4, <1>5, <1>6

LEMMA EndsCarry ==
    ASSUME IInv, \/ \E q \in Procs : ProgramEnds(q)
                 \/ Interrupt
    PROVE  /\ proc' \in [Procs -> Process] /\ \A r \in Procs : Carries(r)
           /\ UNCHANGED <<tty, code, jobs, disp, saved, trap, pending, gaps>>
    <1>1. PICK ps \in SUBSET Procs :
            proc' = Ended(ps) /\ \A q \in ps : proc[q].st = "program"
      <2>1. CASE \E q \in Procs : ProgramEnds(q)
        <3>1. PICK q \in Procs : ProgramEnds(q)
          BY <2>1
        <3>2. {q} \in SUBSET Procs /\ proc' = Ended({q}) /\ proc[q].st = "program"
          BY <3>1 DEF ProgramEnds
        <3> QED
          BY <3>2
      <2>2. CASE Interrupt
        BY <2>2 DEF Interrupt
      <2> QED
        BY <2>1, <2>2
    <1>2. proc' \in [Procs -> Process]
      BY <1>1, EndedFacts
    <1>3. ASSUME NEW r \in Procs PROVE Carries(r)
      BY <1>1, EndedFacts DEF Carries
    <1>4. UNCHANGED <<tty, code, jobs, disp, saved, trap, pending, gaps>>
      BY DEF ProgramEnds, Interrupt, Signals
    <1> QED
      BY <1>2, <1>3, <1>4

\* A child comes too late for its group only as an orphan: else the first stage
\* has not been waited for.
LEMMA GroupForFacts ==
    ASSUME IInv, Joining, NEW q \in Procs, proc[q].st = "child"
    PROVE  /\ GroupFor(q) \in {proc[q].group, proc[q].lead}
           /\ GroupFor(q) = proc[q].lead \/ (proc[q].parent = Nobody /\ proc[q].lead # q)
    <1>1. GroupFor(q) \in {proc[q].group, proc[q].lead}
      BY DEF GroupFor
    <1>2. proc[q].lead = q \/ proc[q].group = proc[q].lead => GroupFor(q) = proc[q].lead
      BY DEF GroupFor
    <1>3. ASSUME proc[q].parent # Nobody, proc[q].lead # q PROVE GroupFor(q) = proc[q].lead
      <2>1. PICK p \in Everyone : p = proc[q].parent
        BY <1>3, ProcFields DEF IInv
      <2> DEFINE s == code[p].stages
      <2>2. CASE code[p].at = "group" /\ q = Current(p)
        <3>1. /\ code[p].waited = 0 /\ Len(s) \in Nat /\ Len(s) > 0
              /\ 1 \in code[p].waited + 1..Len(s) /\ Len(s) \in code[p].waited + 1..Len(s)
              /\ q = s[Len(s)]
          BY <2>2, CodeFields DEF IInv, Shapes, Shaped, Current
        <3>2. Stage(p, code[p], 1) /\ Stage(p, code[p], Len(s)) /\ s[1] \in Procs
          BY <2>2, <3>1, StageFacts DEF Busy
        <3>3. proc[q].lead = s[1]
          BY <3>1, <3>2 DEF Stage
        <3>4. Len(s) # 1
          BY <1>3, <3>1, <3>3
        <3>5. proc[s[1]].group = s[1]
          BY <3>2, <3>4 DEF Stage
        <3> QED
          BY <3>2, <3>3, <3>5 DEF GroupFor
      <2>3. CASE ~(code[p].at = "group" /\ q = Current(p))
        BY <1>2, <1>3, <2>1, <2>3 DEF Joining
      <2> QED
        BY <2>2, <2>3
    <1> QED
      BY <1>1, <1>2, <1>3

LEMMA ExecCarries ==
    ASSUME IInv, Joining, NEW q \in Procs, Exec(q)
    PROVE  /\ proc' \in [Procs -> Process] /\ \A r \in Procs : Carries(r)
           /\ UNCHANGED <<tty, code, jobs, disp, saved, trap, pending, gaps>>
    <1>1. proc[q] \in Process /\ proc[q].lead \in Everyone /\ proc[q].st = "child"
      BY ProcFields DEF IInv, Exec
    <1>g. PICK g : g = GroupFor(q)
      OBVIOUS
    <1>h. /\ g \in {proc[q].group, proc[q].lead} /\ g \in Everyone
          /\ g = proc[q].lead \/ (proc[q].parent = Nobody /\ proc[q].lead # q)
      BY <1>1, <1>g, GroupForFacts, ProcFields DEF IInv
    <1>2. PICK x : x = [proc[q] EXCEPT !.st = "program", !.group = g]
      OBVIOUS
    <1>3. /\ x \in Process /\ x.st = "program" /\ x.group = g
          /\ x.parent = proc[q].parent /\ x.lead = proc[q].lead /\ x.pos = proc[q].pos
      BY <1>1, <1>h, <1>2 DEF Process
    <1>4. proc' = [proc EXCEPT ![q] = x]
      BY <1>g, <1>2 DEF Exec
    <1>5. proc' \in [Procs -> Process] /\ proc'[q] = x
          /\ \A r \in Procs : r # q => proc'[r] = proc[r]
      BY <1>3, <1>4 DEF IInv, TypeOK
    <1>6. Carries(q)
      BY <1>1, <1>h, <1>3, <1>5 DEF Carries
    <1>7. \A r \in Procs : Carries(r)
      BY <1>5, <1>6 DEF Carries
    <1> QED
      BY <1>5, <1>7 DEF Exec, Signals

LEMMA ReadsCarry ==
    ASSUME IInv, NEW q \in Procs, ProgramReads(q)
    PROVE  /\ proc' \in [Procs -> Process] /\ \A r \in Procs : Carries(r)
           /\ UNCHANGED <<tty, code, jobs, disp, saved, trap, pending, gaps>>
    <1>1. ASSUME NEW r \in Procs
          PROVE  proc'[r] \in Process /\ Carries(r)
      <2>1. proc[r] \in Process
        BY ProcFields DEF IInv
      <2>2. proc'[r] = IF proc[r].st = "program" /\ proc[r].group = proc[q].group
                       THEN [proc[r] EXCEPT !.st = "stopped"] ELSE proc[r]
        BY DEF ProgramReads
      <2>3. CASE proc[r].st = "program" /\ proc[r].group = proc[q].group
        <3>1. /\ proc'[r] = [proc[r] EXCEPT !.st = "stopped"]
              /\ \/ proc[r].group = proc[r].lead
                 \/ proc[r].parent = Nobody /\ proc[r].lead # r
          BY <2>2, <2>3 DEF IInv, Grouped
        <3> QED
          BY <3>1, <2>1, <2>3 DEF Process, Carries
      <2>4. CASE ~(proc[r].st = "program" /\ proc[r].group = proc[q].group)
        BY <2>1, <2>2, <2>4 DEF Carries
      <2> QED
        BY <2>3, <2>4
    <1>2. proc' \in [Procs -> Process]
      BY <1>1 DEF ProgramReads
    <1> QED
      BY <1>1, <1>2 DEF ProgramReads, Signals

\* What a child does, and the interrupt key.
ChildMoves ==
    \/ Interrupt
    \/ \E q \in Procs : Exec(q) \/ ProgramEnds(q) \/ ProgramReads(q)

LEMMA ChildMovesCarry ==
    ASSUME IInv, Joining, ChildMoves
    PROVE  /\ proc' \in [Procs -> Process] /\ \A r \in Procs : Carries(r)
           /\ UNCHANGED <<tty, code, jobs, disp, saved, trap, pending, gaps>>
    BY EndsCarry, ExecCarries, ReadsCarry DEF ChildMoves

LEMMA ChildMovesKeep ==
    ASSUME IInv, Joining, ChildMoves
    PROVE  IInv'
    BY ChildMovesCarry, ChildrenCarry

-----------------------------------------------------------------------------
(* The copies of the shell *)

LEMMA OwnsStays ==
    ASSUME IInv, NEW p \in Everyone, code'[p] = code[p],
           \A r \in Procs : /\ proc[r].parent = p /\ proc[r].pos > 0
                            /\ proc[r].st \notin {"free", "copy"}
                            => proc'[r] = proc[r]
    PROVE  Owns(p, code[p])'
    <1> SUFFICES ASSUME code[p].at \in Busy,
                        NEW i \in code[p].waited + 1..Len(code[p].stages)
                 PROVE  Stage(p, code[p], i)'
      BY DEF Owns
    <1>1. /\ Stage(p, code[p], i) /\ code[p].stages[i] \in Procs
          /\ proc[code[p].stages[i]].pos > 0
      BY StageFacts
    <1> QED
      BY <1>1 DEF Stage

LEMMA CopyFacts ==
    ASSUME IInv, NEW q \in Procs, NEW g \in Everyone, NEW a \in BOOLEAN, NEW b \in BOOLEAN
    PROVE  /\ Copy(q, g, a, b) \in Process
           /\ Copy(q, g, a, b).st = "copy" /\ Copy(q, g, a, b).parent = Shell
           /\ Copy(q, g, a, b).pos = 0
    BY ForegroundAssumption, EveryoneFacts DEF Copy, Process

\* The code of a new copy.
LEMMA NewCode ==
    ASSUME NEW b \in BOOLEAN
    PROVE  LET c == [Idle EXCEPT !.at = "prompt", !.input = b]
           IN  c \in Code /\ c.at = "prompt" /\ c.stages = <<>> /\ c.waited = 0
    BY IdleFields DEF Code, Points

LEMMA SubstKeeps ==
    ASSUME IInv, petrush_run_cmdsubst
    PROVE  IInv'
    <1>1. PICK q \in Procs :
            /\ Fresh(q)
            /\ proc' = [proc EXCEPT ![q] = Copy(q, Shell, TRUE, TRUE)]
            /\ code' = [code EXCEPT ![q] = [Idle EXCEPT !.at = "prompt"],
                                    ![Shell].at = "capture", ![Shell].stages = <<q>>]
      BY DEF petrush_run_cmdsubst
    <1>2. PICK x, c, d : /\ x = Copy(q, Shell, TRUE, TRUE)
                         /\ c = [Idle EXCEPT !.at = "prompt"]
                         /\ d = [code[Shell] EXCEPT !.at = "capture", !.stages = <<q>>]
      OBVIOUS
    <1>3. /\ x \in Process /\ x.st = "copy" /\ x.parent = Shell /\ x.pos = 0
          /\ c \in Code /\ c.at = "prompt" /\ c.stages = <<>> /\ c.waited = 0
      <2>1. Shell \in Everyone /\ "prompt" \in Points
        BY EveryoneFacts DEF Points
      <2>2. /\ x \in Process /\ x.st = "copy" /\ x.parent = Shell /\ x.pos = 0
        BY <1>2, <2>1, CopyFacts
      <2>3. c \in Code /\ c.at = "prompt" /\ c.stages = <<>> /\ c.waited = 0
        BY <1>2, <2>1, IdleAt
      <2> QED
        BY <2>2, <2>3
    <1>4. /\ code[Shell] \in Code /\ code[Shell].at = "prompt"
          /\ code[Shell].waited = 0 /\ code[Shell].input
      BY CodeFields, EveryoneFacts DEF petrush_run_cmdsubst, AtPrompt, IInv, Shapes, Shaped
    <1>5. /\ d \in Code /\ d.at = "capture" /\ d.stages = <<q>> /\ d.waited = 0
          /\ d.input = code[Shell].input
      <2>1. <<q>> \in Seq(Procs) /\ "capture" \in Points
        BY DEF Points
      <2>2. d \in Code
        BY <2>1, <1>2, <1>4 DEF Code
      <2>3. d.at = "capture" /\ d.stages = <<q>> /\ d.input = code[Shell].input
        BY <1>2, <1>4 DEF Code
      <2>4. d.waited = 0
        BY <1>2, <1>4 DEF Code
      <2> QED
        BY <2>2, <2>3, <2>4
    <1>6. proc[q].st = "free" /\ q \notin jobs /\ q # Shell /\ q \in Everyone
      BY <1>1, EveryoneFacts DEF Fresh, IInv, TypeOK
    <1>7. /\ proc' \in [Procs -> Process] /\ proc'[q] = x
          /\ \A r \in Procs : r # q => proc'[r] = proc[r]
      BY <1>1, <1>2, <1>3 DEF IInv, TypeOK
    <1>8. code' = [code EXCEPT ![q] = c, ![Shell] = d]
      BY <1>1, <1>2, <1>6 DEF IInv, TypeOK
    <1>9. /\ code' \in [Everyone -> Code] /\ code'[q] = c /\ code'[Shell] = d
          /\ \A r \in Everyone \ {q, Shell} : code'[r] = code[r]
      BY <1>3, <1>5, <1>6, <1>8, EveryoneFacts DEF IInv, TypeOK
    <1>10. Len(d.stages) = 1 /\ d.stages[1] = q
      BY <1>5
    <1>11. UNCHANGED <<tty, jobs, disp, saved, trap, pending, gaps>>
      BY DEF petrush_run_cmdsubst, Signals
    <1>12. TypeOK'
      BY <1>6, <1>7, <1>9, <1>11 DEF IInv, TypeOK
    <1>13. Shapes'
      <2>1. Shaped(c)
        BY <1>3 DEF Shaped
      <2>2. Shaped(d)
        BY <1>5, <1>10 DEF Shaped
      <2>3. \A p \in Everyone : Shaped(code'[p])
        BY <2>1, <2>2, <1>9 DEF IInv, Shapes
      <2>4. \A p \in Procs : code'[p].at \notin {"capture", "reap"}
        BY <1>3, <1>9, EveryoneFacts DEF IInv, Shapes
      <2>5. code'[Shell].at # "none" /\ code'[Shell].input
        BY <1>4, <1>5, <1>9
      <2> QED
        BY <2>3, <2>4, <2>5 DEF Shapes, Shaped
    <1>14. Owned'
      <2> SUFFICES ASSUME NEW p \in Everyone PROVE Owns(p, code[p])'
        BY DEF Owned
      <2>1. CASE p \in {q, Shell}
        BY <2>1, <1>3, <1>5, <1>9 DEF Owns, Busy
      <2>2. CASE p \notin {q, Shell}
        BY <2>2, <1>6, <1>7, <1>9, OwnsStays
      <2> QED
        BY <2>1, <2>2
    <1>15. Copies'
      BY <1>3, <1>6, <1>7, <1>9, <1>10, <1>11, JobFacts DEF IInv, Copies, Lead
    <1>16. Grouped'
      BY <1>3, <1>7 DEF IInv, Grouped
    <1>17. Terminal'
      BY <1>4, <1>5, <1>9, <1>11 DEF IInv, Terminal, Keeps, Given, Lead
    <1>18. Traps'
      BY <1>4, <1>5, <1>9, <1>11 DEF IInv, Traps, Busy
    <1> QED
      BY <1>12, <1>13, <1>14, <1>15, <1>16, <1>17, <1>18 DEF IInv

LEMMA BackgroundKeeps ==
    ASSUME IInv, dispatch_pipeline_background
    PROVE  IInv'
    <1>1. PICK q \in Procs, input \in BOOLEAN :
            /\ Fresh(q)
            /\ proc' = [proc EXCEPT ![q] = Copy(q, q, input, FALSE)]
            /\ code' = [code EXCEPT ![q] = [Idle EXCEPT !.at = "prompt", !.input = input]]
            /\ jobs' = jobs \cup {q}
      BY DEF dispatch_pipeline_background
    <1>2. PICK x, c : /\ x = Copy(q, q, input, FALSE)
                      /\ c = [Idle EXCEPT !.at = "prompt", !.input = input]
      OBVIOUS
    <1>3. /\ x \in Process /\ x.st = "copy" /\ x.parent = Shell /\ x.pos = 0
          /\ c \in Code /\ c.at = "prompt" /\ c.stages = <<>> /\ c.waited = 0
      BY <1>2, CopyFacts, EveryoneFacts, NewCode
    <1>4. proc[q].st = "free" /\ q \notin jobs /\ q # Shell /\ q \in Everyone
      BY <1>1, EveryoneFacts DEF Fresh, IInv, TypeOK
    <1>5. /\ proc' \in [Procs -> Process] /\ proc'[q] = x
          /\ \A r \in Procs : r # q => proc'[r] = proc[r]
      BY <1>1, <1>2, <1>3 DEF IInv, TypeOK
    <1>6. /\ code' \in [Everyone -> Code] /\ code'[q] = c
          /\ \A r \in Everyone \ {q} : code'[r] = code[r]
      BY <1>1, <1>2, <1>3, <1>4 DEF IInv, TypeOK
    <1>7. code'[Shell] = code[Shell] /\ code[Shell].at = "prompt"
      BY <1>4, <1>6, EveryoneFacts DEF dispatch_pipeline_background, AtPrompt
    <1>8. UNCHANGED <<tty, disp, saved, trap, pending, gaps>>
      BY DEF dispatch_pipeline_background, Signals
    <1>9. TypeOK'
      BY <1>1, <1>3, <1>4, <1>5, <1>6, <1>8 DEF IInv, TypeOK
    <1>10. Shapes'
      <2>1. Shaped(c)
        BY <1>3 DEF Shaped
      <2>2. \A p \in Everyone : Shaped(code'[p])
        BY <2>1, <1>6 DEF IInv, Shapes
      <2> QED
        BY <2>2, <1>3, <1>4, <1>6, <1>7, EveryoneFacts DEF IInv, Shapes, Shaped
    <1>11. Owned'
      <2> SUFFICES ASSUME NEW p \in Everyone PROVE Owns(p, code[p])'
        BY DEF Owned
      <2>1. CASE p = q
        BY <2>1, <1>3, <1>6 DEF Owns, Busy
      <2>2. CASE p # q
        BY <2>2, <1>4, <1>5, <1>6, OwnsStays
      <2> QED
        BY <2>1, <2>2
    <1>12. Copies'
      BY <1>1, <1>3, <1>5, <1>7, JobFacts DEF IInv, Copies
    <1>13. Grouped'
      BY <1>3, <1>5 DEF IInv, Grouped
    <1>14. Terminal' /\ Traps'
      BY <1>7, <1>8 DEF IInv, Terminal, Traps, Lead
    <1> QED
      BY <1>9, <1>10, <1>11, <1>12, <1>13, <1>14 DEF IInv

LEMMA CapturedKeeps ==
    ASSUME IInv, Captured
    PROVE  IInv'
    <1>1. /\ code[Shell].at = "capture" /\ Len(code[Shell].stages) = 1
          /\ code[Shell].waited = 0 /\ code[Shell].input /\ Shell \in Everyone
      BY EveryoneFacts DEF Captured, IInv, Shapes, Shaped
    <1>2. PICK c \in Code :
             /\ code' = [code EXCEPT ![Shell] = c] /\ c.at = "reap"
             /\ c.n = code[Shell].n /\ c.stages = code[Shell].stages
             /\ c.waited = code[Shell].waited /\ c.input = code[Shell].input
             /\ code'[Shell] = c
             /\ \A r \in Everyone : r # Shell => code'[r] = code[r]
      BY <1>1, MovedAt DEF Captured, Points, IInv
    <1>3. UNCHANGED <<tty, proc, jobs, disp, saved, trap, pending, gaps>>
      BY DEF Captured, Signals
    <1>4. TypeOK'
      BY <1>1, <1>2, <1>3 DEF IInv, TypeOK
    <1>5. Shapes'
      <2>1. Shaped(c)
        BY <1>1, <1>2 DEF Shaped
      <2>2. \A p \in Everyone : Shaped(code'[p])
        BY <2>1, <1>2 DEF IInv, Shapes
      <2>3. \A p \in Procs : code'[p].at \notin {"capture", "reap"}
        BY <1>2, EveryoneFacts DEF IInv, Shapes
      <2>4. code'[Shell].at # "none" /\ code'[Shell].input
        BY <1>1, <1>2
      <2> QED
        BY <2>2, <2>3, <2>4 DEF Shapes, Shaped
    <1>6. Owned'
      <2> SUFFICES ASSUME NEW p \in Everyone PROVE Owns(p, code[p])'
        BY DEF Owned
      <2>1. CASE p = Shell
        BY <2>1, <1>2 DEF Owns, Busy
      <2>2. CASE p # Shell
        BY <2>2, <1>2, <1>3, OwnsStays
      <2> QED
        BY <2>1, <2>2
    <1>7. Copies' /\ Grouped'
      BY <1>1, <1>2, <1>3 DEF IInv, Copies, Grouped, Lead
    <1>8. Terminal' /\ Traps'
      BY <1>1, <1>2, <1>3 DEF IInv, Terminal, Traps, Keeps, Given, Lead, Busy
    <1> QED
      BY <1>4, <1>5, <1>6, <1>7, <1>8 DEF IInv

\* A child in no pipeline is removed.
LEMMA RemovedFacts ==
    ASSUME IInv, NEW g \in Procs, proc[g].pos = 0, proc' = [proc EXCEPT ![g] = Absent]
    PROVE  /\ proc' \in [Procs -> Process] /\ proc'[g] = Absent
           /\ \A r \in Procs : r # g => proc'[r] = proc[r]
           /\ \A p \in Everyone : code'[p] = code[p] => Owns(p, code[p])'
           /\ Grouped'
    <1>1. /\ proc' \in [Procs -> Process] /\ proc'[g] = Absent
          /\ \A r \in Procs : r # g => proc'[r] = proc[r]
      BY AbsentFields DEF IInv, TypeOK
    <1>2. ASSUME NEW p \in Everyone, code'[p] = code[p] PROVE Owns(p, code[p])'
      BY <1>1, <1>2, OwnsStays
    <1>3. Grouped'
      BY <1>1 DEF IInv, Grouped, Absent
    <1> QED
      BY <1>1, <1>2, <1>3

LEMMA CopyReapedKeeps ==
    ASSUME IInv, CopyReaped
    PROVE  IInv'
    <1> DEFINE g == Lead(Shell)
    <1>1. code[Shell].at = "reap" /\ g \in Procs /\ proc[g].pos = 0 /\ g \notin jobs
      BY JobFacts DEF CopyReaped, IInv, Copies
    <1>2. PICK c : c = [Idle EXCEPT !.at = "prompt"]
      OBVIOUS
    <1>3. /\ c \in Code /\ c.at = "prompt" /\ c.stages = <<>> /\ c.waited = 0
          /\ c.input = TRUE
      BY <1>2, IdleAt DEF Points
    <1>4. code' = [code EXCEPT ![Shell] = c]
      BY <1>2 DEF CopyReaped, Done, Home
    <1>5. /\ code' \in [Everyone -> Code] /\ code'[Shell] = c
          /\ \A r \in Everyone : r # Shell => code'[r] = code[r]
      BY <1>3, <1>4, EveryoneFacts DEF IInv, TypeOK
    <1> HIDE DEF g
    <1>6. /\ proc' \in [Procs -> Process]
          /\ \A r \in Procs : r # g => proc'[r] = proc[r]
          /\ proc'[g] = Absent \/ proc'[g] = proc[g]
          /\ \A p \in Everyone : code'[p] = code[p] => Owns(p, code[p])'
          /\ Grouped'
      <2>1. CASE proc' = [proc EXCEPT ![g] = Absent]
        BY <2>1, <1>1, RemovedFacts
      <2>2. CASE proc' = proc
        <3>1. \A p \in Everyone : code'[p] = code[p] => Owns(p, code[p])'
          BY <2>2, OwnsStays
        <3> QED
          BY <2>2, <3>1 DEF IInv, TypeOK, Grouped
      <2> QED
        BY <2>1, <2>2 DEF CopyReaped, g
    <1>7. UNCHANGED <<tty, jobs, disp, saved, trap, gaps>> /\ pending' = FALSE
      BY DEF CopyReaped
    <1>8. TypeOK'
      <2>1. \A r \in jobs : proc'[r] = proc[r]
        BY <1>1, <1>6, JobFacts
      <2> QED
        BY <2>1, <1>5, <1>6, <1>7 DEF IInv, TypeOK
    <1>9. Shapes'
      <2>1. Shaped(c)
        BY <1>3 DEF Shaped
      <2>2. \A p \in Everyone : Shaped(code'[p])
        BY <2>1, <1>5 DEF IInv, Shapes
      <2>3. \A p \in Procs : code'[p].at \notin {"capture", "reap"}
        BY <1>5, EveryoneFacts DEF IInv, Shapes
      <2> QED
        BY <2>2, <2>3, <1>3, <1>5 DEF Shapes, Shaped
    <1>10. Owned'
      <2> SUFFICES ASSUME NEW p \in Everyone PROVE Owns(p, code[p])'
        BY DEF Owned
      <2>1. CASE p = Shell
        BY <2>1, <1>3, <1>5 DEF Owns, Busy
      <2>2. CASE p # Shell
        BY <2>2, <1>5, <1>6
      <2> QED
        BY <2>1, <2>2
    <1>11. Copies'
      <2>1. \A r \in jobs : proc'[r] = proc[r]
        BY <1>1, <1>6, JobFacts
      <2> QED
        BY <2>1, <1>3, <1>5, <1>6, <1>7, JobFacts DEF IInv, Copies, Absent
    <1>12. Terminal' /\ Traps'
      BY <1>1, <1>3, <1>5, <1>7 DEF IInv, Terminal, Traps, Keeps, Given, Lead, Busy
    <1> QED
      BY <1>6, <1>8, <1>9, <1>10, <1>11, <1>12 DEF IInv

LEMMA JobReapKeeps ==
    ASSUME IInv, petrush_job_reap
    PROVE  IInv'
    <1>1. PICK g \in jobs : proc' = [proc EXCEPT ![g] = Absent] /\ jobs' = jobs \ {g}
      BY DEF petrush_job_reap
    <1>2. g \in Procs /\ proc[g].pos = 0
      BY <1>1, JobFacts DEF IInv, Copies
    <1>3. /\ proc' \in [Procs -> Process] /\ proc'[g] = Absent
          /\ \A r \in Procs : r # g => proc'[r] = proc[r]
          /\ \A p \in Everyone : code'[p] = code[p] => Owns(p, code[p])'
          /\ Grouped'
      BY <1>1, <1>2, RemovedFacts
    <1>4. UNCHANGED <<tty, code, disp, saved, trap, pending, gaps>>
          /\ code[Shell].at = "prompt"
      BY DEF petrush_job_reap, Signals, AtPrompt
    <1>5. TypeOK'
      BY <1>1, <1>3, <1>4, JobFacts DEF IInv, TypeOK
    <1>6. Owned'
      BY <1>3, <1>4 DEF Owned
    <1>7. Shapes' /\ Terminal' /\ Traps'
      BY <1>4 DEF IInv, Shapes, Terminal, Traps, Lead
    <1>8. Copies'
      BY <1>1, <1>3, <1>4, JobFacts DEF IInv, Copies, Absent
    <1> QED
      BY <1>3, <1>5, <1>6, <1>7, <1>8 DEF IInv

\* The children of a copy that ends are gone or orphans.
LEMMA CopyEndsFacts ==
    ASSUME IInv, NEW q \in Procs, CopyEnds(q)
    PROVE  /\ proc[q].st = "copy" /\ proc[q].parent = Shell /\ proc[q].pos = 0
           /\ q # Shell /\ q \in Everyone /\ Shell # Nobody
           /\ Ended({q})[q].st = "zombie" /\ Ended({q})[q].lead = proc[q].lead
           /\ Ended({q})[q].parent = Shell /\ Ended({q})[q].pos = 0
           /\ \A r \in Procs : r # q => Ended({q})[r] = proc[r]
           /\ \A r \in Procs :
                /\ proc'[r] \in Process
                /\ proc[r].parent # q => proc'[r] = Ended({q})[r]
                /\ proc[r].parent = q =>
                     \/ proc'[r] = Absent
                     \/ /\ proc'[r].st = proc[r].st /\ proc'[r].group = proc[r].group
                        /\ proc'[r].lead = proc[r].lead /\ proc'[r].pos = proc[r].pos
                        /\ proc'[r].parent = Nobody
    <1>1. /\ proc[q].st = "copy" /\ proc[q].parent = Shell /\ proc[q].pos = 0
          /\ q # Shell /\ q \in Everyone /\ Shell # Nobody
      BY EveryoneFacts DEF CopyEnds, IInv, Copies
    <1>2. /\ Ended({q}) \in [Procs -> Process] /\ Ended({q})[q].st = "zombie"
          /\ Ended({q})[q].lead = proc[q].lead
          /\ Ended({q})[q].parent = Shell /\ Ended({q})[q].pos = 0
          /\ \A r \in Procs : r # q => Ended({q})[r] = proc[r]
      BY <1>1, EndedFacts
    <1>3. ASSUME NEW r \in Procs
          PROVE  /\ proc'[r] \in Process
                 /\ proc[r].parent # q => proc'[r] = Ended({q})[r]
                 /\ proc[r].parent = q =>
                      \/ proc'[r] = Absent
                      \/ /\ proc'[r].st = proc[r].st /\ proc'[r].group = proc[r].group
                         /\ proc'[r].lead = proc[r].lead /\ proc'[r].pos = proc[r].pos
                         /\ proc'[r].parent = Nobody
      <2>1. proc[r] \in Process
        BY ProcFields DEF IInv
      <2>2. PICK x : x = [proc[r] EXCEPT !.parent = Nobody]
        OBVIOUS
      <2>3. x \in Process /\ x.st = proc[r].st /\ x.group = proc[r].group /\ x.lead = proc[r].lead
            /\ x.pos = proc[r].pos /\ x.parent = Nobody
        BY <2>1, <2>2 DEF Process
      <2>4. /\ proc[r].parent # q => proc'[r] = Ended({q})[r]
            /\ proc[r].parent = q => proc'[r] = Absent \/ proc'[r] = x
        BY <2>2 DEF CopyEnds
      <2> QED
        BY <2>3, <2>4, <1>2, AbsentFields
    <1> QED
      BY <1>1, <1>2, <1>3

LEMMA CopyEndsKeeps ==
    ASSUME IInv, NEW q \in Procs, CopyEnds(q)
    PROVE  IInv'
    <1>1. /\ proc[q].st = "copy" /\ proc[q].parent = Shell /\ proc[q].pos = 0
          /\ q # Shell /\ q \in Everyone /\ Shell # Nobody
      BY CopyEndsFacts
    <1>2. /\ Ended({q})[q].st = "zombie" /\ Ended({q})[q].parent = Shell
          /\ Ended({q})[q].pos = 0 /\ \A r \in Procs : r # q => Ended({q})[r] = proc[r]
      BY CopyEndsFacts
    <1>3. ASSUME NEW r \in Procs
          PROVE  /\ proc'[r] \in Process
                 /\ proc[r].parent # q => proc'[r] = Ended({q})[r]
                 /\ proc[r].parent = q =>
                      \/ proc'[r] = Absent
                      \/ proc'[r].st = proc[r].st /\ proc'[r].group = proc[r].group
                         /\ proc'[r].lead = proc[r].lead
      BY CopyEndsFacts
    <1>4. proc' \in [Procs -> Process]
      BY <1>3 DEF CopyEnds
    <1>5. /\ code' = [code EXCEPT ![q] = Idle]
          /\ UNCHANGED <<tty, jobs, disp, saved, trap, pending, gaps>>
      BY DEF CopyEnds, Signals
    <1>6. /\ code' \in [Everyone -> Code] /\ code'[q] = Idle
          /\ \A r \in Everyone : r # q => code'[r] = code[r]
      BY <1>1, <1>5, IdleFields DEF IInv, TypeOK
    <1>7. \A r \in jobs :
            /\ r \in Procs /\ proc'[r].st \in {"copy", "zombie"}
            /\ proc'[r].parent = Shell /\ proc'[r].pos = 0
      <2> SUFFICES ASSUME NEW r \in jobs
                   PROVE  /\ r \in Procs /\ proc'[r].st \in {"copy", "zombie"}
                          /\ proc'[r].parent = Shell /\ proc'[r].pos = 0
        OBVIOUS
      <2>1. r \in Procs /\ proc[r].parent = Shell /\ proc[r].pos = 0
            /\ proc[r].st \in {"copy", "zombie"}
        BY JobFacts DEF IInv, TypeOK, Copies
      <2>2. proc'[r] = Ended({q})[r]
        BY <2>1, <1>1, <1>3
      <2> QED
        BY <2>1, <2>2, <1>2
    <1>8. TypeOK'
      BY <1>4, <1>5, <1>6, <1>7 DEF IInv, TypeOK
    <1>9. Shapes'
      <2>1. Shaped(Idle)
        BY IdleFields DEF Shaped
      <2>2. \A p \in Everyone : Shaped(code'[p])
        BY <2>1, <1>6 DEF IInv, Shapes
      <2>3. \A p \in Procs : code'[p].at \notin {"capture", "reap"}
        BY <1>6, IdleFields, EveryoneFacts DEF IInv, Shapes
      <2> QED
        BY <2>2, <2>3, <1>1, <1>6, EveryoneFacts DEF IInv, Shapes, Shaped
    <1>10. Owned'
      <2> SUFFICES ASSUME NEW p \in Everyone PROVE Owns(p, code[p])'
        BY DEF Owned
      <2>1. CASE p = q
        BY <2>1, <1>6, IdleFields DEF Owns, Busy
      <2>2. CASE p # q
        <3>1. \A r \in Procs : proc[r].parent = p /\ proc[r].st \notin {"free", "copy"}
                                 => proc'[r] = proc[r]
          BY <2>2, <1>1, <1>2, <1>3
        <3> QED
          BY <2>2, <3>1, <1>6, OwnsStays
      <2> QED
        BY <2>1, <2>2
    <1>11. Copies'
      <2>1. ASSUME NEW r \in Procs, proc'[r].st = "copy"
            PROVE  proc'[r].parent = Shell /\ proc'[r].pos = 0
        <3>1. proc[r].parent # q
          BY <2>1, <1>1, <1>3 DEF IInv, Copies, Absent
        <3>2. proc'[r] = proc[r]
          BY <2>1, <3>1, <1>2, <1>3
        <3> QED
          BY <2>1, <3>2 DEF IInv, Copies
      <2>2. code[Shell].at \in {"capture", "reap"} =>
              /\ proc'[Lead(Shell)].st \in {"copy", "zombie"}
              /\ proc'[Lead(Shell)].parent = Shell /\ proc'[Lead(Shell)].pos = 0
        <3> SUFFICES ASSUME code[Shell].at \in {"capture", "reap"}
                     PROVE  /\ proc'[Lead(Shell)].st \in {"copy", "zombie"}
                            /\ proc'[Lead(Shell)].parent = Shell /\ proc'[Lead(Shell)].pos = 0
          OBVIOUS
        <3>1. Lead(Shell) \in Procs /\ proc[Lead(Shell)].parent = Shell
              /\ proc[Lead(Shell)].pos = 0 /\ proc[Lead(Shell)].st \in {"copy", "zombie"}
          BY JobFacts DEF IInv, Copies
        <3>2. proc'[Lead(Shell)] = Ended({q})[Lead(Shell)]
          BY <3>1, <1>1, <1>3
        <3> QED
          BY <3>1, <3>2, <1>2
      <2>3. code'[Shell] = code[Shell] /\ Lead(Shell)' = Lead(Shell)
        BY <1>1, <1>6, EveryoneFacts DEF Lead
      <2> QED
        BY <2>1, <2>2, <2>3, <1>5, <1>7 DEF IInv, Copies
    <1>12. Grouped'
      <2> SUFFICES ASSUME NEW r \in Procs
                   PROVE /\ proc'[r].st \in {"child", "program", "stopped"}
                              => proc'[r].lead # Shell
                         /\ proc'[r].st \in {"program", "stopped"}
                              => \/ proc'[r].group = proc'[r].lead
                                 \/ proc'[r].parent = Nobody /\ proc'[r].lead # r
        BY DEF Grouped
      <2>1. CASE proc[r].parent = q
        <3>1. q # Nobody
          BY <1>1, EveryoneFacts
        <3> QED
          BY <2>1, <3>1, <1>3 DEF IInv, Grouped, Absent
      <2>2. CASE proc[r].parent # q /\ r # q
        <3>1. proc'[r] = proc[r]
          BY <2>2, <1>2, <1>3
        <3> QED
          BY <3>1 DEF IInv, Grouped
      <2>3. CASE r = q
        <3>1. proc'[q].st = "zombie"
          BY <2>3, <1>1, <1>2, <1>3
        <3> QED
          BY <2>3, <3>1
      <2> QED
        BY <2>1, <2>2, <2>3
    <1>13. Terminal' /\ Traps'
      <2>1. code'[Shell] = code[Shell]
        BY <1>1, <1>6, EveryoneFacts
      <2> QED
        BY <2>1, <1>5 DEF IInv, Terminal, Traps, Lead
    <1> QED
      BY <1>8, <1>9, <1>10, <1>11, <1>12, <1>13 DEF IInv

-----------------------------------------------------------------------------
(* A child with a parent joins its group, before or after its program starts *)

\* Steps in which a child stays as it is, and so does whoever is about to move it.
LEMMA JoiningStays ==
    ASSUME IInv, Joining,
           \A q \in Procs : proc'[q].st = "child" /\ proc'[q].parent # Nobody =>
               /\ proc[q].st = "child" /\ proc'[q].group = proc[q].group
               /\ proc'[q].lead = proc[q].lead /\ proc'[q].parent = proc[q].parent
               /\ code[proc[q].parent].at = "group" =>
                      code'[proc[q].parent] = code[proc[q].parent]
    PROVE  Joining'
    <1> SUFFICES ASSUME NEW q \in Procs, proc'[q].st = "child", proc'[q].parent # Nobody
                 PROVE  \/ proc'[q].group = proc'[q].lead \/ proc'[q].lead = q
                        \/ /\ code'[proc'[q].parent].at = "group"
                           /\ q = code'[proc'[q].parent].stages[Len(code'[proc'[q].parent].stages)]
      BY DEF Joining, Current
    <1>1. /\ proc[q].st = "child" /\ proc'[q].group = proc[q].group
          /\ proc'[q].lead = proc[q].lead /\ proc'[q].parent = proc[q].parent
          /\ code[proc[q].parent].at = "group" =>
                 code'[proc[q].parent] = code[proc[q].parent]
      OBVIOUS
    <1> QED
      BY <1>1 DEF Joining, Current

\* p goes on, but does not move a child; no child is new and no copy ends.
LEMMA JoiningCode ==
    ASSUME IInv, Joining, Running, NEW p \in Everyone, NEW c,
           code' = [code EXCEPT ![p] = c],
           \/ c = code[p]
           \/ /\ code[p].at \notin {"none", "group"}
              /\ p = Shell => c.at \notin {"capture", "reap"},
           \A r \in Procs : \/ proc'[r] = proc[r]
                            \/ proc[r].st # "copy" /\ proc'[r].st \notin {"child", "copy"}
    PROVE  Joining' /\ Running'
    <1>1. code'[p] = c /\ \A r \in Everyone : r # p => code'[r] = code[r]
      BY DEF IInv, TypeOK
    <1>2. Joining'
      <2> SUFFICES ASSUME NEW q \in Procs, proc'[q].st = "child", proc'[q].parent # Nobody
                   PROVE  /\ proc[q].st = "child" /\ proc'[q].group = proc[q].group
                          /\ proc'[q].lead = proc[q].lead /\ proc'[q].parent = proc[q].parent
                          /\ code[proc[q].parent].at = "group" =>
                                 code'[proc[q].parent] = code[proc[q].parent]
        BY JoiningStays
      <2>1. proc'[q] = proc[q]
        OBVIOUS
      <2>2. proc[q].parent \in Everyone
        BY <2>1, ProcFields DEF IInv
      <2>3. code[proc[q].parent].at = "group" => code'[proc[q].parent] = code[proc[q].parent]
        BY <1>1, <2>2
      <2> QED
        BY <2>1, <2>3
    <1>3. ASSUME NEW q \in Procs, proc'[q].st # "copy" PROVE code'[q].at = "none"
      <2>1. proc[q].st # "copy" /\ code[q].at = "none" /\ q \in Everyone
        BY <1>3, EveryoneFacts DEF Running
      <2> QED
        BY <1>1, <2>1
    <1>4. CASE code'[Shell] = code[Shell] /\ code[Shell].at \in {"capture", "reap"}
      <2>1. Lead(Shell)' = Lead(Shell) /\ Lead(Shell) \in Procs
        BY <1>4, JobFacts DEF Lead
      <2>2. proc'[Lead(Shell)].st = "copy" => proc'[Lead(Shell)] = proc[Lead(Shell)]
        BY <2>1
      <2> QED
        BY <1>2, <1>3, <1>4, <2>1, <2>2 DEF Running
    <1>5. CASE ~(code'[Shell] = code[Shell] /\ code[Shell].at \in {"capture", "reap"})
      <2>1. code'[Shell].at \notin {"capture", "reap"}
        BY <1>1, <1>5, EveryoneFacts
      <2> QED
        BY <1>2, <1>3, <2>1 DEF Running
    <1> QED
      BY <1>4, <1>5

LEMMA JoiningFork ==
    ASSUME IInv, Joining, Running, NEW p \in Everyone, Fork(p)
    PROVE  Joining' /\ Running'
    <1> DEFINE s == code[p].stages
    <1>1. PICK q \in Procs :
            /\ Fresh(q)
            /\ proc' = [proc EXCEPT ![q] =
                 [st |-> "child", group |-> GroupOf(p), parent |-> p,
                  lead |-> IF Len(s) + 1 = 1 THEN q ELSE Lead(p), pos |-> Len(s) + 1,
                  input |-> code[p].input /\ Len(s) + 1 = 1 /\ p \notin jobs,
                  out |-> p # Shell /\ proc[p].out]]
            /\ code' = [code EXCEPT ![p].at = "group", ![p].stages = Append(@, q)]
      BY DEF Fork
    <1>2. PICK c : c = [code[p] EXCEPT !.at = "group", !.stages = Append(s, q)]
      OBVIOUS
    <1>3. code[p] \in Code /\ s \in Seq(Procs) /\ code[p].at = "fork" /\ proc[q].st = "free"
      BY <1>1, CodeFields DEF IInv, Fork, Fresh
    <1>4. c.at = "group" /\ c.stages = Append(s, q)
      BY <1>2, <1>3 DEF Code
    <1>5. code'[p] = c /\ \A r \in Everyone : r # p => code'[r] = code[r]
      BY <1>1, <1>2 DEF IInv, TypeOK
    <1>6. /\ proc'[q].st = "child" /\ proc'[q].parent = p
          /\ \A r \in Procs : r # q => proc'[r] = proc[r]
      BY <1>1 DEF IInv, TypeOK
    <1>7. Newest(code'[p]) = q
      <2>1. Len(c.stages) = Len(s) + 1 /\ c.stages[Len(s) + 1] = q
        BY <1>3, <1>4, Appended
      <2> QED
        BY <1>5, <2>1 DEF Newest
    <1>8. Joining'
      <2> SUFFICES ASSUME NEW r \in Procs, proc'[r].st = "child", proc'[r].parent # Nobody
                   PROVE  \/ proc'[r].group = proc'[r].lead \/ proc'[r].lead = r
                          \/ /\ code'[proc'[r].parent].at = "group"
                             /\ r = Newest(code'[proc'[r].parent])
        BY DEF Joining, Current, Newest
      <2>1. CASE r = q
        BY <2>1, <1>4, <1>5, <1>6, <1>7
      <2>2. CASE r # q /\ proc[r].parent = p
        BY <2>2, <1>3, <1>6 DEF Joining
      <2>3. CASE r # q /\ proc[r].parent # p
        <3>1. proc'[r] = proc[r] /\ proc[r].parent \in Everyone
          BY <2>3, <1>6, ProcFields DEF IInv
        <3>2. code'[proc[r].parent] = code[proc[r].parent]
          BY <2>3, <3>1, <1>5
        <3> QED
          BY <3>1, <3>2 DEF Joining, Current, Newest
      <2> QED
        BY <2>1, <2>2, <2>3
    <1>9. ASSUME NEW r \in Procs, proc'[r].st # "copy" PROVE code'[r].at = "none"
      <2>1. proc[r].st # "copy" /\ code[r].at = "none" /\ r \in Everyone
        BY <1>3, <1>6, <1>9, EveryoneFacts DEF Running
      <2> QED
        BY <1>3, <1>5, <2>1
    <1>10. code'[Shell].at \in {"capture", "reap"} =>
             /\ code'[Shell] = code[Shell] /\ Lead(Shell)' = Lead(Shell)
             /\ proc'[Lead(Shell)] = proc[Lead(Shell)]
      <2>1. code'[Shell].at \in {"capture", "reap"} => code'[Shell] = code[Shell]
        BY <1>4, <1>5, EveryoneFacts
      <2>2. code[Shell].at \in {"capture", "reap"} =>
              Lead(Shell) \in Procs /\ Lead(Shell) # q
        BY <1>3, JobFacts DEF IInv, Copies
      <2> QED
        BY <2>1, <2>2, <1>6 DEF Lead
    <1> QED
      BY <1>8, <1>9, <1>10 DEF Running

\* The parent's setpgid puts the child into its group.
LEMMA JoiningSetGroup ==
    ASSUME IInv, Joining, Running, NEW p \in Everyone, SetGroup(p)
    PROVE  Joining' /\ Running'
    <1> DEFINE q == Current(p)
               s == code[p].stages
    <1>1. /\ code[p].at = "group" /\ Len(s) \in code[p].waited + 1..Len(s)
          /\ code[p].n \in 1..N /\ Len(s) \in 1..code[p].n /\ q = s[Len(s)]
      BY CodeFields DEF SetGroup, IInv, Shapes, Shaped, Current
    <1>2. Stage(p, code[p], Len(s)) /\ q \in Procs
      BY <1>1, StageFacts DEF Busy
    <1>3. proc[q].lead = Lead(p)
      BY <1>1, <1>2 DEF Stage, Lead
    <1>4. PICK c \in Code : /\ code' = [code EXCEPT ![p] = c] /\ c.at = AfterGroup(code[p])
      BY <1>1, MovedAt DEF SetGroup, AfterGroup, Points, IInv
    <1>5. /\ code'[p] = c /\ \A r \in Everyone : r # p => code'[r] = code[r]
          /\ c.at \in {"give", "fork", "close"}
      BY <1>4 DEF IInv, TypeOK, AfterGroup
    <1>6. /\ proc'[q] = [proc[q] EXCEPT !.group = Lead(p)] /\ proc[q] \in Process
          /\ \A r \in Procs : r # q => proc'[r] = proc[r]
      BY <1>2, ProcFields DEF SetGroup, IInv, TypeOK
    <1> HIDE DEF q
    <1>7. /\ proc'[q].group = Lead(p) /\ proc'[q].lead = proc[q].lead
          /\ proc'[q].st = proc[q].st /\ proc'[q].out = proc[q].out
      BY <1>6 DEF Process
    <1>8. Joining'
      <2> SUFFICES ASSUME NEW r \in Procs, r # q, proc[r].st = "child", proc[r].parent # Nobody
                   PROVE  \/ proc[r].group = proc[r].lead \/ proc[r].lead = r
                          \/ /\ code'[proc[r].parent].at = "group"
                             /\ r = Newest(code'[proc[r].parent])
        BY <1>3, <1>6, <1>7 DEF Joining, Current, Newest
      <2>1. CASE proc[r].parent = p
        BY <2>1, <1>1 DEF Joining, q
      <2>2. CASE proc[r].parent # p
        <3>1. proc[r].parent \in Everyone
          BY ProcFields DEF IInv
        <3>2. code'[proc[r].parent] = code[proc[r].parent]
          BY <2>2, <3>1, <1>5
        <3> QED
          BY <3>2 DEF Joining, Current, Newest
      <2> QED
        BY <2>1, <2>2
    <1>9. ASSUME NEW r \in Procs, proc'[r].st # "copy" PROVE code'[r].at = "none"
      <2>1. proc[r].st # "copy" /\ r \in Everyone
        BY <1>6, <1>7, <1>9, EveryoneFacts
      <2>2. code[r].at = "none"
        BY <2>1 DEF Running
      <2> QED
        BY <1>1, <1>5, <2>1, <2>2
    <1>10. code'[Shell].at \in {"capture", "reap"} =>
             /\ code'[Shell] = code[Shell] /\ Lead(Shell)' = Lead(Shell)
             /\ proc'[Lead(Shell)].st = proc[Lead(Shell)].st
             /\ proc'[Lead(Shell)].out = proc[Lead(Shell)].out
      <2>1. code'[Shell].at \in {"capture", "reap"} => code'[Shell] = code[Shell]
        BY <1>5, EveryoneFacts
      <2>2. code[Shell].at \in {"capture", "reap"} => Lead(Shell) \in Procs
        BY JobFacts
      <2> QED
        BY <2>1, <2>2, <1>6, <1>7 DEF Lead
    <1> QED
      BY <1>8, <1>9, <1>10 DEF Running

LEMMA JoiningCodeStep ==
    ASSUME IInv, Joining, Running, NEW p \in Everyone, CodeStep(p)
    PROVE  Joining' /\ Running'
    <1>1. CASE ForkFails(p) \/ Restore(p)
      <2>1. PICK c : c = [Idle EXCEPT !.at = Home(p)]
        OBVIOUS
      <2>2. c.at = Home(p) /\ Home(p) \notin {"capture", "reap"}
        BY <2>1, IdleAt DEF Home, Points
      <2>3. code' = [code EXCEPT ![p] = c] /\ proc' = proc
            /\ code[p].at \notin {"none", "group"}
        BY <1>1, <2>1 DEF ForkFails, Restore, Done
      <2> QED
        BY <2>2, <2>3, JoiningCode
    <1>2. CASE give_terminal_to(p) \/ Poll(p) \/ take_terminal_back(p)
      <2>1. PICK a \in {"fork", "close", "take", "restore"} : Goto(p, a) /\ proc' = proc
        BY <1>2 DEF give_terminal_to, Poll, take_terminal_back
      <2>2. PICK c \in Code : code' = [code EXCEPT ![p] = c] /\ c.at = a
        BY <2>1, MovedAt DEF Points, IInv
      <2>3. code[p].at \notin {"none", "group"}
        BY <1>2 DEF give_terminal_to, Poll, take_terminal_back
      <2> QED
        BY <2>1, <2>2, <2>3, JoiningCode
    <1>3. CASE Close(p)
      <2>1. PICK c : c = [code[p] EXCEPT !.at = "wait", !.open = FALSE]
        OBVIOUS
      <2>2. code' = [code EXCEPT ![p] = c] /\ proc' = proc /\ code[p].at = "close"
        BY <1>3, <2>1 DEF Close
      <2>3. c.at = "wait"
        BY <2>1, CodeFields DEF IInv, Code
      <2> QED
        BY <2>2, <2>3, JoiningCode
    <1>4. CASE WaitStage(p)
      <2>1. code[p].at = "wait" /\ code[p] \in Code
        BY <1>4, CodeFields DEF WaitStage, IInv
      <2> DEFINE k == code[p].waited + 1
      <2>2. PICK c : c = [code[p] EXCEPT !.waited = k,
                            !.at = IF k = code[p].n THEN "poll" ELSE "wait"]
        OBVIOUS
      <2>3. code' = [code EXCEPT ![p] = c]
        BY <1>4, <2>1, <2>2 DEF WaitStage
      <2>4. c.at \in {"poll", "wait"}
        BY <2>1, <2>2 DEF Code
      <2>5. \A r \in Procs : proc'[r] = proc[r] \/ (proc[r].st = "zombie" /\ proc'[r] = Absent)
        BY <1>4 DEF WaitStage, IInv, TypeOK
      <2>6. Absent.st = "free"
        BY DEF Absent
      <2> QED
        BY <2>1, <2>3, <2>4, <2>5, <2>6, JoiningCode
    <1> QED
      BY <1>1, <1>2, <1>3, <1>4, JoiningFork, JoiningSetGroup DEF CodeStep

\* Children and the user move, and nobody who runs shell code does.
LEMMA JoiningChildMoves ==
    ASSUME IInv, Joining, Running, ChildMoves
    PROVE  Joining' /\ Running'
    <1>1. code' = [code EXCEPT ![Shell] = code[Shell]] /\ Shell \in Everyone
      BY ChildMovesCarry, EveryoneFacts DEF IInv, TypeOK
    <1>2. ASSUME NEW r \in Procs
          PROVE  \/ proc'[r] = proc[r]
                 \/ proc[r].st # "copy" /\ proc'[r].st \notin {"child", "copy"}
      <2>1. Carries(r)
        BY ChildMovesCarry
      <2> QED
        BY <2>1 DEF Carries, Absent
    <1> QED
      BY <1>1, <1>2, JoiningCode

\* A new copy is no child.
LEMMA JoiningCopied ==
    ASSUME IInv, Joining, Running, petrush_run_cmdsubst \/ dispatch_pipeline_background
    PROVE  Joining' /\ Running'
    <1>1. PICK q \in Procs, g \in Everyone, a \in BOOLEAN, b \in BOOLEAN :
            /\ Fresh(q) /\ proc' = [proc EXCEPT ![q] = Copy(q, g, a, b)]
            /\ \A r \in Procs : r # q => code'[r] = code[r]
            /\ \/ code'[Shell] = code[Shell]
               \/ b /\ code'[Shell].at = "capture" /\ Lead(Shell)' = q
            /\ code[Shell].at = "prompt"
      <2>1. CASE petrush_run_cmdsubst
        <3>1. PICK q \in Procs :
                /\ Fresh(q)
                /\ proc' = [proc EXCEPT ![q] = Copy(q, Shell, TRUE, TRUE)]
                /\ code' = [code EXCEPT ![q] = [Idle EXCEPT !.at = "prompt"],
                                        ![Shell].at = "capture", ![Shell].stages = <<q>>]
          BY <2>1 DEF petrush_run_cmdsubst
        <3>2. code[Shell] \in Code /\ Shell \in Everyone /\ q # Shell /\ q \in Everyone
          BY CodeFields, EveryoneFacts DEF IInv
        <3>3. PICK c, d : /\ c = [Idle EXCEPT !.at = "prompt"]
                          /\ d = [code[Shell] EXCEPT !.at = "capture", !.stages = <<q>>]
          OBVIOUS
        <3>4. code' = [code EXCEPT ![q] = c, ![Shell] = d]
          BY <3>1, <3>2, <3>3 DEF IInv, TypeOK
        <3>5. code'[Shell] = d /\ \A r \in Procs : r # q => code'[r] = code[r]
          BY <3>2, <3>4, EveryoneFacts DEF IInv, TypeOK
        <3>6. d.at = "capture" /\ d.stages = <<q>> /\ <<q>>[1] = q
          BY <3>2, <3>3 DEF Code
        <3>7. Lead(Shell)' = q
          BY <3>5, <3>6 DEF Lead
        <3> QED
          BY <2>1, <3>1, <3>2, <3>5, <3>6, <3>7 DEF petrush_run_cmdsubst, AtPrompt
      <2>2. CASE dispatch_pipeline_background
        <3>1. PICK q \in Procs, input \in BOOLEAN :
                /\ Fresh(q)
                /\ proc' = [proc EXCEPT ![q] = Copy(q, q, input, FALSE)]
                /\ code' = [code EXCEPT ![q] = [Idle EXCEPT !.at = "prompt", !.input = input]]
          BY <2>2 DEF dispatch_pipeline_background
        <3>2. code'[Shell] = code[Shell] /\ \A r \in Procs : r # q => code'[r] = code[r]
          BY <3>1, EveryoneFacts DEF IInv, TypeOK
        <3> QED
          BY <2>2, <3>1, <3>2, EveryoneFacts DEF dispatch_pipeline_background, AtPrompt
      <2> QED
        BY <2>1, <2>2
    <1>2. /\ Copy(q, g, a, b).st = "copy" /\ Copy(q, g, a, b).out = b
      BY DEF Copy
    <1>3. /\ proc'[q].st = "copy" /\ proc'[q].out = b /\ proc[q].st = "free"
          /\ \A r \in Procs : r # q => proc'[r] = proc[r]
      BY <1>1, <1>2 DEF IInv, TypeOK, Fresh
    <1>4. code[q].at = "none"
      BY <1>3 DEF Running
    <1>5. Joining'
      <2> SUFFICES ASSUME NEW r \in Procs, proc'[r].st = "child", proc'[r].parent # Nobody
                   PROVE  /\ proc[r].st = "child" /\ proc'[r].group = proc[r].group
                          /\ proc'[r].lead = proc[r].lead /\ proc'[r].parent = proc[r].parent
                          /\ code[proc[r].parent].at = "group" =>
                                 code'[proc[r].parent] = code[proc[r].parent]
        BY JoiningStays
      <2>1. proc'[r] = proc[r]
        BY <1>3
      <2>2. proc[r].parent \in Everyone
        BY <2>1, ProcFields DEF IInv
      <2>3. code[proc[r].parent].at = "group" => code'[proc[r].parent] = code[proc[r].parent]
        BY <1>1, <1>4, <2>2, EveryoneFacts
      <2> QED
        BY <2>1, <2>3
    <1>6. ASSUME NEW r \in Procs, proc'[r].st # "copy" PROVE code'[r].at = "none"
      BY <1>1, <1>3, <1>6 DEF Running
    <1> QED
      BY <1>1, <1>3, <1>5, <1>6 DEF Running

\* The output is read to its end only when the copy has ended.
LEMMA JoiningReaped ==
    ASSUME IInv, Joining, Running, Captured \/ CopyReaped \/ petrush_job_reap
    PROVE  Joining' /\ Running'
    <1>1. Absent.st = "free" /\ Shell \in Everyone
      BY EveryoneFacts DEF Absent
    <1>2. CASE Captured
      <2>1. /\ code[Shell].at = "capture" /\ Goto(Shell, "reap") /\ proc' = proc
            /\ Lead(Shell) \in Procs
        BY <1>2, JobFacts DEF Captured
      <2>2. proc[Lead(Shell)].st # "copy"
        BY <1>2, <2>1 DEF Captured, Alive, Running
      <2>3. PICK c \in Code : /\ code' = [code EXCEPT ![Shell] = c] /\ c.at = "reap"
                              /\ c.stages = code[Shell].stages
        BY <1>1, <2>1, MovedAt DEF Points, IInv
      <2>4. code'[Shell] = c /\ \A r \in Everyone : r # Shell => code'[r] = code[r]
        BY <1>1, <2>3 DEF IInv, TypeOK
      <2>5. Lead(Shell)' = Lead(Shell)
        BY <2>3, <2>4 DEF Lead
      <2>6. Joining'
        <3> SUFFICES ASSUME NEW r \in Procs, proc[r].st = "child", proc[r].parent # Nobody,
                            code[proc[r].parent].at = "group"
                     PROVE  code'[proc[r].parent] = code[proc[r].parent]
          BY <2>1, JoiningStays
        <3>1. proc[r].parent \in Everyone
          BY ProcFields DEF IInv
        <3> QED
          BY <2>1, <2>4, <3>1
      <2>7. \A r \in Procs : proc'[r].st # "copy" => code'[r].at = "none"
        BY <2>1, <2>4, EveryoneFacts DEF Running
      <2> QED
        BY <2>1, <2>2, <2>3, <2>4, <2>5, <2>6, <2>7 DEF Running
    <1>3. CASE CopyReaped
      <2>1. PICK c : c = [Idle EXCEPT !.at = Home(Shell)]
        OBVIOUS
      <2>2. c.at = "prompt"
        BY <2>1, IdleAt DEF Home, Points
      <2>3. /\ code' = [code EXCEPT ![Shell] = c] /\ code[Shell].at = "reap"
            /\ proc' = [proc EXCEPT ![Lead(Shell)] = Absent] \/ proc' = proc
        BY <1>3, <2>1 DEF CopyReaped, Done
      <2>4. Lead(Shell) \in Procs /\ proc[Lead(Shell)].st # "copy"
        BY <2>3, JobFacts DEF Running
      <2>5. \A r \in Procs : \/ proc'[r] = proc[r]
                             \/ proc[r].st # "copy" /\ proc'[r] = Absent
        BY <2>3, <2>4 DEF IInv, TypeOK
      <2> QED
        BY <1>1, <2>2, <2>3, <2>5, JoiningCode
    <1>4. CASE petrush_job_reap
      <2>1. /\ code' = [code EXCEPT ![Shell] = code[Shell]]
            /\ \A r \in Procs : proc'[r] = proc[r] \/ (proc[r].st = "zombie" /\ proc'[r] = Absent)
        BY <1>1, <1>4 DEF petrush_job_reap, IInv, TypeOK
      <2> QED
        BY <1>1, <2>1, JoiningCode
    <1> QED
      BY <1>2, <1>3, <1>4

\* The children of a copy that ends have no parent any more.
LEMMA JoiningCopyEnds ==
    ASSUME IInv, Joining, Running, NEW q \in Procs, CopyEnds(q)
    PROVE  Joining' /\ Running'
    <1>1. /\ q # Shell /\ q \in Everyone /\ proc[q].parent = Shell /\ Shell # Nobody
          /\ \A r \in Procs : r # q => Ended({q})[r] = proc[r]
          /\ Ended({q})[q].st = "zombie"
          /\ \A r \in Procs :
               /\ proc[r].parent # q => proc'[r] = Ended({q})[r]
               /\ proc[r].parent = q =>
                    \/ proc'[r] = Absent
                    \/ proc'[r].st = proc[r].st /\ proc'[r].parent = Nobody
      BY CopyEndsFacts
    <1>2. /\ code'[q] = Idle /\ Idle.at = "none"
          /\ \A r \in Everyone : r # q => code'[r] = code[r]
      BY <1>1, IdleFields DEF CopyEnds, IInv, TypeOK
    <1>3. /\ Absent.st = "free"
          /\ \A r \in Procs : r # q /\ proc[r].parent # q => proc'[r] = proc[r]
          /\ proc'[q].st = "zombie"
      BY <1>1 DEF Absent
    <1>4. Joining'
      <2> SUFFICES ASSUME NEW r \in Procs, proc'[r].st = "child", proc'[r].parent # Nobody
                   PROVE  /\ proc[r].st = "child" /\ proc'[r].group = proc[r].group
                          /\ proc'[r].lead = proc[r].lead /\ proc'[r].parent = proc[r].parent
                          /\ code[proc[r].parent].at = "group" =>
                                 code'[proc[r].parent] = code[proc[r].parent]
        BY JoiningStays
      <2>1. r # q /\ proc[r].parent # q
        BY <1>1, <1>3
      <2>2. proc'[r] = proc[r] /\ proc[r].parent \in Everyone
        BY <1>3, <2>1, ProcFields DEF IInv
      <2> QED
        BY <1>2, <2>1, <2>2
    <1>5. ASSUME NEW r \in Procs, proc'[r].st # "copy" PROVE code'[r].at = "none"
      <2>1. CASE r = q
        BY <1>2, <2>1
      <2>2. CASE r # q
        <3>1. proc[r].st # "copy"
          BY <1>1, <1>3, <1>5, <2>2, EveryoneFacts DEF IInv, Copies
        <3> QED
          BY <1>2, <2>2, <3>1, EveryoneFacts DEF Running
      <2> QED
        BY <2>1, <2>2
    <1>6. /\ code'[Shell] = code[Shell] /\ Lead(Shell)' = Lead(Shell)
          /\ code[Shell].at \in {"capture", "reap"} =>
               \/ proc'[Lead(Shell)] = proc[Lead(Shell)]
               \/ proc'[Lead(Shell)].st = "zombie"
      <2>1. code'[Shell] = code[Shell]
        BY <1>1, <1>2, EveryoneFacts
      <2>2. code[Shell].at \in {"capture", "reap"} =>
              Lead(Shell) \in Procs /\ proc[Lead(Shell)].parent = Shell
        BY JobFacts DEF IInv, Copies
      <2> QED
        BY <1>1, <1>3, <2>1, <2>2 DEF Lead
    <1> QED
      BY <1>4, <1>5, <1>6 DEF Running

LEMMA InitJoining == Init => Joining /\ Running
    BY EveryoneFacts, IdleFields DEF Init, Joining, Running, Absent, Idle

LEMMA NextJoining == IInv /\ Joining /\ Running /\ [Next]_vars => Joining' /\ Running'
    <1> SUFFICES ASSUME IInv, Joining, Running, [Next]_vars PROVE Joining' /\ Running'
      OBVIOUS
    <1>1. ASSUME NEW p \in Everyone, CodeStep(p) PROVE Joining' /\ Running'
      BY <1>1, JoiningCodeStep
    <1>2. CASE ChildMoves
      BY <1>2, JoiningChildMoves
    <1>3. ASSUME NEW p \in Everyone, NEW n \in {1, N}, Begin(p, n), code[p].at = "prompt"
          PROVE  Joining' /\ Running'
      <2>1. PICK c : c = [code[p] EXCEPT !.at = "fork", !.n = n, !.open = (n # 1)]
        OBVIOUS
      <2>2. code' = [code EXCEPT ![p] = c] /\ proc' = proc
        BY <1>3, <2>1 DEF Begin
      <2>3. c.at = "fork"
        BY <2>1, CodeFields DEF IInv, Code
      <2> QED
        BY <1>3, <2>2, <2>3, JoiningCode
    <1>4. CASE PollInWait \/ Signal \/ builtin_trap \/ UNCHANGED vars
      <2>1. proc' = proc /\ code' = code
        BY <1>4 DEF PollInWait, Signal, builtin_trap, vars
      <2>2. code' = [code EXCEPT ![Shell] = code[Shell]] /\ Shell \in Everyone
        BY <2>1, EveryoneFacts DEF IInv, TypeOK
      <2> QED
        BY <2>1, <2>2, JoiningCode
    <1>5. CASE \/ petrush_run_cmdsubst \/ Captured \/ CopyReaped
               \/ dispatch_pipeline_background \/ petrush_job_reap
               \/ \E q \in Procs : CopyEnds(q)
      BY <1>5, JoiningCopied, JoiningReaped, JoiningCopyEnds
    <1> QED
      BY <1>1, <1>2, <1>3, <1>4, <1>5, EveryoneFacts
      DEF Next, ChildStep, ChildMoves, CopyRuns, Line, AtPrompt

-----------------------------------------------------------------------------
(* The invariant *)

LEMMA InitIInv == Init => IInv
    <1> SUFFICES ASSUME Init PROVE IInv
      OBVIOUS
    <1>1. PICK c : c = [Idle EXCEPT !.at = "prompt"]
      OBVIOUS
    <1>2. c \in Code /\ c.at = "prompt" /\ c.stages = <<>> /\ c.waited = 0 /\ c.input = TRUE
      BY <1>1, IdleAt DEF Points
    <1>3. code = [p \in Everyone |-> IF p = Shell THEN c ELSE Idle]
      BY <1>1 DEF Init
    <1>4. /\ code \in [Everyone -> Code] /\ code[Shell] = c
          /\ \A p \in Everyone : code[p] \in {c, Idle}
          /\ \A p \in Procs : code[p] = Idle
      BY <1>2, <1>3, IdleFields, EveryoneFacts
    <1>5. \A q \in Procs : proc[q] = Absent
      BY DEF Init
    <1>6. TypeOK
      BY <1>4, AbsentFields, EveryoneFacts DEF Init, TypeOK, Gaps
    <1>7. Shapes
      <2>1. Shaped(c) /\ Shaped(Idle)
        BY <1>2, IdleFields DEF Shaped
      <2>2. \A p \in Everyone : Shaped(code[p])
        BY <2>1, <1>4
      <2>3. \A p \in Procs : code[p].at \notin {"capture", "reap"}
        BY <1>4, IdleFields
      <2> QED
        BY <2>2, <2>3, <1>2, <1>4 DEF Shapes, Shaped
    <1>8. Owned
      BY <1>2, <1>4, IdleFields DEF Owned, Owns, Busy
    <1>9. Copies /\ Grouped
      BY <1>2, <1>4, <1>5 DEF Init, Copies, Grouped, Absent
    <1>10. Terminal /\ Traps
      BY <1>2, <1>4 DEF Init, Terminal, Traps, Keeps, Given, Busy, Disposition
    <1> QED
      BY <1>6, <1>7, <1>8, <1>9, <1>10 DEF IInv

LEMMA NextIInv == IInv /\ Joining /\ [Next]_vars => IInv'
    <1> SUFFICES ASSUME IInv, Joining, [Next]_vars PROVE IInv'
      OBVIOUS
    <1>1. ASSUME NEW p \in Everyone, CodeStep(p) PROVE IInv'
      BY <1>1, ForkKeeps, ForkFailsKeeps, SetGroupKeeps, GiveKeeps, CloseKeeps, WaitKeeps,
         PollKeeps, TakeKeeps, RestoreKeeps DEF CodeStep
    <1>2. ASSUME NEW q \in Procs, ChildStep(q) \/ ProgramReads(q) \/ CopyEnds(q) PROVE IInv'
      BY <1>2, ChildMovesKeep, CopyEndsKeeps DEF ChildStep, ChildMoves
    <1>3. 1 \in 1..N /\ N \in 1..N
      BY ForegroundAssumption
    <1>4. ASSUME NEW q \in Procs, NEW n \in {1, N}, CopyRuns(q, n) PROVE IInv'
      BY <1>3, <1>4, BeginKeeps, EveryoneFacts DEF CopyRuns
    <1>5. ASSUME NEW n \in {1, N}, Line(n) PROVE IInv'
      BY <1>3, <1>5, BeginKeeps, EveryoneFacts DEF Line, AtPrompt
    <1>6. CASE PollInWait
      BY <1>6, PollInWaitKeeps
    <1>7. CASE Interrupt
      BY <1>7, ChildMovesKeep DEF ChildMoves
    <1>8. CASE Signal \/ builtin_trap
      BY <1>8, SignalKeeps
    <1>9. CASE petrush_run_cmdsubst \/ Captured \/ CopyReaped
      BY <1>9, SubstKeeps, CapturedKeeps, CopyReapedKeeps
    <1>10. CASE dispatch_pipeline_background \/ petrush_job_reap
      BY <1>10, BackgroundKeeps, JobReapKeeps
    <1>11. CASE UNCHANGED vars
      <2>1. UNCHANGED <<tty, proc, code, jobs, disp, saved, trap, pending, gaps>>
        BY <1>11 DEF vars
      <2>2. TypeOK' /\ Shapes' /\ Copies' /\ Grouped' /\ Terminal' /\ Traps'
        BY <2>1 DEF IInv, TypeOK, Shapes, Copies, Grouped, Terminal, Traps, Lead
      <2>3. Owned'
        BY <2>1 DEF IInv, Owned, Owns, Stage
      <2> QED
        BY <2>2, <2>3 DEF IInv
    <1> QED
      BY <1>1, <1>2, <1>4, <1>5, <1>6, <1>7, <1>8, <1>9, <1>10, <1>11 DEF Next

LEMMA SpecIInv == Spec => [](IInv /\ Joining /\ Running)
    BY InitIInv, NextIInv, InitJoining, NextJoining, PTL DEF Spec

-----------------------------------------------------------------------------
(* The theorems *)

\* Every variable has its type: the table of jobs holds processes that exist,
\* copies of the shell that run or have ended (dispatch_pipeline_background
\* and petrush_job_reap).
THEOREM ForegroundTypes == Spec => []TypeOK
    <1>1. IInv => TypeOK
      BY DEF IInv
    <1> QED
      BY <1>1, SpecIInv, PTL

\* The stages that execute_pipeline_with_hook still waits for are the shell's
\* own children, all in the group of the first whichever of the two setpgid
\* came first, and that group has the terminal.
THEOREM ForegroundTogetherHolds == Spec => []ForegroundTogether
    <1>1. IInv => ForegroundTogether
      <2> SUFFICES ASSUME IInv, code[Shell].at = "wait" PROVE ForegroundTogether
        BY DEF ForegroundTogether
      <2>1. Len(code[Shell].stages) = code[Shell].n /\ Shell \in Everyone
        BY EveryoneFacts DEF IInv, Shapes, Shaped
      <2>2. ASSUME NEW i \in code[Shell].waited + 1..code[Shell].n
            PROVE  LET q == code[Shell].stages[i]
                   IN  /\ proc[q].parent = Shell /\ proc[q].st # "free"
                       /\ proc[q].group = Lead(Shell)
        <3>1. Stage(Shell, code[Shell], i)
          BY <2>1, <2>2, StageFacts DEF Busy
        <3> QED
          BY <3>1 DEF Stage, Lead
      <2>3. "tty" \notin gaps => tty = Lead(Shell)
        BY DEF IInv, Terminal, Given
      <2> QED
        BY <2>2, <2>3 DEF ForegroundTogether
    <1> QED
      BY <1>1, SpecIInv, PTL

\* A program that pipeline_child or execute_external has started is not in the
\* group of the shell, though only one of parent and child may have called
\* setpgid by then; but an orphan may have come too late for its group.
THEOREM ProgramsApartHolds == Spec => []ProgramsApart
    <1>1. IInv => ProgramsApart
      BY DEF IInv, Grouped, ProgramsApart
    <1> QED
      BY <1>1, SpecIInv, PTL

\* take_terminal_back: at the prompt the terminal is the shell's, unless a
\* copy has taken it, a fork has failed or an action has run a command.
THEOREM TerminalHomeHolds == Spec => []TerminalHome
    <1>1. IInv => TerminalHome
      BY DEF IInv, Terminal, Keeps, AtPrompt, TerminalHome
    <1> QED
      BY <1>1, SpecIInv, PTL

\* pipeline_restore_signals: at the prompt INT does what its trap says, unless
\* an action has changed the trap during a wait.
THEOREM DispositionsReturnHolds == Spec => []DispositionsReturn
    <1>1. IInv => DispositionsReturn
      BY DEF IInv, Traps, Busy, AtPrompt, DispositionsReturn
    <1> QED
      BY <1>1, SpecIInv, PTL

-----------------------------------------------------------------------------
(* Who can go on while the shell waits *)

\* The points at which the shell has stages that it has not all waited for.
Piping == {"fork", "group", "give", "close", "wait"}
Started == code[Shell].at \in Piping /\ code[Shell].stages # <<>>

\* Whoever has the leader of the pipeline of the shell as its own is one of its
\* stages: no number in use is given to a process of another pipeline.
Members ==
    Started => \A r \in Procs : proc[r].st # "free" /\ proc[r].lead = Lead(Shell) =>
                 /\ proc[r].pos \in 1..Len(code[Shell].stages)
                 /\ code[Shell].stages[proc[r].pos] = r
                 /\ proc[r].parent = Shell

\* The shell has closed its ends of the pipes before it waits.
Closed == code[Shell].at = "wait" => ~code[Shell].open

\* A process that was there before keeps its place and its leader, and its
\* parent if that is the shell; what is new has the leader of a copy.
Remains(r) ==
    \/ proc'[r].st = "free" \/ proc'[r].lead = Shell
    \/ /\ proc[r].st # "free" /\ proc'[r].lead = proc[r].lead
       /\ proc'[r].pos = proc[r].pos
       /\ proc[r].parent = Shell => proc'[r].parent = Shell

\* The pipeline of the shell has a leader, which is not the shell.
LEMMA LeaderFacts ==
    ASSUME IInv, Started
    PROVE  /\ code[Shell].stages \in Seq(Procs) /\ Len(code[Shell].stages) \in Nat \ {0}
           /\ Lead(Shell) \in Procs /\ Lead(Shell) # Shell
           /\ code[Shell].waited + 1 \in 1..Len(code[Shell].stages)
           /\ Stage(Shell, code[Shell], code[Shell].waited + 1)
           /\ code[Shell].at = "group" \/ code[Shell].waited < Len(code[Shell].stages)
    <1>1. /\ code[Shell].stages \in Seq(Procs) /\ Len(code[Shell].stages) \in Nat \ {0}
          /\ code[Shell].waited \in Nat
      BY CodeFields, EveryoneFacts DEF IInv, Started
    <1>2. Lead(Shell) \in Procs
      BY <1>1 DEF Lead
    <1>3. Shaped(code[Shell]) /\ code[Shell].n \in Nat
      BY CodeFields, EveryoneFacts DEF IInv, Shapes
    <1>4. code[Shell].waited < Len(code[Shell].stages)
      BY <1>1, <1>3 DEF Shaped, Started, Piping
    <1>5. code[Shell].waited + 1 \in code[Shell].waited + 1..Len(code[Shell].stages)
      BY <1>1, <1>4
    <1>6. Stage(Shell, code[Shell], code[Shell].waited + 1)
      BY <1>5, StageFacts, EveryoneFacts DEF Busy, Started, Piping
    <1> QED
      BY <1>1, <1>2, <1>4, <1>6, EveryoneFacts

\* Steps in which the processes remain and the shell keeps its stages.
LEMMA MembersRemain ==
    ASSUME IInv, Members, \A r \in Procs : Remains(r),
           Started' => Started /\ code'[Shell].stages = code[Shell].stages
    PROVE  Members'
    <1> SUFFICES ASSUME Started', NEW r \in Procs, proc'[r].st # "free",
                        proc'[r].lead = Lead(Shell)'
                 PROVE  /\ proc'[r].pos \in 1..Len(code'[Shell].stages)
                        /\ code'[Shell].stages[proc'[r].pos] = r
                        /\ proc'[r].parent = Shell
      BY DEF Members
    <1>1. Started /\ code'[Shell].stages = code[Shell].stages /\ Lead(Shell)' = Lead(Shell)
      BY DEF Lead
    <1>2. Lead(Shell) # Shell
      BY <1>1, LeaderFacts
    <1> QED
      BY <1>1, <1>2 DEF Remains, Members

\* A forked child is a stage of the pipeline of the shell only if the shell has
\* forked it: the number that the child gets is not in use as a leader, and a
\* copy has a leader of its own.
LEMMA MembersFork ==
    ASSUME IInv, Members, NEW p \in Everyone, Fork(p)
    PROVE  Members'
    <1> DEFINE s == code[p].stages
    <1>1. PICK q \in Procs :
            /\ Fresh(q)
            /\ proc' = [proc EXCEPT ![q] =
                 [st |-> "child", group |-> GroupOf(p), parent |-> p,
                  lead |-> IF Len(s) + 1 = 1 THEN q ELSE Lead(p), pos |-> Len(s) + 1,
                  input |-> code[p].input /\ Len(s) + 1 = 1 /\ p \notin jobs,
                  out |-> p # Shell /\ proc[p].out]]
            /\ code' = [code EXCEPT ![p].at = "group", ![p].stages = Append(@, q)]
      BY DEF Fork
    <1>2. /\ code[p].at = "fork" /\ code[p].waited = 0 /\ s \in Seq(Procs) /\ Len(s) \in Nat
          /\ s # <<>> <=> Len(s) > 0
      BY CodeFields DEF Fork, IInv, Shapes, Shaped
    <1>3. /\ proc'[q].parent = p /\ proc'[q].pos = Len(s) + 1 /\ proc'[q].st = "child"
          /\ proc'[q].lead = IF Len(s) = 0 THEN q ELSE Lead(p)
          /\ \A r \in Procs : r # q => proc'[r] = proc[r]
      BY <1>1, <1>2 DEF IInv, TypeOK
    <1>4. /\ code'[p].at = "group" /\ code'[p].stages = Append(s, q)
          /\ \A r \in Everyone : r # p => code'[r] = code[r]
      BY <1>1, CodeFields DEF IInv, TypeOK, Code
    <1>5. /\ Len(Append(s, q)) = Len(s) + 1 /\ Append(s, q)[Len(s) + 1] = q
          /\ \A i \in 1..Len(s) : Append(s, q)[i] = s[i]
      BY <1>2, Appended
    <1>6. \A r \in Procs : q # proc[r].lead
      BY <1>1 DEF Fresh
    <1> SUFFICES ASSUME Started', NEW r \in Procs, proc'[r].st # "free",
                        proc'[r].lead = Lead(Shell)'
                 PROVE  /\ proc'[r].pos \in 1..Len(code'[Shell].stages)
                        /\ code'[Shell].stages[proc'[r].pos] = r
                        /\ proc'[r].parent = Shell
      BY DEF Members
    <1>7. CASE p = Shell
      <2>1. CASE Len(s) = 0
        <3>1. Lead(Shell)' = q
          BY <1>4, <1>5, <1>7, <2>1 DEF Lead
        <3>2. r = q
          BY <1>3, <1>6, <3>1
        <3> QED
          BY <1>3, <1>4, <1>5, <1>7, <2>1, <3>2
      <2>2. CASE Len(s) > 0
        <3>1. Started /\ Lead(Shell)' = Lead(Shell)
          BY <1>2, <1>4, <1>5, <1>7, <2>2 DEF Lead, Started, Piping
        <3>2. CASE r = q
          BY <1>2, <1>3, <1>4, <1>5, <1>7, <3>2
        <3>3. CASE r # q
          <4>1. proc'[r] = proc[r] /\ proc[r].lead = Lead(Shell) /\ proc[r].st # "free"
            BY <1>3, <3>1, <3>3
          <4>2. /\ proc[r].pos \in 1..Len(s) /\ s[proc[r].pos] = r /\ proc[r].parent = Shell
            BY <1>7, <3>1, <4>1 DEF Members
          <4> QED
            BY <1>2, <1>4, <1>5, <1>7, <4>1, <4>2
        <3> QED
          BY <3>2, <3>3
      <2> QED
        BY <1>2, <2>1, <2>2
    <1>8. CASE p # Shell
      <2>1. Started /\ Lead(Shell)' = Lead(Shell) /\ code'[Shell] = code[Shell]
        BY <1>4, <1>8, EveryoneFacts DEF Lead, Started
      <2>2. r # q
        <3>1. SUFFICES ASSUME r = q PROVE FALSE
          OBVIOUS
        <3> DEFINE x == code[Shell].stages[code[Shell].waited + 1]
        <3>2. Stage(Shell, code[Shell], code[Shell].waited + 1) /\ x \in Procs
          BY <2>1, LeaderFacts
        <3>3. proc[x].lead = Lead(Shell)
          BY <3>2 DEF Stage, Lead
        <3>4. q # Lead(Shell)
          BY <1>6, <3>2, <3>3
        <3>5. Len(s) > 0 /\ Lead(p) = Lead(Shell)
          BY <1>2, <1>3, <2>1, <3>1, <3>4
        <3>6. 1 \in code[p].waited + 1..Len(code[p].stages)
          BY <1>2, <3>5
        <3>7. Stage(p, code[p], 1) /\ s[1] \in Procs
          BY <1>2, <3>6, StageFacts DEF Busy
        <3>8. proc[s[1]].lead = Lead(Shell) /\ proc[s[1]].st # "free" /\ proc[s[1]].parent = p
          BY <3>5, <3>7 DEF Stage, Lead
        <3> QED
          BY <1>8, <2>1, <3>7, <3>8 DEF Members
      <2>3. proc'[r] = proc[r]
        BY <1>3, <2>2
      <2> QED
        BY <2>1, <2>3 DEF Members
    <1> QED
      BY <1>7, <1>8

\* A step by p that changes neither children nor stages, or that leaves the
\* points at which the shell has a pipeline.
LEMMA MembersCode ==
    ASSUME IInv, Members, Closed, NEW p \in Everyone, NEW c \in Code,
           code' = [code EXCEPT ![p] = c], \A r \in Procs : Remains(r),
           \/ c.stages = code[p].stages /\ code[p].at \in Piping
           \/ c.at \notin Piping \/ c.stages = <<>>,
           c.at = "wait" => ~c.open \/ (code[p].at = "wait" /\ c.open = code[p].open)
    PROVE  Members' /\ Closed'
    <1>1. code'[p] = c /\ \A r \in Everyone : r # p => code'[r] = code[r]
      BY DEF IInv, TypeOK
    <1>2. Started' => Started /\ code'[Shell].stages = code[Shell].stages
      BY <1>1, EveryoneFacts DEF Started
    <1>3. Closed'
      BY <1>1, EveryoneFacts DEF Closed
    <1> QED
      BY <1>2, <1>3, MembersRemain

\* A step in which the processes remain and the shell stays where it is.
LEMMA MembersStay ==
    ASSUME IInv, Members, Closed, \A r \in Procs : Remains(r), code'[Shell] = code[Shell]
    PROVE  Members' /\ Closed'
    <1>1. Closed' /\ (Started' => Started /\ code'[Shell].stages = code[Shell].stages)
      BY DEF Closed, Started
    <1> QED
      BY <1>1, MembersRemain

LEMMA CarriesRemains ==
    ASSUME NEW r \in Procs, Carries(r)
    PROVE  Remains(r)
    BY ForegroundAssumption DEF Carries, Remains, Absent

LEMMA MembersCodeStep ==
    ASSUME IInv, Members, Closed, NEW p \in Everyone, CodeStep(p)
    PROVE  Members' /\ Closed'
    <1>1. CASE Fork(p)
      <2>1. \A r \in Everyone : r # p => code'[r] = code[r]
        BY <1>1 DEF Fork, IInv, TypeOK
      <2>2. code'[p].at = "group"
        BY <1>1, CodeFields DEF Fork, IInv, TypeOK, Code
      <2>3. Closed'
        BY <2>1, <2>2, EveryoneFacts DEF Closed
      <2> QED
        BY <1>1, <2>3, MembersFork
    <1>2. CASE ForkFails(p) \/ Restore(p)
      <2>1. PICK c : c = [Idle EXCEPT !.at = Home(p)]
        OBVIOUS
      <2>2. Home(p) \in Points /\ Home(p) \notin Piping
        BY DEF Home, Points, Piping
      <2>3. c \in Code /\ c.at = Home(p)
        BY <2>1, <2>2, IdleAt
      <2>4. code' = [code EXCEPT ![p] = c] /\ proc' = proc
        BY <1>2, <2>1 DEF ForkFails, Restore, Done
      <2>5. \A r \in Procs : Remains(r)
        BY <2>4 DEF Remains
      <2>6. c.at \notin Piping /\ c.at # "wait"
        BY <2>2, <2>3 DEF Piping
      <2> QED
        BY <2>3, <2>4, <2>5, <2>6, MembersCode
    <1>3. CASE SetGroup(p)
      <2> DEFINE q == Current(p)
      <2>1. /\ code[p].at = "group" /\ Len(code[p].stages) \in 1..code[p].n
            /\ code[p].n \in 1..N /\ q \in Procs
        BY <1>3, CodeFields DEF SetGroup, IInv, Shapes, Shaped, Current
      <2>2. PICK c \in Code :
              /\ code' = [code EXCEPT ![p] = c] /\ c.at = AfterGroup(code[p])
              /\ c.stages = code[p].stages
        BY <1>3, MovedAt DEF SetGroup, AfterGroup, Points, IInv
      <2>3. c.at # "wait" /\ code[p].at \in Piping
        BY <2>1, <2>2 DEF AfterGroup, Piping
      <2>4. proc' = [proc EXCEPT ![q].group = Lead(p)]
        BY <1>3 DEF SetGroup
      <2>5. /\ proc'[q] = [proc[q] EXCEPT !.group = Lead(p)] /\ proc[q] \in Process
            /\ \A r \in Procs : r # q => proc'[r] = proc[r]
        BY <2>1, <2>4, ProcFields DEF IInv, TypeOK
      <2> HIDE DEF q
      <2>6. /\ proc'[q].st = proc[q].st /\ proc'[q].lead = proc[q].lead
            /\ proc'[q].pos = proc[q].pos /\ proc'[q].parent = proc[q].parent
        BY <2>5 DEF Process
      <2>7. \A r \in Procs : Remains(r)
        BY <2>5, <2>6 DEF Remains
      <2> QED
        BY <2>2, <2>3, <2>7, MembersCode
    <1>4. CASE give_terminal_to(p)
      <2>1. PICK c \in Code :
              /\ code' = [code EXCEPT ![p] = c] /\ c.stages = code[p].stages
              /\ c.at = IF Len(code[p].stages) < code[p].n THEN "fork" ELSE "close"
        BY <1>4, MovedAt DEF give_terminal_to, Points, IInv
      <2>2. c.at # "wait" /\ code[p].at \in Piping /\ proc' = proc
        BY <1>4, <2>1 DEF give_terminal_to, Piping
      <2>3. \A r \in Procs : Remains(r)
        BY <2>2 DEF Remains
      <2> QED
        BY <2>1, <2>2, <2>3, MembersCode
    <1>5. CASE Close(p)
      <2>1. PICK c : c = [code[p] EXCEPT !.at = "wait", !.open = FALSE]
        OBVIOUS
      <2>2. code' = [code EXCEPT ![p] = c] /\ code[p].at \in Piping /\ proc' = proc
        BY <1>5, <2>1 DEF Close, Piping
      <2>3. c \in Code /\ c.stages = code[p].stages /\ ~c.open
        BY <2>1, CodeFields DEF IInv, Code, Points
      <2>4. \A r \in Procs : Remains(r)
        BY <2>2 DEF Remains
      <2> QED
        BY <2>2, <2>3, <2>4, MembersCode
    <1>6. CASE WaitStage(p)
      <2>1. /\ code[p].at = "wait" /\ code[p].waited \in Nat /\ code[p].waited < code[p].n
            /\ code[p].n \in 1..N /\ code[p] \in Code
        BY <1>6, CodeFields DEF WaitStage, IInv, Shapes, Shaped
      <2> DEFINE k == code[p].waited + 1
      <2>2. PICK c : c = [code[p] EXCEPT !.waited = k,
                            !.at = IF k = code[p].n THEN "poll" ELSE "wait"]
        OBVIOUS
      <2>3. code' = [code EXCEPT ![p] = c]
        BY <1>6, <2>1, <2>2 DEF WaitStage
      <2>a. k \in 0..N /\ (IF k = code[p].n THEN "poll" ELSE "wait") \in Points
        BY <2>1, ForegroundAssumption DEF Points
      <2>4. c \in Code /\ c.stages = code[p].stages /\ c.open = code[p].open
        BY <2>1, <2>2, <2>a DEF Code
      <2>5. \A r \in Procs : proc'[r] = proc[r] \/ proc'[r] = Absent
        BY <1>6 DEF WaitStage, IInv, TypeOK
      <2>6. \A r \in Procs : Remains(r)
        BY <2>5 DEF Remains, Absent
      <2> QED
        BY <2>1, <2>3, <2>4, <2>6, MembersCode DEF Piping
    <1>7. CASE Poll(p) \/ take_terminal_back(p)
      <2>1. PICK a \in {"take", "restore"} : Goto(p, a) /\ proc' = proc
        BY <1>7 DEF Poll, take_terminal_back
      <2>2. PICK c \in Code : code' = [code EXCEPT ![p] = c] /\ c.at = a
        BY <2>1, MovedAt DEF Points, IInv
      <2>3. \A r \in Procs : Remains(r)
        BY <2>1 DEF Remains
      <2> QED
        BY <2>2, <2>3, MembersCode DEF Piping
    <1> QED
      BY <1>1, <1>2, <1>3, <1>4, <1>5, <1>6, <1>7 DEF CodeStep

\* A new copy has no leader, and the shell is at the prompt or reads its output.
LEMMA MembersCopied ==
    ASSUME IInv, Members, Closed, NEW q \in Procs, NEW g, NEW a, NEW b,
           proc' = [proc EXCEPT ![q] = Copy(q, g, a, b)],
           code'[Shell] = code[Shell] \/ code'[Shell].at = "capture"
    PROVE  Members' /\ Closed'
    <1>1. Copy(q, g, a, b).lead = Shell
      BY DEF Copy
    <1>2. \A r \in Procs : proc'[r] = proc[r] \/ proc'[r].lead = Shell
      BY <1>1 DEF IInv, TypeOK
    <1>3. \A r \in Procs : Remains(r)
      BY <1>2 DEF Remains
    <1>4. Closed' /\ (Started' => Started /\ code'[Shell].stages = code[Shell].stages)
      BY DEF Closed, Started, Piping
    <1> QED
      BY <1>3, <1>4, MembersRemain

LEMMA MembersSubst ==
    ASSUME IInv, Members, Closed, petrush_run_cmdsubst
    PROVE  Members' /\ Closed'
    <1>1. PICK q \in Procs :
            /\ Fresh(q)
            /\ proc' = [proc EXCEPT ![q] = Copy(q, Shell, TRUE, TRUE)]
            /\ code' = [code EXCEPT ![q] = [Idle EXCEPT !.at = "prompt"],
                                    ![Shell].at = "capture", ![Shell].stages = <<q>>]
      BY DEF petrush_run_cmdsubst
    <1>2. code[Shell] \in Code /\ Shell \in Everyone /\ q # Shell /\ q \in Everyone
      BY CodeFields, EveryoneFacts DEF IInv
    <1>3. PICK c, d : /\ c = [Idle EXCEPT !.at = "prompt"]
                      /\ d = [code[Shell] EXCEPT !.at = "capture", !.stages = <<q>>]
      OBVIOUS
    <1>4. code' = [code EXCEPT ![q] = c, ![Shell] = d]
      BY <1>1, <1>2, <1>3 DEF IInv, TypeOK
    <1>5. code'[Shell] = d
      BY <1>2, <1>4 DEF IInv, TypeOK
    <1>6. d.at = "capture"
      BY <1>2, <1>3 DEF Code
    <1> QED
      BY <1>1, <1>5, <1>6, MembersCopied

LEMMA MembersBackground ==
    ASSUME IInv, Members, Closed, dispatch_pipeline_background
    PROVE  Members' /\ Closed'
    <1>1. PICK q \in Procs, input \in BOOLEAN :
            /\ Fresh(q)
            /\ proc' = [proc EXCEPT ![q] = Copy(q, q, input, FALSE)]
            /\ code' = [code EXCEPT ![q] = [Idle EXCEPT !.at = "prompt", !.input = input]]
            /\ jobs' = jobs \cup {q}
      BY DEF dispatch_pipeline_background
    <1>2. code'[Shell] = code[Shell]
      BY <1>1, EveryoneFacts DEF IInv, TypeOK
    <1> QED
      BY <1>1, <1>2, MembersCopied

LEMMA MembersReaped ==
    ASSUME IInv, Members, Closed, Captured \/ CopyReaped \/ petrush_job_reap
    PROVE  Members' /\ Closed'
    <1>1. \A r \in Procs : proc'[r] = proc[r] \/ proc'[r] = Absent
      BY DEF Captured, CopyReaped, petrush_job_reap, IInv, TypeOK
    <1>2. \A r \in Procs : Remains(r)
      BY <1>1 DEF Remains, Absent
    <1>3. code'[Shell] = code[Shell] \/ code'[Shell].at \in {"reap", "prompt"}
      BY CodeFields, EveryoneFacts, IdleFields
      DEF Captured, CopyReaped, petrush_job_reap, Goto, Done, Home, IInv, TypeOK, Code, Idle
    <1>4. Closed' /\ (Started' => Started /\ code'[Shell].stages = code[Shell].stages)
      BY <1>3 DEF Closed, Started, Piping
    <1> QED
      BY <1>2, <1>4, MembersRemain

LEMMA MembersCopyEnds ==
    ASSUME IInv, Members, Closed, NEW q \in Procs, CopyEnds(q)
    PROVE  Members' /\ Closed'
    <1>1. ASSUME NEW r \in Procs PROVE Remains(r)
      <2> DEFINE E == Ended({q})
      <2>1. /\ proc[q].st = "copy" /\ proc[q].parent = Shell /\ proc[q].pos = 0 /\ q # Shell
            /\ E[q].lead = proc[q].lead /\ E[q].parent = Shell /\ E[q].pos = 0
            /\ r # q => E[r] = proc[r]
            /\ proc[r].parent # q => proc'[r] = E[r]
            /\ proc[r].parent = q =>
                 \/ proc'[r] = Absent
                 \/ /\ proc'[r].st = proc[r].st /\ proc'[r].lead = proc[r].lead
                    /\ proc'[r].pos = proc[r].pos
        BY CopyEndsFacts
      <2> HIDE DEF E
      <2> QED
        BY <2>1 DEF Remains, Absent
    <1>2. code'[Shell] = code[Shell]
      BY EveryoneFacts DEF CopyEnds, IInv, TypeOK
    <1> QED
      BY <1>1, <1>2, MembersStay

LEMMA InitMembers == Init => Members /\ Closed
    BY EveryoneFacts, IdleFields DEF Init, Members, Closed, Started, Piping, Idle

LEMMA NextMembers ==
    IInv /\ Joining /\ Members /\ Closed /\ [Next]_vars => Members' /\ Closed'
    <1> SUFFICES ASSUME IInv, Joining, Members, Closed, [Next]_vars PROVE Members' /\ Closed'
      OBVIOUS
    <1>1. ASSUME NEW p \in Everyone, CodeStep(p) PROVE Members' /\ Closed'
      BY <1>1, MembersCodeStep
    <1>2. CASE ChildMoves
      BY <1>2, ChildMovesCarry, CarriesRemains, MembersStay
    <1>3. ASSUME NEW p \in Everyone, NEW n \in {1, N}, Begin(p, n), code[p].at = "prompt"
          PROVE  Members' /\ Closed'
      <2>1. PICK c : c = [code[p] EXCEPT !.at = "fork", !.n = n, !.open = (n # 1)]
        OBVIOUS
      <2>2. code' = [code EXCEPT ![p] = c] /\ proc' = proc
        BY <1>3, <2>1 DEF Begin
      <2>3. n \in 1..N /\ (n # 1) \in BOOLEAN /\ "fork" \in Points
        BY ForegroundAssumption DEF Points
      <2>4. c \in Code /\ c.at = "fork" /\ c.stages = code[p].stages
        BY <2>1, <2>3, CodeFields DEF IInv, Code
      <2>5. c.stages = <<>>
        BY <1>3, <2>4 DEF IInv, Shapes, Shaped
      <2>6. \A r \in Procs : Remains(r)
        BY <2>2 DEF Remains
      <2> QED
        BY <2>2, <2>4, <2>5, <2>6, MembersCode
    <1>4. CASE PollInWait \/ Signal \/ builtin_trap \/ UNCHANGED vars
      <2>1. proc' = proc /\ code' = code
        BY <1>4 DEF PollInWait, Signal, builtin_trap, vars
      <2>2. \A r \in Procs : Remains(r)
        BY <2>1 DEF Remains
      <2> QED
        BY <2>1, <2>2, MembersStay
    <1>5. CASE \/ petrush_run_cmdsubst \/ Captured \/ CopyReaped
               \/ dispatch_pipeline_background \/ petrush_job_reap
               \/ \E q \in Procs : CopyEnds(q)
      BY <1>5, MembersSubst, MembersBackground, MembersReaped, MembersCopyEnds
    <1> QED
      BY <1>1, <1>2, <1>3, <1>4, <1>5, EveryoneFacts
      DEF Next, ChildStep, ChildMoves, CopyRuns, Line, AtPrompt

\* A set of numbers has a least one.
LEMMA Least ==
    ASSUME NEW T, T \subseteq Nat, T # {}
    PROVE  \E m \in T : \A k \in T : m <= k
    <1> DEFINE R == OpToRel(<, Nat)
    <1>1. IsWellFoundedOn(R, Nat)
      BY NatLessThanWellFounded
    <1>2. \A x, y \in Nat : <<y, x>> \in R <=> y < x
      BY DEF OpToRel
    <1> HIDE DEF R
    <1>3. PICK m \in T : \A k \in T : ~(<<k, m>> \in R)
      BY <1>1, WFMin
    <1>4. ASSUME NEW k \in T PROVE m <= k
      <2>1. ~(<<k, m>> \in R) /\ k \in Nat /\ m \in Nat
        BY <1>3
      <2>2. ~(k < m)
        BY <1>2, <2>1
      <2> QED
        BY <2>1, <2>2
    <1> QED
      BY <1>4

\* The stages of the pipeline of the shell that live.
Living == {r \in Procs : proc[r].lead = Lead(Shell)
                         /\ proc[r].st \in {"child", "program", "stopped"}}

\* The first of them that lives waits for nobody, unless a later one still has
\* the pipes of the shell, which it closes when it goes on.
LEMMA SomebodyMoves ==
    ASSUME IInv, Members, Closed, code[Shell].at = "wait", Living # {}
    PROVE  \E r \in Living : Moves(r) \/ proc[r].st = "stopped"
    <1>1. Started
      BY CodeFields, EveryoneFacts DEF Started, Piping, IInv, Shapes, Shaped
    <1>2. ASSUME NEW r \in Living
          PROVE  /\ r \in Procs /\ proc[r].pos \in Nat /\ proc[r].pos > 0
                 /\ proc[r].parent = Shell /\ proc[r].lead = Lead(Shell)
      <2>1. r \in Procs /\ proc[r].lead = Lead(Shell) /\ proc[r].st # "free"
        BY DEF Living
      <2>2. proc[r].pos \in 1..Len(code[Shell].stages) /\ proc[r].parent = Shell
        BY <1>1, <2>1 DEF Members
      <2>3. Len(code[Shell].stages) \in Nat
        BY <1>1, LeaderFacts
      <2> QED
        BY <2>1, <2>2, <2>3
    <1> DEFINE T == {proc[r].pos : r \in Living}
    <1>3. PICK m \in T : \A k \in T : m <= k
      <2>1. T \subseteq Nat /\ T # {}
        BY <1>2
      <2> HIDE DEF T
      <2> QED
        BY <2>1, Least
    <1>4. PICK r \in Living : proc[r].pos = m
      BY <1>3
    <1>5. CASE \E x \in Living : proc[x].st = "child"
      BY <1>5 DEF Moves
    <1>6. CASE proc[r].st = "stopped"
      BY <1>6
    <1>7. CASE proc[r].st = "program" /\ ~\E x \in Living : proc[x].st = "child"
      <2>1. ~code[Shell].open
        BY DEF Closed
      <2>2. ASSUME NEW x \in Procs, Alive(x), proc[x].lead = proc[r].lead, x # r,
                   proc[x].st = "child" \/ proc[x].pos = proc[r].pos - 1, proc[x].pos > 0
            PROVE  FALSE
        <3>1. proc[x].st \in {"child", "program", "stopped"}
          BY <2>2, ProcFields DEF Alive, IInv, Copies
        <3>2. x \in Living
          BY <2>2, <3>1 DEF Living
        <3>3. proc[x].pos = m - 1 /\ m <= proc[x].pos /\ m \in Nat
          BY <1>2, <1>3, <1>4, <1>7, <2>2, <3>2
        <3> QED
          BY <3>3
      <2>3. ~HasWriter(r)
        BY <1>2, <2>1, <2>2 DEF HasWriter
      <2> QED
        BY <1>7, <2>3 DEF Moves
    <1> QED
      BY <1>5, <1>6, <1>7 DEF Living

\* What execute_pipeline_with_hook waits for comes: each child closes the pipes
\* it does not use before its program starts, and the shell its own before the
\* first waitpid, so a stage that reads a pipe to its end can only wait for an
\* earlier stage, and the first that lives can go on.
THEOREM NobodyHangsHolds == Spec => []NobodyHangs
    <1>1. IInv /\ Members /\ Closed => NobodyHangs
      <2> SUFFICES ASSUME IInv, Members, Closed, code[Shell].at = "wait",
                          proc[Awaited(Shell)].st \notin {"zombie", "stopped"}
                   PROVE  \E i \in 1..code[Shell].n :
                            LET q == code[Shell].stages[i]
                            IN  /\ proc[q].lead = Lead(Shell)
                                /\ Moves(q) \/ proc[q].st = "stopped"
        BY DEF NobodyHangs
      <2>1. Started /\ Len(code[Shell].stages) = code[Shell].n
        BY CodeFields, EveryoneFacts DEF Started, Piping, IInv, Shapes, Shaped
      <2>2. /\ Stage(Shell, code[Shell], code[Shell].waited + 1) /\ Awaited(Shell) \in Procs
        BY <2>1, LeaderFacts DEF Awaited
      <2>3. Awaited(Shell) \in Living
        BY <2>2 DEF Stage, Awaited, Living, Lead
      <2>4. PICK r \in Living : Moves(r) \/ proc[r].st = "stopped"
        BY <2>3, SomebodyMoves
      <2>5. /\ proc[r].pos \in 1..code[Shell].n /\ code[Shell].stages[proc[r].pos] = r
            /\ proc[r].lead = Lead(Shell)
        BY <2>1 DEF Living, Members
      <2> QED
        BY <2>4, <2>5
    <1>2. Spec => [](IInv /\ Members /\ Closed)
      BY SpecIInv, InitMembers, NextMembers, PTL DEF Spec
    <1> QED
      BY <1>1, <1>2, PTL

=============================================================================
