---------------------------- MODULE Jobs_proofs ----------------------------
(***************************************************************************)
(* The job table of the first shell implements JobTable, for any number of *)
(* process ids, slots and copies.                                          *)
(***************************************************************************)
EXTENDS Jobs, TLAPS

\* The child just forked, or waited for, is the shell's own and still there.
ChildOwned ==
    at[Shell] \in {"add", "wait"} =>
      /\ child[Shell] \in Procs
      /\ parent[child[Shell]] = Shell /\ kern[child[Shell]] # "free"

\* The same of every process, as far as the types go.
AddOwned == \A p \in Everyone : at[p] \in {"add", "wait"} => child[p] \in Procs

IInv == TypeOK /\ RunningOwned /\ ChildOwned /\ AddOwned /\ AddFits

-----------------------------------------------------------------------------
(* Types *)

\* A slot that is not free names a process.
LEMMA Entries ==
    /\ Free \in Entry /\ Free.state = "free" /\ Free.pid = Nobody
    /\ \A e \in Entry : e.state \in {"free", "running", "done"}
    /\ \A e \in Entry : e.state # "free" => e.pid \in Procs
    /\ \A c \in Procs : [pid |-> c, state |-> "running"] \in Entry
    /\ Empty \in [1..N -> Entry]
  BY DEF Free, Entry, Empty

\* Marking it Done gives a slot again.
LEMMA DoneEntry ==
    \A e \in Entry : e.state # "free" => [e EXCEPT !.state = "done"] \in Entry
  BY DEF Free, Entry

\* The invariant holds at the start.
LEMMA InitInv == Init => IInv
<1> SUFFICES ASSUME Init PROVE IInv
  OBVIOUS
<1>1. TypeOK
  BY JobsAssumption, Entries DEF Init, TypeOK, Everyone
<1>2. RunningOwned
  BY Entries DEF Init, RunningOwned, Runs, Everyone, Empty
<1>3. ChildOwned /\ AddOwned /\ AddFits
  BY DEF Init, ChildOwned, AddOwned, AddFits, Everyone
<1> QED
  BY <1>1, <1>2, <1>3 DEF IInv

\* The types of what a fork and the end of a process change.
LEMMA ForkType ==
    ASSUME TypeOK, NEW p \in Everyone, NEW c \in Procs, NEW next \in {"add", "wait"},
           Fork(p, c, next)
    PROVE  TypeOK'
<1>1. table[p] \in [1..N -> Entry]
  BY DEF TypeOK
<1>2. 1 \in 1..N + 1
  BY JobsAssumption
<1>3. c \in Everyone
  BY DEF Everyone
<1>4. kern' \in [Procs -> {"free", "live", "zombie"}]
  BY DEF TypeOK, Fork
<1>5. parent' \in [Procs -> Everyone \cup {Nobody}]
  BY DEF TypeOK, Fork
<1>6. table' \in [Everyone -> [1..N -> Entry]]
  BY <1>1, <1>3 DEF TypeOK, Fork
<1>7. at' \in [Everyone -> {"program", "idle", "reap", "add", "wait"}]
  BY <1>3 DEF TypeOK, Fork
<1>8. /\ op' \in [Everyone -> {"prompt", "jobs", "background"}]
      /\ slot' \in [Everyone -> 1..N + 1]
      /\ child' \in [Everyone -> Procs \cup {Nobody}]
  BY <1>2 DEF TypeOK, Fork
<1> QED
  BY <1>4, <1>5, <1>6, <1>7, <1>8 DEF TypeOK

LEMMA ExitType ==
    ASSUME TypeOK, NEW c \in Procs, Exit(c)
    PROVE  TypeOK'
<1>1. 1 \in 1..N + 1
  BY JobsAssumption
<1>2. kern' \in [Procs -> {"free", "live", "zombie"}]
  BY DEF TypeOK, Exit
<1>3. parent' \in [Procs -> Everyone \cup {Nobody}]
  BY DEF TypeOK, Exit
<1>4. table' \in [Everyone -> [1..N -> Entry]]
  BY Entries DEF TypeOK, Exit
<1>5. /\ at' \in [Everyone -> {"program", "idle", "reap", "add", "wait"}]
      /\ op' \in [Everyone -> {"prompt", "jobs", "background"}]
      /\ slot' \in [Everyone -> 1..N + 1]
      /\ child' \in [Everyone -> Procs \cup {Nobody}]
  BY <1>1 DEF TypeOK, Exit
<1> QED
  BY <1>2, <1>3, <1>4, <1>5 DEF TypeOK

\* What marking a slot Done changes: the state of that slot and nothing else.
LEMMA DoneSlot ==
    ASSUME TypeOK, NEW p \in Everyone, NEW i \in 1..N,
           table[p][i].state = "running", SetDone(p, i)
    PROVE  /\ table' \in [Everyone -> [1..N -> Entry]]
           /\ table'[p][i].state = "done"
           /\ \A q \in Everyone, j \in 1..N :
                q # p \/ j # i => table'[q][j] = table[q][j]
<1> DEFINE e == [table[p][i] EXCEPT !.state = "done"]
<1>1. table \in [Everyone -> [1..N -> Entry]] /\ table[p][i] \in Entry
  BY DEF TypeOK
<1>2. e \in Entry
  BY <1>1, DoneEntry
<1>3. table[p][i] \in [pid : Procs, state : {"running", "done"}]
  BY <1>1, Entries DEF Entry
<1>4. e.state = "done"
  BY <1>3
<1>5. table' = [table EXCEPT ![p] = [table[p] EXCEPT ![i] = e]]
  BY <1>1 DEF SetDone
<1> HIDE DEF e
<1> QED
  BY <1>1, <1>2, <1>4, <1>5

\* The same of clearing the Done slots.
LEMMA Cleared ==
    ASSUME TypeOK, NEW p \in Everyone, ClearDone(p)
    PROVE  /\ table' \in [Everyone -> [1..N -> Entry]]
           /\ \A j \in 1..N : table'[p][j] = IF table[p][j].state = "done" THEN Free
                                             ELSE table[p][j]
           /\ \A q \in Everyone : q # p => table'[q] = table[q]
  BY Entries DEF TypeOK, ClearDone

\* A process that goes back to idle.
LEMMA IdleType ==
    ASSUME TypeOK, NEW p \in Everyone, ToIdle(p)
    PROVE  /\ at' \in [Everyone -> {"program", "idle", "reap", "add", "wait"}]
           /\ op' \in [Everyone -> {"prompt", "jobs", "background"}]
           /\ slot' \in [Everyone -> 1..N + 1]
           /\ child' \in [Everyone -> Procs \cup {Nobody}]
           /\ at'[p] = "idle" /\ child'[p] = Nobody
           /\ \A q \in Everyone : q # p => at'[q] = at[q] /\ child'[q] = child[q]
<1>1. 1 \in 1..N + 1
  BY JobsAssumption
<1> QED
  BY <1>1 DEF TypeOK, ToIdle

\* A child that is waited for: it was not a running job of the shell.
LEMMA CollectType ==
    ASSUME TypeOK, NEW c \in Procs, Collect(c)
    PROVE  /\ kern' \in [Procs -> {"free", "live", "zombie"}]
           /\ parent' \in [Procs -> Everyone \cup {Nobody}]
           /\ \A d \in Procs : d # c => kern'[d] = kern[d] /\ parent'[d] = parent[d]
  BY DEF TypeOK, Collect

-----------------------------------------------------------------------------
(* The steps *)

\* A running job is a process.
LEMMA RunsPid == TypeOK => \A j \in 1..N : Runs(j) => table[Shell][j].pid \in Procs
  BY Entries DEF Runs, TypeOK, Everyone

\* A step after which the running jobs are some of those before, whose children
\* nobody has collected, keeps them owned.
LEMMA KeepsOwned ==
    ASSUME IInv,
           child'[Shell] = child[Shell] \/ child'[Shell] = Nobody,
           \A j \in 1..N : Runs(j)' =>
             /\ table'[Shell][j] = table[Shell][j]
             /\ parent'[table[Shell][j].pid] = Shell
             /\ kern'[table[Shell][j].pid] # "free"
    PROVE  RunningOwned'
<1>1. \A j \in 1..N : Runs(j)' => Runs(j)
  BY DEF Runs
<1>2. \A j \in 1..N : Runs(j) => table[Shell][j].pid \in Procs
  BY RunsPid DEF IInv
<1>3. \A j \in 1..N : Runs(j) => table[Shell][j].pid # child'[Shell]
  BY <1>2, JobsAssumption DEF RunningOwned, IInv
<1>4. SUFFICES ASSUME NEW j \in 1..N, Runs(j)'
               PROVE  /\ parent'[table'[Shell][j].pid] = Shell
                      /\ kern'[table'[Shell][j].pid] # "free"
                      /\ \A k \in 1..N : Runs(k)' /\ table'[Shell][k].pid = table'[Shell][j].pid
                                        => j = k
                      /\ table'[Shell][j].pid # child'[Shell]
  BY DEF RunningOwned
<1>5. ASSUME NEW k \in 1..N, Runs(k)', table'[Shell][k].pid = table'[Shell][j].pid
      PROVE  j = k
  BY <1>1, <1>4, <1>5 DEF RunningOwned, IInv
<1> QED
  BY <1>1, <1>3, <1>4, <1>5

\* One turn of the loop of petrush_job_reap.
LEMMA ReapInv ==
    ASSUME IInv, NEW p \in Everyone, petrush_job_reap(p)
    PROVE  IInv'
<1> DEFINE i == slot[p]
           e == table[p][i]
<1>1. i \in 1..N /\ at[p] = "reap" /\ e \in Entry /\ TypeOK
  BY DEF petrush_job_reap, IInv, TypeOK
<1>2. UNCHANGED <<at, op, child>> /\ slot' \in [Everyone -> 1..N + 1]
  BY <1>1, JobsAssumption DEF petrush_job_reap, NextSlot, TypeOK
<1>3. CASE e.state = "running" /\ parent[e.pid] = p /\ kern[e.pid] = "zombie"
           /\ Collect(e.pid) /\ SetDone(p, i)
  <2>1. e.pid \in Procs
    BY <1>1, <1>3, Entries
  <2>2. TypeOK'
    BY <1>1, <1>2, <1>3, <2>1, DoneSlot, CollectType DEF TypeOK
  <2>3. RunningOwned'
    <3>1. ASSUME NEW j \in 1..N, Runs(j)'
          PROVE  Runs(j) /\ table'[Shell][j] = table[Shell][j]
                 /\ (p = Shell => j # i)
      BY <1>1, <1>3, <3>1, DoneSlot DEF Runs, Everyone
    <3>2. ASSUME NEW j \in 1..N, Runs(j), p = Shell => j # i
          PROVE  /\ table[Shell][j].pid \in Procs /\ table[Shell][j].pid # e.pid
                 /\ parent[table[Shell][j].pid] = Shell
                 /\ kern[table[Shell][j].pid] # "free"
      <4>1. table[Shell][j].pid \in Procs
        BY <1>1, <3>2, RunsPid
      <4>2. parent[table[Shell][j].pid] = Shell /\ kern[table[Shell][j].pid] # "free"
        BY <3>2 DEF RunningOwned, IInv
      <4>3. CASE p = Shell
        BY <1>1, <1>3, <3>2, <4>1, <4>2, <4>3 DEF RunningOwned, Runs, IInv
      <4> QED
        BY <1>3, <4>1, <4>2, <4>3
    <3> QED
      BY <1>2, <1>3, <2>1, <3>1, <3>2, CollectType, KeepsOwned, <1>1
  <2>4. ChildOwned'
    <3> SUFFICES ASSUME at[Shell] \in {"add", "wait"}
                 PROVE  /\ child[Shell] \in Procs /\ parent'[child[Shell]] = Shell
                        /\ kern'[child[Shell]] # "free"
      BY <1>2 DEF ChildOwned
    <3>1. p # Shell
      BY <1>1
    <3>2. child[Shell] # e.pid /\ child[Shell] \in Procs
      BY <1>3, <3>1 DEF ChildOwned, IInv
    <3> QED
      BY <1>1, <1>3, <2>1, <3>2, CollectType DEF ChildOwned, IInv
  <2>5. AddFits'
    BY <1>1, <1>2, <1>3, DoneSlot DEF AddFits, Full, IInv
  <2>6. AddOwned'
    BY <1>2 DEF AddOwned, IInv
  <2> QED
    BY <2>2, <2>3, <2>4, <2>5, <2>6 DEF IInv
<1>4. CASE e.state = "running" /\ parent[e.pid] # p /\ SetDone(p, i)
           /\ UNCHANGED <<kern, parent>>
  <2>1. TypeOK'
    BY <1>1, <1>2, <1>4, DoneSlot DEF TypeOK
  <2>2. RunningOwned'
    <3>1. ASSUME NEW j \in 1..N, Runs(j)'
          PROVE  Runs(j) /\ table'[Shell][j] = table[Shell][j]
      BY <1>1, <1>4, <3>1, DoneSlot DEF Runs, Everyone
    <3> QED
      BY <1>2, <1>4, <3>1, KeepsOwned DEF RunningOwned, IInv
  <2>3. ChildOwned'
    BY <1>2, <1>4 DEF ChildOwned, IInv
  <2>4. AddFits'
    BY <1>1, <1>2, <1>4, DoneSlot DEF AddFits, Full, IInv
  <2>5. AddOwned'
    BY <1>2 DEF AddOwned, IInv
  <2> QED
    BY <2>1, <2>2, <2>3, <2>4, <2>5 DEF IInv
<1>5. CASE UNCHANGED <<kern, parent, table>>
  BY <1>1, <1>2, <1>5
     DEF IInv, TypeOK, RunningOwned, Runs, ChildOwned, AddOwned, AddFits, Full
<1> QED
  BY <1>3, <1>4, <1>5 DEF petrush_job_reap

\* Starting an operation.
LEMMA ReapsInv ==
    ASSUME IInv, NEW p \in Everyone, NEW caller \in {"prompt", "jobs", "background"},
           Reaps(p, caller)
    PROVE  IInv'
<1>1. TypeOK'
  BY JobsAssumption DEF Reaps, IInv, TypeOK
<1>2. RunningOwned'
  BY KeepsOwned DEF Reaps, RunningOwned, Runs, IInv
<1>3. ChildOwned' /\ AddOwned' /\ AddFits'
  BY DEF Reaps, IInv, TypeOK, ChildOwned, AddOwned, AddFits, Full, Everyone
<1> QED
  BY <1>1, <1>2, <1>3 DEF IInv

\* A process that goes back to idle with its table, and the kernel's, as it was.
LEMMA ToIdleInv ==
    ASSUME IInv, NEW p \in Everyone, ToIdle(p), UNCHANGED <<kern, parent, table>>
    PROVE  IInv'
<1>1. TypeOK'
  BY IdleType DEF IInv, TypeOK
<1>2. RunningOwned'
  <2>1. child'[Shell] = child[Shell] \/ child'[Shell] = Nobody
    BY IdleType DEF IInv, Everyone
  <2> QED
    BY <2>1, KeepsOwned DEF RunningOwned, Runs, IInv
<1>3. ChildOwned' /\ AddOwned' /\ AddFits'
  BY IdleType DEF IInv, ChildOwned, AddOwned, AddFits, Full, Everyone
<1> QED
  BY <1>1, <1>2, <1>3 DEF IInv

\* petrush_job_notify and petrush_job_prune_done.
LEMMA ClearInv ==
    ASSUME IInv, NEW p \in Everyone, ClearDone(p), ToIdle(p), UNCHANGED <<kern, parent>>
    PROVE  IInv'
<1>1. TypeOK'
  BY IdleType, Cleared DEF IInv, TypeOK
<1>2. RunningOwned'
  <2>1. child'[Shell] = child[Shell] \/ child'[Shell] = Nobody
    BY IdleType DEF IInv, Everyone
  <2>2. ASSUME NEW j \in 1..N, Runs(j)'
        PROVE  Runs(j) /\ table'[Shell][j] = table[Shell][j]
    BY <2>2, Cleared, Entries DEF Runs, IInv, Everyone
  <2> QED
    BY <2>1, <2>2, KeepsOwned DEF RunningOwned, IInv
<1>3. ChildOwned' /\ AddOwned'
  BY IdleType DEF IInv, ChildOwned, AddOwned, Everyone
<1>4. AddFits'
  <2>1. at'[p] = "idle"
    BY IdleType DEF IInv
  <2>2. \A q \in Everyone : q # p => at'[q] = at[q]
    BY IdleType DEF IInv
  <2>3. \A q \in Everyone : q # p => table'[q] = table[q]
    BY Cleared DEF IInv
  <2>4. ASSUME NEW q \in Everyone, at'[q] = "add" PROVE ~Full(q)'
    <3>1. q # p
      BY <2>1, <2>4
    <3>2. at[q] = "add" /\ table'[q] = table[q]
      BY <2>2, <2>3, <2>4, <3>1
    <3>3. ~Full(q)
      BY <3>2 DEF AddFits, IInv
    <3> QED
      BY <3>2, <3>3 DEF Full
  <2> QED
    BY <2>4 DEF AddFits
<1> QED
  BY <1>1, <1>2, <1>3, <1>4 DEF IInv

\* What a fork leaves alone: the tables of others, and all processes but one.
LEMMA ForkFacts ==
    ASSUME TypeOK, NEW p \in Everyone, NEW c \in Procs, NEW next \in {"add", "wait"},
           Fork(p, c, next)
    PROVE  /\ kern[c] = "free" /\ kern'[c] = "live" /\ parent'[c] = p
           /\ \A d \in Procs : d # c => kern'[d] = kern[d] /\ parent'[d] = parent[d]
           /\ table'[c] = table[c] \/ (table'[c] = table[p] /\ at'[c] = "idle")
           /\ child'[p] = c /\ (p # c => at'[p] = next)
           /\ \A q \in Everyone : q # c => table'[q] = table[q]
           /\ \A q \in Everyone : q # p =>
                child'[q] = child[q] /\ (at'[q] = at[q] \/ (q = c /\ at'[q] = "idle"))
<1>1. /\ kern[c] = "free" /\ kern'[c] = "live" /\ parent'[c] = p
      /\ \A d \in Procs : d # c => kern'[d] = kern[d] /\ parent'[d] = parent[d]
  BY DEF TypeOK, Fork
<1>2. child'[p] = c /\ \A q \in Everyone : q # p => child'[q] = child[q]
  BY DEF TypeOK, Fork
<1>3. c \in Everyone
  BY DEF Everyone
<1>4. at \in [Everyone -> {"program", "idle", "reap", "add", "wait"}]
  BY DEF TypeOK
<1>5. \/ at' = [at EXCEPT ![p] = next] /\ UNCHANGED table
      \/ /\ at' = [at EXCEPT ![p] = next, ![c] = "idle"]
         /\ table' = [table EXCEPT ![c] = table[p]]
  BY DEF Fork
<1>6. p # c => at'[p] = next
  BY <1>3, <1>4, <1>5
<1>7. \A q \in Everyone : q # p => at'[q] = at[q] \/ (q = c /\ at'[q] = "idle")
  BY <1>3, <1>4, <1>5
<1>8. table'[c] = table[c] \/ (table'[c] = table[p] /\ at'[c] = "idle")
  <2>1. CASE UNCHANGED table
    BY <2>1
  <2>2. CASE /\ at' = [at EXCEPT ![p] = next, ![c] = "idle"]
             /\ table' = [table EXCEPT ![c] = table[p]]
    BY <1>3, <1>4, <2>2 DEF TypeOK
  <2> QED
    BY <1>5, <2>1, <2>2
<1>9. \A q \in Everyone : q # c => table'[q] = table[q]
  BY <1>3, <1>5 DEF TypeOK
<1> QED
  BY <1>1, <1>2, <1>6, <1>7, <1>8, <1>9

\* BackgroundForks and Foreground.
LEMMA ForkInv ==
    ASSUME IInv, NEW p \in Everyone, NEW c \in Procs, NEW next \in {"add", "wait"},
           Fork(p, c, next), next = "add" => ~Full(p)
    PROVE  IInv'
<1>0. TypeOK /\ Shell # c /\ c \in Everyone /\ Shell \in Everyone
  BY JobsAssumption DEF IInv, Everyone
<1>1. TypeOK'
  BY <1>0, ForkType
<1>2. ASSUME NEW j \in 1..N, Runs(j)'
      PROVE  /\ Runs(j) /\ table'[Shell][j] = table[Shell][j]
             /\ table[Shell][j].pid \in Procs /\ table[Shell][j].pid # c
             /\ parent'[table[Shell][j].pid] = Shell /\ kern'[table[Shell][j].pid] # "free"
  <2>1. table'[Shell] = table[Shell]
    BY <1>0, ForkFacts
  <2>2. Runs(j)
    BY <1>2, <2>1 DEF Runs
  <2>3. table[Shell][j].pid \in Procs
    BY <1>0, <2>2, RunsPid
  <2>4. parent[table[Shell][j].pid] = Shell /\ kern[table[Shell][j].pid] # "free"
    BY <2>2 DEF RunningOwned, IInv
  <2> QED
    BY <1>0, <2>1, <2>2, <2>3, <2>4, ForkFacts
<1>3. RunningOwned'
  <2>1. CASE p = Shell
    <3>1. \A j \in 1..N : Runs(j)' => table'[Shell][j].pid # child'[Shell]
      BY <1>0, <1>2, <2>1, ForkFacts
    <3> QED
      BY <1>2, <3>1 DEF RunningOwned, IInv
  <2>2. CASE p # Shell
    BY <1>0, <1>2, <2>2, ForkFacts, KeepsOwned
  <2> QED
    BY <2>1, <2>2
<1>4. ChildOwned'
  <2>1. CASE p = Shell
    BY <1>0, <2>1, ForkFacts DEF ChildOwned
  <2>2. CASE p # Shell
    <3>1. at'[Shell] = at[Shell] /\ child'[Shell] = child[Shell]
      BY <1>0, <2>2, ForkFacts
    <3> QED
      BY <1>0, <3>1, ForkFacts DEF ChildOwned, IInv
  <2> QED
    BY <2>1, <2>2
<1>5. AddFits'
  <2> SUFFICES ASSUME NEW q \in Everyone, at'[q] = "add" PROVE Full(q)' => FALSE
    BY DEF AddFits
  <2>1. table'[q] = table[q]
    BY <1>0, ForkFacts
  <2>2. CASE q = p
    <3>1. next = "add" \/ q = c
      BY <1>0, <2>2, ForkFacts
    <3>2. next = "add"
      BY <1>0, <2>2, <3>1 DEF Fork, IInv, TypeOK, Everyone
    <3> QED
      BY <2>1, <2>2, <3>2 DEF Full
  <2>3. CASE q # p
    <3>1. at[q] = "add"
      BY <1>0, <2>3, ForkFacts
    <3> QED
      BY <2>1, <3>1 DEF AddFits, Full, IInv
  <2> QED
    BY <2>2, <2>3
<1>6. AddOwned'
  <2> SUFFICES ASSUME NEW q \in Everyone, at'[q] \in {"add", "wait"}
               PROVE  child'[q] \in Procs
    BY DEF AddOwned
  <2>1. CASE q = p
    BY <1>0, <2>1, ForkFacts
  <2>2. CASE q # p
    BY <1>0, <2>2, ForkFacts DEF AddOwned, IInv
  <2> QED
    BY <2>1, <2>2
<1> QED
  BY <1>1, <1>3, <1>4, <1>5, <1>6 DEF IInv

\* petrush_job_add: the child was in no slot, and now it is in one.
LEMMA AddInv ==
    ASSUME IInv, NEW p \in Everyone, petrush_job_add(p)
    PROVE  IInv'
<1>0. TypeOK /\ at[p] = "add" /\ ToIdle(p) /\ UNCHANGED <<kern, parent>>
  BY DEF IInv, petrush_job_add
<1>1. PICK i \in 1..N :
        /\ table[p][i].state = "free"
        /\ table' = [table EXCEPT ![p] = [table[p] EXCEPT ![i] =
                                            [pid |-> child[p], state |-> "running"]]]
  BY DEF petrush_job_add
<1> DEFINE e == [pid |-> child[p], state |-> "running"]
<1>2. e.state = "running" /\ e.pid = child[p]
  OBVIOUS
<1>3. SUFFICES ASSUME child[p] \in Procs PROVE IInv'
  <2>1. ASSUME child[p] \notin Procs PROVE FALSE
    BY <1>0, <2>1 DEF AddOwned, IInv
  <2> QED
    BY <2>1
<1>4. e \in Entry
  BY <1>3, Entries
<1> HIDE DEF e
<1>5. /\ table' \in [Everyone -> [1..N -> Entry]]
      /\ table'[p][i] = e
      /\ \A q \in Everyone, j \in 1..N : q # p \/ j # i => table'[q][j] = table[q][j]
  BY <1>0, <1>1, <1>4 DEF TypeOK, e
<1>6. TypeOK'
  BY <1>0, <1>5, IdleType DEF TypeOK
<1>7. RunningOwned'
  <2>1. CASE p # Shell
    <3>1. table'[Shell] = table[Shell] /\ child'[Shell] = child[Shell]
      BY <1>0, <1>1, <2>1, IdleType DEF TypeOK, Everyone
    <3> QED
      BY <1>0, <3>1, KeepsOwned DEF RunningOwned, Runs, IInv
  <2>2. CASE p = Shell
    <3>1. /\ parent[child[Shell]] = Shell /\ kern[child[Shell]] # "free"
          /\ \A j \in 1..N : Runs(j) => table[Shell][j].pid # child[Shell]
      BY <1>0, <2>2 DEF IInv, ChildOwned, RunningOwned
    <3>2. child'[Shell] = Nobody
      BY <1>0, <2>2, IdleType
    <3>3. \A j \in 1..N : j # i /\ Runs(j)' =>
            /\ Runs(j) /\ table'[Shell][j] = table[Shell][j]
            /\ table[Shell][j].pid \in Procs
      BY <1>0, <1>5, <2>2, RunsPid DEF Runs
    <3>4. table'[Shell][i].pid = child[Shell]
      BY <1>2, <1>5, <2>2
    <3>5. ASSUME NEW j \in 1..N, Runs(j)'
          PROVE  /\ parent'[table'[Shell][j].pid] = Shell
                 /\ kern'[table'[Shell][j].pid] # "free"
                 /\ table'[Shell][j].pid # child'[Shell]
      <4>1. CASE j = i
        BY <1>0, <1>3, <2>2, <3>1, <3>2, <3>4, <4>1, JobsAssumption
      <4>2. CASE j # i
        BY <1>0, <3>2, <3>3, <3>5, <4>2, JobsAssumption DEF RunningOwned, IInv
      <4> QED
        BY <4>1, <4>2
    <3>6. ASSUME NEW j \in 1..N, NEW k \in 1..N, Runs(j)', Runs(k)',
                 table'[Shell][k].pid = table'[Shell][j].pid
          PROVE  j = k
      <4>1. CASE j # i /\ k # i
        BY <3>3, <3>6, <4>1 DEF RunningOwned, IInv
      <4>2. CASE j = i /\ k # i
        BY <3>1, <3>3, <3>4, <3>6, <4>2
      <4>3. CASE j # i /\ k = i
        BY <3>1, <3>3, <3>4, <3>6, <4>3
      <4> QED
        BY <4>1, <4>2, <4>3
    <3> QED
      BY <3>5, <3>6 DEF RunningOwned
  <2> QED
    BY <2>1, <2>2
<1>8. ChildOwned' /\ AddOwned'
  BY <1>0, IdleType DEF ChildOwned, AddOwned, IInv, Everyone
<1>9. AddFits'
  <2> SUFFICES ASSUME NEW q \in Everyone, at'[q] = "add"
               PROVE  \E j \in 1..N : table'[q][j].state = "free"
    BY DEF AddFits, Full
  <2>1. q # p /\ at[q] = "add"
    BY <1>0, IdleType
  <2>2. PICK j \in 1..N : table[q][j].state = "free"
    BY <2>1 DEF AddFits, Full, IInv
  <2>3. table'[q][j] = table[q][j]
    BY <1>5, <2>1
  <2> QED
    BY <2>2, <2>3
<1> QED
  BY <1>6, <1>7, <1>8, <1>9 DEF IInv

\* ForegroundEnds: the child collected was not a job.
LEMMA ForegroundEndsInv ==
    ASSUME IInv, NEW p \in Everyone, ForegroundEnds(p)
    PROVE  IInv'
<1>0. /\ TypeOK /\ at[p] = "wait" /\ ToIdle(p) /\ UNCHANGED table
      /\ parent[child[p]] = p /\ Collect(child[p])
  BY DEF IInv, ForegroundEnds
<1>1. child[p] \in Procs
  BY <1>0 DEF AddOwned, IInv
<1>2. TypeOK'
  BY <1>0, <1>1, IdleType, CollectType DEF TypeOK
<1>3. ASSUME NEW j \in 1..N, Runs(j)
      PROVE  /\ table[Shell][j].pid \in Procs /\ table[Shell][j].pid # child[p]
             /\ parent[table[Shell][j].pid] = Shell
             /\ kern[table[Shell][j].pid] # "free"
  <2>1. table[Shell][j].pid \in Procs
    BY <1>0, <1>3, RunsPid
  <2> QED
    BY <1>0, <1>3, <2>1 DEF RunningOwned, IInv
<1>4. RunningOwned'
  <2>1. child'[Shell] = child[Shell] \/ child'[Shell] = Nobody
    BY <1>0, IdleType DEF Everyone
  <2> QED
    BY <1>0, <1>1, <1>3, <2>1, CollectType, KeepsOwned DEF Runs
<1>5. ChildOwned'
  <2>1. CASE p = Shell
    BY <1>0, <2>1, IdleType DEF ChildOwned
  <2>2. CASE p # Shell
    <3>1. at'[Shell] = at[Shell] /\ child'[Shell] = child[Shell]
      BY <1>0, <2>2, IdleType DEF Everyone
    <3>2. at[Shell] \in {"add", "wait"} => child[Shell] \in Procs /\ child[Shell] # child[p]
      BY <1>0, <2>2 DEF ChildOwned, IInv
    <3> QED
      BY <1>0, <1>1, <3>1, <3>2, CollectType DEF ChildOwned, IInv
  <2> QED
    BY <2>1, <2>2
<1>6. AddFits' /\ AddOwned'
  BY <1>0, IdleType DEF AddFits, AddOwned, Full, IInv
<1> QED
  BY <1>2, <1>4, <1>5, <1>6 DEF IInv

\* A process that ends stays a zombie of the shell until it is waited for.
LEMMA ExitInv ==
    ASSUME IInv, NEW c \in Procs, Exit(c)
    PROVE  IInv'
<1>0. TypeOK /\ c # Shell /\ Shell # Nobody /\ Shell \in Everyone
  BY JobsAssumption DEF IInv, Everyone
<1>1. TypeOK'
  BY <1>0, ExitType
<1>2. /\ table'[Shell] = table[Shell] /\ at'[Shell] = at[Shell]
      /\ child'[Shell] = child[Shell]
  BY <1>0 DEF Exit, TypeOK
<1>3. ASSUME NEW d \in Procs, parent[d] = Shell, kern[d] # "free"
      PROVE  parent'[d] = Shell /\ kern'[d] # "free"
  BY <1>0, <1>3 DEF Exit, TypeOK
<1>4. RunningOwned'
  BY <1>0, <1>2, <1>3, RunsPid, KeepsOwned DEF Runs, RunningOwned, IInv
<1>5. ChildOwned'
  BY <1>2, <1>3 DEF ChildOwned, IInv
<1>6. AddFits' /\ AddOwned'
  BY <1>0 DEF AddFits, AddOwned, Full, Exit, IInv, TypeOK
<1> QED
  BY <1>1, <1>4, <1>5, <1>6 DEF IInv

\* Every step keeps the invariant.
LEMMA NextInv == IInv /\ [Next]_vars => IInv'
<1> SUFFICES ASSUME IInv, [Next]_vars PROVE IInv'
  OBVIOUS
<1>0. Shell \in Everyone
  BY DEF Everyone
<1>1. CASE Prompt
  BY <1>0, <1>1, ReapsInv DEF Prompt
<1>2. CASE petrush_job_notify
  BY <1>0, <1>2, ClearInv DEF petrush_job_notify
<1>3. ASSUME NEW p \in Everyone, Begins(p)
      PROVE  IInv'
  BY <1>3, ReapsInv, ForkInv
     DEF Begins, builtin_jobs, dispatch_pipeline_background, Foreground
<1>4. ASSUME NEW p \in Everyone, Continues(p)
      PROVE  IInv'
  <2>1. CASE petrush_job_reap(p) \/ petrush_job_prune_done(p)
    BY <2>1, ReapInv, ClearInv DEF petrush_job_prune_done
  <2>2. CASE \E c \in Procs : BackgroundForks(p, c)
    BY <2>2, ForkInv DEF BackgroundForks
  <2>3. CASE BackgroundRefused(p) \/ ForkFails(p)
    BY <2>3, ToIdleInv DEF BackgroundRefused, ForkFails
  <2>4. CASE petrush_job_add(p) \/ ForegroundEnds(p)
    BY <2>4, AddInv, ForegroundEndsInv
  <2> QED
    BY <1>4, <2>1, <2>2, <2>3, <2>4 DEF Continues
<1>5. ASSUME NEW p \in Everyone, ForegroundStops(p)
      PROVE  IInv'
  BY <1>5, ToIdleInv DEF ForegroundStops
<1>6. ASSUME NEW c \in Procs, Exit(c)
      PROVE  IInv'
  BY <1>6, ExitInv
<1>7. CASE UNCHANGED vars
  BY <1>7 DEF vars, IInv, TypeOK, RunningOwned, Runs, ChildOwned, AddOwned, AddFits, Full
<1> QED
  BY <1>1, <1>2, <1>3, <1>4, <1>5, <1>6, <1>7 DEF Next

\* The invariant holds in every reachable state.
THEOREM JobsInvariance == Spec => []IInv
  BY InitInv, NextInv, PTL DEF Spec

\* Every variable keeps its type: petrush_job_reap and petrush_job_add never
\* leave an entry without a process id, whatever the children do.
THEOREM JobsTypeCorrect == Spec => []TypeOK
<1>1. IInv => TypeOK
  BY DEF IInv
<1> QED
  BY <1>1, JobsInvariance, PTL

\* A job that the first shell counts as running is its own child, in one slot
\* only, that no other wait has collected.
THEOREM JobsOwned == Spec => []RunningOwned
<1>1. IInv => RunningOwned
  BY DEF IInv
<1> QED
  BY <1>1, JobsInvariance, PTL

\* petrush_job_add always finds a free slot, in every process: the ceiling
\* tested before the fork still holds after it.
THEOREM AddAlwaysFits == Spec => []AddFits
<1>1. IInv => AddFits
  BY DEF IInv
<1> QED
  BY <1>1, JobsInvariance, PTL

-----------------------------------------------------------------------------
(* The refinement *)

\* What a number stands for, before and after a step.
LEMMA JobAt ==
    /\ job \in [1..N -> {JobOf(i) : i \in 1..N}]
    /\ \A i \in 1..N : job[i] = JobOf(i)
    /\ DOMAIN job' = 1..N
    /\ \A i \in 1..N : job'[i] = JobOf(i)'
  BY DEF job

\* A step that leaves the shell's slot alone, and the child of a running job,
\* leaves the job as it was.
LEMMA JobSame ==
    ASSUME NEW i \in 1..N, table'[Shell][i] = table[Shell][i],
           Runs(i) => kern'[table[Shell][i].pid] = kern[table[Shell][i].pid]
    PROVE  job'[i] = job[i]
  BY JobAt DEF JobOf, Runs

\* A step of a job is a step of all of them.
LEMMA Stutters ==
    ASSUME \A i \in 1..N : job'[i] = job[i]
    PROVE  job' = job
  BY DEF job

\* Collecting a child that no slot of the shell runs is invisible.
LEMMA CollectMaps ==
    ASSUME IInv, NEW c \in Procs, Collect(c), table'[Shell] = table[Shell],
           \A i \in 1..N : Runs(i) => table[Shell][i].pid # c
    PROVE  job' = job
<1>1. ASSUME NEW i \in 1..N, Runs(i)
      PROVE  kern'[table[Shell][i].pid] = kern[table[Shell][i].pid]
  BY <1>1, CollectType, RunsPid DEF IInv
<1> QED
  BY <1>1, JobSame, Stutters

\* A turn of the loop of petrush_job_reap notices one job that has ended, or
\* none; in a child of the shell it is invisible.
LEMMA ReapMaps ==
    ASSUME IInv, NEW p \in Everyone, petrush_job_reap(p)
    PROVE  Table!Next \/ job' = job
<1> DEFINE i == slot[p]
           e == table[p][i]
<1>1. i \in 1..N /\ e \in Entry /\ TypeOK /\ Shell \in Everyone
  BY DEF petrush_job_reap, IInv, TypeOK, Everyone
<1>2. CASE e.state = "running" /\ parent[e.pid] = p /\ kern[e.pid] = "zombie"
           /\ Collect(e.pid) /\ SetDone(p, i)
  <2>1. e.pid \in Procs
    BY <1>1, <1>2, Entries
  <2>2. CASE p # Shell
    <3>1. \A j \in 1..N : Runs(j) => table[Shell][j].pid # e.pid
      BY <1>2, <2>2 DEF RunningOwned, IInv
    <3>2. table'[Shell] = table[Shell]
      BY <1>1, <2>2, <1>2 DEF TypeOK, SetDone
    <3> QED
      BY <1>2, <2>1, <3>1, <3>2, CollectMaps
  <2>3. CASE p = Shell
    <3>1. job[i] = "ended"
      BY <1>1, <1>2, <2>3, JobAt DEF JobOf
    <3>2. job'[i] = "done"
      BY <1>1, <1>2, <2>3, DoneSlot, JobAt DEF JobOf
    <3>3. ASSUME NEW j \in 1..N, j # i
          PROVE  job'[j] = job[j]
      <4>1. table'[Shell][j] = table[Shell][j]
        BY <1>1, <1>2, <3>3, DoneSlot
      <4>2. Runs(j) => table[Shell][j].pid # e.pid /\ table[Shell][j].pid \in Procs
        BY <1>1, <1>2, <2>3, <3>3, RunsPid DEF RunningOwned, Runs, IInv
      <4> QED
        BY <1>1, <1>2, <2>1, <4>1, <4>2, CollectType, JobSame
    <3>4. job' = [job EXCEPT ![i] = "done"]
      BY <1>1, <3>2, <3>3 DEF job
    <3> QED
      BY <1>1, <3>1, <3>4 DEF Table!Next, Table!Notice
  <2> QED
    BY <2>2, <2>3
<1>3. CASE e.state = "running" /\ parent[e.pid] # p /\ SetDone(p, i)
           /\ UNCHANGED <<kern, parent>>
  <2>1. p # Shell
    BY <1>1, <1>3 DEF RunningOwned, Runs, IInv
  <2>2. table'[Shell] = table[Shell]
    BY <1>1, <1>3, <2>1 DEF TypeOK, SetDone
  <2> QED
    BY <1>3, <2>2, JobSame, Stutters
<1>4. CASE UNCHANGED <<kern, parent, table>>
  BY <1>4, JobSame, Stutters
<1> QED
  BY <1>2, <1>3, <1>4 DEF petrush_job_reap

\* petrush_job_notify and petrush_job_prune_done of the shell are a report.
LEMMA ClearMaps ==
    ASSUME IInv, NEW p \in Everyone, ClearDone(p), UNCHANGED kern
    PROVE  Table!Next \/ job' = job
<1>1. TypeOK /\ Shell \in Everyone
  BY DEF IInv, Everyone
<1>2. CASE p # Shell
  <2>1. table'[Shell] = table[Shell]
    BY <1>1, <1>2, Cleared
  <2> QED
    BY <2>1, JobSame, Stutters
<1>3. CASE p = Shell
  <2>1. ASSUME NEW i \in 1..N
        PROVE  job'[i] = IF job[i] = "done" THEN "free" ELSE job[i]
    <3>1. CASE table[Shell][i].state = "done"
      <4>1. job[i] = "done"
        BY <3>1, JobAt DEF JobOf
      <4>2. table'[Shell][i] = Free
        BY <1>1, <1>3, <3>1, Cleared
      <4> QED
        BY <4>1, <4>2, JobAt, Entries DEF JobOf
    <3>2. CASE table[Shell][i].state # "done"
      <4>1. job[i] # "done"
        BY <3>2, JobAt DEF JobOf
      <4>2. table'[Shell][i] = table[Shell][i]
        BY <1>1, <1>3, <3>2, Cleared
      <4> QED
        BY <4>1, <4>2, JobSame
    <3> QED
      BY <3>1, <3>2
  <2>2. job' = [i \in 1..N |-> IF job[i] = "done" THEN "free" ELSE job[i]]
    BY <2>1 DEF job
  <2> QED
    BY <2>2 DEF Table!Next, Table!Report
<1> QED
  BY <1>2, <1>3

\* A fork takes a process id that no running job has.
LEMMA ForkMaps ==
    ASSUME IInv, NEW p \in Everyone, NEW c \in Procs, NEW next \in {"add", "wait"},
           Fork(p, c, next)
    PROVE  job' = job
<1>1. TypeOK /\ Shell # c /\ Shell \in Everyone
  BY JobsAssumption DEF IInv, Everyone
<1>2. table'[Shell] = table[Shell]
  BY <1>1, ForkFacts
<1>3. ASSUME NEW i \in 1..N, Runs(i)
      PROVE  kern'[table[Shell][i].pid] = kern[table[Shell][i].pid]
  <2>1. table[Shell][i].pid \in Procs /\ kern[table[Shell][i].pid] # "free"
    BY <1>1, <1>3, RunsPid DEF RunningOwned, IInv
  <2> QED
    BY <1>1, <2>1, ForkFacts
<1> QED
  BY <1>2, <1>3, JobSame, Stutters

\* petrush_job_add starts a job under the lowest free number, and the job may
\* have ended already.
LEMMA AddMaps ==
    ASSUME IInv, NEW p \in Everyone, petrush_job_add(p)
    PROVE  Table!Next \/ job' = job
<1>1. TypeOK /\ Shell \in Everyone /\ UNCHANGED kern
  BY DEF IInv, Everyone, petrush_job_add
<1>2. PICK i \in 1..N :
        /\ table[p][i].state = "free"
        /\ \A j \in 1..(i - 1) : table[p][j].state # "free"
        /\ table' = [table EXCEPT ![p] = [table[p] EXCEPT ![i] =
                                            [pid |-> child[p], state |-> "running"]]]
  BY DEF petrush_job_add
<1>3. CASE p # Shell
  <2>1. table'[Shell] = table[Shell]
    BY <1>1, <1>2, <1>3 DEF TypeOK
  <2> QED
    BY <1>1, <2>1, JobSame, Stutters
<1>4. CASE p = Shell
  <2>1. /\ table'[Shell][i].state = "running"
        /\ \A j \in 1..N : j # i => table'[Shell][j] = table[Shell][j]
    BY <1>1, <1>2, <1>4 DEF TypeOK
  <2>2. job[i] = "free"
    BY <1>2, <1>4, JobAt DEF JobOf
  <2>3. job'[i] \in {"running", "ended"}
    BY <2>1, JobAt DEF JobOf
  <2>4. \A j \in 1..N : j # i => job'[j] = job[j]
    BY <1>1, <2>1, JobSame
  <2>5. \A j \in 1..(i - 1) : job[j] # "free"
    <3>1. \A j \in 1..(i - 1) : j \in 1..N
      BY JobsAssumption
    <3>2. \A j \in 1..N : table[Shell][j].state # "free" => job[j] # "free"
      BY JobAt DEF JobOf
    <3> QED
      BY <1>2, <1>4, <3>1, <3>2
  <2>6. job' = [job EXCEPT ![i] = job'[i]]
    BY <2>4 DEF job
  <2> QED
    BY <2>2, <2>3, <2>5, <2>6 DEF Table!Next, Table!Start
<1> QED
  BY <1>3, <1>4

\* A process that ends may be a job, which has then ended: nobody takes it from
\* the shell.
LEMMA ExitMaps ==
    ASSUME IInv, NEW c \in Procs, Exit(c)
    PROVE  Table!Next \/ job' = job
<1>1. TypeOK /\ Shell \in Everyone /\ c # Shell /\ Shell # Nobody
  BY JobsAssumption DEF IInv, Everyone
<1>2. table'[Shell] = table[Shell]
  BY <1>1 DEF Exit, TypeOK
<1>3. ASSUME NEW j \in 1..N, Runs(j)
      PROVE  table[Shell][j].pid \in Procs /\ parent[table[Shell][j].pid] = Shell
  BY <1>1, <1>3, RunsPid DEF RunningOwned, IInv
<1>4. ASSUME NEW j \in 1..N, Runs(j), table[Shell][j].pid # c
      PROVE  kern'[table[Shell][j].pid] = kern[table[Shell][j].pid]
  BY <1>1, <1>3, <1>4 DEF Exit
<1>5. CASE \A j \in 1..N : Runs(j) => table[Shell][j].pid # c
  BY <1>2, <1>4, <1>5, JobSame, Stutters
<1>6. ASSUME NEW i \in 1..N, Runs(i), table[Shell][i].pid = c
      PROVE  Table!Next
  <2>1. kern[c] = "live" /\ kern'[c] = "zombie"
    BY <1>1, <1>3, <1>6 DEF Exit
  <2>2. job[i] = "running" /\ job'[i] = "ended"
    BY <1>2, <1>6, <2>1, JobAt DEF JobOf, Runs
  <2>3. ASSUME NEW j \in 1..N, j # i
        PROVE  job'[j] = job[j]
    <3>1. Runs(j) => table[Shell][j].pid # c
      BY <1>6, <2>3 DEF RunningOwned, IInv
    <3> QED
      BY <1>2, <1>4, <3>1, JobSame
  <2>4. job' = [job EXCEPT ![i] = "ended"]
    BY <2>2, <2>3 DEF job
  <2> QED
    BY <2>2, <2>4 DEF Table!Next, Table!End
<1> QED
  BY <1>5, <1>6

\* The wait of the foreground takes no job.
LEMMA ForegroundEndsMaps ==
    ASSUME IInv, NEW p \in Everyone, ForegroundEnds(p)
    PROVE  job' = job
<1>1. /\ at[p] = "wait" /\ UNCHANGED table
      /\ parent[child[p]] = p /\ Collect(child[p])
  BY DEF ForegroundEnds
<1>2. child[p] \in Procs
  BY <1>1 DEF AddOwned, IInv
<1>3. \A j \in 1..N : Runs(j) => table[Shell][j].pid # child[p]
  BY <1>1 DEF RunningOwned, IInv
<1> QED
  BY <1>1, <1>2, <1>3, CollectMaps

\* A step that touches neither the tables nor the kernel is invisible.
LEMMA SameMaps == UNCHANGED <<kern, table>> => job' = job
  BY JobSame, Stutters

\* Every step of the shell and its children is a step of the abstract table, or
\* changes nothing in it.
LEMMA NextMaps == IInv /\ [Next]_vars => [Table!Next]_job
<1> SUFFICES ASSUME IInv, [Next]_vars PROVE Table!Next \/ job' = job
  OBVIOUS
<1>0. Shell \in Everyone
  BY DEF Everyone
<1>1. CASE Prompt
  BY <1>1, SameMaps DEF Prompt, Reaps
<1>2. CASE petrush_job_notify
  BY <1>0, <1>2, ClearMaps DEF petrush_job_notify
<1>3. ASSUME NEW p \in Everyone, Begins(p)
      PROVE  job' = job
  BY <1>3, SameMaps, ForkMaps
     DEF Begins, builtin_jobs, dispatch_pipeline_background, Reaps, Foreground
<1>4. ASSUME NEW p \in Everyone, Continues(p)
      PROVE  Table!Next \/ job' = job
  <2>1. CASE petrush_job_reap(p) \/ petrush_job_prune_done(p)
    BY <2>1, ReapMaps, ClearMaps DEF petrush_job_prune_done
  <2>2. CASE \E c \in Procs : BackgroundForks(p, c)
    BY <2>2, ForkMaps DEF BackgroundForks
  <2>3. CASE BackgroundRefused(p) \/ ForkFails(p)
    BY <2>3, SameMaps DEF BackgroundRefused, ForkFails
  <2>4. CASE petrush_job_add(p) \/ ForegroundEnds(p)
    BY <2>4, AddMaps, ForegroundEndsMaps
  <2> QED
    BY <1>4, <2>1, <2>2, <2>3, <2>4 DEF Continues
<1>5. ASSUME NEW p \in Everyone, ForegroundStops(p)
      PROVE  job' = job
  BY <1>5, SameMaps DEF ForegroundStops
<1>6. ASSUME NEW c \in Procs, Exit(c)
      PROVE  Table!Next \/ job' = job
  BY <1>6, ExitMaps
<1>7. CASE UNCHANGED vars
  BY <1>7, SameMaps DEF vars
<1> QED
  BY <1>1, <1>2, <1>3, <1>4, <1>5, <1>6, <1>7 DEF Next

\* The shell starts with the abstract table empty.
LEMMA InitMaps == Init => Table!Init
  BY Entries DEF Init, Table!Init, job, JobOf, Everyone, Empty

\* The job table of the first shell implements JobTable, for any number of
\* slots, processes and children with copies of the table.
THEOREM JobsRefines == Spec => ImplementsJobTable
  BY InitMaps, NextMaps, JobsInvariance, PTL DEF Spec, ImplementsJobTable, Table!Spec
=============================================================================
