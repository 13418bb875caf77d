-------------------------- MODULE EvalControl_proofs --------------------------
(***************************************************************************)
(* Where control can be in Eval: which function may call which, what an    *)
(* unwinding return or abort leaves running, what $? is between two items, *)
(* and how often the EXIT action is started.                               *)
(*                                                                         *)
(* Every step of Eval is one of four moves of the C stack (lemma Moves).   *)
(* The invariants are then shown for the moves, not for the fifty actions. *)
(***************************************************************************)
EXTENDS Eval_proofs

-----------------------------------------------------------------------------
(* The functions and their calls *)

ListPts  == {"list:item", "list:after"}
ExtPts   == {"ext:wait", "ext:done"}
IfPts    == {"if:arm", "if:cond", "if:body", "if:else"}
WhilePts == {"while:test", "while:cond", "while:body"}
ForPts   == {"for:word", "for:body"}
CasePts  == {"case:arm", "case:body"}
ExitPts  == {"exit:poll", "exit:guard", "exit:ran", "exit:over"}
MainPts  == {"main:ran", "main:exit"}
ReplPts  == {"repl:rc", "repl:rcran", "repl:prompt", "repl:ran"}

\* The points of one C function, for each of them.
CFunctions == {ListPts, ExtPts, IfPts, WhilePts, ForPts, CasePts, InFn, InFile,
               InPoll, ExitPts, MainPts, ReplPts}

Kin(p, q) == \E F \in CFunctions : p \in F /\ q \in F

\* What an item of a list can be a call of.
ItemPts == ExtPts \cup IfPts \cup WhilePts \cup ForPts \cup CasePts
             \cup InFn \cup InFile \cup ExitPts

\* The points at which a function waits for a list that it runs.
RunsList == {"if:cond", "if:body", "if:else", "while:cond", "while:body",
             "for:body", "case:body", "fn:body", "file:ran", "exit:ran"}

\* A function at point p may have called one that is now at point q.
MayCall(p, q) ==
    \/ p = "list:after" /\ q \in ItemPts
    \/ p \in RunsList \cup {"poll:ran", "repl:ran"} /\ q \in ListPts
    \/ p \in {"list:item", "ext:wait", "ext:done", "exit:guard"} /\ q \in InPoll
    \/ p \in {"main:ran", "repl:rcran"} /\ q \in InFile
    \/ p = "main:exit" /\ q \in ExitPts

\* Every frame of the stack was called by the one below it.
Shaped == \A i \in 1..(Len(stack) - 1) : MayCall(stack[i].at, stack[i + 1].at)

\* The points that unwinding passes through, and the end of the process.
Unwinding == {"list:after", "exit:over"} \cup RunsList

\* A list that has run an item.
Started(f) ==
    /\ f.at = "list:item"
    /\ IF f.todo = <<>> THEN f.st # 0 ELSE Head(f.todo) # "first"

-----------------------------------------------------------------------------
(* The moves *)

\* Only the process or a pending signal changes.
Rests == UNCHANGED <<stack, last, returning, abort, inExit, exitRuns, trapAct>>

\* The running function moves on, to a point f.at of its own.
Replaces(f) ==
    /\ Top.at # "exit:over"
    /\ stack' = Resume(f) /\ Kin(Top.at, f.at)
    /\ Started(f) => \/ last' = f.st
                     \/ Started(Top) /\ f.st = Top.st /\ last' = last
    /\ f.at \in InPoll => /\ f.at = "poll:scan"
                          /\ last' = IF Top.at = "poll:scan" THEN last ELSE Top.st
    /\ abort' => f.at \in Unwinding \/ (abort /\ Top.at \notin Unwinding)
    /\ returning' => \/ f.at \in Unwinding \cup {"file:line"}
                     \/ (returning /\ Top.at \notin Unwinding)
    /\ f.at = "exit:over" => UNCHANGED trapAct /\ (inExit \/ trapAct[0] # "command")
    /\ UNCHANGED exitRuns
    /\ UNCHANGED inExit \/ (~inExit' /\ f.at = "exit:over")

\* It becomes f and calls g.
Pushes(f, g) ==
    /\ Top.at # "exit:over"
    /\ stack' = Append(Resume(f), g) /\ Kin(Top.at, f.at) /\ MayCall(f.at, g.at)
    /\ ~Started(g) /\ g.at # "exit:over"
    /\ Started(f) => g.at = "poll:scan" /\ last' = f.st
    /\ f.at \in InPoll => Top.at = "poll:scan" /\ f.st = last
    /\ abort' => abort /\ Top.at \notin Unwinding
    /\ returning' => returning /\ Top.at \notin Unwinding
    /\ \/ UNCHANGED <<inExit, exitRuns>>
       \/ ~inExit /\ inExit' /\ exitRuns' = exitRuns + 1

\* It returns.
Pops ==
    /\ Top.at \notin Base \cup ExitPts
    /\ stack' = SubSeq(stack, 1, Len(stack) - 1)
    /\ Top.at \in InPoll => Top.at = "poll:scan" /\ last' = last
    /\ Top.at \in InFile /\ abort' => abort /\ Top.at = "file:line"
    /\ UNCHANGED <<inExit, exitRuns>>

Move == \/ Rests
        \/ \E f \in Frame : Replaces(f)
        \/ \E f \in Frame, g \in Frame : Pushes(f, g)
        \/ Pops

\* Points of one function are called from the same places.
LEMMA KinFacts ==
    /\ \A F \in CFunctions : \A p, q \in F : Kin(p, q)
    /\ \A p, q, r : Kin(p, q) /\ MayCall(r, p) => MayCall(r, q)
    /\ \A p, q : Kin(p, q) =>
         /\ (p \in Base) <=> (q \in Base)
         /\ (p \in MainPts) <=> (q \in MainPts)
         /\ (p \in InFn) <=> (q \in InFn)
         /\ (p \in InFile) <=> (q \in InFile)
         /\ (p \in InPoll) <=> (q \in InPoll)
<1>1. \A F \in CFunctions : \A p, q \in F : Kin(p, q)
  BY DEF Kin
<1>2. ASSUME NEW p, NEW q, Kin(p, q)
      PROVE  /\ \A r : MayCall(r, p) => MayCall(r, q)
             /\ (p \in Base) <=> (q \in Base)
             /\ (p \in MainPts) <=> (q \in MainPts)
             /\ (p \in InFn) <=> (q \in InFn)
             /\ (p \in InFile) <=> (q \in InFile)
             /\ (p \in InPoll) <=> (q \in InPoll)
  <2>1. PICK F \in CFunctions : p \in F /\ q \in F
    BY <1>2 DEF Kin
  <2> USE <2>1 DEF CFunctions, MayCall, Base, ItemPts, ListPts, ExtPts, IfPts, WhilePts,
             ForPts, CasePts, InFn, InFile, InPoll, ExitPts, MainPts, ReplPts
  <2>2. CASE F \in {ListPts, ExtPts, IfPts, WhilePts}
    BY <2>2
  <2>3. CASE F \in {ForPts, CasePts, InFn, InFile}
    BY <2>3
  <2>4. CASE F \in {InPoll, ExitPts, MainPts, ReplPts}
    BY <2>4
  <2> QED
    BY <2>2, <2>3, <2>4
<1> QED
  BY <1>1, <1>2

-----------------------------------------------------------------------------
(* Every step is a move *)

\* A list that has just been called has run nothing.
LEMMA FreshList ==
    ASSUME TypeOK, Based, NEW c \in Bodies
    PROVE  /\ c \in Seq(Conds) /\ ListFrame(c) \in Frame
           /\ ListFrame(c).at = "list:item" /\ ~Started(ListFrame(c))
<1>1. c \in Seq(Conds) /\ ListFrame(c) \in Frame /\ ListFrame(c).at = "list:item"
  BY Frames
<1>2. ListFrame(c).todo = c /\ ListFrame(c).st = 0
  BY <1>1 DEF ListFrame, At
<1>3. CASE c # <<>>
  <2>1. 1 \in DOMAIN c /\ WellConnected(c)
    BY <1>1, <1>3 DEF Bodies
  <2> QED
    BY <1>1, <1>2, <2>1 DEF Started, WellConnected
<1> QED
  BY <1>1, <1>2, <1>3 DEF Started

\* A call of petrush_traps_poll is a move on, or a call.
LEMMA PollMove ==
    ASSUME IInv, NEW f \in Frame, CallPoll(f), Kin(Top.at, f.at),
           Top.at # "exit:over", MayCall(f.at, "poll:scan"),
           f.at \notin InPoll, Started(f) => last' = f.st,
           abort' => abort /\ Top.at \notin Unwinding,
           returning' => returning /\ Top.at \notin Unwinding,
           UNCHANGED <<inExit, exitRuns>>
    PROVE  Move
<1>0. f.at # "exit:over"
  BY DEF MayCall, InPoll, ListPts, InFile, ItemPts, ExitPts, ExtPts, IfPts, WhilePts,
         ForPts, CasePts, InFn, RunsList
<1>1. CASE pending = {} \/ inPoll
  <2>1. stack' = Resume(f)
    BY <1>1 DEF CallPoll
  <2>2. Replaces(f)
    BY <1>0, <2>1 DEF Replaces
  <2> QED
    BY <2>2 DEF Move
<1>2. CASE ~(pending = {} \/ inPoll)
  <2>1. stack' = Append(Resume(f), At("poll:scan"))
    BY <1>2 DEF CallPoll
  <2>2. At("poll:scan") \in Frame /\ At("poll:scan").at = "poll:scan"
    BY Frames DEF IInv, Points
  <2>3. Pushes(f, At("poll:scan"))
    BY <2>1, <2>2 DEF Pushes, Started
  <2> QED
    BY <2>2, <2>3 DEF Move
<1> QED
  BY <1>1, <1>2

\* The steps of dispatch_list are moves.
LEMMA ListMoves ==
    ASSUME IInv, ListNext
    PROVE  Move
<1> USE Frames, NextItemsType DEF IInv
<1>0. \A p, q \in ListPts : Kin(p, q)
  BY KinFacts DEF CFunctions
<1>1. CASE SkipItem
  <2> DEFINE f == [Top EXCEPT !.todo = NextItems]
  <2>1. Top.at = "list:item" /\ Top.todo # <<>> /\ stack' = Resume(f) /\ ShortCircuit
    BY <1>1 DEF SkipItem, Running, Step
  <2>2. f \in Frame /\ f.at = "list:item" /\ f.st = Top.st
    BY <2>1 DEF Frame
  <2>3. UNCHANGED <<last, abort, returning, exitRuns, inExit>>
    BY <1>1 DEF SkipItem, unwind, exits
  <2>4. Top.at \notin Unwinding /\ f.at \notin InPoll /\ Kin(Top.at, f.at)
    BY <1>0, <2>1, <2>2 DEF Unwinding, RunsList, InPoll, ListPts
  <2>5. Started(Top)
    BY <2>1 DEF Started, ShortCircuit
  <2> HIDE DEF f
  <2>6. Replaces(f)
    BY <2>1, <2>2, <2>3, <2>4, <2>5 DEF Replaces
  <2> QED
    BY <2>2, <2>6 DEF Move
<1>2. CASE EndOfList
  BY <1>2 DEF EndOfList, Running, Return, Move, Pops, Base, InPoll, InFile,
     ExitPts, exits
<1>3. CASE ItemReturns
  BY <1>3 DEF ItemReturns, ItemDone, Running, Return, Move, Pops, Base, InPoll,
              InFile, ExitPts, exits
<1>4. CASE ItemAborts
  BY <1>4 DEF ItemAborts, ItemDone, Running, Return, Move, Pops, Base, InPoll,
              InFile, ExitPts, exits
<1>5. CASE ItemContinues
  <2> DEFINE f == [ListFrame(NextItems) EXCEPT !.st = rv]
  <2>1. Top.at = "list:after" /\ CallPoll(f) /\ rv \in Codes /\ last' = rv
    BY <1>5 DEF ItemContinues, ItemDone, Running, TypeOK
  <2>2. f \in Frame /\ f.at = "list:item" /\ f.st = rv
    <3>1. ListFrame(NextItems) \in Frame /\ ListFrame(NextItems).at = "list:item"
      OBVIOUS
    <3> QED
      BY <2>1, <3>1 DEF Frame
  <2>3. ~abort' /\ ~returning' /\ UNCHANGED <<exitRuns, inExit>>
    BY <1>5 DEF ItemContinues, unwind, exits
  <2>4. Kin(Top.at, f.at) /\ MayCall(f.at, "poll:scan") /\ f.at \notin InPoll
    BY <1>0, <2>1, <2>2 DEF ListPts, MayCall, InPoll
  <2> HIDE DEF f
  <2> QED
    BY <2>1, <2>2, <2>3, <2>4, PollMove
<1> QED
  BY <1>1, <1>2, <1>3, <1>4, <1>5 DEF ListNext

\* An item that completes at once is a move on to "list:after".
LEMMA CompletesMove ==
    ASSUME IInv, Top.at = "list:item", NEW s, Completes(s),
           UNCHANGED <<inExit, exitRuns>>
    PROVE  Move
<1> DEFINE f == Goto("list:after")
<1>1. f \in Frame /\ f.at = "list:after" /\ stack' = Resume(f)
  BY Frames DEF IInv, Points, Completes
<1>2. Kin(Top.at, f.at)
  BY <1>1, KinFacts DEF CFunctions, ListPts
<1> HIDE DEF f
<1>3. f.at \notin InPoll /\ f.at \in Unwinding /\ ~Started(f)
  BY <1>1 DEF InPoll, Unwinding, Started
<1>4. Replaces(f)
  BY <1>1, <1>2, <1>3 DEF Replaces
<1> QED
  BY <1>1, <1>4 DEF Move

\* An item that is a call.
LEMMA CallsMove ==
    ASSUME IInv, Top.at = "list:item", NEW g \in Frame, Calls(g),
           g.at \in ItemPts \ {"exit:over"}, abort' => abort,
           UNCHANGED <<returning, inExit, exitRuns>>
    PROVE  Move
<1> DEFINE f == Goto("list:after")
<1>1. f \in Frame /\ f.at = "list:after" /\ stack' = Append(Resume(f), g)
  BY Frames DEF IInv, Points, Calls, Call
<1>2. Kin(Top.at, f.at) /\ MayCall(f.at, g.at)
  BY <1>1, KinFacts DEF CFunctions, ListPts, MayCall
<1>3. Top.at \notin Unwinding /\ ~Started(g)
  BY DEF Unwinding, RunsList, Started, ItemPts, ExtPts, IfPts, WhilePts, ForPts,
         CasePts, InFn, InFile, ExitPts
<1> HIDE DEF f
<1>4. f.at \notin InPoll /\ ~Started(f)
  BY <1>1 DEF InPoll, Started
<1>5. Pushes(f, g)
  BY <1>1, <1>2, <1>3, <1>4 DEF Pushes
<1> QED
  BY <1>1, <1>5 DEF Move

\* The steps that take an item are moves, or the process ends.
LEMMA ItemMoves ==
    ASSUME IInv, ItemNext
    PROVE  Move
<1>0. \A k : Item(k) => Top.at = "list:item"
  BY DEF Item, Running
<1>1. \A p \in ItemPts \ {"exit:over"} : /\ p \in Points
                                         /\ At(p) \in Frame /\ At(p).at = p
  <2>1. ItemPts \subseteq Points
    BY DEF ItemPts, ExtPts, IfPts, WhilePts, ForPts, CasePts, InFn, InFile, ExitPts,
           Points
  <2> QED
    BY <2>1, Frames DEF IInv
<1>2. /\ {"ext:wait", "if:arm", "while:test", "for:word", "case:arm", "fn:enter",
          "file:line", "exit:poll"} \subseteq ItemPts \ {"exit:over"}
  BY DEF ItemPts, ExtPts, IfPts, WhilePts, ForPts, CasePts, InFn, InFile, ExitPts
<1>3. CASE RunStatus \/ RunAborting \/ RunSetErrexit \/ builtin_return \/ builtin_trap
           \/ SourceRefused
  <2>1. Top.at = "list:item" /\ (\E s : Completes(s)) /\ UNCHANGED <<inExit, exitRuns>>
    BY <1>0, <1>3 DEF RunStatus, RunAborting, RunSetErrexit, builtin_return,
                      builtin_trap, SourceRefused, exits
  <2> QED
    BY <2>1, CompletesMove
<1>4. CASE builtin_exit
  <2>1. PICK s \in Status : Calls([At("exit:poll") EXCEPT !.st = s])
    BY <1>4 DEF builtin_exit
  <2> DEFINE g == [At("exit:poll") EXCEPT !.st = s]
  <2>2. g \in Frame /\ g.at = "exit:poll"
    BY <1>1, <1>2, Frames DEF IInv, Codes
  <2>3. UNCHANGED <<abort, returning, inExit, exitRuns>> /\ Top.at = "list:item"
    BY <1>0, <1>4 DEF builtin_exit, unwind, exits
  <2> HIDE DEF g
  <2> QED
    BY <1>2, <2>1, <2>2, <2>3, CallsMove DEF g
<1>5. CASE ExitBadOperand
  BY <1>5 DEF ExitBadOperand, Move, Rests, unwind, traps
<1>6. CASE RunExternal \/ RunCompound \/ call_fn \/ petrush_source_file
  <2>1. \E p \in {"ext:wait", "if:arm", "while:test", "for:word", "fn:enter",
                  "file:line"} : Calls(At(p))
    BY <1>6 DEF RunExternal, RunCompound, call_fn, petrush_source_file
  <2>2. UNCHANGED <<returning, inExit, exitRuns>> /\ (abort' => abort)
        /\ Top.at = "list:item"
    BY <1>0, <1>6 DEF RunExternal, RunCompound, call_fn, petrush_source_file, unwind,
                      exits
  <2> QED
    BY <1>1, <1>2, <2>1, <2>2, CallsMove
<1>7. CASE RunCase
  <2>1. Top.at = "list:item" /\ UNCHANGED <<returning, inExit, exitRuns>>
    BY <1>0, <1>7 DEF RunCase, unwind, exits
  <2>2. \/ \E s : Completes(s)
        \/ Calls(At("case:arm")) /\ UNCHANGED abort
    BY <1>7 DEF RunCase
  <2> QED
    BY <1>1, <1>2, <2>1, <2>2, CompletesMove, CallsMove
<1> QED
  BY <1>3, <1>4, <1>5, <1>6, <1>7 DEF ItemNext

-----------------------------------------------------------------------------
(* The steps of the other functions *)

\* A function that is in no poll moves on or calls a list.
LEMMA GoesMove ==
    ASSUME IInv, NEW f \in Frame, stack' = Resume(f), Kin(Top.at, f.at),
           Top.at # "exit:over", f.at \notin InPoll \cup {"list:item", "exit:over"},
           abort' => f.at \in Unwinding \/ (abort /\ Top.at \notin Unwinding),
           returning' => \/ f.at \in Unwinding \cup {"file:line"}
                         \/ (returning /\ Top.at \notin Unwinding),
           UNCHANGED <<inExit, exitRuns>>
    PROVE  Move
<1>1. Replaces(f)
  BY DEF Replaces, Started
<1> QED
  BY <1>1 DEF Move

\* A call of a list, or of another function, by a function that is in no poll.
LEMMA RunsMove ==
    ASSUME IInv, NEW f \in Frame, NEW g \in Frame, Call(f, g), Kin(Top.at, f.at),
           Top.at # "exit:over", f.at \notin InPoll \cup {"list:item"},
           MayCall(f.at, g.at), ~Started(g), g.at # "exit:over",
           abort' => abort /\ Top.at \notin Unwinding,
           returning' => returning /\ Top.at \notin Unwinding,
           \/ UNCHANGED <<inExit, exitRuns>>
           \/ ~inExit /\ inExit' /\ exitRuns' = exitRuns + 1
    PROVE  Move
<1>1. Pushes(f, g)
  BY DEF Pushes, Started, Call
<1> QED
  BY <1>1 DEF Move

\* The call of a list at a point where the function waits for it.
LEMMA ListCallMove ==
    ASSUME IInv, NEW p \in RunsList, NEW c \in Bodies, Call(Goto(p), ListFrame(c)),
           Kin(Top.at, p), Top.at # "exit:over",
           abort' => abort /\ Top.at \notin Unwinding,
           returning' => returning /\ Top.at \notin Unwinding,
           \/ UNCHANGED <<inExit, exitRuns>>
           \/ ~inExit /\ inExit' /\ exitRuns' = exitRuns + 1
    PROVE  Move
<1> DEFINE f == Goto(p)
           g == ListFrame(c)
<1>1. p \in Points /\ p \notin InPoll \cup {"list:item"}
  BY DEF RunsList, Points, InPoll
<1>2. f \in Frame /\ f.at = p
  BY <1>1, Frames DEF IInv
<1>3. g \in Frame /\ g.at = "list:item" /\ ~Started(g)
  BY FreshList DEF IInv
<1>4. MayCall(p, g.at)
  BY <1>3 DEF MayCall, ListPts
<1> HIDE DEF f, g
<1>5. Call(f, g)
  BY DEF f, g
<1> QED
  BY <1>1, <1>2, <1>3, <1>4, <1>5, RunsMove

\* A return of a function that is in no poll and runs no file.
LEMMA ReturnMove ==
    ASSUME IInv, NEW s, Return(s),
           Top.at \notin Base \cup ExitPts \cup InPoll \cup InFile,
           UNCHANGED <<inExit, exitRuns>>
    PROVE  Move
BY DEF Move, Pops, Return

\* The points of the compounds that end by a return of their own.
CompoundPts == IfPts \cup WhilePts \cup ForPts \cup CasePts \cup InFn

\* They belong to no poll, no file and no main program.
LEMMA CompoundPlain ==
    \A p \in CompoundPts :
       /\ p \in Points
       /\ p \notin Base \cup ExitPts \cup {"list:item"} \cup InPoll \cup InFile
       /\ p \in Unwinding <=> p \in RunsList
  BY DEF CompoundPts, Base, InPoll, InFile, IfPts, WhilePts, ForPts, CasePts, InFn,
         ExitPts, Points, Unwinding, RunsList

\* A compound command and a function only call lists, return, or go round
\* when nothing unwinds.
LEMMA CompoundMove ==
    ASSUME IInv, Top.at \in CompoundPts, UNCHANGED <<inExit, exitRuns>>,
           \/ \E s : Return(s)
           \/ /\ \E p \in RunsList, c \in Bodies :
                   Kin(Top.at, p) /\ Call(Goto(p), ListFrame(c))
              /\ abort' => abort /\ Top.at \notin Unwinding
              /\ returning' => returning /\ Top.at \notin Unwinding
           \/ /\ ~abort' /\ ~returning'
              /\ \E p \in CompoundPts, s \in Codes :
                   Kin(Top.at, p) /\ Step([Goto(p) EXCEPT !.st = s])
    PROVE  Move
<1>0. Top.at \notin Base \cup ExitPts \cup InPoll \cup InFile /\ Top.at # "exit:over"
  BY CompoundPlain DEF ExitPts
<1>1. ASSUME NEW s, Return(s) PROVE Move
  BY <1>0, <1>1, ReturnMove
<1>2. ASSUME NEW p \in RunsList, NEW c \in Bodies, Kin(Top.at, p),
             Call(Goto(p), ListFrame(c)),
             abort' => abort /\ Top.at \notin Unwinding,
             returning' => returning /\ Top.at \notin Unwinding
      PROVE  Move
  BY <1>0, <1>2, ListCallMove
<1>3. ASSUME NEW p \in CompoundPts, NEW s \in Codes, Kin(Top.at, p),
             Step([Goto(p) EXCEPT !.st = s]), ~abort', ~returning'
      PROVE  Move
  <2> DEFINE f == [Goto(p) EXCEPT !.st = s]
  <2>1. f \in Frame /\ f.at = p
    BY CompoundPlain, Frames DEF IInv
  <2>2. stack' = Resume(f)
    BY <1>3 DEF Step
  <2> HIDE DEF f
  <2> QED
    BY <1>0, <1>3, <2>1, <2>2, CompoundPlain, GoesMove DEF ExitPts
<1> QED
  BY <1>1, <1>2, <1>3

\* The steps of the compounds are moves.
LEMMA CompoundMoves ==
    ASSUME IInv,
           \/ IfTest \/ IfElse \/ IfTested \/ IfRan
           \/ WhileTest \/ WhileTested \/ WhileRan
           \/ ForWord \/ ForRan \/ CaseArm \/ CaseRan
           \/ FnEnter \/ FnLeave
    PROVE  Move
<1>0. /\ Lists \subseteq Bodies
      /\ \A p, q \in IfPts : Kin(p, q)
      /\ \A p, q \in WhilePts : Kin(p, q)
      /\ \A p, q \in ForPts : Kin(p, q)
      /\ \A p, q \in CasePts : Kin(p, q)
      /\ \A p, q \in InFn : Kin(p, q)
      /\ 0 \in Codes /\ 1 \in Codes /\ (rv # Void => rv \in Codes)
  BY KinFacts DEF CFunctions, Lists, Codes, Status, IInv, TypeOK
<1> USE <1>0 DEF CompoundPts, Running, unwind, exits
<1>1. CASE IfTest
  <2>1. Top.at = "if:arm" /\ \E c \in Bodies : Call(Goto("if:cond"), ListFrame(c))
    BY <1>1 DEF IfTest
  <2> QED
    BY <1>1, <2>1, CompoundMove DEF IfTest, IfPts, RunsList, Unwinding
<1>2. CASE IfElse
  BY <1>2, CompoundMove DEF IfElse, IfPts, RunsList, Unwinding
<1>3. CASE IfTested
  <2>1. Top.at = "if:cond" /\ UNCHANGED <<abort, returning, inExit, exitRuns>>
    BY <1>3 DEF IfTested
  <2>2. \/ \E s : Return(s)
        \/ /\ ~returning /\ ~abort
           /\ \E c \in Bodies : Call(Goto("if:body"), ListFrame(c))
        \/ ~returning /\ ~abort /\ Step([Goto("if:arm") EXCEPT !.st = 1])
    BY <1>3 DEF IfTested
  <2> QED
    BY <2>1, <2>2, CompoundMove DEF IfPts, RunsList
<1>4. CASE IfRan
  BY <1>4, CompoundMove DEF IfRan, IfPts
<1>5. CASE WhileTest
  <2>1. /\ Top.at = "while:test"
        /\ \E c \in Bodies : Call(Goto("while:cond"), ListFrame(c))
    BY <1>5 DEF WhileTest
  <2> QED
    BY <1>5, <2>1, CompoundMove DEF WhileTest, WhilePts, RunsList, Unwinding
<1>6. CASE WhileTested
  <2>1. Top.at = "while:cond" /\ UNCHANGED <<abort, returning, inExit, exitRuns>>
    BY <1>6 DEF WhileTested
  <2>2. \/ \E s : Return(s)
        \/ /\ ~returning /\ ~abort
           /\ \E c \in Bodies : Call(Goto("while:body"), ListFrame(c))
    BY <1>6 DEF WhileTested
  <2> QED
    BY <2>1, <2>2, CompoundMove DEF WhilePts, RunsList
<1>7. CASE WhileRan
  BY <1>7, CompoundMove DEF WhileRan, LoopRan, WhilePts
<1>8. CASE ForWord
  BY <1>8, CompoundMove DEF ForWord, ForPts, RunsList, Unwinding
<1>9. CASE ForRan
  BY <1>9, CompoundMove DEF ForRan, LoopRan, ForPts
<1>10. CASE CaseArm
  BY <1>10, CompoundMove DEF CaseArm, CasePts, RunsList, Unwinding
<1>11. CASE CaseRan
  BY <1>11, CompoundMove DEF CaseRan, CasePts
<1>12. CASE FnEnter
  BY <1>12, CompoundMove DEF FnEnter, InFn, RunsList, Unwinding
<1>13. CASE FnLeave
  BY <1>13, CompoundMove DEF FnLeave, InFn
<1> QED
  BY <1>1, <1>2, <1>3, <1>4, <1>5, <1>6, <1>7, <1>8, <1>9, <1>10, <1>11, <1>12, <1>13

\* The steps of execute_external are moves.
LEMMA ExternalMoves ==
    ASSUME IInv, WaitInterrupted \/ ChildEnds \/ ExternalDone
    PROVE  Move
<1>0. \A p, q \in ExtPts : Kin(p, q)
  BY KinFacts DEF CFunctions
<1> USE DEF Running, unwind, exits
<1>1. CASE WaitInterrupted
  BY <1>0, <1>1, Frames, PollMove DEF WaitInterrupted, IInv, ExtPts, MayCall, InPoll,
     Unwinding, RunsList, Started
<1>2. CASE ChildEnds
  <2>1. Goto("ext:done") \in Frame /\ Goto("ext:done").at = "ext:done"
    BY Frames DEF IInv, Points
  <2> QED
    BY <1>0, <1>2, <2>1, PollMove DEF ChildEnds, ExtPts, MayCall, InPoll, Unwinding,
       RunsList, Started
<1>3. CASE ExternalDone
  BY <1>3, ReturnMove DEF ExternalDone, Base, InPoll, InFile, ExitPts
<1> QED
  BY <1>1, <1>2, <1>3

\* The steps of run_file_lines are moves.
LEMMA FileMoves ==
    ASSUME IInv, FileLine \/ FileBadLine \/ FileEnds \/ FileRan
    PROVE  Move
<1>0. /\ \A p, q \in InFile : Kin(p, q)
      /\ Lists \subseteq Bodies /\ 0 \in Codes /\ 1 \in Codes /\ (rv # Void => rv \in Codes)
  BY KinFacts DEF CFunctions, Lists, Codes, Status, IInv, TypeOK
<1> USE DEF Running, unwind, exits
<1>1. CASE FileLine
  BY <1>0, <1>1, ListCallMove DEF FileLine, InFile, RunsList, Unwinding
<1>2. CASE FileBadLine
  <2> DEFINE f == [Top EXCEPT !.st = 1]
  <2>1. f \in Frame /\ f.at = "file:line" /\ Top.at = "file:line"
    BY <1>0, <1>2, Frames DEF FileBadLine, IInv, Frame
  <2>2. stack' = Resume(f)
    BY <1>2 DEF FileBadLine, Step
  <2> HIDE DEF f
  <2> QED
    BY <1>0, <1>2, <2>1, <2>2, GoesMove DEF FileBadLine, InFile, InPoll, Unwinding,
       RunsList
<1>3. CASE FileEnds
  BY <1>3 DEF FileEnds, Return, Move, Pops, Base, InPoll, ExitPts
<1>4. CASE FileRan
  <2>1. CASE \E s : Return(s)
    BY <1>4, <2>1 DEF FileRan, Return, Move, Pops, Base, InPoll, ExitPts
  <2>2. CASE Step([Goto("file:line") EXCEPT !.st = rv])
    <3> DEFINE f == [Goto("file:line") EXCEPT !.st = rv]
    <3>1. f \in Frame /\ f.at = "file:line"
      BY <1>0, <1>4, Frames DEF FileRan, IInv, Points
    <3>2. stack' = Resume(f)
      BY <2>2 DEF Step
    <3> HIDE DEF f
    <3> QED
      BY <1>0, <1>4, <3>1, <3>2, GoesMove DEF FileRan, InFile, InPoll, Unwinding,
         RunsList
  <2> QED
    BY <1>4, <2>1, <2>2 DEF FileRan
<1> QED
  BY <1>1, <1>2, <1>3, <1>4

\* The steps of petrush_traps_poll are moves.
LEMMA PollMoves ==
    ASSUME IInv, (\E s \in Sigs : PollTake(s)) \/ PollRan \/ PollEnds
    PROVE  Move
<1>0. Kin("poll:scan", "poll:ran") /\ Kin("poll:ran", "poll:scan")
      /\ Kin("poll:scan", "poll:scan") /\ last \in Codes
  BY KinFacts DEF CFunctions, InPoll, IInv, TypeOK
<1> USE DEF Running, unwind, exits
<1>1. ASSUME NEW s \in Sigs, PollTake(s) PROVE Move
  <2>0. s \in 0..NSig
    BY EvalAssumption DEF Sigs
  <2>1. Top.at = "poll:scan" /\ UNCHANGED <<returning, abort, exitRuns, inExit>>
    BY <1>1 DEF PollTake
  <2>2. CASE \E c \in Lists :
               Call([Goto("poll:ran") EXCEPT !.st = last, !.cur = s], ListFrame(c))
    <3> DEFINE f == [Goto("poll:ran") EXCEPT !.st = last, !.cur = s]
    <3>1. PICK c \in Lists : Call(f, ListFrame(c))
      BY <2>2
    <3>2. f \in Frame /\ f.at = "poll:ran" /\ f.st = last
      <4>1. Goto("poll:ran") \in Frame /\ Goto("poll:ran").at = "poll:ran"
        BY Frames DEF IInv, Points
      <4> QED
        BY <1>0, <2>0, <4>1 DEF Frame
    <3> DEFINE g == ListFrame(c)
    <3>3. g \in Frame /\ g.at = "list:item" /\ ~Started(g)
      BY FreshList DEF IInv, Lists
    <3> HIDE DEF f, g
    <3>4. Call(f, g)
      BY <3>1 DEF g
    <3>5. Pushes(f, g)
      BY <1>0, <2>1, <3>2, <3>3, <3>4 DEF Pushes, Call, Started, MayCall, ListPts,
         Unwinding, RunsList
    <3> QED
      BY <3>2, <3>3, <3>5 DEF Move
  <2>3. CASE Step([Top EXCEPT !.cur = s]) /\ UNCHANGED last
    <3> DEFINE f == [Top EXCEPT !.cur = s]
    <3>1. f \in Frame /\ f.at = "poll:scan"
      BY <2>0, <2>1, Frames DEF IInv, Frame
    <3>2. stack' = Resume(f)
      BY <2>3 DEF Step
    <3> HIDE DEF f
    <3>3. Replaces(f)
      BY <1>0, <2>1, <2>3, <3>1, <3>2 DEF Replaces, Started, Unwinding, RunsList
    <3> QED
      BY <3>1, <3>3 DEF Move
  <2> QED
    BY <1>1, <2>2, <2>3 DEF PollTake
<1>2. CASE PollRan
  <2> DEFINE f == Goto("poll:scan")
  <2>1. f \in Frame /\ f.at = "poll:scan"
    BY Frames DEF IInv, Points
  <2>2. stack' = Resume(f) /\ Top.at = "poll:ran" /\ last' = Top.st
        /\ UNCHANGED <<returning, abort, exitRuns, inExit>>
    BY <1>2 DEF PollRan, Step
  <2> HIDE DEF f
  <2>3. Replaces(f)
    BY <1>0, <2>1, <2>2 DEF Replaces, Started, Unwinding, RunsList
  <2> QED
    BY <2>1, <2>3 DEF Move
<1>3. CASE PollEnds
  BY <1>3 DEF PollEnds, Return, Move, Pops, Base, InFile, ExitPts
<1> QED
  BY <1>1, <1>2, <1>3

\* A frame of the EXIT action on the stack says that g_in_exit is set.
LEMMA InsideExit ==
    ASSUME IInv, Top.at = "exit:ran"
    PROVE  inExit
<1>1. Len(stack) \in Where(stack, InExit)
  BY DEF IInv, Based, TypeOK, Where, InExit, Top
<1>2. IsFiniteSet(Where(stack, InExit))
  BY WhereFinite DEF IInv, TypeOK
<1>3. Cardinality(Where(stack, InExit)) # 0
  BY <1>1, <1>2, FS_EmptySet
<1> QED
  BY <1>3 DEF IInv, Balanced

\* The steps of petrush_run_exit_trap are moves, and exit ends the process.
LEMMA ExitMoves ==
    ASSUME IInv, ExitPolls \/ ExitNoAction \/ ExitAction \/ ExitRan \/ ProcessExits
    PROVE  Move
<1>0. /\ \A p, q \in ExitPts : Kin(p, q)
      /\ Lists \subseteq Bodies
      /\ \A p \in ExitPts : Goto(p) \in Frame /\ Goto(p).at = p
  BY KinFacts, Frames DEF CFunctions, IInv, Lists, ExitPts, Points
<1> USE DEF Running, unwind, exits, traps
<1>1. CASE ExitPolls
  <2> DEFINE f == Goto("exit:guard")
  <2>1. /\ f \in Frame /\ f.at = "exit:guard" /\ Top.at = "exit:poll"
        /\ Kin(Top.at, f.at)
    BY <1>0, <1>1 DEF ExitPts, ExitPolls
  <2>2. CallPoll(f) /\ UNCHANGED <<abort, returning, inExit, exitRuns>>
    BY <1>1 DEF ExitPolls
  <2> HIDE DEF f
  <2> QED
    BY <2>1, <2>2, PollMove DEF MayCall, InPoll, Unwinding, RunsList, Started
<1>2. CASE ExitNoAction \/ ExitRan
  <2> DEFINE f == Goto("exit:over")
  <2>1. /\ f \in Frame /\ f.at = "exit:over" /\ Top.at \in {"exit:guard", "exit:ran"}
        /\ Kin(Top.at, f.at)
    BY <1>0, <1>2 DEF ExitPts, ExitNoAction, ExitRan
  <2>2. /\ stack' = Resume(f) /\ UNCHANGED <<trapAct, exitRuns>>
        /\ inExit \/ trapAct[0] # "command"
        /\ UNCHANGED inExit \/ ~inExit'
    BY <1>2, InsideExit DEF ExitNoAction, ExitRan, Step
  <2> HIDE DEF f
  <2>3. Replaces(f)
    BY <2>1, <2>2 DEF Replaces, Started, Unwinding, InPoll
  <2> QED
    BY <2>1, <2>3 DEF Move
<1>3. CASE ExitAction
  <2>1. /\ Top.at = "exit:guard" /\ Kin(Top.at, "exit:ran")
        /\ \E c \in Bodies : Call(Goto("exit:ran"), ListFrame(c))
    BY <1>0, <1>3 DEF ExitAction, ExitPts
  <2>2. /\ UNCHANGED <<abort, returning>>
        /\ ~inExit /\ inExit' /\ exitRuns' = exitRuns + 1
    BY <1>3 DEF ExitAction
  <2> QED
    BY <2>1, <2>2, ListCallMove DEF RunsList, Unwinding
<1>4. CASE ProcessExits
  BY <1>4 DEF ProcessExits, Move, Rests
<1> QED
  BY <1>1, <1>2, <1>3, <1>4

\* The steps of the two main programs are moves.
LEMMA MainMoves ==
    ASSUME IInv, MainNext
    PROVE  Move
<1>0. /\ \A p, q \in MainPts : Kin(p, q)
      /\ \A p, q \in ReplPts : Kin(p, q)
      /\ Lists \subseteq Bodies
      /\ \A p \in MainPts \cup ReplPts : Goto(p) \in Frame /\ Goto(p).at = p
      /\ rv # Void => rv \in Codes
  BY KinFacts, Frames DEF CFunctions, IInv, Lists, MainPts, ReplPts, Points, TypeOK
<1> USE DEF Running, unwind, exits, traps
<1>1. CASE ScriptRan
  <2> DEFINE f == Goto("main:exit")
             g == [At("exit:poll") EXCEPT !.st = rv]
  <2>1. f \in Frame /\ f.at = "main:exit" /\ Top.at = "main:ran" /\ Kin(Top.at, f.at)
    BY <1>0, <1>1 DEF ScriptRan, MainPts
  <2>2. g \in Frame /\ g.at = "exit:poll"
    BY <1>0, <1>1, Frames DEF ScriptRan, IInv, Points
  <2>3. Call(f, g) /\ UNCHANGED <<abort, returning, inExit, exitRuns>>
    BY <1>1 DEF ScriptRan
  <2> HIDE DEF f, g
  <2> QED
    BY <2>1, <2>2, <2>3, RunsMove DEF MayCall, ExitPts, InPoll, Unwinding, RunsList,
       Started
<1>2. CASE load_rc_file
  <2>1. Top.at = "repl:rc" /\ UNCHANGED <<returning, inExit, exitRuns>>
    BY <1>2 DEF load_rc_file
  <2>2. CASE Step(Goto("repl:prompt")) /\ UNCHANGED abort
    BY <1>0, <2>1, <2>2, GoesMove DEF Step, ReplPts, InPoll, Unwinding, RunsList
  <2>3. CASE Call(Goto("repl:rcran"), At("file:line")) /\ abort' = FALSE
    <3>1. At("file:line") \in Frame /\ At("file:line").at = "file:line"
      BY Frames DEF IInv, Points
    <3>2. Goto("repl:rcran") \in Frame /\ Goto("repl:rcran").at = "repl:rcran"
          /\ Kin(Top.at, "repl:rcran")
      BY <1>0, <2>1 DEF ReplPts
    <3> QED
      BY <2>1, <2>3, <3>1, <3>2, RunsMove DEF MayCall, InFile, InPoll, Unwinding,
         RunsList, Started
  <2> QED
    BY <1>2, <2>2, <2>3 DEF load_rc_file
<1>3. CASE ReplLine
  <2>1. PICK c \in Bodies : Call(Goto("repl:ran"), ListFrame(c))
    BY <1>0, <1>3 DEF ReplLine
  <2>2. /\ ListFrame(c) \in Frame /\ ListFrame(c).at = "list:item"
        /\ ~Started(ListFrame(c))
    BY FreshList DEF IInv
  <2>3. /\ Goto("repl:ran") \in Frame /\ Goto("repl:ran").at = "repl:ran"
        /\ Top.at = "repl:prompt" /\ Kin(Top.at, "repl:ran")
        /\ UNCHANGED <<abort, returning, inExit, exitRuns>>
    BY <1>0, <1>3 DEF ReplLine, ReplPts
  <2> QED
    BY <2>1, <2>2, <2>3, RunsMove DEF MayCall, ListPts, InPoll, Unwinding, RunsList
<1>4. CASE ReplRan
  BY <1>0, <1>4, GoesMove DEF ReplRan, Step, ReplPts, InPoll, Unwinding, RunsList
<1>5. CASE ReplLeaves
  BY <1>5 DEF ReplLeaves, Move, Rests
<1> QED
  BY <1>1, <1>2, <1>3, <1>4, <1>5 DEF MainNext

\* Every step of Eval is a move.
LEMMA Moves == IInv /\ [Next]_vars => Move
<1> SUFFICES ASSUME IInv, [Next]_vars PROVE Move
  OBVIOUS
<1>1. CASE ListNext \/ ItemNext \/ MainNext
  BY <1>1, ListMoves, ItemMoves, MainMoves
<1>2. CASE CompoundNext
  BY <1>2, CompoundMoves, ExternalMoves, FileMoves DEF CompoundNext
<1>3. CASE TrapNext
  BY <1>3, PollMoves, ExitMoves DEF TrapNext
<1>4. CASE \E s \in Sigs : Deliver(s)
  BY <1>4 DEF Deliver, Move, Rests, unwind, exits
<1>5. CASE UNCHANGED vars \/ Gone
  BY <1>5 DEF Gone, vars, Move, Rests, unwind, exits, traps
<1> QED
  BY <1>1, <1>2, <1>3, <1>4, <1>5 DEF Next, ShellNext

-----------------------------------------------------------------------------
(* The stack after a move *)

\* Only the last frame is replaced.
LEMMA AfterReplace ==
    ASSUME IInv, NEW f \in Frame, stack' = Resume(f)
    PROVE  /\ Len(stack) \in Nat \ {0} /\ Len(stack') = Len(stack) /\ Top' = f
           /\ \A i \in 1..(Len(stack) - 1) : stack'[i] = stack[i]
BY DEF IInv, TypeOK, Based, Resume, Top

\* The last frame is replaced and another comes above it.
LEMMA AfterPush ==
    ASSUME IInv, NEW f \in Frame, NEW g \in Frame, stack' = Append(Resume(f), g)
    PROVE  /\ Len(stack) \in Nat \ {0} /\ Len(stack') = Len(stack) + 1 /\ Top' = g
           /\ stack'[Len(stack)] = f
           /\ \A i \in 1..(Len(stack) - 1) : stack'[i] = stack[i]
<1> DEFINE T == Resume(f)
<1>1. T \in Seq(Frame) /\ Len(T) = Len(stack) /\ Len(stack) \in Nat \ {0}
      /\ T[Len(stack)] = f /\ \A i \in 1..(Len(stack) - 1) : T[i] = stack[i]
  BY DEF IInv, TypeOK, Based, Resume
<1> HIDE DEF T
<1>2. stack' = Append(T, g)
  BY DEF T
<1> QED
  BY <1>1, <1>2 DEF Top

\* The last frame is gone; the one below it, its caller, runs again.
LEMMA AfterPop ==
    ASSUME IInv, Top.at \notin Base, stack' = SubSeq(stack, 1, Len(stack) - 1)
    PROVE  /\ Len(stack) \in Nat /\ Len(stack) > 1 /\ Len(stack') = Len(stack) - 1
           /\ \A i \in 1..(Len(stack) - 1) : stack'[i] = stack[i]
           /\ Top' = stack[Len(stack) - 1]
<1>1. Len(stack) \in Nat /\ Len(stack) > 1
  BY DEF IInv, TypeOK, Based, Top
<1>2. stack \in Seq(Frame)
  BY DEF IInv, TypeOK
<1>3. Len(stack') = Len(stack) - 1 /\ \A i \in 1..(Len(stack) - 1) : stack'[i] = stack[i]
  BY <1>1, <1>2
<1> QED
  BY <1>1, <1>3 DEF Top

\* What the call relation says of some points.
LEMMA CallFacts ==
    /\ \A p, q : MayCall(p, q) => q \notin Base /\ p \notin {"poll:scan", "exit:over"}
    /\ \A q : MayCall("list:item", q) => q \in InPoll
    /\ \A p, q : MayCall(p, q) /\ q \notin InPoll =>
         p \in {"list:after", "poll:ran", "repl:ran", "main:ran", "repl:rcran",
                "main:exit"} \cup RunsList
    /\ \A q : MayCall("poll:ran", q) => q \in ListPts
    /\ \A q : MayCall("main:ran", q) => q \in InFile
    /\ \A q : MayCall("main:exit", q) => q \in ExitPts
BY DEF MayCall, ItemPts, ListPts, ExtPts, IfPts, WhilePts, ForPts, CasePts, InFn,
       InFile, InPoll, ExitPts, RunsList, Base

\* Moves keep the shape of the stack.
LEMMA ShapedNext == IInv /\ Shaped /\ Move => Shaped'
<1> SUFFICES ASSUME IInv, Shaped, Move PROVE Shaped'
  OBVIOUS
<1>0. \A i \in 1..(Len(stack) - 1) : MayCall(stack[i].at, stack[i + 1].at)
  BY DEF Shaped
<1>1. CASE Rests
  BY <1>1 DEF Rests, Shaped
<1>2. ASSUME NEW f \in Frame, Replaces(f) PROVE Shaped'
  <2>1. /\ Len(stack) \in Nat \ {0} /\ Len(stack') = Len(stack) /\ Top' = f
        /\ \A i \in 1..(Len(stack) - 1) : stack'[i] = stack[i]
    BY <1>2, AfterReplace DEF Replaces
  <2>2. Kin(Top.at, f.at)
    BY <1>2 DEF Replaces
  <2> SUFFICES ASSUME NEW i \in 1..(Len(stack) - 1)
               PROVE  MayCall(stack'[i].at, stack'[i + 1].at)
    BY <2>1 DEF Shaped
  <2>3. CASE i + 1 = Len(stack)
    BY <1>0, <2>1, <2>2, <2>3, KinFacts DEF Top
  <2>4. CASE i + 1 # Len(stack)
    BY <1>0, <2>1, <2>4
  <2> QED
    BY <2>3, <2>4
<1>3. ASSUME NEW f \in Frame, NEW g \in Frame, Pushes(f, g) PROVE Shaped'
  <2>1. /\ Len(stack) \in Nat \ {0} /\ Len(stack') = Len(stack) + 1 /\ Top' = g
        /\ stack'[Len(stack)] = f
        /\ \A i \in 1..(Len(stack) - 1) : stack'[i] = stack[i]
    BY <1>3, AfterPush DEF Pushes
  <2>2. Kin(Top.at, f.at) /\ MayCall(f.at, g.at)
    BY <1>3 DEF Pushes
  <2> SUFFICES ASSUME NEW i \in 1..Len(stack)
               PROVE  MayCall(stack'[i].at, stack'[i + 1].at)
    BY <2>1 DEF Shaped
  <2>3. CASE i = Len(stack)
    BY <2>1, <2>2, <2>3 DEF Top
  <2>4. CASE i + 1 = Len(stack)
    BY <1>0, <2>1, <2>2, <2>4, KinFacts DEF Top
  <2>5. CASE i + 1 # Len(stack) /\ i # Len(stack)
    BY <1>0, <2>1, <2>5
  <2> QED
    BY <2>3, <2>4, <2>5
<1>4. CASE Pops
  BY <1>0, <1>4, AfterPop DEF Pops, Shaped
<1> QED
  BY <1>1, <1>2, <1>3, <1>4 DEF Move

\* A main program is at the bottom of the stack and nowhere else.
LEMMA MainAtBottom ==
    ASSUME IInv, Shaped
    PROVE  \A i \in 1..Len(stack) : stack[i].at \in Base <=> i = 1
<1>1. ASSUME NEW i \in 1..Len(stack), i # 1 PROVE stack[i].at \notin Base
  <2>1. i - 1 \in 1..(Len(stack) - 1) /\ (i - 1) + 1 = i
    BY <1>1 DEF IInv, TypeOK
  <2>2. MayCall(stack[i - 1].at, stack[i].at)
    BY <2>1 DEF Shaped
  <2> QED
    BY <2>2, CallFacts
<1> QED
  BY <1>1 DEF IInv, Based

-----------------------------------------------------------------------------
(* $? between the items of a list *)

\* A list that has run an item knows the $? of that item: it is $?, or a trap
\* action runs above the list and will put it back.
Kept ==
    \A i \in 1..Len(stack) : Started(stack[i]) =>
       IF i = Len(stack) \/ stack[i + 1].at = "poll:scan" THEN last = stack[i].st
                                                      ELSE stack[i + 1].st = stack[i].st

\* Moves keep it.
LEMMA KeptNext == IInv /\ Shaped /\ Kept /\ Move => Kept'
<1> SUFFICES ASSUME IInv, Shaped, Kept, Move PROVE Kept'
  OBVIOUS
<1>0. /\ Len(stack) \in Nat \ {0} /\ Top = stack[Len(stack)]
      /\ \A i \in 1..(Len(stack) - 1) : MayCall(stack[i].at, stack[i + 1].at)
      \* Only a poll runs above a list between two items.
      /\ \A i \in 1..(Len(stack) - 1) : Started(stack[i]) => stack[i + 1].at \in InPoll
      /\ \A i \in 1..(Len(stack) - 1) : stack[i].at # "poll:scan"
  <2>1. Len(stack) \in Nat \ {0}
    BY DEF IInv, TypeOK, Based
  <2>2. \A i \in 1..(Len(stack) - 1) : MayCall(stack[i].at, stack[i + 1].at)
    BY DEF Shaped
  <2> QED
    BY <2>1, <2>2, CallFacts DEF Started, Top
<1>1. CASE Rests
  BY <1>1 DEF Rests, Kept
<1>2. ASSUME NEW f \in Frame, Replaces(f) PROVE Kept'
  <2>1. /\ Len(stack') = Len(stack) /\ stack'[Len(stack)] = f
        /\ \A i \in 1..(Len(stack) - 1) : stack'[i] = stack[i]
    BY <1>2, AfterReplace DEF Replaces, Top
  <2>2. (f.at \in InPoll) <=> (Top.at \in InPoll)
    BY <1>2, KinFacts DEF Replaces
  <2>3. Started(f) => last' = f.st
    BY <1>0, <1>2 DEF Replaces, Kept
  <2> SUFFICES ASSUME NEW i \in 1..Len(stack), Started(stack'[i])
               PROVE  IF i = Len(stack) \/ stack'[i + 1].at = "poll:scan"
                        THEN last' = stack'[i].st
                        ELSE stack'[i + 1].st = stack'[i].st
    BY <2>1 DEF Kept
  <2>4. CASE i = Len(stack)
    BY <2>1, <2>3, <2>4
  <2>5. CASE i + 1 = Len(stack)
    <3>1. Started(stack[i]) /\ Top.at \in InPoll /\ stack'[i] = stack[i]
      BY <1>0, <2>1, <2>5
    <3>2. IF Top.at = "poll:scan" THEN last = stack[i].st ELSE Top.st = stack[i].st
      BY <1>0, <2>5, <3>1 DEF Kept
    <3>3. f.at = "poll:scan" /\ last' = IF Top.at = "poll:scan" THEN last ELSE Top.st
      BY <1>2, <2>2, <3>1 DEF Replaces
    <3> QED
      BY <2>1, <2>5, <3>1, <3>2, <3>3
  <2>6. CASE i # Len(stack) /\ i + 1 # Len(stack)
    BY <1>0, <2>1, <2>6 DEF Kept
  <2> QED
    BY <2>4, <2>5, <2>6
<1>3. ASSUME NEW f \in Frame, NEW g \in Frame, Pushes(f, g) PROVE Kept'
  <2>1. /\ Len(stack') = Len(stack) + 1 /\ stack'[Len(stack)] = f
        /\ stack'[Len(stack) + 1] = g
        /\ \A i \in 1..(Len(stack) - 1) : stack'[i] = stack[i]
    BY <1>3, AfterPush DEF Pushes, Top
  <2>2. (f.at \in InPoll) <=> (Top.at \in InPoll)
    BY <1>3, KinFacts DEF Pushes
  <2> SUFFICES ASSUME NEW i \in 1..(Len(stack) + 1), Started(stack'[i])
               PROVE  IF i = Len(stack) + 1 \/ stack'[i + 1].at = "poll:scan"
                        THEN last' = stack'[i].st
                        ELSE stack'[i + 1].st = stack'[i].st
    BY <2>1 DEF Kept
  <2>3. i # Len(stack) + 1
    BY <1>3, <2>1 DEF Pushes
  <2>4. CASE i = Len(stack)
    BY <1>0, <1>3, <2>1, <2>4 DEF Pushes
  <2>5. CASE i + 1 = Len(stack)
    <3>1. Started(stack[i]) /\ Top.at \in InPoll /\ stack'[i] = stack[i]
      BY <1>0, <2>1, <2>5
    <3>2. Top.at = "poll:scan" /\ f.st = last
      BY <1>3, <2>2, <3>1 DEF Pushes
    <3>3. last = stack[i].st
      BY <1>0, <2>5, <3>1, <3>2 DEF Kept
    <3>4. f.at # "poll:scan"
      BY <1>3, CallFacts DEF Pushes
    <3> QED
      BY <1>0, <2>1, <2>5, <3>1, <3>2, <3>3, <3>4
  <2>6. CASE i # Len(stack) /\ i + 1 # Len(stack)
    BY <1>0, <2>1, <2>3, <2>6 DEF Kept
  <2> QED
    BY <2>4, <2>5, <2>6
<1>4. CASE Pops
  <2>1. /\ Len(stack) > 1 /\ Len(stack') = Len(stack) - 1
        /\ \A i \in 1..(Len(stack) - 1) : stack'[i] = stack[i]
    BY <1>4, AfterPop DEF Pops
  <2> SUFFICES ASSUME NEW i \in 1..(Len(stack) - 1), Started(stack[i])
               PROVE  IF i = Len(stack) - 1 \/ stack'[i + 1].at = "poll:scan"
                        THEN last' = stack[i].st
                        ELSE stack'[i + 1].st = stack[i].st
    BY <2>1 DEF Kept
  <2>2. CASE i + 1 = Len(stack)
    BY <1>0, <1>4, <2>2 DEF Pops, Kept
  <2>3. CASE i + 1 # Len(stack)
    BY <1>0, <2>1, <2>3 DEF Kept
  <2> QED
    BY <2>2, <2>3
<1> QED
  BY <1>1, <1>2, <1>3, <1>4 DEF Move

-----------------------------------------------------------------------------
(* The EXIT action *)

\* The EXIT action has been started once while it runs, and once it has ended
\* nothing but the end of the process follows.
OneExit ==
    /\ exitRuns <= 1
    /\ inExit => exitRuns = 1
    /\ exitRuns = 1 => inExit \/ Top.at = "exit:over"

\* Moves keep it.
LEMMA OneExitNext == IInv /\ OneExit /\ Move => OneExit'
<1> SUFFICES ASSUME IInv, OneExit, Move PROVE OneExit'
  OBVIOUS
<1>0. exitRuns \in Nat /\ inExit \in BOOLEAN
  BY DEF IInv, TypeOK
<1>1. CASE Rests
  BY <1>1 DEF Rests, OneExit, Top
<1>2. ASSUME NEW f \in Frame, Replaces(f) PROVE OneExit'
  BY <1>0, <1>2, AfterReplace DEF Replaces, OneExit
<1>3. ASSUME NEW f \in Frame, NEW g \in Frame, Pushes(f, g) PROVE OneExit'
  BY <1>0, <1>3 DEF Pushes, OneExit
<1>4. CASE Pops
  BY <1>4 DEF Pops, OneExit, ExitPts
<1> QED
  BY <1>1, <1>2, <1>3, <1>4 DEF Move

-----------------------------------------------------------------------------
(* Unwinding, while no trap action runs *)

\* While no signal is served there is no frame of a poll.
LEMMA PollFree ==
    ASSUME IInv, ~inPoll
    PROVE  \A i \in 1..Len(stack) : stack[i].at \notin InPoll
<1>1. IsFiniteSet(Where(stack, InPoll)) /\ Cardinality(Where(stack, InPoll)) = 0
  BY WhereFinite DEF IInv, TypeOK, Balanced
<1>2. Where(stack, InPoll) = {}
  BY <1>1, FS_EmptySet
<1> QED
  BY <1>2 DEF Where, IInv, TypeOK

\* A pending return has a call in progress.
LEMMA CallInProgress ==
    IInv /\ returning => \E j \in 1..Len(stack) : stack[j].at \in InFn
<1> SUFFICES ASSUME IInv, returning
             PROVE  \E j \in 1..Len(stack) : stack[j].at \in InFn
  OBVIOUS
<1>1. fnDepth > 0 /\ Cardinality(Where(stack, InFn)) = fnDepth
  BY DEF IInv, ReturnHasFrame, Balanced
<1>2. Where(stack, InFn) # {}
  BY <1>1, FS_EmptySet
<1> QED
  BY <1>2 DEF Where, IInv, TypeOK

\* A sourced file below which a call is in progress, by its places.
LEMMA FileInCallAt ==
    ASSUME NEW S \in Seq(Frame)
    PROVE  (\E i \in Where(S, InFile), j \in Where(S, InFn) : j < i)
             <=> \E i, j \in 1..Len(S) : S[i].at \in InFile /\ S[j].at \in InFn /\ j < i
BY DEF Where

\* A pending return is unwinding, or the rest of a sourced file runs.
ReturnHeld == returning => FileInCall \/ Top.at \in Unwinding

\* Moves keep it as long as no signal is served.
LEMMA ReturnHeldNext ==
    IInv /\ IInv' /\ Shaped /\ ~inPoll /\ ReturnHeld /\ Move => ReturnHeld'
<1> SUFFICES ASSUME IInv, IInv', Shaped, ~inPoll, ReturnHeld, Move, returning'
             PROVE  FileInCall' \/ Top'.at \in Unwinding
  BY DEF ReturnHeld
<1>0. stack \in Seq(Frame) /\ stack' \in Seq(Frame) /\ Len(stack) \in Nat \ {0}
  BY DEF IInv, TypeOK, Based
<1>1. PICK c \in 1..Len(stack') : stack'[c].at \in InFn
  <2>1. (IInv /\ returning => \E j \in 1..Len(stack) : stack[j].at \in InFn)'
    BY CallInProgress, PTL
  <2> QED
    BY <2>1
<1>2. FileInCall' <=> \E i, j \in 1..Len(stack') : /\ stack'[i].at \in InFile
                                                   /\ stack'[j].at \in InFn /\ j < i
  BY <1>0, FileInCallAt DEF FileInCall
<1>3. ASSUME returning, Top.at \notin Unwinding
      PROVE  \E i, j \in 1..Len(stack) : /\ stack[i].at \in InFile
                                         /\ stack[j].at \in InFn /\ j < i
  BY <1>0, <1>3, FileInCallAt DEF FileInCall, ReturnHeld
<1>4. CASE Rests
  BY <1>4 DEF Rests, ReturnHeld, FileInCall, Top
<1>5. ASSUME NEW f \in Frame, Replaces(f) PROVE FileInCall' \/ Top'.at \in Unwinding
  <2>1. /\ Len(stack') = Len(stack) /\ Top' = f /\ stack'[Len(stack)] = f
        /\ \A i \in 1..(Len(stack) - 1) : stack'[i] = stack[i]
    BY <1>5, AfterReplace DEF Replaces, Top
  <2>2. CASE f.at \in Unwinding
    BY <2>1, <2>2
  <2>3. CASE f.at = "file:line"
    <3>1. f.at \in InFile /\ f.at \notin InFn
      BY <2>3 DEF InFile, InFn
    <3>2. c < Len(stack')
      BY <1>0, <1>1, <2>1, <3>1
    <3> QED
      BY <1>0, <1>1, <1>2, <2>1, <3>1, <3>2
  <2>4. CASE returning /\ Top.at \notin Unwinding
    <3>1. PICK i \in 1..Len(stack), j \in 1..Len(stack) :
             stack[i].at \in InFile /\ stack[j].at \in InFn /\ j < i
      BY <1>3, <2>4
    <3>2. (Top.at \in InFile => f.at \in InFile) /\ (Top.at \in InFn => f.at \in InFn)
      BY <1>5, KinFacts DEF Replaces
    <3>3. stack'[i].at \in InFile /\ stack'[j].at \in InFn
      BY <1>0, <2>1, <3>1, <3>2 DEF Top
    <3> QED
      BY <1>2, <2>1, <3>1, <3>3
  <2> QED
    BY <1>5, <2>2, <2>3, <2>4 DEF Replaces
<1>6. ASSUME NEW f \in Frame, NEW g \in Frame, Pushes(f, g)
      PROVE  FileInCall' \/ Top'.at \in Unwinding
  <2>1. /\ Len(stack') = Len(stack) + 1 /\ stack'[Len(stack)] = f
        /\ \A i \in 1..(Len(stack) - 1) : stack'[i] = stack[i]
    BY <1>6, AfterPush DEF Pushes
  <2>2. PICK i \in 1..Len(stack), j \in 1..Len(stack) :
           stack[i].at \in InFile /\ stack[j].at \in InFn /\ j < i
    BY <1>3, <1>6 DEF Pushes
  <2>3. (Top.at \in InFile => f.at \in InFile) /\ (Top.at \in InFn => f.at \in InFn)
    BY <1>6, KinFacts DEF Pushes
  <2>4. stack'[i].at \in InFile /\ stack'[j].at \in InFn
    BY <1>0, <2>1, <2>2, <2>3 DEF Top
  <2> QED
    BY <1>0, <1>2, <2>1, <2>2, <2>4
<1>7. CASE Pops
  <2>1. /\ Len(stack) > 1 /\ Len(stack') = Len(stack) - 1
        /\ \A i \in 1..(Len(stack) - 1) : stack'[i] = stack[i]
        /\ Top' = stack[Len(stack) - 1]
    BY <1>7, AfterPop DEF Pops
  <2>2. MayCall(Top'.at, Top.at)
    BY <1>0, <2>1 DEF Shaped, Top
  <2>3. Top.at \notin InPoll /\ Top'.at \notin InPoll
    BY <1>0, <2>1, PollFree DEF Top
  <2>4. Top'.at \in {"list:after", "repl:ran", "main:ran", "repl:rcran", "main:exit"}
                      \cup RunsList
    BY <2>2, <2>3, CallFacts DEF InPoll
  <2>5. Top'.at \notin Base
    <3>1. SUFFICES ASSUME Top'.at \in Base PROVE FALSE
      OBVIOUS
    <3>2. Len(stack) = 2
      BY <1>0, <2>1, <3>1, MainAtBottom
    <3>3. c = 1 /\ stack'[c].at \in Base
      BY <1>1, <2>1, <3>1, <3>2
    <3> QED
      BY <1>1, <3>3 DEF InFn, Base
  <2> QED
    BY <2>4, <2>5 DEF Unwinding, Base
<1> QED
  BY <1>4, <1>5, <1>6, <1>7 DEF Move

-----------------------------------------------------------------------------
(* A script file *)

\* The process runs a file given on its command line.
InScript == stack[1].at \in MainPts

\* Moves keep it.
LEMMA InScriptNext == IInv /\ InScript /\ Move => InScript'
<1> SUFFICES ASSUME IInv, InScript, Move PROVE InScript'
  OBVIOUS
<1>1. CASE Rests
  BY <1>1 DEF Rests, InScript
<1>2. ASSUME NEW f \in Frame, Replaces(f) PROVE InScript'
  BY <1>2, AfterReplace, KinFacts DEF Replaces, InScript, Top
<1>3. ASSUME NEW f \in Frame, NEW g \in Frame, Pushes(f, g) PROVE InScript'
  BY <1>3, AfterPush, KinFacts DEF Pushes, InScript, Top
<1>4. CASE Pops
  BY <1>4, AfterPop DEF Pops, InScript
<1> QED
  BY <1>1, <1>2, <1>3, <1>4 DEF Move

\* An abort that is raised is unwinding.
AbortHeld == abort => Top.at \in Unwinding

\* Moves keep it in a script, as long as no signal is served.
LEMMA AbortHeldNext ==
    IInv /\ Shaped /\ InScript /\ ~inPoll /\ AbortHeld /\ Move => AbortHeld'
<1> SUFFICES ASSUME IInv, Shaped, InScript, ~inPoll, AbortHeld, Move, abort'
             PROVE  Top'.at \in Unwinding
  BY DEF AbortHeld
<1>0. Len(stack) \in Nat \ {0}
  BY DEF IInv, TypeOK, Based
<1>1. CASE Rests
  BY <1>1 DEF Rests, AbortHeld, Top
<1>2. ASSUME NEW f \in Frame, Replaces(f) PROVE Top'.at \in Unwinding
  BY <1>2, AfterReplace DEF Replaces, AbortHeld
<1>3. ASSUME NEW f \in Frame, NEW g \in Frame, Pushes(f, g) PROVE FALSE
  BY <1>3 DEF Pushes, AbortHeld
<1>4. CASE Pops
  <2>1. Len(stack) > 1 /\ Top' = stack[Len(stack) - 1]
    BY <1>4, AfterPop DEF Pops
  <2>2. MayCall(Top'.at, Top.at)
    BY <1>0, <2>1 DEF Shaped, Top
  <2>3. Top.at \notin InPoll /\ Top'.at \notin InPoll
    BY <1>0, <2>1, PollFree DEF Top
  <2>4. Top'.at \in {"list:after", "repl:ran", "main:ran", "repl:rcran", "main:exit"}
                      \cup RunsList
    BY <2>2, <2>3, CallFacts DEF InPoll
  <2>5. Top'.at \notin Base
    <3>1. SUFFICES ASSUME Top'.at \in Base PROVE FALSE
      OBVIOUS
    <3>2. Top'.at \in MainPts
      BY <1>0, <2>1, <3>1, MainAtBottom DEF InScript
    <3>3. Top.at \in InFile \cup ExitPts
      BY <2>2, <3>2, CallFacts DEF MainPts
    <3>4. abort /\ Top.at = "file:line"
      BY <1>4, <3>3 DEF Pops
    <3> QED
      BY <3>4 DEF AbortHeld, Unwinding, RunsList
  <2> QED
    BY <2>4, <2>5 DEF Unwinding, Base
<1> QED
  BY <1>1, <1>2, <1>3, <1>4 DEF Move

\* A process that is gone does nothing, and goes at one of three points.
LEMMA Ends ==
    [Next]_vars /\ ~alive' =>
      /\ UNCHANGED <<stack, trapAct, exitRuns>>
      /\ ~alive \/ ProcessExits \/ ExitBadOperand \/ ReplLeaves
<1> SUFFICES ASSUME [Next]_vars, ~alive'
             PROVE  /\ UNCHANGED <<stack, trapAct, exitRuns>>
                    /\ ~alive \/ ProcessExits \/ ExitBadOperand \/ ReplLeaves
  OBVIOUS
<1> USE DEF Running, exits
<1>1. ~ListNext
  BY DEF ListNext, SkipItem, EndOfList, ItemReturns, ItemAborts, ItemContinues, ItemDone
<1>2. ItemNext => ExitBadOperand
  BY DEF ItemNext, Item, RunStatus, RunAborting, RunSetErrexit, builtin_return,
         builtin_trap, builtin_exit, RunExternal, RunCompound, RunCase, call_fn,
         SourceRefused, petrush_source_file
<1>3. ~CompoundNext
  BY DEF CompoundNext, IfTest, IfElse, IfTested, IfRan, WhileTest, WhileTested, WhileRan,
         ForWord, ForRan, LoopRan, CaseArm, CaseRan, FnEnter, FnLeave, WaitInterrupted,
         ChildEnds, ExternalDone, FileLine, FileBadLine, FileEnds, FileRan
<1>4. TrapNext => ProcessExits
  <2>1. \A s \in Sigs : ~PollTake(s)
    BY DEF PollTake
  <2> QED
    BY <2>1 DEF TrapNext, PollRan, PollEnds, ExitPolls, ExitNoAction, ExitAction, ExitRan
<1>5. MainNext => ReplLeaves
  BY DEF MainNext, ScriptRan, load_rc_file, ReplLine, ReplRan
<1>6. ~(\E s \in Sigs : Deliver(s))
  BY DEF Deliver
<1> QED
  BY <1>1, <1>2, <1>3, <1>4, <1>5, <1>6
  DEF Next, ShellNext, Gone, vars, traps, ProcessExits, ExitBadOperand, ReplLeaves

\* The EXIT action that is set when the process is about to end has run, and
\* a script ends nowhere else.
ExitTaken ==
    /\ Top.at = "exit:over" /\ trapAct[0] = "command" => exitRuns > 0
    /\ ~alive => Top.at = "exit:over"

\* Steps keep it, in a script without an exit that is refused its operand.
LEMMA ExitTakenNext ==
    ASSUME "badexit" \notin Kinds, IInv, Shaped, InScript, OneExit, ExitTaken, Move,
           [Next]_vars
    PROVE  ExitTaken'
<1>0. Len(stack) \in Nat \ {0} /\ exitRuns \in Nat
  BY DEF IInv, TypeOK, Based
<1>1. CASE ~alive'
  <2>1. /\ UNCHANGED <<stack, trapAct, exitRuns>>
        /\ ~alive \/ ProcessExits \/ ExitBadOperand \/ ReplLeaves
    BY <1>1, Ends
  <2>2. ~ExitBadOperand
    BY DEF ExitBadOperand, Item
  <2>3. ~ReplLeaves
    <3>1. SUFFICES ASSUME Top.at = "repl:prompt" PROVE FALSE
      BY DEF ReplLeaves, Running
    <3>2. stack[Len(stack)].at \in Base
      BY <3>1 DEF Top, Base
    <3>3. Len(stack) = 1
      <4>1. Len(stack) \in 1..Len(stack)
        BY <1>0
      <4>2. \A i \in 1..Len(stack) : stack[i].at \in Base <=> i = 1
        BY MainAtBottom
      <4> QED
        BY <3>2, <4>1, <4>2
    <3> QED
      BY <3>1, <3>3 DEF InScript, MainPts, Top
  <2> QED
    BY <2>1, <2>2, <2>3 DEF ExitTaken, Top, ProcessExits, Running
<1>2. CASE alive'
  <2>1. CASE Rests
    BY <1>2, <2>1 DEF Rests, ExitTaken, Top
  <2>2. ASSUME NEW f \in Frame, Replaces(f) PROVE ExitTaken'
    BY <1>0, <1>2, <2>2, AfterReplace DEF Replaces, ExitTaken, OneExit
  <2>3. ASSUME NEW f \in Frame, NEW g \in Frame, Pushes(f, g) PROVE ExitTaken'
    BY <1>2, <2>3, AfterPush DEF Pushes, ExitTaken
  <2>4. CASE Pops
    <3>1. Len(stack) > 1 /\ Top' = stack[Len(stack) - 1]
      BY <2>4, AfterPop DEF Pops
    <3>2. MayCall(Top'.at, Top.at)
      BY <1>0, <3>1 DEF Shaped, Top
    <3> QED
      BY <1>2, <3>2, CallFacts DEF ExitTaken
  <2> QED
    BY <2>1, <2>2, <2>3, <2>4 DEF Move
<1> QED
  BY <1>1, <1>2

-----------------------------------------------------------------------------
(* The theorems *)

\* The initial states satisfy every invariant of this module.
LEMMA ControlInit ==
    Init => /\ Shaped /\ Kept /\ OneExit /\ ReturnHeld /\ AbortHeld
            /\ Entries \subseteq {"script"} => InScript /\ ExitTaken
<1> SUFFICES ASSUME Init
             PROVE  /\ Shaped /\ Kept /\ OneExit /\ ReturnHeld /\ AbortHeld
                    /\ Entries \subseteq {"script"} => InScript /\ ExitTaken
  OBVIOUS
<1>1. CASE stack = <<At("main:ran"), At("file:line")>>
  <2>1. Len(stack) = 2 /\ stack[1].at = "main:ran" /\ stack[2].at = "file:line"
    BY <1>1 DEF At
  <2> QED
    BY <2>1 DEF Init, Shaped, Kept, OneExit, ReturnHeld, AbortHeld, InScript, ExitTaken,
       MayCall, InFile, Started, MainPts, Top
<1>2. CASE stack = <<At("repl:rc")>> /\ "repl" \in Entries
  <2>1. Len(stack) = 1 /\ stack[1].at = "repl:rc"
    BY <1>2 DEF At
  <2> QED
    BY <1>2, <2>1 DEF Init, Shaped, Kept, OneExit, ReturnHeld, AbortHeld, Started
<1> QED
  BY <1>1, <1>2 DEF Init

\* Every frame was called by the one below it: no path of unwinding leaves a
\* function running above one that did not call it.
THEOREM CallShape == Spec => []Shaped
<1>1. Init => Shaped
  BY ControlInit
<1>2. IInv /\ Shaped /\ [Next]_vars => Shaped'
  BY Moves, ShapedNext
<1> QED
  BY <1>1, <1>2, Invariance, PTL DEF Spec

\* Between two items of a list $? is the status of the first of them, whatever
\* trap actions have run in between, in every script.
THEOREM StatusBetweenItems == Spec => []LastIsStatus
<1>1. Init => Kept
  BY ControlInit
<1>2. IInv /\ Shaped /\ Kept /\ [Next]_vars => Kept'
  BY Moves, KeptNext
<1>3. IInv /\ Kept => LastIsStatus
  <2> SUFFICES ASSUME IInv, Kept, Running("list:item"), Started(Top)
               PROVE  last = Top.st
    BY DEF LastIsStatus, Started, Running
  <2>1. Len(stack) \in Nat \ {0}
    BY DEF IInv, TypeOK, Based
  <2> QED
    BY <2>1 DEF Kept, Top
<1> QED
  BY <1>1, <1>2, <1>3, Invariance, CallShape, PTL DEF Spec

\* The EXIT action is never started twice, whatever exits it meets.
THEOREM ExitActionOnce == Spec => []ExitTrapOnce
<1>1. Init => OneExit
  BY ControlInit
<1>2. IInv /\ OneExit /\ [Next]_vars => OneExit'
  BY Moves, OneExitNext
<1>3. OneExit => ExitTrapOnce
  BY DEF OneExit, ExitTrapOnce
<1> QED
  BY <1>1, <1>2, <1>3, Invariance, PTL DEF Spec

\* A script that ends with an EXIT action set has run it, unless it ends by an
\* exit whose operand is refused.
THEOREM ExitActionRuns ==
    ASSUME Entries \subseteq {"script"}, "badexit" \notin Kinds
    PROVE  Spec => []ExitTrapRuns
<1>1. Init => InScript /\ OneExit /\ ExitTaken
  BY ControlInit
<1>2. IInv /\ Shaped /\ InScript /\ OneExit /\ ExitTaken /\ [Next]_vars
        => InScript' /\ OneExit' /\ ExitTaken'
  BY Moves, InScriptNext, OneExitNext, ExitTakenNext
<1>3. ExitTaken => ExitTrapRuns
  BY DEF ExitTaken, ExitTrapRuns
<1> QED
  BY <1>1, <1>2, <1>3, Invariance, CallShape, PTL DEF Spec

\* While a return unwinds no item starts, except below the rest of a file that
\* a call has sourced: in every script, as long as no trap action runs.
THEOREM ReturnsUnwind == Spec /\ []~inPoll => []ReturnUnwinds
<1>1. Init => ReturnHeld
  BY ControlInit
<1>2. IInv /\ IInv' /\ Shaped /\ ~inPoll /\ ReturnHeld /\ [Next]_vars => ReturnHeld'
  BY Moves, ReturnHeldNext
<1>3. ReturnHeld => ReturnUnwinds
  BY DEF ReturnHeld, ReturnUnwinds, AtItem, Running, Unwinding, RunsList
<1> QED
  BY <1>1, <1>2, <1>3, Invariance, CallShape, PTL DEF Spec

\* Once an abort is raised a script starts no item and reads no line before the
\* runner of the file has taken it, as long as no trap action runs.
THEOREM AbortsStop ==
    ASSUME Entries \subseteq {"script"}
    PROVE  Spec /\ []~inPoll => []AbortStops
<1>1. Init => InScript /\ AbortHeld
  BY ControlInit
<1>2. IInv /\ Shaped /\ InScript /\ ~inPoll /\ AbortHeld /\ [Next]_vars
        => InScript' /\ AbortHeld'
  BY Moves, InScriptNext, AbortHeldNext
<1>3. AbortHeld => AbortStops
  BY DEF AbortHeld, AbortStops, AtItem, Running, Unwinding, RunsList
<1> QED
  BY <1>1, <1>2, <1>3, Invariance, CallShape, PTL DEF Spec

-----------------------------------------------------------------------------
(* Scripts without signal actions *)

\* No signal is caught, so none is pending.
NoSignals == pending = {} /\ ~inPoll /\ \A s \in Sigs : trapAct[s] # "command"

LEMMA NoSignalsNext ==
    ASSUME "trap" \notin Kinds \/ NSig = 0, IInv', NoSignals, [Next]_vars
    PROVE  NoSignals'
<1>1. CASE UNCHANGED traps
  BY <1>1 DEF traps, NoSignals
<1>2. CASE UNCHANGED <<pending, trapAct>> /\ (UNCHANGED inPoll \/ ~inPoll')
  BY <1>2 DEF NoSignals
<1>3. ASSUME NEW f, CallPoll(f) PROVE UNCHANGED inPoll
  BY <1>3 DEF CallPoll, NoSignals
<1>4. CASE ListNext
  BY <1>1, <1>2, <1>3, <1>4 DEF ListNext, SkipItem, EndOfList, ItemReturns, ItemAborts,
     ItemContinues, ItemDone
<1>5. CASE ItemNext /\ ~builtin_trap
  BY <1>1, <1>5 DEF ItemNext, RunStatus, RunAborting, RunSetErrexit, builtin_return,
     builtin_exit, ExitBadOperand, RunExternal, RunCompound, RunCase, call_fn,
     SourceRefused, petrush_source_file
<1>6. CASE builtin_trap
  <2>1. NSig = 0 /\ inPoll' = inPoll /\ pending' \subseteq Sigs /\ Sigs = {}
    BY <1>6 DEF builtin_trap, Item, Sigs, IInv, TypeOK
  <2> QED
    BY <2>1 DEF NoSignals, Sigs
<1>7. CASE CompoundNext
  <2>1. CASE WaitInterrupted \/ ChildEnds
    BY <1>2, <1>3, <2>1 DEF WaitInterrupted, ChildEnds
  <2>2. CASE IfTest \/ IfElse \/ IfTested \/ IfRan \/ WhileTest \/ WhileTested \/ WhileRan
    BY <1>1, <2>2 DEF IfTest, IfElse, IfTested, IfRan, WhileTest, WhileTested, WhileRan,
       LoopRan
  <2>3. CASE ForWord \/ ForRan \/ CaseArm \/ CaseRan \/ FnEnter \/ FnLeave \/ ExternalDone
    BY <1>1, <2>3 DEF ForWord, ForRan, CaseArm, CaseRan, FnEnter, FnLeave, ExternalDone,
       LoopRan
  <2>4. CASE FileLine \/ FileBadLine \/ FileEnds \/ FileRan
    BY <1>1, <2>4 DEF FileLine, FileBadLine, FileEnds, FileRan
  <2> QED
    BY <1>7, <2>1, <2>2, <2>3, <2>4 DEF CompoundNext
<1>8. CASE TrapNext
  <2>1. ASSUME NEW s \in Sigs, PollTake(s) PROVE FALSE
    BY <2>1 DEF PollTake, Ahead, NoSignals
  <2> QED
    BY <1>1, <1>2, <1>3, <1>8, <2>1 DEF TrapNext, PollRan, PollEnds, ExitPolls,
       ExitNoAction, ExitAction, ExitRan, ProcessExits
<1>9. CASE MainNext
  BY <1>1, <1>9 DEF MainNext, ScriptRan, load_rc_file, ReplLine, ReplRan, ReplLeaves
<1>10. ASSUME NEW s \in Sigs, Deliver(s) PROVE FALSE
  BY <1>10 DEF Deliver, NoSignals
<1>11. CASE Gone \/ UNCHANGED vars
  BY <1>1, <1>11 DEF Gone, vars
<1> QED
  BY <1>4, <1>5, <1>6, <1>7, <1>8, <1>9, <1>10, <1>11 DEF Next, ShellNext

\* A script whose only trap is on EXIT, or that has none, starts no item while
\* a return or an abort unwinds.
THEOREM ScriptsUnwind ==
    ASSUME Entries \subseteq {"script"}, "trap" \notin Kinds \/ NSig = 0
    PROVE  Spec => [](ReturnUnwinds /\ AbortStops)
<1>1. Init => NoSignals
  BY DEF Init, NoSignals, Sigs
<1>2. IInv' /\ NoSignals /\ [Next]_vars => NoSignals'
  BY NoSignalsNext
<1>3. Spec => []~inPoll
  <2>1. NoSignals => ~inPoll
    BY DEF NoSignals
  <2> QED
    BY <1>1, <1>2, <2>1, Invariance, PTL DEF Spec
<1> QED
  BY <1>3, ReturnsUnwind, AbortsStop, PTL

=============================================================================
