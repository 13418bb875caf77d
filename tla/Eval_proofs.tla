---------------------------- MODULE Eval_proofs ----------------------------
(***************************************************************************)
(* The counters that unwinding must restore are balanced in every          *)
(* reachable state of Eval, for every script, and a pending return always  *)
(* has a call to stop at.                                                  *)
(***************************************************************************)
EXTENDS Eval, FiniteSetTheorems, SequenceTheorems, TLAPS

-----------------------------------------------------------------------------
(* Counting frames *)

N(S, P) == Cardinality(Where(S, P))
In(x, P) == IF x \in P THEN 1 ELSE 0

\* The frames of a class are finitely many, so they can be counted.
LEMMA WhereFinite ==
    ASSUME NEW S \in Seq(Frame), NEW P
    PROVE  IsFiniteSet(Where(S, P)) /\ N(S, P) \in Nat
<1>1. Where(S, P) \subseteq 1..Len(S)
  BY DEF Where
<1>2. IsFiniteSet(1..Len(S))
  BY FS_Interval
<1> QED
  BY <1>1, <1>2, FS_Subset, FS_CardinalityType DEF N

\* The last frame is replaced.
LEMMA CountResume ==
    ASSUME NEW S \in Seq(Frame), S # <<>>, NEW f \in Frame, NEW P,
           NEW T, T = [S EXCEPT ![Len(S)] = f]
    PROVE  N(T, P) = N(S, P) - In(S[Len(S)].at, P) + In(f.at, P)
<1> DEFINE n == Len(S)
           R == Where(S, P) \ {n}
<1>1. n \in 1..Len(S) /\ T \in Seq(Frame) /\ DOMAIN T = DOMAIN S /\ DOMAIN S = 1..n
  OBVIOUS
<1>2. Where(S, P) = IF S[n].at \in P THEN R \cup {n} ELSE R
  BY <1>1 DEF Where
<1>3. Where(T, P) = IF f.at \in P THEN R \cup {n} ELSE R
  BY <1>1 DEF Where
<1>4. IsFiniteSet(R) /\ n \notin R /\ Cardinality(R) \in Nat
  <2>1. IsFiniteSet(Where(S, P)) /\ R \in SUBSET Where(S, P)
    BY WhereFinite
  <2>2. IsFiniteSet(R)
    BY <2>1, FS_Subset
  <2> QED
    BY <2>2, FS_CardinalityType
<1> HIDE DEF R
<1>5. Cardinality(R \cup {n}) = Cardinality(R) + 1
  BY <1>4, FS_AddElement
<1>6. N(S, P) = Cardinality(R) + In(S[n].at, P)
  BY <1>2, <1>4, <1>5 DEF N, In
<1>7. N(T, P) = Cardinality(R) + In(f.at, P)
  BY <1>3, <1>4, <1>5 DEF N, In
<1> QED
  BY <1>4, <1>6, <1>7 DEF In

\* A frame is pushed.
LEMMA CountPush ==
    ASSUME NEW S \in Seq(Frame), NEW g \in Frame, NEW P
    PROVE  N(Append(S, g), P) = N(S, P) + In(g.at, P)
<1> DEFINE n == Len(S) + 1
           T == Append(S, g)
<1>1. T \in Seq(Frame) /\ DOMAIN T = 1..n /\ DOMAIN S = 1..Len(S) /\ T[n] = g
      /\ \A i \in 1..Len(S) : T[i] = S[i]
  OBVIOUS
<1>2. Where(T, P) = IF g.at \in P THEN Where(S, P) \cup {n} ELSE Where(S, P)
  BY <1>1 DEF Where
<1>3. n \notin Where(S, P)
  BY <1>1 DEF Where
<1>4. IsFiniteSet(Where(S, P)) /\ N(S, P) \in Nat
  BY WhereFinite
<1>5. Cardinality(Where(S, P) \cup {n}) = N(S, P) + 1
  BY <1>3, <1>4, FS_AddElement DEF N
<1> QED
  BY <1>2, <1>4, <1>5 DEF N, In

\* The last frame is popped.
LEMMA CountReturn ==
    ASSUME NEW S \in Seq(Frame), S # <<>>, NEW P,
           NEW T, T = SubSeq(S, 1, Len(S) - 1)
    PROVE  N(T, P) = N(S, P) - In(S[Len(S)].at, P)
<1> DEFINE n == Len(S)
<1>1. T \in Seq(Frame) /\ DOMAIN T = 1..(n - 1) /\ DOMAIN S = 1..n /\ n \in Nat \ {0}
      /\ \A i \in 1..(n - 1) : T[i] = S[i]
  OBVIOUS
<1>2. Where(S, P) = IF S[n].at \in P THEN Where(T, P) \cup {n} ELSE Where(T, P)
  BY <1>1 DEF Where
<1>3. n \notin Where(T, P)
  BY <1>1 DEF Where
<1>4. IsFiniteSet(Where(T, P)) /\ N(T, P) \in Nat
  BY <1>1, WhereFinite
<1>5. Cardinality(Where(T, P) \cup {n}) = N(T, P) + 1
  BY <1>3, <1>4, FS_AddElement DEF N
<1>6. N(S, P) = N(T, P) + In(S[n].at, P)
  BY <1>2, <1>4, <1>5 DEF N, In
<1> QED
  BY <1>4, <1>6 DEF In


-----------------------------------------------------------------------------
(* The inductive invariant *)

\* The frame at the bottom is that of a main program, and it is the only one
\* that never returns; a stack is therefore never popped empty.
Base == {"main:ran", "main:exit", "repl:rc", "repl:rcran", "repl:prompt",
         "repl:ran"}
Based == Len(stack) > 0 /\ stack[1].at \in Base

IInv == TypeOK /\ Based /\ Balanced /\ ReturnHasFrame

Flag(b) == IF b THEN 1 ELSE 0

\* The initial states satisfy the invariant, in both entries.
LEMMA CountsInit == Init => IInv
<1> SUFFICES ASSUME Init PROVE IInv
  OBVIOUS
<1>1. TypeOK
  <2>1. At("main:ran") \in Frame /\ At("file:line") \in Frame /\ At("repl:rc") \in Frame
    BY EvalAssumption DEF Frame, At, Points, Codes, Status
  <2>2. stack \in Seq(Frame)
    <3>1. CASE stack = <<At("main:ran"), At("file:line")>>
      BY <2>1, <3>1
    <3>2. CASE stack = <<At("repl:rc")>>
      BY <2>1, <3>2
    <3> QED
      BY <3>1, <3>2 DEF Init
  <2>3. srcDepth \in Nat
    BY DEF Init
  <2>4. trapAct \in [0..NSig -> Actions]
    BY EvalAssumption DEF Init, Actions
  <2> QED
    BY <2>2, <2>3, <2>4 DEF Init, TypeOK, Codes, Status
<1>2. Based
  BY DEF Init, Based, Base, At
<1>3. ReturnHasFrame
  BY DEF Init, ReturnHasFrame
<1>4. Where(stack, Exempt) = {} /\ Where(stack, InFn) = {}
      /\ Where(stack, InPoll) = {} /\ Where(stack, InExit) = {}
  BY DEF Init, Where, Exempt, InFn, InPoll, InExit, At
<1>5. \/ srcDepth = 1 /\ Where(stack, InFile) = {2}
      \/ srcDepth = 0 /\ Where(stack, InFile) = {}
  BY DEF Init, Where, InFile, At
<1>6. Cardinality({2}) = 1
  BY FS_Singleton
<1> QED
  BY <1>1, <1>2, <1>3, <1>4, <1>5, <1>6, FS_EmptySet DEF Init, IInv, Balanced

-----------------------------------------------------------------------------
(* What a move of the stack does to the frames of a class *)

\* Step replaces the running frame by one of a known class.
LEMMA MoveStep ==
    ASSUME TypeOK, Based, NEW f \in Frame, stack' = Resume(f),
           Top.at \in Base => f.at \in Base
    PROVE  /\ stack' \in Seq(Frame) /\ Based'
           /\ \A P : N(stack', P) = N(stack, P) - In(Top.at, P) + In(f.at, P)
<1>1. stack \in Seq(Frame) /\ stack # <<>> /\ stack' = [stack EXCEPT ![Len(stack)] = f]
  BY DEF TypeOK, Based, Resume
<1>2. stack' \in Seq(Frame) /\ Len(stack') = Len(stack)
  BY <1>1
<1>3. Based'
  BY <1>1, <1>2 DEF Based, Top
<1>4. \A P : N(stack', P) = N(stack, P) - In(Top.at, P) + In(f.at, P)
  BY <1>1, CountResume DEF Top
<1> QED
  BY <1>2, <1>3, <1>4

\* Call replaces the running frame and pushes another.
LEMMA MoveCall ==
    ASSUME TypeOK, Based, NEW f \in Frame, NEW g \in Frame, Call(f, g),
           Top.at \in Base => f.at \in Base
    PROVE  /\ stack' \in Seq(Frame) /\ Based' /\ rv' = Void
           /\ \A P : N(stack', P) = N(stack, P) - In(Top.at, P) + In(f.at, P)
                                      + In(g.at, P)
<1> DEFINE T == [stack EXCEPT ![Len(stack)] = f]
<1>1. stack \in Seq(Frame) /\ stack # <<>> /\ stack' = Append(T, g)
  BY DEF TypeOK, Based, Call, Resume
<1>2. T \in Seq(Frame) /\ Len(T) = Len(stack)
  BY <1>1
<1>3. stack' \in Seq(Frame) /\ Len(stack') = Len(stack) + 1 /\ stack'[1] = T[1]
  BY <1>1, <1>2
<1>4. Based'
  BY <1>1, <1>2, <1>3 DEF Based, Top
<1>5. \A P : N(T, P) = N(stack, P) - In(Top.at, P) + In(f.at, P)
  BY <1>1, CountResume DEF Top
<1>6. \A P : N(stack', P) = N(T, P) + In(g.at, P)
  <2> HIDE DEF T
  <2> QED BY <1>1, <1>2, CountPush
<1> QED
  BY <1>3, <1>4, <1>5, <1>6 DEF Call

\* Return pops the running frame.
LEMMA MoveReturn ==
    ASSUME TypeOK, Based, NEW s, Return(s), Top.at \notin Base
    PROVE  /\ stack' \in Seq(Frame) /\ Based' /\ rv' = s
           /\ \A P : N(stack', P) = N(stack, P) - In(Top.at, P)
<1>1. stack \in Seq(Frame) /\ stack # <<>>
      /\ stack' = SubSeq(stack, 1, Len(stack) - 1)
  BY DEF TypeOK, Based, Return
<1>2. Len(stack) > 1
  BY <1>1 DEF Based, Top
<1>3. stack' \in Seq(Frame) /\ Len(stack') = Len(stack) - 1 /\ stack'[1] = stack[1]
  BY <1>1, <1>2
<1>4. Based'
  BY <1>2, <1>3 DEF Based
<1>5. \A P : N(stack', P) = N(stack, P) - In(Top.at, P)
  BY <1>1, CountReturn DEF Top
<1> QED
  BY <1>3, <1>4, <1>5 DEF Return


-----------------------------------------------------------------------------
(* The frames that the actions build *)

\* The frames that the actions build are frames.
LEMMA Frames ==
    ASSUME TypeOK, Based
    PROVE  /\ Top \in Frame
           /\ \A p \in Points : Goto(p) \in Frame /\ Goto(p).at = p
           /\ \A p \in Points, s \in Codes :
                /\ [Goto(p) EXCEPT !.st = s] \in Frame
                /\ [Goto(p) EXCEPT !.st = s].at = p
           /\ \A p \in Points : At(p) \in Frame /\ At(p).at = p
           /\ \A p \in Points, s \in Codes :
                /\ [At(p) EXCEPT !.st = s] \in Frame
                /\ [At(p) EXCEPT !.st = s].at = p
           /\ \A c \in Seq(Conds) :
                ListFrame(c) \in Frame /\ ListFrame(c).at = "list:item"
           /\ Bodies \subseteq Seq(Conds) /\ Lists \subseteq Seq(Conds)
<1>1. Top \in Frame
  BY DEF TypeOK, Based, Top
<1>2. \A p \in Points : At(p) \in Frame /\ At(p).at = p
  BY EvalAssumption DEF At, Frame, Codes, Status
<1>3. \A p \in Points : Goto(p) \in Frame /\ Goto(p).at = p
  BY <1>1 DEF Goto, Frame
<1>4. \A p \in Points, s \in Codes : /\ [Goto(p) EXCEPT !.st = s] \in Frame
                                     /\ [Goto(p) EXCEPT !.st = s].at = p
  BY <1>1 DEF Goto, Frame
<1>5. \A p \in Points, s \in Codes : /\ [At(p) EXCEPT !.st = s] \in Frame
                                     /\ [At(p) EXCEPT !.st = s].at = p
  BY <1>2 DEF Frame
<1>6. Bodies \subseteq Seq(Conds) /\ Lists \subseteq Seq(Conds)
  BY DEF Bodies, Lists
<1>7. \A c \in Seq(Conds) : ListFrame(c) \in Frame /\ ListFrame(c).at = "list:item"
  <2>1. At("list:item") \in Frame /\ At("list:item").at = "list:item"
    BY <1>2 DEF Points
  <2> QED
    BY <2>1 DEF ListFrame, Frame
<1> QED
  BY <1>1, <1>2, <1>3, <1>4, <1>5, <1>6, <1>7

-----------------------------------------------------------------------------
(* Putting the invariant together again after a move *)

\* The types of the variables that are neither counters nor the stack.
RestOK ==
    /\ returning \in BOOLEAN
    /\ retStatus \in Status
    /\ abort \in BOOLEAN
    /\ optE \in BOOLEAN
    /\ last \in Codes
    /\ inPoll \in BOOLEAN
    /\ inExit \in BOOLEAN
    /\ pending \subseteq Sigs
    /\ trapAct \in [0..NSig -> Actions]
    /\ alive \in BOOLEAN
    /\ exitRuns \in Nat

\* The invariant of the next state from its parts.
LEMMA Rebuild ==
    ASSUME stack' \in Seq(Frame), Based', rv' \in Codes \cup {Void}, RestOK',
           noErrexit' = N(stack', Exempt), fnDepth' = N(stack', InFn),
           srcDepth' = N(stack', InFile), Flag(inPoll') = N(stack', InPoll),
           Flag(inExit') = N(stack', InExit), ReturnHasFrame'
    PROVE  IInv'
<1>1. noErrexit' \in Nat /\ fnDepth' \in Nat /\ srcDepth' \in Nat
  BY WhereFinite
<1>2. TypeOK'
  BY <1>1 DEF TypeOK, RestOK
<1>3. Balanced'
  BY DEF Balanced, N, Flag
<1> QED
  BY <1>2, <1>3 DEF IInv

\* What the invariant says of the counters, as numbers.
LEMMA Counts ==
    ASSUME IInv
    PROVE  /\ noErrexit = N(stack, Exempt) /\ fnDepth = N(stack, InFn)
           /\ srcDepth = N(stack, InFile) /\ Flag(inPoll) = N(stack, InPoll)
           /\ Flag(inExit) = N(stack, InExit)
           /\ noErrexit \in Nat /\ fnDepth \in Nat /\ srcDepth \in Nat
           /\ Flag(inPoll) \in Nat /\ Flag(inExit) \in Nat
           /\ RestOK
  BY DEF IInv, Balanced, N, TypeOK, Flag, RestOK

\* Points that belong to no class of counted frames, or to the same classes.
Plain(x)   == x \notin Exempt \cup InFn \cup InFile \cup InPoll \cup InExit
Same(x, y) == \A P \in {Exempt, InFn, InFile, InPoll, InExit} : In(x, P) = In(y, P)

counters == <<noErrexit, fnDepth, srcDepth, inPoll, inExit>>

\* A Step that changes no class keeps the invariant.
LEMMA QuietStep ==
    ASSUME IInv, NEW f \in Frame, stack' = Resume(f), rv' \in Codes \cup {Void},
           Top.at \in Base => f.at \in Base,
           Same(Top.at, f.at), UNCHANGED counters, RestOK', ReturnHasFrame'
    PROVE  IInv'
<1>1. /\ stack' \in Seq(Frame) /\ Based'
      /\ \A P : N(stack', P) = N(stack, P) - In(Top.at, P) + In(f.at, P)
  BY MoveStep DEF IInv
<1>2. \A P \in {Exempt, InFn, InFile, InPoll, InExit} : N(stack', P) = N(stack, P)
  BY <1>1, WhereFinite DEF Same, In, IInv, TypeOK
<1> QED
  BY <1>1, <1>2, Counts, Rebuild DEF counters

\* A Call that changes no class keeps the invariant.
LEMMA QuietCall ==
    ASSUME IInv, NEW f \in Frame, NEW g \in Frame, Call(f, g),
           Top.at \in Base => f.at \in Base,
           Same(Top.at, f.at), Plain(g.at), UNCHANGED counters, RestOK',
           ReturnHasFrame'
    PROVE  IInv'
<1>1. /\ stack' \in Seq(Frame) /\ Based' /\ rv' = Void
      /\ \A P : N(stack', P) = N(stack, P) - In(Top.at, P) + In(f.at, P)
                                 + In(g.at, P)
  BY MoveCall DEF IInv
<1>2. \A P \in {Exempt, InFn, InFile, InPoll, InExit} : N(stack', P) = N(stack, P)
  BY <1>1, WhereFinite DEF Same, Plain, In, IInv, TypeOK
<1> QED
  BY <1>1, <1>2, Counts, Rebuild DEF counters

\* A Return from a frame of no class keeps the invariant.
LEMMA QuietReturn ==
    ASSUME IInv, NEW s \in Codes, Return(s), Top.at \notin Base,
           Plain(Top.at), UNCHANGED counters, RestOK', ReturnHasFrame'
    PROVE  IInv'
<1>1. /\ stack' \in Seq(Frame) /\ Based' /\ rv' = s
      /\ \A P : N(stack', P) = N(stack, P) - In(Top.at, P)
  BY MoveReturn DEF IInv
<1>2. \A P \in {Exempt, InFn, InFile, InPoll, InExit} : N(stack', P) = N(stack, P)
  BY <1>1, WhereFinite DEF Plain, In, IInv, TypeOK
<1> QED
  BY <1>1, <1>2, Counts, Rebuild DEF counters

\* The call of petrush_traps_poll, by a function that is in no counted class.
LEMMA PollCalled ==
    ASSUME IInv, NEW f \in Frame, CallPoll(f), Top.at \in Base => f.at \in Base,
           Plain(Top.at), Plain(f.at), RestOK', ReturnHasFrame',
           UNCHANGED <<noErrexit, fnDepth, srcDepth, inExit>>
    PROVE  IInv'
<1>1. CASE pending = {} \/ inPoll
  <2>1. stack' = Resume(f) /\ rv' = Void /\ UNCHANGED counters
    BY <1>1 DEF CallPoll, counters
  <2>2. Same(Top.at, f.at)
    BY DEF Same, Plain, In
  <2> QED
    BY <2>1, <2>2, QuietStep
<1>2. CASE ~(pending = {} \/ inPoll)
  <2> DEFINE g == At("poll:scan")
  <2>1. Call(f, g) /\ ~inPoll /\ inPoll' = TRUE
    BY <1>2 DEF CallPoll, Call
  <2>2. g \in Frame /\ g.at = "poll:scan"
    BY Frames DEF IInv, Points
  <2>3. /\ stack' \in Seq(Frame) /\ Based' /\ rv' = Void
        /\ \A P : N(stack', P) = N(stack, P) - In(Top.at, P) + In(f.at, P)
                                   + In(g.at, P)
    BY <2>1, <2>2, MoveCall DEF IInv
  <2>4. \A P : N(stack, P) \in Nat
    BY WhereFinite DEF IInv, TypeOK
  <2>5. \A P \in {Exempt, InFn, InFile, InExit} : N(stack', P) = N(stack, P)
    <3>1. \A P \in {Exempt, InFn, InFile, InExit} :
             In(Top.at, P) = 0 /\ In(f.at, P) = 0
      BY DEF Plain, In
    <3>2. \A P \in {Exempt, InFn, InFile, InExit} : In(g.at, P) = 0
      BY <2>2 DEF In, Exempt, InFn, InFile, InExit
    <3> HIDE DEF g
    <3> QED
      BY <2>3, <2>4, <3>1, <3>2
  <2>6. N(stack', InPoll) = N(stack, InPoll) + 1
    <3>1. In(Top.at, InPoll) = 0 /\ In(f.at, InPoll) = 0
      BY DEF Plain, In
    <3>2. In(g.at, InPoll) = 1
      BY <2>2 DEF In, InPoll
    <3> HIDE DEF g
    <3> QED
      BY <2>3, <2>4, <3>1, <3>2
  <2> QED
    BY <2>1, <2>3, <2>5, <2>6, Counts, Rebuild DEF Flag
<1> QED
  BY <1>1, <1>2


-----------------------------------------------------------------------------
(* The actions of dispatch_list *)

\* An item that completes at once, and one that is a call.
LEMMA QuietCompletes ==
    ASSUME IInv, Top.at = "list:item", NEW s \in Codes, Completes(s),
           UNCHANGED counters, RestOK', ReturnHasFrame'
    PROVE  IInv'
<1> DEFINE f == Goto("list:after")
<1>1. f \in Frame /\ f.at = "list:after"
  BY Frames DEF IInv, Points
<1>2. Same(Top.at, f.at) /\ Top.at \notin Base
  BY <1>1 DEF Same, In, Base, Exempt, InFn, InFile, InPoll, InExit
<1> HIDE DEF f
<1>3. stack' = Resume(f) /\ rv' = s
  BY DEF Completes, f
<1> QED
  BY <1>1, <1>2, <1>3, QuietStep

\* An item that is a call of a plain frame keeps the invariant.
LEMMA QuietCalls ==
    ASSUME IInv, Top.at = "list:item", NEW g \in Frame, Calls(g), Plain(g.at),
           UNCHANGED counters, RestOK', ReturnHasFrame'
    PROVE  IInv'
<1> DEFINE f == Goto("list:after")
<1>1. f \in Frame /\ f.at = "list:after"
  BY Frames DEF IInv, Points
<1>2. Same(Top.at, f.at) /\ Top.at \notin Base
  BY <1>1 DEF Same, In, Base, Exempt, InFn, InFile, InPoll, InExit
<1> HIDE DEF f
<1>3. Call(f, g)
  BY DEF Calls, f
<1> QED
  BY <1>1, <1>2, <1>3, QuietCall

\* What a list has left is again a list of items.
LEMMA NextItemsType ==
    ASSUME TypeOK, Based
    PROVE  NextItems \in Seq(Conds)
<1>1. Top.todo \in Seq(Conds)
  BY Frames DEF Frame
<1>2. \A i \in 2..Len(Top.todo) : Top.todo[i] \in Conds
  BY <1>1
<1> QED
  BY <1>1, <1>2, SubSeqProperties DEF NextItems

\* The steps of dispatch_list itself.
LEMMA ListInv ==
    ASSUME IInv, ListNext
    PROVE  IInv'
<1> USE Frames DEF IInv
<1>0. RestOK /\ rv \in Codes \cup {Void}
  BY Counts DEF TypeOK
<1>1. CASE SkipItem
  <2> DEFINE f == [Top EXCEPT !.todo = NextItems]
  <2>1. Top.at = "list:item" /\ Top.todo # <<>> /\ Step(f)
    BY <1>1 DEF SkipItem, Running
  <2>2. f \in Frame /\ f.at = "list:item"
    BY <2>1, NextItemsType DEF Frame
  <2>3. RestOK' /\ UNCHANGED counters /\ ReturnHasFrame'
    BY <1>0, <1>1 DEF SkipItem, RestOK, counters, unwind, traps, exits, ReturnHasFrame
  <2>4. Same(Top.at, f.at) /\ Top.at \notin Base
    BY <2>1, <2>2 DEF Same, Base
  <2> HIDE DEF f
  <2> QED
    BY <2>1, <2>2, <2>3, <2>4, QuietStep DEF Step
<1>2. CASE EndOfList
  <2>1. Top.at = "list:item" /\ Return(Top.st) /\ Top.st \in Codes
    BY <1>2 DEF EndOfList, Running, Frame
  <2>2. RestOK' /\ UNCHANGED counters /\ ReturnHasFrame'
    BY <1>0, <1>2 DEF EndOfList, RestOK, counters, unwind, traps, exits, ReturnHasFrame
  <2>3. Plain(Top.at) /\ Top.at \notin Base
    BY <2>1 DEF Plain, Base, Exempt, InFn, InFile, InPoll, InExit
  <2> QED
    BY <2>1, <2>2, <2>3, QuietReturn
<1>3. CASE ItemReturns
  <2>1. Top.at = "list:after" /\ Return(retStatus) /\ retStatus \in Codes
    BY <1>3, <1>0 DEF ItemReturns, ItemDone, Running, RestOK, Codes
  <2>2. RestOK' /\ UNCHANGED counters /\ ReturnHasFrame'
    BY <1>0, <1>3 DEF ItemReturns, ItemDone, RestOK, counters, unwind, traps, exits,
                      ReturnHasFrame
  <2>3. Plain(Top.at) /\ Top.at \notin Base
    BY <2>1 DEF Plain, Base, Exempt, InFn, InFile, InPoll, InExit
  <2> QED
    BY <2>1, <2>2, <2>3, QuietReturn
<1>4. CASE ItemAborts
  <2>1. Top.at = "list:after" /\ Return(rv) /\ rv \in Codes
    BY <1>4, <1>0 DEF ItemAborts, ItemDone, Running
  <2>2. RestOK' /\ UNCHANGED counters /\ ReturnHasFrame'
    BY <1>0, <1>4 DEF ItemAborts, ItemDone, RestOK, counters, unwind, traps, exits,
                      ReturnHasFrame
  <2>3. Plain(Top.at) /\ Top.at \notin Base
    BY <2>1 DEF Plain, Base, Exempt, InFn, InFile, InPoll, InExit
  <2> QED
    BY <2>1, <2>2, <2>3, QuietReturn
<1>5. CASE ItemContinues
  <2> DEFINE f == [ListFrame(NextItems) EXCEPT !.st = rv]
  <2>1. Top.at = "list:after" /\ CallPoll(f) /\ rv \in Codes
    BY <1>5, <1>0 DEF ItemContinues, ItemDone, Running
  <2>2. f \in Frame /\ f.at = "list:item"
    <3>1. ListFrame(NextItems) \in Frame /\ ListFrame(NextItems).at = "list:item"
      BY NextItemsType
    <3> QED
      BY <2>1, <3>1 DEF Frame
  <2>3. /\ UNCHANGED <<noErrexit, fnDepth, srcDepth, inExit>>
        /\ RestOK' /\ ReturnHasFrame'
    BY <1>0, <1>5 DEF ItemContinues, ItemDone, CallPoll, RestOK, unwind, exits,
                      ReturnHasFrame
  <2>4. Plain(Top.at) /\ Plain(f.at) /\ Top.at \notin Base
    BY <2>1, <2>2 DEF Plain, Base, Exempt, InFn, InFile, InPoll, InExit
  <2> HIDE DEF f
  <2> QED
    BY <2>1, <2>2, <2>3, <2>4, PollCalled
<1> QED
  BY <1>1, <1>2, <1>3, <1>4, <1>5 DEF ListNext


-----------------------------------------------------------------------------
(* The actions of an item *)

\* What every quiet action leaves as it was.
LEMMA Untouched ==
    ASSUME IInv,
           UNCHANGED <<unwind, noErrexit, srcDepth, inPoll, exits>>,
           abort' \in BOOLEAN, optE' \in BOOLEAN, last' \in Codes,
           pending' \subseteq Sigs, trapAct' \in [0..NSig -> Actions]
    PROVE  UNCHANGED counters /\ RestOK' /\ ReturnHasFrame'
  BY Counts DEF counters, RestOK, ReturnHasFrame, unwind, exits, IInv

\* The steps that take an item: builtins, calls, compounds and source.
LEMMA ItemInv ==
    ASSUME IInv, ItemNext
    PROVE  IInv'
<1>0. RestOK /\ \A k : Item(k) => Top.at = "list:item"
  BY Counts DEF Item, Running
<1>1. CASE RunStatus
  <2>1. PICK s \in Status : Completes(s)
    BY <1>1 DEF RunStatus
  <2>2. UNCHANGED counters /\ RestOK' /\ ReturnHasFrame'
    BY <1>0, <1>1, Untouched DEF RunStatus, RestOK, traps
  <2> QED
    BY <1>0, <1>1, <2>1, <2>2, QuietCompletes DEF RunStatus, Codes
<1>2. CASE RunAborting
  <2>0. optE' \in BOOLEAN
    BY <1>0, <1>2 DEF RunAborting, RestOK
  <2>1. UNCHANGED counters /\ RestOK' /\ ReturnHasFrame'
    BY <1>0, <1>2, <2>0, Untouched DEF RunAborting, RestOK, traps
  <2> QED
    BY <1>0, <1>2, <2>1, QuietCompletes DEF RunAborting, Codes, Status
<1>3. CASE RunSetErrexit
  <2>1. UNCHANGED counters /\ RestOK' /\ ReturnHasFrame'
    BY <1>0, <1>3, Untouched DEF RunSetErrexit, RestOK, traps
  <2> QED
    BY <1>0, <1>3, <2>1, QuietCompletes DEF RunSetErrexit, Codes, Status
<1>4. CASE builtin_return
  <2>1. UNCHANGED counters /\ RestOK' /\ ReturnHasFrame'
    <3>1. /\ UNCHANGED <<abort, noErrexit, optE, last, srcDepth, traps, exits>>
          /\ UNCHANGED fnDepth
          /\ \/ UNCHANGED unwind
             \/ fnDepth # 0 /\ returning' = TRUE /\ retStatus' \in Status
      BY <1>4 DEF builtin_return, unwind
    <3>2. fnDepth \in Nat
      BY Counts
    <3>3. RestOK'
      BY <1>0, <3>1 DEF RestOK, traps, unwind, exits
    <3>4. ReturnHasFrame'
      <4>1. CASE UNCHANGED unwind
        BY <4>1 DEF ReturnHasFrame, IInv, unwind
      <4>2. CASE fnDepth # 0
        <5>1. fnDepth' > 0
          BY <3>1, <3>2, <4>2
        <5> QED
          BY <5>1 DEF ReturnHasFrame
      <4> QED
        BY <3>1, <4>1, <4>2
    <3> QED
      BY <3>1, <3>3, <3>4 DEF counters, traps, exits
  <2>2. PICK s \in Status : Completes(s)
    BY <1>4 DEF builtin_return, Status
  <2> QED
    BY <1>0, <1>4, <2>1, <2>2, QuietCompletes DEF builtin_return, Codes
<1>5. CASE builtin_trap
  <2>1. PICK slots \in SUBSET (0..NSig), act \in Actions :
          /\ trapAct' = [i \in 0..NSig |-> IF i \in slots THEN act ELSE trapAct[i]]
          /\ \/ UNCHANGED pending
             \/ \E late \in SUBSET {s \in slots \ {0} : trapAct[s] = "command"} :
                  pending' = (pending \ slots) \cup late
    BY <1>5 DEF builtin_trap
  <2>2. trapAct' \in [0..NSig -> Actions] /\ pending' \subseteq Sigs
    <3>1. trapAct \in [0..NSig -> Actions] /\ pending \subseteq 1..NSig
      BY <1>0 DEF RestOK, Sigs
    <3>2. trapAct' \in [0..NSig -> Actions]
      BY <2>1, <3>1
    <3>3. slots \ {0} \subseteq 1..NSig
      BY EvalAssumption
    <3>4. pending' \subseteq 1..NSig
      BY <2>1, <3>1, <3>3
    <3> QED
      BY <3>2, <3>4 DEF Sigs
  <2>3. abort' \in BOOLEAN
    BY <1>0, <1>5 DEF builtin_trap, RestOK
  <2>4. UNCHANGED counters /\ RestOK' /\ ReturnHasFrame'
    BY <1>0, <1>5, <2>2, <2>3, Untouched DEF builtin_trap, RestOK
  <2>5. PICK s \in Status : Completes(s)
    BY <1>5 DEF builtin_trap, Status
  <2> QED
    BY <1>0, <1>5, <2>4, <2>5, QuietCompletes DEF builtin_trap, Codes
<1>6. CASE builtin_exit
  <2>1. PICK s \in Status : Calls([At("exit:poll") EXCEPT !.st = s])
    BY <1>6 DEF builtin_exit
  <2> DEFINE g == [At("exit:poll") EXCEPT !.st = s]
  <2>2. g \in Frame /\ g.at = "exit:poll"
    BY Frames DEF IInv, Points, Codes
  <2>3. Plain(g.at)
    BY <2>2 DEF Plain, Exempt, InFn, InFile, InPoll, InExit
  <2>4. UNCHANGED counters /\ RestOK' /\ ReturnHasFrame'
    BY <1>0, <1>6, Untouched DEF builtin_exit, RestOK, traps
  <2> HIDE DEF g
  <2>5. Calls(g)
    BY <2>1 DEF g
  <2> QED
    BY <1>0, <1>6, <2>2, <2>3, <2>4, <2>5, QuietCalls DEF builtin_exit
<1>7. CASE ExitBadOperand
  <2>1. UNCHANGED <<stack, rv, counters>> /\ RestOK' /\ ReturnHasFrame'
    BY <1>0, <1>7
       DEF ExitBadOperand, RestOK, traps, unwind, counters, ReturnHasFrame, IInv
  <2>2. stack' \in Seq(Frame) /\ Based' /\ rv' \in Codes \cup {Void}
    BY <2>1 DEF IInv, TypeOK, Based
  <2> QED
    BY <2>1, <2>2, Counts, Rebuild DEF counters
<1>8. CASE RunExternal
  <2>1. At("ext:wait") \in Frame /\ At("ext:wait").at = "ext:wait"
    BY Frames DEF IInv, Points
  <2>2. Plain(At("ext:wait").at)
    BY <2>1 DEF Plain, Exempt, InFn, InFile, InPoll, InExit
  <2>3. UNCHANGED counters /\ RestOK' /\ ReturnHasFrame'
    BY <1>0, <1>8, Untouched DEF RunExternal, RestOK, traps
  <2> QED
    BY <1>0, <1>8, <2>1, <2>2, <2>3, QuietCalls DEF RunExternal
<1>9. CASE RunCompound
  <2>1. \A p \in {"if:arm", "while:test", "for:word"} :
          At(p) \in Frame /\ Plain(At(p).at)
    BY Frames DEF IInv, Points, Plain, Exempt, InFn, InFile, InPoll, InExit
  <2>2. PICK p \in {"if:arm", "while:test", "for:word"} : Calls(At(p))
    BY <1>9 DEF RunCompound
  <2>3. UNCHANGED counters /\ RestOK' /\ ReturnHasFrame'
    BY <1>0, <1>9, Untouched DEF RunCompound, RestOK, traps
  <2> QED
    BY <1>0, <1>9, <2>1, <2>2, <2>3, QuietCalls DEF RunCompound
<1>10. CASE RunCase
  <2>1. UNCHANGED counters /\ RestOK' /\ ReturnHasFrame'
    BY <1>0, <1>10, Untouched DEF RunCase, RestOK, traps
  <2>2. CASE \E s \in Status : Completes(s)
    BY <1>0, <1>10, <2>1, <2>2, QuietCompletes DEF RunCase, Codes
  <2>3. CASE Calls(At("case:arm"))
    <3>1. At("case:arm") \in Frame /\ At("case:arm").at = "case:arm"
      BY Frames DEF IInv, Points
    <3>2. Plain(At("case:arm").at)
      BY <3>1 DEF Plain, Exempt, InFn, InFile, InPoll, InExit
    <3> QED
      BY <1>0, <1>10, <2>1, <2>3, <3>1, <3>2, QuietCalls DEF RunCase
  <2> QED
    BY <1>10, <2>2, <2>3 DEF RunCase, Status
<1>11. CASE SourceRefused
  <2>1. UNCHANGED counters /\ RestOK' /\ ReturnHasFrame'
    BY <1>0, <1>11, Untouched DEF SourceRefused, RestOK, traps
  <2> QED
    BY <1>0, <1>11, <2>1, QuietCompletes DEF SourceRefused, Codes, Status
<1> DEFINE f == Goto("list:after")
<1>f. f \in Frame /\ f.at = "list:after"
  BY Frames DEF IInv, Points
<1> HIDE DEF f
<1>12. CASE call_fn
  <2> DEFINE g == At("fn:enter")
  <2>1. g \in Frame /\ g.at = "fn:enter"
    BY Frames DEF IInv, Points
  <2> HIDE DEF g
  <2>2. Call(f, g) /\ Top.at = "list:item"
    BY <1>0, <1>12 DEF call_fn, Calls, f, g
  <2>3. /\ stack' \in Seq(Frame) /\ Based' /\ rv' = Void
        /\ \A P : N(stack', P) = N(stack, P) - In(Top.at, P) + In(f.at, P)
                                   + In(g.at, P)
    BY <1>f, <2>1, <2>2, MoveCall DEF IInv, Base
  <2>4. \A P \in {Exempt, InFile, InPoll, InExit} : N(stack', P) = N(stack, P)
    BY <1>f, <2>1, <2>2, <2>3, WhereFinite
       DEF In, IInv, TypeOK, Exempt, InFile, InPoll, InExit
  <2>5. N(stack', InFn) = N(stack, InFn) + 1
    BY <1>f, <2>1, <2>2, <2>3, WhereFinite DEF In, IInv, TypeOK, InFn
  <2>6. /\ fnDepth' = fnDepth + 1 /\ RestOK' /\ ReturnHasFrame'
        /\ UNCHANGED <<noErrexit, srcDepth, inPoll, inExit>>
    BY <1>0, <1>12, Counts
       DEF call_fn, RestOK, traps, exits, ReturnHasFrame, IInv, TypeOK
  <2> QED
    BY <2>3, <2>4, <2>5, <2>6, Counts, Rebuild
<1>13. CASE petrush_source_file
  <2> DEFINE g == At("file:line")
  <2>1. g \in Frame /\ g.at = "file:line"
    BY Frames DEF IInv, Points
  <2> HIDE DEF g
  <2>2. Call(f, g) /\ Top.at = "list:item"
    BY <1>0, <1>13 DEF petrush_source_file, Calls, f, g
  <2>3. /\ stack' \in Seq(Frame) /\ Based' /\ rv' = Void
        /\ \A P : N(stack', P) = N(stack, P) - In(Top.at, P) + In(f.at, P)
                                   + In(g.at, P)
    BY <1>f, <2>1, <2>2, MoveCall DEF IInv, Base
  <2>4. \A P \in {Exempt, InFn, InPoll, InExit} : N(stack', P) = N(stack, P)
    BY <1>f, <2>1, <2>2, <2>3, WhereFinite
       DEF In, IInv, TypeOK, Exempt, InFn, InPoll, InExit
  <2>5. N(stack', InFile) = N(stack, InFile) + 1
    BY <1>f, <2>1, <2>2, <2>3, WhereFinite DEF In, IInv, TypeOK, InFile
  <2>6. /\ srcDepth' = srcDepth + 1 /\ RestOK' /\ ReturnHasFrame'
        /\ UNCHANGED <<noErrexit, fnDepth, inPoll, inExit>>
    BY <1>0, <1>13
       DEF petrush_source_file, RestOK, traps, exits, unwind, ReturnHasFrame, IInv
  <2> QED
    BY <2>3, <2>4, <2>5, <2>6, Counts, Rebuild
<1> QED
  BY <1>1, <1>2, <1>3, <1>4, <1>5, <1>6, <1>7, <1>8, <1>9, <1>10, <1>11, <1>12, <1>13
     DEF ItemNext


-----------------------------------------------------------------------------
(* The actions of the compound commands *)

Conditions == {"if:cond", "while:cond"}

\* The points at which nothing is counted, and that are not at the bottom.
Inner == {"list:item", "list:after", "ext:wait", "ext:done", "if:arm", "if:body",
          "if:else", "while:test", "while:body", "for:word", "for:body",
          "case:arm", "case:body", "exit:poll", "exit:guard", "exit:over"}

\* The inner points are none of the base points.
LEMMA InnerPlain ==
    \A p \in Inner : Plain(p) /\ p \notin Base /\ p \in Points
  BY DEF Inner, Plain, Base, Points, Exempt, InFn, InFile, InPoll, InExit

\* The class of each inner point.
LEMMA InnerIn ==
    /\ \A p \in Inner :
         In(p, Exempt) = 0 /\ In(p, InFn) = 0 /\ In(p, InFile) = 0
         /\ In(p, InPoll) = 0 /\ In(p, InExit) = 0
    /\ \A p \in Conditions :
         In(p, Exempt) = 1 /\ In(p, InFn) = 0 /\ In(p, InFile) = 0
         /\ In(p, InPoll) = 0 /\ In(p, InExit) = 0
  BY DEF Inner, Conditions, In, Exempt, InFn, InFile, InPoll, InExit

\* The class of every other point.
LEMMA OtherIn ==
    /\ \A p \in InFn :
         In(p, Exempt) = 0 /\ In(p, InFn) = 1 /\ In(p, InFile) = 0
         /\ In(p, InPoll) = 0 /\ In(p, InExit) = 0
    /\ \A p \in InFile :
         In(p, Exempt) = 0 /\ In(p, InFn) = 0 /\ In(p, InFile) = 1
         /\ In(p, InPoll) = 0 /\ In(p, InExit) = 0
    /\ \A p \in Base :
         In(p, Exempt) = 0 /\ In(p, InFn) = 0 /\ In(p, InFile) = 0
         /\ In(p, InPoll) = 0 /\ In(p, InExit) = 0
    /\ In("poll:scan", Exempt) = 0 /\ In("poll:scan", InFn) = 0
    /\ In("poll:scan", InFile) = 0 /\ In("poll:scan", InPoll) = 1
    /\ In("poll:scan", InExit) = 0
    /\ In("poll:ran", Exempt) = 1 /\ In("poll:ran", InFn) = 0
    /\ In("poll:ran", InFile) = 0 /\ In("poll:ran", InPoll) = 1
    /\ In("poll:ran", InExit) = 0
    /\ In("exit:ran", Exempt) = 1 /\ In("exit:ran", InFn) = 0
    /\ In("exit:ran", InFile) = 0 /\ In("exit:ran", InPoll) = 0
    /\ In("exit:ran", InExit) = 1
  BY DEF Base, In, Exempt, InFn, InFile, InPoll, InExit

\* The counters are integers, so one can be lowered.
LEMMA NInt ==
    ASSUME IInv
    PROVE  /\ N(stack, Exempt) \in Nat /\ N(stack, InFn) \in Nat
           /\ N(stack, InFile) \in Nat /\ N(stack, InPoll) \in Nat
           /\ N(stack, InExit) \in Nat
  BY WhereFinite DEF IInv, TypeOK

\* A function moves between two inner points, calls a list, or returns.
LEMMA InnerMove ==
    ASSUME IInv, Top.at \in Inner, UNCHANGED counters, RestOK', ReturnHasFrame',
           \/ \E p \in Inner : Step(Goto(p))
           \/ \E p \in Inner, s \in Codes : Step([Goto(p) EXCEPT !.st = s])
           \/ \E p \in Inner, c \in Seq(Conds) : Call(Goto(p), ListFrame(c))
           \/ \E s \in Codes : Return(s)
    PROVE  IInv'
<1> USE InnerPlain
<1>0. \A p \in Inner : Same(Top.at, p)
  BY DEF Same, Plain, In
<1>1. ASSUME NEW p \in Inner, Step(Goto(p)) PROVE IInv'
  <2>1. Goto(p) \in Frame /\ Goto(p).at = p
    BY Frames DEF IInv
  <2> QED
    BY <1>0, <1>1, <2>1, QuietStep DEF Step
<1>2. ASSUME NEW p \in Inner, NEW s \in Codes, Step([Goto(p) EXCEPT !.st = s])
      PROVE IInv'
  <2> DEFINE f == [Goto(p) EXCEPT !.st = s]
  <2>1. f \in Frame /\ f.at = p
    BY Frames DEF IInv
  <2>2. stack' = Resume(f) /\ rv' = Void
    BY <1>2 DEF Step
  <2> HIDE DEF f
  <2> QED
    BY <1>0, <2>1, <2>2, QuietStep
<1>3. ASSUME NEW p \in Inner, NEW c \in Seq(Conds), Call(Goto(p), ListFrame(c))
      PROVE IInv'
  <2>1. Goto(p) \in Frame /\ Goto(p).at = p /\ ListFrame(c) \in Frame
        /\ ListFrame(c).at = "list:item"
    BY Frames DEF IInv
  <2>2. Plain(ListFrame(c).at)
    BY <2>1 DEF Inner
  <2> QED
    BY <1>0, <1>3, <2>1, <2>2, QuietCall
<1>4. ASSUME NEW s \in Codes, Return(s) PROVE IInv'
  BY <1>4, QuietReturn
<1> QED
  BY <1>1, <1>2, <1>3, <1>4

\* Entering a condition raises g_no_errexit, leaving it lowers it again.
LEMMA CondEnter ==
    ASSUME IInv, Top.at \in Inner, NEW p \in Conditions, NEW c \in Seq(Conds),
           Call(Goto(p), ListFrame(c)), noErrexit' = noErrexit + 1,
           UNCHANGED <<fnDepth, srcDepth, inPoll, inExit>>, RestOK', ReturnHasFrame'
    PROVE  IInv'
<1> DEFINE f == Goto(p)
           g == ListFrame(c)
<1>1. f \in Frame /\ f.at = p /\ g \in Frame /\ g.at = "list:item"
  BY Frames DEF IInv, Conditions, Points
<1> HIDE DEF f, g
<1>2. Call(f, g)
  BY DEF f, g
<1>3. /\ stack' \in Seq(Frame) /\ Based' /\ rv' = Void
      /\ \A P : N(stack', P) = N(stack, P) - In(Top.at, P) + In(f.at, P) + In(g.at, P)
  BY <1>1, <1>2, MoveCall, InnerPlain DEF IInv
<1>4. /\ N(stack', Exempt) = N(stack, Exempt) + 1
      /\ N(stack', InFn) = N(stack, InFn) /\ N(stack', InFile) = N(stack, InFile)
      /\ N(stack', InPoll) = N(stack, InPoll) /\ N(stack', InExit) = N(stack, InExit)
  <2>1. g.at \in Inner
    BY <1>1 DEF Inner
  <2> QED
    BY <1>1, <1>3, <2>1, InnerIn, NInt
<1> QED
  BY <1>3, <1>4, Counts, Rebuild

\* Leaving a condition lowers g_no_errexit by the one that entering raised.
LEMMA CondLeave ==
    ASSUME IInv, Top.at \in Conditions, noErrexit' = noErrexit - 1,
           UNCHANGED <<fnDepth, srcDepth, inPoll, inExit>>, RestOK', ReturnHasFrame',
           \/ \E s \in Codes : Return(s)
           \/ \E p \in Inner, c \in Seq(Conds) : Call(Goto(p), ListFrame(c))
           \/ \E p \in Inner, s \in Codes : Step([Goto(p) EXCEPT !.st = s])
    PROVE  IInv'
<1> USE InnerPlain
<1>0. Top.at \notin Base
  BY DEF Conditions, Base
<1> DEFINE Lowered ==
             /\ stack' \in Seq(Frame) /\ Based' /\ rv' \in Codes \cup {Void}
             /\ N(stack', Exempt) = N(stack, Exempt) - 1
             /\ N(stack', InFn) = N(stack, InFn) /\ N(stack', InFile) = N(stack, InFile)
             /\ N(stack', InPoll) = N(stack, InPoll)
             /\ N(stack', InExit) = N(stack, InExit)
<1>1. SUFFICES Lowered
  BY <1>1, Counts, Rebuild
<1>2. ASSUME NEW s \in Codes, Return(s)
      PROVE  Lowered
  <2>1. /\ stack' \in Seq(Frame) /\ Based' /\ rv' = s
        /\ \A P : N(stack', P) = N(stack, P) - In(Top.at, P)
    BY <1>0, <1>2, MoveReturn DEF IInv
  <2> QED
    BY <2>1, InnerIn, NInt
<1>3. ASSUME NEW p \in Inner, NEW c \in Seq(Conds), Call(Goto(p), ListFrame(c))
      PROVE  Lowered
  <2> DEFINE f == Goto(p)
             g == ListFrame(c)
  <2>1. f \in Frame /\ f.at = p /\ g \in Frame /\ g.at = "list:item"
    BY Frames DEF IInv
  <2> HIDE DEF f, g
  <2>2. Call(f, g)
    BY <1>3 DEF f, g
  <2>3. /\ stack' \in Seq(Frame) /\ Based' /\ rv' = Void
        /\ \A P : N(stack', P) = N(stack, P) - In(Top.at, P) + In(f.at, P)
                                   + In(g.at, P)
    BY <1>0, <2>1, <2>2, MoveCall DEF IInv
  <2>4. f.at \in Inner /\ g.at \in Inner
    BY <2>1 DEF Inner
  <2> QED
    BY <2>3, <2>4, InnerIn, NInt
<1>4. ASSUME NEW p \in Inner, NEW s \in Codes, Step([Goto(p) EXCEPT !.st = s])
      PROVE  Lowered
  <2> DEFINE f == [Goto(p) EXCEPT !.st = s]
  <2>1. f \in Frame /\ f.at = p
    BY Frames DEF IInv
  <2>2. stack' = Resume(f) /\ rv' = Void
    BY <1>4 DEF Step
  <2> HIDE DEF f
  <2>3. /\ stack' \in Seq(Frame) /\ Based'
        /\ \A P : N(stack', P) = N(stack, P) - In(Top.at, P) + In(f.at, P)
    BY <1>0, <2>1, <2>2, MoveStep DEF IInv
  <2> QED
    BY <2>1, <2>2, <2>3, InnerIn, NInt
<1> QED
  BY <1>2, <1>3, <1>4


\* The steps of the compound commands, functions and sourced files.
LEMMA CompoundInv ==
    ASSUME IInv, CompoundNext
    PROVE  IInv'
<1>0. RestOK /\ rv \in Codes \cup {Void} /\ Top \in Frame
      /\ retStatus \in Codes /\ 0 \in Codes /\ 1 \in Codes /\ Top.st \in Codes
      /\ Bodies \subseteq Seq(Conds) /\ Lists \subseteq Seq(Conds)
  BY Counts, Frames DEF TypeOK, RestOK, Codes, Status, IInv, Frame
<1>1. CASE IfTest \/ WhileTest
  <2>1. PICK p \in Conditions, c \in Lists : Call(Goto(p), ListFrame(c))
    BY <1>1 DEF IfTest, WhileTest, Conditions
  <2>2. Top.at \in Inner
    BY <1>1 DEF IfTest, WhileTest, Running, Inner
  <2>3. /\ noErrexit' = noErrexit + 1 /\ RestOK' /\ ReturnHasFrame'
        /\ UNCHANGED <<fnDepth, srcDepth, inPoll, inExit>>
    BY <1>0, <1>1
       DEF IfTest, WhileTest, RestOK, unwind, traps, exits, ReturnHasFrame, IInv
  <2> QED
    BY <1>0, <2>1, <2>2, <2>3, CondEnter
<1>2. CASE IfTested \/ WhileTested
  <2>1. rv \in Codes /\ Top.at \in Conditions
    BY <1>0, <1>2 DEF IfTested, WhileTested, Running, Conditions
  <2>2. /\ noErrexit' = noErrexit - 1 /\ RestOK' /\ ReturnHasFrame'
        /\ UNCHANGED <<fnDepth, srcDepth, inPoll, inExit>>
    BY <1>0, <1>2
       DEF IfTested, WhileTested, RestOK, unwind, traps, exits, ReturnHasFrame, IInv
  <2>3. \/ \E s \in Codes : Return(s)
        \/ \E p \in Inner, c \in Seq(Conds) : Call(Goto(p), ListFrame(c))
        \/ \E p \in Inner, s \in Codes : Step([Goto(p) EXCEPT !.st = s])
    BY <1>0, <1>2, <2>1 DEF IfTested, WhileTested, Inner
  <2> QED
    BY <2>1, <2>2, <2>3, CondLeave
<1>3. CASE IfElse \/ IfRan \/ WhileRan \/ ForWord \/ ForRan \/ CaseArm \/ CaseRan
  <2>1. Top.at \in Inner
    BY <1>3 DEF IfElse, IfRan, WhileRan, ForWord, ForRan, LoopRan, CaseArm, CaseRan,
                Running, Inner
  <2>2. UNCHANGED counters /\ RestOK' /\ ReturnHasFrame'
    BY <1>0, <1>3, Untouched
       DEF IfElse, IfRan, WhileRan, ForWord, ForRan, LoopRan, CaseArm, CaseRan,
           RestOK, traps
  <2>3. \/ \E p \in Inner, s \in Codes : Step([Goto(p) EXCEPT !.st = s])
        \/ \E p \in Inner, c \in Seq(Conds) : Call(Goto(p), ListFrame(c))
        \/ \E s \in Codes : Return(s)
    <3>1. CASE IfElse \/ ForWord \/ CaseArm
      BY <1>0, <3>1 DEF IfElse, ForWord, CaseArm, Inner
    <3>2. CASE IfRan \/ CaseRan
      BY <1>0, <3>2 DEF IfRan, CaseRan
    <3>3. CASE WhileRan \/ ForRan
      BY <1>0, <3>3 DEF WhileRan, ForRan, LoopRan, Inner
    <3> QED
      BY <1>3, <3>1, <3>2, <3>3
  <2> QED
    BY <2>1, <2>2, <2>3, InnerMove
<1>4. CASE FnEnter
  <2>1. PICK c \in Bodies : Call(Goto("fn:body"), ListFrame(c))
    BY <1>4 DEF FnEnter
  <2>2. Goto("fn:body") \in Frame /\ Goto("fn:body").at = "fn:body"
        /\ ListFrame(c) \in Frame /\ ListFrame(c).at = "list:item"
    BY <1>0, Frames DEF IInv, Points
  <2>3. Top.at = "fn:enter"
    BY <1>4 DEF FnEnter, Running
  <2>4. UNCHANGED counters /\ RestOK' /\ ReturnHasFrame'
    BY <1>0, <1>4, Untouched DEF FnEnter, RestOK, traps
  <2>5. /\ Same(Top.at, Goto("fn:body").at) /\ Top.at \notin Base
        /\ Plain(ListFrame(c).at)
    BY <2>2, <2>3, InnerPlain
       DEF Same, In, Inner, Base, Exempt, InFn, InFile, InPoll, InExit
  <2> QED
    BY <2>1, <2>2, <2>4, <2>5, QuietCall
<1>5. CASE FnLeave
  <2>1. PICK s \in Codes : Return(s)
    BY <1>0, <1>5 DEF FnLeave
  <2>2. Top.at \in InFn /\ Top.at \notin Base
    BY <1>5 DEF FnLeave, Running, InFn, Base
  <2>3. /\ stack' \in Seq(Frame) /\ Based' /\ rv' = s
        /\ \A P : N(stack', P) = N(stack, P) - In(Top.at, P)
    BY <2>1, <2>2, MoveReturn DEF IInv
  <2>4. /\ N(stack', InFn) = N(stack, InFn) - 1
        /\ N(stack', Exempt) = N(stack, Exempt) /\ N(stack', InFile) = N(stack, InFile)
        /\ N(stack', InPoll) = N(stack, InPoll) /\ N(stack', InExit) = N(stack, InExit)
    BY <2>2, <2>3, OtherIn, NInt
  <2>5. /\ fnDepth' = fnDepth - 1 /\ RestOK' /\ ReturnHasFrame'
        /\ UNCHANGED <<noErrexit, srcDepth, inPoll, inExit>>
    BY <1>0, <1>5 DEF FnLeave, RestOK, traps, exits, ReturnHasFrame
  <2> QED
    BY <2>3, <2>4, <2>5, Counts, Rebuild
<1>6. CASE WaitInterrupted \/ ChildEnds
  <2>1. PICK f \in {Top, Goto("ext:done")} : CallPoll(f)
    BY <1>6 DEF WaitInterrupted, ChildEnds
  <2>2. Top.at = "ext:wait"
    BY <1>6 DEF WaitInterrupted, ChildEnds, Running
  <2>3. f \in Frame /\ f.at \in Inner /\ Top.at \in Inner
    BY <2>2, Frames DEF IInv, Points, Inner
  <2>4. /\ UNCHANGED <<noErrexit, fnDepth, srcDepth, inExit>>
        /\ RestOK' /\ ReturnHasFrame'
    <3>1. UNCHANGED <<unwind, abort, noErrexit, optE, last, srcDepth, pending,
                      trapAct, exits>>
      BY <1>6 DEF WaitInterrupted, ChildEnds
    <3>2. inPoll' \in BOOLEAN
      BY <1>0, <2>1 DEF CallPoll, RestOK
    <3> QED
      BY <1>0, <3>1, <3>2 DEF RestOK, unwind, exits, ReturnHasFrame, IInv
  <2> QED
    BY <2>1, <2>3, <2>4, InnerPlain, PollCalled
<1>7. CASE ExternalDone
  <2>1. PICK s \in Codes : Return(s)
    BY <1>7 DEF ExternalDone, Codes
  <2>2. Top.at \in Inner
    BY <1>7 DEF ExternalDone, Running, Inner
  <2>3. UNCHANGED counters /\ RestOK' /\ ReturnHasFrame'
    BY <1>0, <1>7, Untouched DEF ExternalDone, RestOK, traps
  <2> QED
    BY <2>1, <2>2, <2>3, InnerMove
<1>8. CASE FileLine
  <2>1. PICK c \in Lists : Call(Goto("file:ran"), ListFrame(c))
    BY <1>8 DEF FileLine
  <2>2. Goto("file:ran") \in Frame /\ Goto("file:ran").at = "file:ran"
        /\ ListFrame(c) \in Frame /\ ListFrame(c).at = "list:item"
    BY <1>0, Frames DEF IInv, Points
  <2>3. Top.at = "file:line"
    BY <1>8 DEF FileLine, Running
  <2>4. UNCHANGED counters /\ RestOK' /\ ReturnHasFrame'
    BY <1>0, <1>8, Untouched DEF FileLine, RestOK, traps
  <2>5. /\ Same(Top.at, Goto("file:ran").at) /\ Top.at \notin Base
        /\ Plain(ListFrame(c).at)
    BY <2>2, <2>3, InnerPlain
       DEF Same, In, Inner, Base, Exempt, InFn, InFile, InPoll, InExit
  <2> QED
    BY <2>1, <2>2, <2>4, <2>5, QuietCall
<1>9. CASE FileBadLine
  <2> DEFINE f == [Top EXCEPT !.st = 1]
  <2>1. f \in Frame /\ f.at = "file:line" /\ Top.at = "file:line"
    BY <1>0, <1>9 DEF FileBadLine, Running, Frame
  <2>2. stack' = Resume(f) /\ rv' = Void
    BY <1>9 DEF FileBadLine, Step
  <2>3. UNCHANGED counters /\ RestOK' /\ ReturnHasFrame'
    BY <1>0, <1>9, Untouched DEF FileBadLine, RestOK, traps
  <2> HIDE DEF f
  <2>4. Same(Top.at, f.at) /\ Top.at \notin Base
    BY <2>1 DEF Same, Base
  <2> QED
    BY <2>1, <2>2, <2>3, <2>4, QuietStep
<1>10. ASSUME FileEnds \/ FileRan, NEW s \in Codes, Return(s), srcDepth' = srcDepth - 1
       PROVE  IInv'
  <2>1. Top.at \in InFile /\ Top.at \notin Base
    BY <1>10 DEF FileEnds, FileRan, Running, InFile, Base
  <2>2. /\ stack' \in Seq(Frame) /\ Based' /\ rv' = s
        /\ \A P : N(stack', P) = N(stack, P) - In(Top.at, P)
    BY <1>10, <2>1, MoveReturn DEF IInv
  <2>3. /\ N(stack', InFile) = N(stack, InFile) - 1
        /\ N(stack', Exempt) = N(stack, Exempt) /\ N(stack', InFn) = N(stack, InFn)
        /\ N(stack', InPoll) = N(stack, InPoll) /\ N(stack', InExit) = N(stack, InExit)
    BY <2>1, <2>2, OtherIn, NInt
  <2>4. /\ RestOK' /\ ReturnHasFrame'
        /\ UNCHANGED <<noErrexit, fnDepth, inPoll, inExit>>
    <3>1. UNCHANGED <<unwind, noErrexit, optE, last, traps, exits>>
          /\ (abort' = abort \/ abort' = FALSE)
      <4>1. CASE FileEnds BY <4>1 DEF FileEnds
      <4>2. CASE FileRan BY <4>2 DEF FileRan
      <4> QED BY <1>10, <4>1, <4>2
    <3> QED
      BY <1>0, <3>1 DEF RestOK, unwind, traps, exits, ReturnHasFrame, IInv
  <2> QED
    BY <1>10, <2>2, <2>3, <2>4, Counts, Rebuild
<1>11. CASE FileEnds
  BY <1>0, <1>10, <1>11 DEF FileEnds
<1>12. CASE FileRan
  <2>1. rv \in Codes /\ Top.at = "file:ran"
    BY <1>0, <1>12 DEF FileRan, Running
  <2>2. CASE Return(rv) /\ srcDepth' = srcDepth - 1
    BY <1>10, <1>12, <2>1, <2>2
  <2>3. CASE Step([Goto("file:line") EXCEPT !.st = rv]) /\ UNCHANGED srcDepth
    <3> DEFINE f == [Goto("file:line") EXCEPT !.st = rv]
    <3>1. f \in Frame /\ f.at = "file:line"
      BY <2>1, Frames DEF IInv, Points
    <3>2. stack' = Resume(f) /\ rv' = Void
      BY <2>3 DEF Step
    <3> HIDE DEF f
    <3>3. Same(Top.at, f.at) /\ Top.at \notin Base
      BY <2>1, <3>1, OtherIn DEF Same, Base, InFile
    <3>4. UNCHANGED counters /\ RestOK' /\ ReturnHasFrame'
      BY <1>0, <1>12, <2>3, Untouched DEF FileRan, RestOK, traps
    <3> QED
      BY <3>1, <3>2, <3>3, <3>4, QuietStep
  <2> QED
    BY <1>12, <2>2, <2>3 DEF FileRan
<1> QED
  BY <1>1, <1>2, <1>3, <1>4, <1>5, <1>6, <1>7, <1>8, <1>9, <1>11, <1>12 DEF CompoundNext


-----------------------------------------------------------------------------
(* Traps and the end of the process *)

\* A signal that arrives changes pending only.
LEMMA DeliverInv ==
    ASSUME IInv, NEW s \in Sigs, Deliver(s)
    PROVE  IInv'
<1>1. RestOK
  BY Counts
<1>2. pending' \subseteq Sigs
  BY <1>1 DEF Deliver, RestOK
<1>3. UNCHANGED <<stack, rv, counters>> /\ RestOK' /\ ReturnHasFrame'
  BY <1>1, <1>2 DEF Deliver, RestOK, unwind, exits, counters, ReturnHasFrame, IInv
<1>4. stack' \in Seq(Frame) /\ Based' /\ rv' \in Codes \cup {Void}
  BY <1>3 DEF IInv, TypeOK, Based
<1> QED
  BY <1>3, <1>4, Counts, Rebuild DEF counters

\* The steps of petrush_traps_poll.
LEMMA PollInv ==
    ASSUME IInv, (\E s \in Sigs : PollTake(s)) \/ PollRan \/ PollEnds
    PROVE  IInv'
<1>0. RestOK /\ rv \in Codes \cup {Void} /\ Top \in Frame /\ Top.st \in Codes
      /\ Lists \subseteq Seq(Conds)
  BY Counts, Frames DEF TypeOK, IInv, Frame
<1>1. ASSUME NEW s \in Sigs, PollTake(s) PROVE IInv'
  <2>1. Top.at = "poll:scan" /\ Top.at \notin Base
    BY <1>1 DEF PollTake, Running, Base
  <2>2. s \in 0..NSig /\ 128 + s \in Codes
    BY EvalAssumption DEF Sigs, Codes
  <2>3. UNCHANGED <<unwind, abort, optE, srcDepth, inPoll, trapAct, exits>>
        /\ pending' = pending \ {s}
    BY <1>1 DEF PollTake
  <2>4. CASE /\ \E c \in Lists :
                  Call([Goto("poll:ran") EXCEPT !.st = last, !.cur = s],
                       ListFrame(c))
             /\ last' = 128 + s /\ noErrexit' = noErrexit + 1
    <3> DEFINE f == [Goto("poll:ran") EXCEPT !.st = last, !.cur = s]
    <3>1. PICK c \in Lists : Call(f, ListFrame(c))
      BY <2>4
    <3> DEFINE g == ListFrame(c)
    <3>2. g \in Frame /\ g.at = "list:item"
      BY <1>0, Frames DEF IInv
    <3>3. f \in Frame /\ f.at = "poll:ran"
      <4>1. Goto("poll:ran") \in Frame /\ Goto("poll:ran").at = "poll:ran"
        BY Frames DEF IInv, Points
      <4>2. last \in Codes
        BY <1>0 DEF RestOK
      <4> QED
        BY <2>2, <4>1, <4>2 DEF Frame
    <3> HIDE DEF f, g
    <3>4. Call(f, g)
      BY <3>1 DEF g
    <3>5. /\ stack' \in Seq(Frame) /\ Based' /\ rv' = Void
          /\ \A P : N(stack', P) = N(stack, P) - In(Top.at, P) + In(f.at, P)
                                     + In(g.at, P)
      BY <2>1, <3>2, <3>3, <3>4, MoveCall DEF IInv
    <3>6. g.at \in Inner
      BY <3>2 DEF Inner
    <3>7. /\ N(stack', Exempt) = N(stack, Exempt) + 1
          /\ N(stack', InFn) = N(stack, InFn) /\ N(stack', InFile) = N(stack, InFile)
          /\ N(stack', InPoll) = N(stack, InPoll)
          /\ N(stack', InExit) = N(stack, InExit)
      BY <2>1, <3>3, <3>5, <3>6, InnerIn, OtherIn, NInt
    <3>8. RestOK' /\ ReturnHasFrame' /\ UNCHANGED <<fnDepth, srcDepth, inPoll, inExit>>
      BY <1>0, <2>2, <2>3, <2>4 DEF RestOK, unwind, exits, ReturnHasFrame, IInv
    <3> QED
      BY <2>4, <3>5, <3>7, <3>8, Counts, Rebuild
  <2>5. CASE Step([Top EXCEPT !.cur = s]) /\ UNCHANGED <<last, noErrexit>>
    <3> DEFINE f == [Top EXCEPT !.cur = s]
    <3>1. f \in Frame /\ f.at = "poll:scan"
      BY <1>0, <2>1, <2>2 DEF Frame
    <3>2. stack' = Resume(f) /\ rv' = Void
      BY <2>5 DEF Step
    <3> HIDE DEF f
    <3>3. UNCHANGED counters /\ RestOK' /\ ReturnHasFrame'
      BY <1>0, <2>3, <2>5
         DEF RestOK, unwind, exits, ReturnHasFrame, IInv, counters
    <3> QED
      BY <2>1, <3>1, <3>2, <3>3, QuietStep DEF Same
  <2> QED
    BY <1>1, <2>4, <2>5 DEF PollTake
<1>2. CASE PollRan
  <2> DEFINE f == Goto("poll:scan")
  <2>1. f \in Frame /\ f.at = "poll:scan"
    BY Frames DEF IInv, Points
  <2>2. stack' = Resume(f) /\ rv' = Void
    BY <1>2 DEF PollRan, Step
  <2> HIDE DEF f
  <2>3. Top.at = "poll:ran" /\ Top.at \notin Base
    BY <1>2 DEF PollRan, Running, Base
  <2>4. /\ stack' \in Seq(Frame) /\ Based'
        /\ \A P : N(stack', P) = N(stack, P) - In(Top.at, P) + In(f.at, P)
    BY <2>1, <2>2, <2>3, MoveStep DEF IInv
  <2>5. /\ N(stack', Exempt) = N(stack, Exempt) - 1
        /\ N(stack', InFn) = N(stack, InFn) /\ N(stack', InFile) = N(stack, InFile)
        /\ N(stack', InPoll) = N(stack, InPoll) /\ N(stack', InExit) = N(stack, InExit)
    BY <2>1, <2>3, <2>4, OtherIn, NInt
  <2>6. /\ noErrexit' = noErrexit - 1 /\ RestOK' /\ ReturnHasFrame'
        /\ UNCHANGED <<fnDepth, srcDepth, inPoll, inExit>>
    BY <1>0, <1>2 DEF PollRan, RestOK, unwind, traps, exits, ReturnHasFrame, IInv
  <2> QED
    BY <2>2, <2>4, <2>5, <2>6, Counts, Rebuild
<1>3. CASE PollEnds
  <2>1. Return(Void) /\ Top.at = "poll:scan" /\ Top.at \notin Base
    BY <1>3 DEF PollEnds, Running, Base
  <2>2. /\ stack' \in Seq(Frame) /\ Based' /\ rv' = Void
        /\ \A P : N(stack', P) = N(stack, P) - In(Top.at, P)
    BY <2>1, MoveReturn DEF IInv
  <2>3. /\ N(stack', InPoll) = N(stack, InPoll) - 1
        /\ N(stack', Exempt) = N(stack, Exempt) /\ N(stack', InFn) = N(stack, InFn)
        /\ N(stack', InFile) = N(stack, InFile) /\ N(stack', InExit) = N(stack, InExit)
    BY <2>1, <2>2, OtherIn, NInt
  <2>4. /\ inPoll' = FALSE /\ RestOK' /\ ReturnHasFrame'
        /\ UNCHANGED <<noErrexit, fnDepth, srcDepth, inExit>>
    BY <1>0, <1>3 DEF PollEnds, RestOK, unwind, exits, ReturnHasFrame, IInv
  <2>5. Flag(inPoll') = N(stack', InPoll)
    <3>1. N(stack', InPoll) \in Nat
      BY <2>2, WhereFinite
    <3> QED
      BY <2>3, <2>4, <3>1, Counts, NInt DEF Flag
  <2> QED
    BY <2>2, <2>3, <2>4, <2>5, Counts, Rebuild
<1> QED
  BY <1>1, <1>2, <1>3

\* The steps of petrush_run_exit_trap and of the end of the process.
LEMMA ExitInv ==
    ASSUME IInv, ExitPolls \/ ExitNoAction \/ ExitAction \/ ExitRan \/ ProcessExits
    PROVE  IInv'
<1>0. RestOK /\ rv \in Codes \cup {Void} /\ Top \in Frame /\ Top.st \in Codes
      /\ Lists \subseteq Seq(Conds)
  BY Counts, Frames DEF TypeOK, IInv, Frame
<1>1. CASE ExitPolls
  <2>1. CallPoll(Goto("exit:guard")) /\ Top.at = "exit:poll"
    BY <1>1 DEF ExitPolls, Running
  <2>2. Goto("exit:guard") \in Frame /\ Goto("exit:guard").at = "exit:guard"
    BY Frames DEF IInv, Points
  <2>3. Plain(Goto("exit:guard").at) /\ Plain(Top.at) /\ Top.at \notin Base
    BY <2>1, <2>2, InnerPlain DEF Inner
  <2>4. /\ UNCHANGED <<noErrexit, fnDepth, srcDepth, inExit>>
        /\ RestOK' /\ ReturnHasFrame'
    <3>1. UNCHANGED <<unwind, abort, noErrexit, optE, last, srcDepth, pending,
                      trapAct, exits>>
      BY <1>1 DEF ExitPolls
    <3>2. inPoll' \in BOOLEAN
      BY <1>0, <2>1 DEF CallPoll, RestOK
    <3> QED
      BY <1>0, <3>1, <3>2 DEF RestOK, unwind, exits, ReturnHasFrame, IInv
  <2> QED
    BY <2>1, <2>2, <2>3, <2>4, PollCalled
<1>2. CASE ExitNoAction
  <2>1. Step(Goto("exit:over")) /\ Top.at \in Inner /\ "exit:over" \in Inner
    BY <1>2 DEF ExitNoAction, Running, Inner
  <2>2. UNCHANGED counters /\ RestOK' /\ ReturnHasFrame'
    BY <1>0, <1>2, Untouched DEF ExitNoAction, RestOK, traps
  <2> QED
    BY <2>1, <2>2, InnerMove
<1>3. CASE ExitAction
  <2> DEFINE f == Goto("exit:ran")
  <2>1. PICK c \in Lists : Call(f, ListFrame(c))
    BY <1>3 DEF ExitAction
  <2> DEFINE g == ListFrame(c)
  <2>2. f \in Frame /\ f.at = "exit:ran" /\ g \in Frame /\ g.at = "list:item"
    BY <1>0, Frames DEF IInv, Points
  <2> HIDE DEF f, g
  <2>3. Call(f, g) /\ Top.at \in Inner /\ g.at \in Inner
    BY <1>3, <2>1, <2>2 DEF ExitAction, Running, Inner, g
  <2>4. /\ stack' \in Seq(Frame) /\ Based' /\ rv' = Void
        /\ \A P : N(stack', P) = N(stack, P) - In(Top.at, P) + In(f.at, P)
                                   + In(g.at, P)
    BY <2>2, <2>3, InnerPlain, MoveCall DEF IInv
  <2>5. /\ N(stack', Exempt) = N(stack, Exempt) + 1
        /\ N(stack', InExit) = N(stack, InExit) + 1
        /\ N(stack', InFn) = N(stack, InFn) /\ N(stack', InFile) = N(stack, InFile)
        /\ N(stack', InPoll) = N(stack, InPoll)
    BY <2>2, <2>3, <2>4, InnerIn, OtherIn, NInt
  <2>6. /\ noErrexit' = noErrexit + 1 /\ ~inExit /\ inExit' = TRUE
        /\ RestOK' /\ ReturnHasFrame' /\ UNCHANGED <<fnDepth, srcDepth, inPoll>>
    BY <1>0, <1>3 DEF ExitAction, RestOK, unwind, traps, ReturnHasFrame, IInv
  <2> QED
    BY <2>4, <2>5, <2>6, Counts, Rebuild DEF Flag
<1>4. CASE ExitRan
  <2> DEFINE f == Goto("exit:over")
  <2>1. f \in Frame /\ f.at = "exit:over" /\ f.at \in Inner
    BY Frames DEF IInv, Points, Inner
  <2>2. stack' = Resume(f) /\ rv' = Void
    BY <1>4 DEF ExitRan, Step
  <2> HIDE DEF f
  <2>3. Top.at = "exit:ran" /\ Top.at \notin Base
    BY <1>4 DEF ExitRan, Running, Base
  <2>4. /\ stack' \in Seq(Frame) /\ Based'
        /\ \A P : N(stack', P) = N(stack, P) - In(Top.at, P) + In(f.at, P)
    BY <2>1, <2>2, <2>3, MoveStep DEF IInv
  <2>5. /\ N(stack', Exempt) = N(stack, Exempt) - 1
        /\ N(stack', InExit) = N(stack, InExit) - 1
        /\ N(stack', InFn) = N(stack, InFn) /\ N(stack', InFile) = N(stack, InFile)
        /\ N(stack', InPoll) = N(stack, InPoll)
    BY <2>1, <2>3, <2>4, InnerIn, OtherIn, NInt
  <2>6. /\ noErrexit' = noErrexit - 1 /\ inExit' = FALSE /\ RestOK'
        /\ ReturnHasFrame' /\ UNCHANGED <<fnDepth, srcDepth, inPoll>>
    BY <1>0, <1>4 DEF ExitRan, RestOK, unwind, traps, ReturnHasFrame, IInv
  <2>7. Flag(inExit') = N(stack', InExit)
    <3>1. N(stack', InExit) \in Nat
      BY <2>4, WhereFinite
    <3> QED
      BY <2>5, <2>6, <3>1, Counts, NInt DEF Flag
  <2> QED
    BY <2>2, <2>4, <2>5, <2>6, <2>7, Counts, Rebuild
<1>5. CASE ProcessExits
  <2>1. UNCHANGED <<stack, rv, counters>> /\ RestOK' /\ ReturnHasFrame'
    BY <1>0, <1>5
       DEF ProcessExits, RestOK, traps, unwind, counters, ReturnHasFrame, IInv
  <2>2. stack' \in Seq(Frame) /\ Based' /\ rv' \in Codes \cup {Void}
    BY <2>1 DEF IInv, TypeOK, Based
  <2> QED
    BY <2>1, <2>2, Counts, Rebuild DEF counters
<1> QED
  BY <1>1, <1>2, <1>3, <1>4, <1>5

-----------------------------------------------------------------------------
(* The main programs *)

\* The steps of the two main programs.
LEMMA MainInv ==
    ASSUME IInv, MainNext
    PROVE  IInv'
<1>0. RestOK /\ rv \in Codes \cup {Void} /\ Top \in Frame /\ Base \subseteq Points
      /\ Lists \subseteq Seq(Conds)
      /\ \A p \in Base : Goto(p) \in Frame /\ Goto(p).at = p
  BY Counts, Frames DEF TypeOK, IInv, Base, Points
<1>s. \A p, q \in Base : Same(p, q)
  BY OtherIn DEF Same
<1>1. CASE ScriptRan
  <2> DEFINE f == Goto("main:exit")
             g == [At("exit:poll") EXCEPT !.st = rv]
  <2>1. Call(f, g) /\ rv \in Codes /\ Top.at \in Base
    BY <1>0, <1>1 DEF ScriptRan, Running, Base
  <2>2. f \in Frame /\ f.at \in Base
    BY <1>0 DEF Base
  <2>3. g \in Frame /\ g.at = "exit:poll"
    BY <2>1, Frames DEF IInv, Points
  <2> HIDE DEF f, g
  <2>4. UNCHANGED counters /\ RestOK' /\ ReturnHasFrame'
    BY <1>0, <1>1, Untouched DEF ScriptRan, RestOK, traps
  <2>5. Plain(g.at)
    BY <2>3, InnerPlain DEF Inner
  <2> QED
    BY <1>s, <2>1, <2>2, <2>3, <2>4, <2>5, QuietCall
<1>2. ASSUME Step(Goto("repl:prompt")), Top.at \in Base, UNCHANGED counters, RestOK',
             ReturnHasFrame'
      PROVE IInv'
  <2>1. Goto("repl:prompt") \in Frame /\ Goto("repl:prompt").at \in Base
    BY <1>0 DEF Base
  <2> QED
    BY <1>2, <1>s, <2>1, QuietStep DEF Step
<1>3. CASE ReplRan
  <2>1. UNCHANGED counters /\ RestOK' /\ ReturnHasFrame'
    BY <1>0, <1>3, Untouched DEF ReplRan, RestOK, traps
  <2> QED
    BY <1>2, <1>3, <2>1 DEF ReplRan, Running, Base
<1>4. CASE load_rc_file
  <2>1. Top.at \in Base
    BY <1>4 DEF load_rc_file, Running, Base
  <2>2. /\ RestOK' /\ ReturnHasFrame'
        /\ UNCHANGED <<noErrexit, fnDepth, inPoll, inExit>>
    BY <1>0, <1>4
       DEF load_rc_file, RestOK, unwind, traps, exits, ReturnHasFrame, IInv
  <2>3. CASE Step(Goto("repl:prompt")) /\ UNCHANGED <<abort, srcDepth>>
    BY <1>2, <2>1, <2>2, <2>3 DEF counters
  <2>4. CASE Call(Goto("repl:rcran"), At("file:line")) /\ srcDepth' = srcDepth + 1
    <3> DEFINE f == Goto("repl:rcran")
               g == At("file:line")
    <3>1. f \in Frame /\ f.at \in Base /\ g \in Frame /\ g.at \in InFile
      BY <1>0, Frames DEF IInv, Points, Base, InFile
    <3> HIDE DEF f, g
    <3>2. Call(f, g)
      BY <2>4 DEF f, g
    <3>3. /\ stack' \in Seq(Frame) /\ Based' /\ rv' = Void
          /\ \A P : N(stack', P) = N(stack, P) - In(Top.at, P) + In(f.at, P)
                                     + In(g.at, P)
      BY <3>1, <3>2, MoveCall DEF IInv
    <3>4. /\ N(stack', InFile) = N(stack, InFile) + 1
          /\ N(stack', Exempt) = N(stack, Exempt) /\ N(stack', InFn) = N(stack, InFn)
          /\ N(stack', InPoll) = N(stack, InPoll)
          /\ N(stack', InExit) = N(stack, InExit)
      BY <2>1, <3>1, <3>3, OtherIn, NInt
    <3> QED
      BY <2>2, <2>4, <3>3, <3>4, Counts, Rebuild
  <2> QED
    BY <1>4, <2>3, <2>4 DEF load_rc_file
<1>5. CASE ReplLine
  <2> DEFINE f == Goto("repl:ran")
  <2>1. PICK c \in Lists : Call(f, ListFrame(c))
    BY <1>5 DEF ReplLine
  <2> DEFINE g == ListFrame(c)
  <2>2. f \in Frame /\ f.at \in Base /\ g \in Frame /\ g.at = "list:item"
    BY <1>0, Frames DEF IInv, Base
  <2> HIDE DEF f, g
  <2>3. Call(f, g) /\ Top.at \in Base
    BY <1>5, <2>1 DEF ReplLine, Running, Base, g
  <2>4. UNCHANGED counters /\ RestOK' /\ ReturnHasFrame'
    BY <1>0, <1>5, Untouched DEF ReplLine, RestOK, traps
  <2>5. Plain(g.at)
    BY <2>2, InnerPlain DEF Inner
  <2> QED
    BY <1>s, <2>2, <2>3, <2>4, <2>5, QuietCall
<1>6. CASE ReplLeaves
  <2>1. UNCHANGED <<stack, rv, counters>> /\ RestOK' /\ ReturnHasFrame'
    BY <1>0, <1>6
       DEF ReplLeaves, RestOK, traps, unwind, counters, ReturnHasFrame, IInv
  <2>2. stack' \in Seq(Frame) /\ Based' /\ rv' \in Codes \cup {Void}
    BY <2>1 DEF IInv, TypeOK, Based
  <2> QED
    BY <2>1, <2>2, Counts, Rebuild DEF counters
<1> QED
  BY <1>1, <1>3, <1>4, <1>5, <1>6 DEF MainNext

-----------------------------------------------------------------------------
(* The theorems *)

\* A stuttering step keeps the invariant.
LEMMA StutterInv == IInv /\ UNCHANGED vars => IInv'
<1> SUFFICES ASSUME IInv, UNCHANGED vars PROVE IInv'
  OBVIOUS
<1>1. UNCHANGED <<stack, rv, counters>> /\ RestOK' /\ ReturnHasFrame'
  BY Counts DEF vars, unwind, traps, exits, counters, RestOK, ReturnHasFrame, IInv
<1>2. stack' \in Seq(Frame) /\ Based' /\ rv' \in Codes \cup {Void}
  BY <1>1 DEF IInv, TypeOK, Based
<1> QED
  BY <1>1, <1>2, Counts, Rebuild DEF counters

\* The invariant holds of every script, of any depth, with any signals.
THEOREM Invariance == Spec => []IInv
<1>1. Init => IInv
  BY CountsInit
<1>2. IInv /\ [Next]_vars => IInv'
  <2> SUFFICES ASSUME IInv, [Next]_vars PROVE IInv'
    OBVIOUS
  <2>1. CASE ShellNext
    BY <2>1, ListInv, ItemInv, CompoundInv, PollInv, ExitInv, MainInv
       DEF ShellNext, TrapNext
  <2>2. CASE \E s \in Sigs : Deliver(s)
    BY <2>2, DeliverInv
  <2>3. CASE UNCHANGED vars \/ Gone
    BY <2>3, StutterInv DEF Gone
  <2> QED
    BY <2>1, <2>2, <2>3 DEF Next
<1> QED
  BY <1>1, <1>2, PTL DEF Spec

\* Every variable keeps its type.
THEOREM TypeCorrect == Spec => []TypeOK
BY Invariance, PTL DEF IInv

\* g_no_errexit, g_fn_depth, g_source_depth, g_in_trap_poll and g_in_exit agree
\* with the calls in progress, whichever way the calls before them ended.
THEOREM CountersBalanced == Spec => []Balanced
BY Invariance, PTL DEF IInv

\* A return never unwinds past the outermost function call.
THEOREM ReturnContained == Spec => []ReturnHasFrame
BY Invariance, PTL DEF IInv


\* set -e acts only where no condition and no trap action is in progress: the
\* step that raises the abort found g_no_errexit at 0, and the counter is exact.
THEOREM ErrexitScoped == Spec => ErrexitExempt
<1>1. IInv /\ [Next]_vars => [Errexits => Where(stack, Exempt) = {}]_vars
  <2> SUFFICES ASSUME IInv, Next, Errexits PROVE Where(stack, Exempt) = {}
    BY DEF vars
  <2>0. Top.at = "list:after" /\ alive /\ abort' # abort /\ ~abort
    BY Counts DEF Errexits, ItemDone, Running, RestOK
  <2>1. CASE ItemAborts
    <3>1. noErrexit = 0
      BY <2>0, <2>1 DEF ItemAborts, maybe_errexit
    <3>2. IsFiniteSet(Where(stack, Exempt)) /\ Cardinality(Where(stack, Exempt)) = 0
      BY <3>1, WhereFinite DEF IInv, TypeOK, Balanced
    <3> QED
      BY <3>2, FS_EmptySet
  <2>2. /\ ~RunAborting /\ ~builtin_trap /\ ~RunCase /\ ~petrush_source_file
        /\ ~FileRan /\ ~load_rc_file
    BY <2>0 DEF RunAborting, builtin_trap, RunCase, petrush_source_file, FileRan,
                load_rc_file, Item, Running
  <2>3. ListNext => ItemAborts
    BY <2>0 DEF ListNext, SkipItem, EndOfList, ItemReturns, ItemContinues
  <2>4. ~ItemNext
    BY <2>0, <2>2 DEF ItemNext, RunStatus, RunSetErrexit, builtin_return,
         builtin_exit, ExitBadOperand, RunExternal, RunCompound, call_fn, SourceRefused
  <2>5. ~CompoundNext
    BY <2>0, <2>2 DEF CompoundNext, IfTest, IfElse, IfTested, IfRan, WhileTest,
         WhileTested, WhileRan, ForWord, ForRan, LoopRan, CaseArm, CaseRan, FnEnter,
         FnLeave, WaitInterrupted, ChildEnds, ExternalDone, FileLine, FileBadLine,
         FileEnds
  <2>6. ~TrapNext
    BY <2>0 DEF TrapNext, PollTake, PollRan, PollEnds, ExitPolls, ExitNoAction,
         ExitAction, ExitRan, ProcessExits
  <2>7. ~MainNext
    BY <2>0, <2>2 DEF MainNext, ScriptRan, ReplLine, ReplRan, ReplLeaves
  <2>8. ~ (\E s \in Sigs : Deliver(s)) /\ ~Gone
    BY <2>0 DEF Deliver, Gone, vars
  <2> QED
    BY <2>1, <2>3, <2>4, <2>5, <2>6, <2>7, <2>8 DEF Next, ShellNext
<1> QED
  BY <1>1, Invariance, PTL DEF ErrexitExempt, Spec

=============================================================================
