---------------------------- MODULE Scopes_proofs ----------------------------
(***************************************************************************)
(* Proofs about Scopes, for any names, values and lists of parameters, any *)
(* size of the undo log and any depth of calls: types, the order of the    *)
(* undo log, and that every command means what it does in dynamic scoping, *)
(* from which the refinement of DynScope follows.                          *)
(*                                                                         *)
(* The log is read through Variable, which looks for the oldest entry of a *)
(* deeper call; the lemmas say what pushing, popping and assigning do to   *)
(* that entry, for any log and environment.                                *)
(***************************************************************************)
EXTENDS Scopes, FiniteSetTheorems, WellFoundedInduction, TLAPS

\* The natural numbers are well-ordered.
LEMMA Least ==
    ASSUME NEW T \in SUBSET Nat, T # {}
    PROVE  \E x \in T : \A y \in T : x <= y
<1> DEFINE R == {ss \in Nat \X Nat : ss[1] < ss[2]}
<1>1. IsWellFoundedOn(R, Nat)
  BY NatLessThanWellFounded DEF OpToRel
<1>2. \E x \in T : \A y \in T : <<y, x>> \notin R
  <2> HIDE DEF R
  <2> QED
    BY <1>1, WFMin
<1>3. PICK x \in T : \A y \in T : <<y, x>> \notin R
  BY <1>2
<1>4. ASSUME NEW y \in T PROVE x <= y
  <2>1. ~ (<<y, x>> \in Nat \X Nat /\ y < x)
    BY <1>3
  <2> QED
    BY <2>1
<1> QED
  BY <1>3, <1>4

-----------------------------------------------------------------------------
(* Reading a variable of a scope from the log *)

Deeper(L, n, d) == \E i \in DOMAIN L : L[i].name = n /\ L[i].depth > d

LEMMA DepthNat ==
    ASSUME NEW L \in Seq(Entry), NEW i \in DOMAIN L
    PROVE  L[i].depth \in Nat
<1>1. L[i] \in Entry
  OBVIOUS
<1> QED
  BY <1>1 DEF Entry

\* A name that deeper calls have declared is covered by their oldest entry.
LEMMA CoverExists ==
    ASSUME NEW L \in Seq(Entry), NEW n, NEW d \in Nat, Deeper(L, n, d)
    PROVE  \E i \in DOMAIN L : Covers(L, i, n, d)
<1> DEFINE T == {i \in DOMAIN L : L[i].name = n /\ L[i].depth > d}
<1>1. T \in SUBSET Nat /\ T # {}
  BY DEF Deeper
<1>2. PICK i \in T : \A j \in T : i <= j
  BY <1>1, Least
<1>3. \A j \in DOMAIN L : L[j].depth \in Nat
  BY DepthNat
<1>4. ASSUME NEW j \in 1..(i - 1), L[j].name = n PROVE L[j].depth <= d
  <2>1. i \in 1..Len(L) /\ j \in 1..Len(L) /\ j < i
    OBVIOUS
  <2>2. j \notin T
    BY <1>2, <2>1
  <2> QED
    BY <1>3, <1>4, <2>1, <2>2
<1> QED
  BY <1>4 DEF Covers

LEMMA CoverUnique ==
    ASSUME NEW L \in Seq(Entry), NEW n, NEW d \in Nat,
           NEW i, NEW j, Covers(L, i, n, d), Covers(L, j, n, d)
    PROVE  i = j
<1>1. i \in 1..Len(L) /\ j \in 1..Len(L)
  BY DEF Covers
<1>2. L[i].depth \in Nat /\ L[j].depth \in Nat
  BY <1>1, DepthNat
<1>3. ~ (i < j) /\ ~ (j < i)
  BY <1>1, <1>2 DEF Covers
<1> QED
  BY <1>1, <1>3

LEMMA VariableCovered ==
    ASSUME NEW L \in Seq(Entry), NEW e, NEW n, NEW d \in Nat,
           NEW i, Covers(L, i, n, d)
    PROVE  Variable(L, e, n, d) = L[i].old /\ Deeper(L, n, d)
<1> DEFINE c == CHOOSE k \in DOMAIN L : Covers(L, k, n, d)
<1>1. i \in DOMAIN L
  BY DEF Covers
<1>2. Covers(L, c, n, d)
  BY <1>1
<1>3. c = i
  BY <1>2, CoverUnique
<1> QED
  BY <1>1, <1>3 DEF Variable, Deeper, Covers

LEMMA VariableBare ==
    ASSUME NEW L, NEW e, NEW n, NEW d, ~ Deeper(L, n, d)
    PROVE  Variable(L, e, n, d) = e[n]
BY DEF Variable, Deeper, Covers

-----------------------------------------------------------------------------
(* What assigning, pushing and popping do to the variables of a scope *)

Ordered(L, D) ==
    /\ \A i \in DOMAIN L : L[i].depth \in 1..D
    /\ \A i, j \in DOMAIN L : i < j => L[i].depth <= L[j].depth

\* The environment e2 is e with v written to m; the log L2 is L with one entry
\* more, or without its newest.
Written(e2, e, m, v) == \A k \in Names : e2[k] = IF k = m THEN v ELSE e[k]

Longer(L2, L, D, m, old) ==
    /\ L2 \in Seq(Entry) /\ Len(L2) = Len(L) + 1
    /\ \A i \in 1..Len(L) : L2[i] = L[i]
    /\ L2[Len(L) + 1] = [depth |-> D, name |-> m, old |-> old]

Shorter(L2, L) ==
    /\ L2 \in Seq(Entry) /\ Len(L2) = Len(L) - 1
    /\ \A i \in 1..(Len(L) - 1) : L2[i] = L[i]

LEMMA VariableAssigned ==
    ASSUME NEW L \in Seq(Entry), NEW e, NEW e2, NEW m \in Names, NEW v,
           Written(e2, e, m, v), NEW n \in Names, NEW d \in Nat
    PROVE  Variable(L, e2, n, d)
             = IF n = m /\ ~ Deeper(L, n, d) THEN v ELSE Variable(L, e, n, d)
<1>1. CASE Deeper(L, n, d)
  <2>1. PICK i \in DOMAIN L : Covers(L, i, n, d)
    BY <1>1, CoverExists
  <2> QED
    BY <1>1, <2>1, VariableCovered
<1>2. CASE ~ Deeper(L, n, d)
  <2>1. e2[n] = IF n = m THEN v ELSE e[n]
    BY DEF Written
  <2>2. Variable(L, e2, n, d) = e2[n] /\ Variable(L, e, n, d) = e[n]
    BY <1>2, VariableBare
  <2> QED
    BY <1>2, <2>1, <2>2
<1> QED
  BY <1>1, <1>2

LEMMA VariablePushed ==
    ASSUME NEW L \in Seq(Entry), NEW L2, NEW e, NEW e2, NEW m \in Names, NEW v,
           NEW D \in Nat, Ordered(L, D),
           Longer(L2, L, D, m, e[m]), Written(e2, e, m, v),
           NEW n \in Names, NEW d \in 0..D
    PROVE  /\ Variable(L2, e2, n, d)
                = IF n = m /\ d = D THEN v ELSE Variable(L, e, n, d)
           /\ Declared(L2, n, d) <=> Declared(L, n, d) \/ (n = m /\ d = D)
<1>1. e2[n] = IF n = m THEN v ELSE e[n]
  BY DEF Written
<1>2. /\ L2 \in Seq(Entry) /\ DOMAIN L2 = 1..(Len(L) + 1) /\ DOMAIN L = 1..Len(L)
      /\ L2[Len(L) + 1].depth = D /\ L2[Len(L) + 1].name = m
      /\ L2[Len(L) + 1].old = e[m] /\ Len(L) + 1 \in DOMAIN L2
      /\ \A i \in 1..Len(L) : L2[i] = L[i]
  BY DEF Longer
<1>3. Declared(L2, n, d) <=> Declared(L, n, d) \/ (n = m /\ d = D)
  BY <1>2 DEF Declared
<1>4. Variable(L2, e2, n, d)
        = IF n = m /\ d = D THEN v ELSE Variable(L, e, n, d)
  <2>1. CASE Deeper(L, n, d)
    <3>1. PICK i \in DOMAIN L : Covers(L, i, n, d)
      BY <2>1, CoverExists
    <3>2. i \in 1..Len(L) /\ L[i].depth \in 1..D /\ L[i].depth > d
      BY <1>2, <3>1 DEF Covers, Ordered
    <3>3. \A j \in 1..(i - 1) : L2[j] = L[j]
      BY <1>2, <3>2
    <3>4. Covers(L2, i, n, d) /\ L2[i] = L[i]
      BY <1>2, <3>1, <3>2, <3>3 DEF Covers
    <3>5. d # D
      BY <3>2
    <3> QED
      BY <1>2, <3>1, <3>4, <3>5, VariableCovered
  <2>2. CASE ~ Deeper(L, n, d) /\ n = m /\ d < D
    <3>1. Covers(L2, Len(L) + 1, n, d)
      <4>1. \A j \in 1..Len(L) : L[j].name = n => L[j].depth <= d
        BY <1>2, <2>2 DEF Deeper, Ordered
      <4> QED
        BY <1>2, <2>2, <4>1 DEF Covers
    <3>2. Variable(L2, e2, n, d) = e[m]
      BY <1>2, <3>1, VariableCovered
    <3>3. Variable(L, e, n, d) = e[n]
      BY <2>2, VariableBare
    <3> QED
      BY <2>2, <3>2, <3>3
  <2>3. CASE ~ Deeper(L, n, d) /\ (n # m \/ d = D)
    <3>1. ~ Deeper(L2, n, d)
      BY <1>2, <2>3 DEF Deeper
    <3>2. Variable(L2, e2, n, d) = e2[n] /\ Variable(L, e, n, d) = e[n]
      BY <2>3, <3>1, VariableBare
    <3> QED
      BY <1>1, <2>3, <3>2
  <2> QED
    BY <2>1, <2>2, <2>3
<1> QED
  BY <1>3, <1>4

LEMMA VariablePopped ==
    ASSUME NEW L \in Seq(Entry), L # <<>>, NEW e,
           NEW D \in Nat, Ordered(L, D), L[Len(L)].depth = D,
           NEW L2, Shorter(L2, L),
           NEW e2, Written(e2, e, L[Len(L)].name, L[Len(L)].old),
           NEW n \in Names, NEW d \in Nat, d < D
    PROVE  /\ Variable(L2, e2, n, d) = Variable(L, e, n, d)
           /\ Declared(L2, n, d) <=> Declared(L, n, d)
<1> DEFINE last == L[Len(L)]
<1>1. /\ L2 \in Seq(Entry) /\ DOMAIN L2 = 1..(Len(L) - 1) /\ DOMAIN L = 1..Len(L)
      /\ Len(L) \in DOMAIN L /\ Len(L) \in Nat \ {0}
      /\ \A i \in 1..(Len(L) - 1) : L2[i] = L[i]
  BY DEF Shorter
<1>2. e2[n] = IF n = last.name THEN last.old ELSE e[n]
  BY DEF Written
<1>3. Declared(L2, n, d) <=> Declared(L, n, d)
  <2>1. ASSUME Declared(L, n, d) PROVE Declared(L2, n, d)
    <3>1. PICK i \in 1..Len(L) : L[i].depth = d /\ L[i].name = n
      BY <1>1, <2>1 DEF Declared
    <3>2. i # Len(L)
      BY <3>1
    <3> QED
      BY <1>1, <3>1, <3>2 DEF Declared
  <2> QED
    BY <1>1, <2>1 DEF Declared
<1>4. Variable(L2, e2, n, d) = Variable(L, e, n, d)
  <2>1. CASE Deeper(L, n, d)
    <3>1. PICK i \in DOMAIN L : Covers(L, i, n, d)
      BY <2>1, CoverExists
    <3>2. \A j \in 1..(i - 1) : j \in 1..(Len(L) - 1) /\ L2[j] = L[j]
      BY <1>1, <3>1
    <3>3. CASE i # Len(L)
      <4>1. i \in DOMAIN L2 /\ L2[i] = L[i]
        BY <1>1, <3>3
      <4>2. Covers(L2, i, n, d)
        BY <3>1, <3>2, <4>1 DEF Covers
      <4> QED
        BY <1>1, <3>1, <4>1, <4>2, VariableCovered
    <3>4. CASE i = Len(L)
      <4>1. ~ Deeper(L2, n, d)
        <5>1. \A j \in 1..(Len(L) - 1) : L[j].depth \in Nat
          BY <1>1, DepthNat
        <5> QED
          BY <1>1, <3>1, <3>2, <3>4, <5>1 DEF Covers, Deeper
      <4>2. Variable(L2, e2, n, d) = e2[n]
        BY <4>1, VariableBare
      <4>3. last.name = n
        BY <3>1, <3>4 DEF Covers
      <4>4. Variable(L, e, n, d) = last.old
        BY <3>1, <3>4, VariableCovered
      <4> QED
        BY <1>2, <4>2, <4>3, <4>4
    <3> QED
      BY <3>3, <3>4
  <2>2. CASE ~ Deeper(L, n, d)
    <3>1. ~ Deeper(L2, n, d)
      BY <1>1, <2>2 DEF Deeper
    <3>2. last.name # n
      BY <1>1, <2>2 DEF Deeper
    <3>3. Variable(L2, e2, n, d) = e2[n] /\ Variable(L, e, n, d) = e[n]
      BY <2>2, <3>1, VariableBare
    <3> QED
      BY <1>2, <3>2, <3>3
  <2> QED
    BY <2>1, <2>2
<1> QED
  BY <1>3, <1>4

LEMMA VariableType ==
    ASSUME NEW L \in Seq(Entry), NEW e \in [Names -> Cells], NEW n \in Names,
           NEW d \in Nat
    PROVE  Variable(L, e, n, d) \in Cells
<1>1. CASE Deeper(L, n, d)
  <2>1. PICK i \in DOMAIN L : Covers(L, i, n, d)
    BY <1>1, CoverExists
  <2>2. L[i] \in Entry
    BY <2>1
  <2>3. L[i].old \in Cells
    BY <2>2 DEF Entry
  <2> QED
    BY <2>1, <2>3, VariableCovered
<1>2. CASE ~ Deeper(L, n, d)
  BY <1>2, VariableBare
<1> QED
  BY <1>1, <1>2

-----------------------------------------------------------------------------
(* The inductive invariant *)

IInv == TypeOK /\ UndoOrdered /\ (leaving => depth > 0)

LEMMA OrderedNow == UndoOrdered <=> Ordered(locals, depth)
BY DEF UndoOrdered, Ordered

\* What MovedDown holds is a list of parameters, also for a negative k.
LEMMA MovedDownType ==
    ASSUME args \in Seq(Words), NEW k \in Int, k <= Len(args),
           NEW s \in MovedDown(k)
    PROVE  s \in Seq(Words)
<1>1. Len(args) - k \in Nat
  OBVIOUS
<1>2. s \in [1..(Len(args) - k) -> Words]
  BY DEF MovedDown
<1> QED
  BY <1>1, <1>2

LEMMA IInvInit == Init => IInv
<1> SUFFICES ASSUME Init PROVE IInv
  OBVIOUS
<1>1. locals = <<>> /\ saved = <<>> /\ depth = 0 /\ leaving = FALSE
  BY DEF Init
<1>2. locals \in Seq(Entry) /\ saved \in Seq(Frame) /\ Len(saved) = depth
  BY <1>1
<1>3. TypeOK
  <2>1. leaving \in BOOLEAN /\ depth \in Nat
    BY <1>1
  <2>2. env \in [Names -> Cells] /\ arg0 \in Words /\ args \in Seq(Words)
    BY ScopesAssumption DEF Init
  <2> QED
    BY <1>2, <2>1, <2>2 DEF TypeOK
<1>4. UndoOrdered
  BY <1>1 DEF UndoOrdered
<1> QED
  BY <1>1, <1>3, <1>4 DEF IInv

LEMMA IInvNext == IInv /\ [Next]_vars => IInv'
<1> SUFFICES ASSUME IInv, [Next]_vars PROVE IInv'
  OBVIOUS
<1> USE DEF IInv
<1>1. ASSUME NEW n \in Names, NEW v \in Cells, Assign(n, v) PROVE IInv'
  BY <1>1 DEF Assign, TypeOK, UndoOrdered
<1>2. ASSUME NEW n \in Names, NEW v \in Cells, builtin_local(n, v) PROVE IInv'
  <2> DEFINE new == [depth |-> depth, name |-> n, old |-> env[n]]
  <2>1. locals' = Append(locals, new) /\ UNCHANGED depth /\ depth \in Nat \ {0}
    BY <1>2 DEF builtin_local, local_push, TypeOK
  <2>2. new \in Entry
    BY DEF TypeOK, Entry
  <2>3. locals' \in Seq(Entry)
    BY <2>1, <2>2 DEF TypeOK
  <2>4. TypeOK'
    BY <1>2, <2>3 DEF builtin_local, TypeOK
  <2>5. UndoOrdered'
    <3>1. /\ DOMAIN locals' = 1..(Len(locals) + 1)
          /\ locals'[Len(locals) + 1].depth = depth
          /\ \A i \in 1..Len(locals) : locals'[i] = locals[i]
      BY <2>1 DEF TypeOK
    <3> QED
      BY <2>1, <3>1 DEF UndoOrdered, TypeOK
  <2> QED
    BY <1>2, <2>4, <2>5 DEF builtin_local
<1>3. ASSUME NEW list \in Lists, builtin_set(list) PROVE IInv'
  BY <1>3, ScopesAssumption DEF builtin_set, TypeOK, UndoOrdered
<1>4. ASSUME NEW list \in Lists, NEW name \in Words, call_fn(name, list)
      PROVE  IInv'
  <2>1. [zero |-> arg0, args |-> args] \in Frame
    BY DEF TypeOK, Frame
  <2>2. saved' \in Seq(Frame) /\ Len(saved') = depth' /\ depth' = depth + 1
    BY <1>4, <2>1 DEF call_fn, TypeOK
  <2>3. TypeOK'
    BY <1>4, <2>2, ScopesAssumption DEF call_fn, TypeOK
  <2>4. UndoOrdered'
    BY <1>4 DEF call_fn, UndoOrdered, TypeOK
  <2> QED
    BY <1>4, <2>3, <2>4 DEF call_fn
<1>5. ASSUME NEW n \in 0..MaxShift, builtin_shift(n) PROVE IInv'
  <2>1. AsInt(n) \in Int
    BY ScopesAssumption DEF AsInt
  <2>2. args' \in Seq(Words)
    BY <1>5, <2>1, MovedDownType DEF builtin_shift, TypeOK
  <2> QED
    BY <1>5, <2>2 DEF builtin_shift, TypeOK, UndoOrdered
<1>6. CASE BodyEnds
  BY <1>6 DEF BodyEnds, TypeOK, UndoOrdered
<1>7. CASE local_restore_frame
  <2>1. /\ locals \in Seq(Entry) /\ locals # <<>>
        /\ locals' = SubSeq(locals, 1, Len(locals) - 1)
    BY <1>7 DEF local_restore_frame, ToUndo, TypeOK
  <2>2. /\ locals' \in Seq(Entry) /\ DOMAIN locals' = 1..(Len(locals) - 1)
        /\ \A i \in 1..(Len(locals) - 1) : locals'[i] = locals[i]
        /\ Len(locals) \in DOMAIN locals /\ DOMAIN locals = 1..Len(locals)
    BY <2>1
  <2>3. Newest.old \in Cells
    <3>1. Newest \in Entry
      BY <2>1, <2>2 DEF Newest
    <3> QED
      BY <3>1 DEF Entry
  <2>4. TypeOK'
    BY <1>7, <2>2, <2>3 DEF local_restore_frame, TypeOK
  <2>5. UndoOrdered'
    BY <1>7, <2>2 DEF local_restore_frame, UndoOrdered
  <2> QED
    BY <1>7, <2>4, <2>5 DEF local_restore_frame
<1>8. CASE CallReturns
  <2>1. depth \in Nat \ {0} /\ Len(saved) = depth /\ saved \in Seq(Frame)
    BY <1>8 DEF CallReturns, TypeOK
  <2>2. saved[Len(saved)] \in Frame
    BY <2>1
  <2>3. /\ saved' \in Seq(Frame) /\ Len(saved') = depth - 1
    BY <1>8, <2>1 DEF CallReturns
  <2>4. TypeOK'
    <3>1. arg0' \in Words /\ args' \in Seq(Words)
      BY <1>8, <2>2 DEF CallReturns, Frame
    <3>2. depth' = depth - 1 /\ leaving' = FALSE /\ UNCHANGED <<env, locals>>
      BY <1>8 DEF CallReturns
    <3>3. leaving' \in BOOLEAN
      BY <3>2
    <3>4. depth' \in Nat /\ Len(saved') = depth'
      BY <2>1, <2>3, <3>2
    <3>5. env' \in [Names -> Cells] /\ locals' \in Seq(Entry)
      BY <3>2 DEF TypeOK
    <3> QED
      BY <2>3, <3>1, <3>3, <3>4, <3>5 DEF TypeOK
  <2>5. ASSUME NEW i \in DOMAIN locals PROVE locals[i].depth \in 1..(depth - 1)
    <3>1. Len(locals) \in DOMAIN locals /\ i <= Len(locals)
      BY DEF TypeOK
    <3>2. Newest.depth \in 1..depth /\ Newest.depth # depth
      BY <1>8, <3>1 DEF CallReturns, ToUndo, Newest, UndoOrdered, TypeOK
    <3>3. locals[i].depth \in 1..depth /\ locals[i].depth <= Newest.depth
      BY <3>1, <3>2 DEF UndoOrdered, Newest
    <3> QED
      BY <2>1, <3>2, <3>3
  <2>6. UndoOrdered'
    BY <1>8, <2>5 DEF CallReturns, UndoOrdered
  <2> QED
    BY <1>8, <2>4, <2>6 DEF CallReturns
<1>9. CASE UNCHANGED vars
  BY <1>9 DEF vars, TypeOK, UndoOrdered
<1> QED
  BY <1>1, <1>2, <1>3, <1>4, <1>5, <1>6, <1>7, <1>8, <1>9 DEF Next

\* The invariant: types, the order of the log, and a call to return from.
THEOREM ScopesInvariance == Spec => []IInv
BY IInvInit, IInvNext, PTL DEF Spec

\* Every variable keeps its type, also when a count of shift wraps around.
THEOREM ScopesTypeCorrect == Spec => []TypeOK
BY ScopesInvariance, PTL DEF IInv

\* The undo log of g_locals stays in the order of the calls, and holds no entry
\* of a call that has ended.
THEOREM UndoLogOrdered == Spec => []UndoOrdered
BY ScopesInvariance, PTL DEF IInv

-----------------------------------------------------------------------------
(* Every command means what it does in dynamic scoping *)

\* While a command runs, a name means the scope that declares it and below
\* which nobody does.
LEMMA MeansIff ==
    ASSUME IInv, ~ leaving, NEW n \in Names, NEW d \in 0..depth
    PROVE  DS!Means(n, d) <=> (d = 0 \/ Declared(locals, n, d))
                              /\ ~ Deeper(locals, n, d)
<1>1. /\ Level = depth /\ depth \in Nat /\ locals \in Seq(Entry)
      /\ env \in [Names -> Cells]
  BY DEF IInv, TypeOK, Level
<1>2. ASSUME NEW e \in 0..depth
      PROVE  ScopeOf[e].vars[n] # Undeclared <=> e = 0 \/ Declared(locals, n, e)
  <2>1. Variable(locals, env, n, e) \in Cells
    BY <1>1, VariableType
  <2>2. Variable(locals, env, n, e) # Undeclared
    BY <2>1, ScopesAssumption DEF Cells
  <2>3. ScopeOf[e].vars = ScopeVars(locals, env, e)
    BY <1>1 DEF ScopeOf
  <2> QED
    BY <2>2, <2>3 DEF ScopeVars
<1>3. Deeper(locals, n, d) <=> \E e \in (d + 1)..depth : Declared(locals, n, e)
  BY <1>1 DEF IInv, UndoOrdered, Deeper, Declared
<1>4. DS!Means(n, d) <=> /\ ScopeOf[d].vars[n] # Undeclared
                         /\ \A e \in (d + 1)..depth : ScopeOf[e].vars[n] = Undeclared
  BY <1>1 DEF DS!Means
<1> QED
  BY <1>1, <1>2, <1>3, <1>4

LEMMA AssignMeans ==
    ASSUME IInv, NEW n \in Names, NEW v \in Cells, Assign(n, v)
    PROVE  DS!Assign(n, v)
<1>1. /\ Level = depth /\ Level' = depth /\ depth \in Nat /\ ~ leaving
      /\ locals \in Seq(Entry) /\ env \in [Names -> Cells]
      /\ env' = [env EXCEPT ![n] = v]
      /\ UNCHANGED <<depth, locals, arg0, args, saved>>
  BY DEF IInv, TypeOK, Assign, Level
<1>2. ASSUME NEW d \in 0..depth
      PROVE  ScopeVars(locals, env', d)
               = IF DS!Means(n, d) THEN [ScopeVars(locals, env, d) EXCEPT ![n] = v]
                                   ELSE ScopeVars(locals, env, d)
  <2>1. ASSUME NEW m \in Names
        PROVE  Variable(locals, env', m, d)
                 = IF m = n /\ ~ Deeper(locals, m, d)
                     THEN v ELSE Variable(locals, env, m, d)
    <3>1. Written(env', env, n, v)
      BY <1>1 DEF Written
    <3> QED
      BY <1>1, <3>1, VariableAssigned
  <2>2. DS!Means(n, d) <=> (d = 0 \/ Declared(locals, n, d))
                           /\ ~ Deeper(locals, n, d)
    BY <1>1, MeansIff
  <2> QED
    BY <2>1, <2>2 DEF ScopeVars
<1>3. \A d \in 0..depth : ScopeParams(d)' = ScopeParams(d)
  BY <1>1 DEF ScopeParams
<1>4. ScopeOf' = [d \in 0..depth |-> IF DS!Means(n, d)
                                       THEN [ScopeOf[d] EXCEPT !.vars[n] = v]
                                       ELSE ScopeOf[d]]
  <2>1. \A d \in 0..depth :
          ScopeOf[d] = [vars |-> ScopeVars(locals, env, d), params |-> ScopeParams(d)]
    BY <1>1 DEF ScopeOf
  <2>2. ScopeOf' = [d \in 0..depth |-> [vars   |-> ScopeVars(locals, env', d),
                                        params |-> ScopeParams(d)]]
    BY <1>1, <1>3 DEF ScopeOf
  <2>3. \A d \in 0..depth :
          [vars |-> ScopeVars(locals, env', d), params |-> ScopeParams(d)]
            = IF DS!Means(n, d) THEN [ScopeOf[d] EXCEPT !.vars[n] = v] ELSE ScopeOf[d]
    <3> TAKE d \in 0..depth
    <3> DEFINE old == ScopeVars(locals, env, d)
    <3>3. /\ ScopeVars(locals, env', d)
               = IF DS!Means(n, d) THEN [old EXCEPT ![n] = v] ELSE old
          /\ ScopeOf[d] = [vars |-> old, params |-> ScopeParams(d)]
      BY <1>2, <2>1
    <3> HIDE DEF old
    <3>1. CASE DS!Means(n, d)
      BY <3>3, <3>1
    <3>2. CASE ~ DS!Means(n, d)
      BY <3>3, <3>2
    <3> QED
      BY <3>1, <3>2
  <2> QED
    BY <2>2, <2>3
<1> QED
  BY <1>1, <1>4 DEF DS!Assign

LEMMA LocalMeans ==
    ASSUME IInv, NEW n \in Names, NEW v \in Cells, builtin_local(n, v)
    PROVE  DS!Declare(n, v)
<1>1. /\ Level = depth /\ Level' = depth /\ depth \in Nat \ {0}
      /\ locals \in Seq(Entry) /\ env \in [Names -> Cells]
      /\ env' = [env EXCEPT ![n] = v]
      /\ locals' = Append(locals, [depth |-> depth, name |-> n, old |-> env[n]])
      /\ UNCHANGED <<depth, arg0, args, saved>>
  BY DEF IInv, TypeOK, builtin_local, local_push, Level
<1>2. ASSUME NEW d \in 0..depth
      PROVE  ScopeVars(locals', env', d)
               = IF d = depth THEN [ScopeVars(locals, env, d) EXCEPT ![n] = v]
                              ELSE ScopeVars(locals, env, d)
  <2>1. Ordered(locals, depth)
    BY OrderedNow DEF IInv
  <2>2. ASSUME NEW m \in Names
        PROVE  /\ Variable(locals', env', m, d)
                    = IF m = n /\ d = depth THEN v ELSE Variable(locals, env, m, d)
               /\ Declared(locals', m, d)
                    <=> Declared(locals, m, d) \/ (m = n /\ d = depth)
    <3>1. Written(env', env, n, v)
      BY <1>1 DEF Written
    <3>2. [depth |-> depth, name |-> n, old |-> env[n]] \in Entry
      BY <1>1 DEF Entry
    <3>3. Longer(locals', locals, depth, n, env[n])
      BY <1>1, <3>2 DEF Longer
    <3> QED
      BY <1>1, <2>1, <3>1, <3>3, VariablePushed
  <2> QED
    BY <1>1, <2>2 DEF ScopeVars
<1>3. \A d \in 0..depth : ScopeParams(d)' = ScopeParams(d)
  BY <1>1 DEF ScopeParams
<1>4. ScopeOf' = [ScopeOf EXCEPT ![depth].vars[n] = v]
  <2>1. ScopeOf = [d \in 0..depth |-> [vars   |-> ScopeVars(locals, env, d),
                                       params |-> ScopeParams(d)]]
    BY <1>1 DEF ScopeOf
  <2>2. ScopeOf' = [d \in 0..depth |-> [vars   |-> ScopeVars(locals', env', d),
                                        params |-> ScopeParams(d)]]
    BY <1>1, <1>3 DEF ScopeOf
  <2> QED
    BY <1>1, <1>2, <2>1, <2>2
<1> QED
  BY <1>1, <1>4 DEF DS!Declare

\* A command that changes the parameters only.
LEMMA ParamsMean ==
    ASSUME IInv, ~ leaving, NEW list, args' = list,
           UNCHANGED <<env, depth, locals, arg0, saved, leaving>>
    PROVE  DS!Set(list)
<1>1. Level = depth /\ Level' = depth /\ depth \in Nat
  BY DEF IInv, TypeOK, Level
<1>2. ScopeOf = [d \in 0..depth |-> [vars   |-> ScopeVars(locals, env, d),
                                     params |-> ScopeParams(d)]]
  BY <1>1 DEF ScopeOf
<1>3. ScopeOf' = [d \in 0..depth |-> [vars   |-> ScopeVars(locals, env, d),
                                      params |-> ScopeParams(d)']]
  BY <1>1 DEF ScopeOf
<1>4. \A d \in 0..depth :
        ScopeParams(d)' = IF d = depth THEN [ScopeParams(d) EXCEPT !.args = list]
                                       ELSE ScopeParams(d)
  BY <1>1 DEF ScopeParams
<1> QED
  BY <1>1, <1>2, <1>3, <1>4 DEF DS!Set

LEMMA ShiftMeans ==
    ASSUME IInv, MaxShift <= IntMax, NEW n \in 0..MaxShift, builtin_shift(n)
    PROVE  DS!Shift(n)
<1>1. /\ AsInt(n) = n /\ n \in Nat /\ ~ leaving /\ args \in Seq(Words)
      /\ UNCHANGED <<env, depth, locals, arg0, saved, leaving>>
  BY ScopesAssumption DEF AsInt, builtin_shift, IInv, TypeOK
<1>2. Level = depth /\ Level' = depth /\ depth \in Nat
  BY <1>1 DEF IInv, TypeOK, Level
<1>3. ScopeOf[depth].params.args = args
  BY <1>2 DEF ScopeOf, ScopeParams
<1>4. CASE n <= Len(args)
  <2>1. args' \in MovedDown(n)
    BY <1>1, <1>4 DEF builtin_shift
  <2>2. /\ args' \in [1..(Len(args) - n) -> Words]
        /\ \A i \in 1..(Len(args) - n) : args'[i] = args[i + n]
    BY <1>1, <1>4, <2>1 DEF MovedDown
  <2>3. args' = SubSeq(args, n + 1, Len(args))
    BY <1>1, <1>4, <2>2
  <2>4. DS!Set(SubSeq(args, n + 1, Len(args)))
    BY <1>1, <2>3, ParamsMean
  <2> QED
    BY <1>2, <1>3, <1>4, <2>4 DEF DS!Shift
<1>5. CASE ~ (n <= Len(args))
  <2>1. UNCHANGED args
    BY <1>1, <1>5 DEF builtin_shift
  <2>2. UNCHANGED <<Level, ScopeOf>>
    BY <1>1, <2>1 DEF Level, ScopeOf, ScopeParams
  <2> QED
    BY <1>2, <1>3, <1>5, <2>2 DEF DS!Shift
<1> QED
  BY <1>4, <1>5

LEMMA CallMeans ==
    ASSUME IInv, NEW name \in Words, NEW list \in Lists, call_fn(name, list)
    PROVE  DS!Call([zero |-> name, args |-> list])
<1>1. /\ Level = depth /\ Level' = depth + 1 /\ depth' = depth + 1
      /\ depth \in Nat /\ saved \in Seq(Frame) /\ Len(saved) = depth
      /\ arg0' = name /\ args' = list
      /\ saved' = Append(saved, [zero |-> arg0, args |-> args])
      /\ UNCHANGED <<env, locals, leaving>>
  BY DEF IInv, TypeOK, call_fn, Level
<1>2. ScopeVars(locals, env, depth + 1) = [n \in Names |-> Undeclared]
  <2>1. \A n \in Names : ~ Declared(locals, n, depth + 1)
    BY <1>1 DEF IInv, UndoOrdered, Declared
  <2> QED
    BY <1>1, <2>1 DEF ScopeVars
<1>3. [zero |-> arg0, args |-> args] \in Frame
  BY DEF IInv, TypeOK, Frame
<1>4. /\ \A i \in 1..depth : saved'[i] = saved[i]
      /\ saved'[depth + 1] = [zero |-> arg0, args |-> args]
  BY <1>1, <1>3
<1>5. \A d \in 0..(depth + 1) :
        ScopeParams(d)' = IF d = depth + 1 THEN [zero |-> name, args |-> list]
                                           ELSE ScopeParams(d)
  BY <1>1, <1>4 DEF ScopeParams
<1>6. ScopeOf' = [d \in 0..(depth + 1) |-> [vars   |-> ScopeVars(locals, env, d),
                                            params |-> ScopeParams(d)']]
  BY <1>1 DEF ScopeOf
<1>7. \A d \in 0..depth :
        ScopeOf[d] = [vars |-> ScopeVars(locals, env, d), params |-> ScopeParams(d)]
  BY <1>1 DEF ScopeOf
<1> QED
  BY <1>1, <1>2, <1>5, <1>6, <1>7 DEF DS!Call

LEMMA BodyEndsMeans == ASSUME IInv, BodyEnds PROVE DS!Leave
<1>1. /\ Level = depth /\ Level' = depth - 1 /\ depth \in Nat \ {0}
      /\ UNCHANGED <<env, depth, locals, arg0, args, saved>>
  BY DEF IInv, TypeOK, BodyEnds, Level
<1>2. \A d \in 0..depth :
        ScopeOf[d] = [vars |-> ScopeVars(locals, env, d), params |-> ScopeParams(d)]
  BY <1>1 DEF ScopeOf
<1>3. ScopeOf' = [d \in 0..(depth - 1) |-> [vars   |-> ScopeVars(locals, env, d),
                                            params |-> ScopeParams(d)]]
  BY <1>1 DEF ScopeOf, ScopeParams
<1> QED
  BY <1>1, <1>2, <1>3 DEF DS!Leave

LEMMA UndoMeansNothing ==
    ASSUME IInv, local_restore_frame PROVE UNCHANGED <<Level, ScopeOf>>
<1>1. /\ Level = depth - 1 /\ Level' = depth - 1 /\ depth \in Nat \ {0}
      /\ locals \in Seq(Entry) /\ locals # <<>> /\ env \in [Names -> Cells]
      /\ locals[Len(locals)].depth = depth
      /\ locals' = SubSeq(locals, 1, Len(locals) - 1)
      /\ env' = [env EXCEPT ![locals[Len(locals)].name] = locals[Len(locals)].old]
      /\ UNCHANGED <<depth, arg0, args, saved>>
  BY DEF IInv, TypeOK, local_restore_frame, ToUndo, Newest, Level
<1>2. Ordered(locals, depth)
  BY OrderedNow DEF IInv
<1>3. ASSUME NEW d \in 0..(depth - 1)
      PROVE  ScopeVars(locals', env', d) = ScopeVars(locals, env, d)
  <2>1. ASSUME NEW n \in Names
        PROVE  /\ Variable(locals', env', n, d) = Variable(locals, env, n, d)
               /\ Declared(locals', n, d) <=> Declared(locals, n, d)
    <3>1. Written(env', env, locals[Len(locals)].name, locals[Len(locals)].old)
      BY <1>1 DEF Written
    <3>2. /\ locals \in Seq(Entry) /\ locals # <<>>
          /\ locals' = SubSeq(locals, 1, Len(locals) - 1)
      BY <1>1
    <3>3. Shorter(locals', locals)
      <4>1. Len(locals) \in Nat \ {0}
        BY <3>2
      <4>2. locals' \in Seq(Entry) /\ DOMAIN locals' = 1..(Len(locals) - 1)
        BY <3>2
      <4>3. Len(locals') = Len(locals) - 1
        BY <4>1, <4>2
      <4>4. \A i \in 1..(Len(locals) - 1) : locals'[i] = locals[i]
        BY <3>2, <4>1
      <4> QED
        BY <4>2, <4>3, <4>4 DEF Shorter
    <3>4. /\ locals \in Seq(Entry) /\ locals # <<>> /\ d \in Nat /\ d < depth
          /\ depth \in Nat /\ locals[Len(locals)].depth = depth
      BY <1>1
    <3> QED
      BY <1>2, <3>1, <3>3, <3>4, VariablePopped
  <2> QED
    BY <2>1 DEF ScopeVars
<1>4. \A d \in 0..(depth - 1) : ScopeParams(d)' = ScopeParams(d)
  BY <1>1 DEF ScopeParams
<1> QED
  BY <1>1, <1>3, <1>4 DEF ScopeOf

LEMMA ReturnMeansNothing ==
    ASSUME IInv, CallReturns PROVE UNCHANGED <<Level, ScopeOf>>
<1>1. /\ Level = depth - 1 /\ Level' = depth - 1 /\ depth' = depth - 1
      /\ depth \in Nat \ {0} /\ saved \in Seq(Frame) /\ Len(saved) = depth
      /\ arg0' = saved[depth].zero /\ args' = saved[depth].args
      /\ saved' = SubSeq(saved, 1, depth - 1)
      /\ UNCHANGED <<env, locals>>
  BY DEF IInv, TypeOK, CallReturns, Level
<1>2. saved[depth] = [zero |-> arg0', args |-> args']
  <2>1. saved[depth] \in Frame
    BY <1>1
  <2> QED
    BY <1>1, <2>1 DEF Frame
<1>3. \A i \in 1..(depth - 1) : saved'[i] = saved[i]
  BY <1>1
<1>4. ASSUME NEW d \in 0..(depth - 1) PROVE ScopeParams(d)' = ScopeParams(d)
  <2>1. ScopeParams(d) = saved[d + 1]
    BY <1>1 DEF ScopeParams
  <2>2. ScopeParams(d)' = IF d < depth - 1 THEN saved'[d + 1]
                                           ELSE [zero |-> arg0', args |-> args']
    BY <1>1 DEF ScopeParams
  <2>3. CASE d < depth - 1
    BY <1>1, <1>3, <2>1, <2>2, <2>3
  <2>4. CASE d = depth - 1
    <3>1. saved[d + 1] = saved[depth]
      BY <1>1, <2>4
    <3> QED
      BY <1>1, <1>2, <2>1, <2>2, <2>4, <3>1
  <2> QED
    BY <1>1, <2>3, <2>4
<1> QED
  BY <1>1, <1>4 DEF ScopeOf

LEMMA InvMeans == ASSUME IInv, MaxShift <= IntMax PROVE CommandMeans
<1>1. ASSUME NEW n \in Names, NEW v \in Cells
      PROVE  /\ Assign(n, v) => DS!Assign(n, v)
             /\ builtin_local(n, v) => DS!Declare(n, v)
  BY AssignMeans, LocalMeans
<1>2. ASSUME NEW list \in Lists, builtin_set(list) PROVE DS!Set(list)
  BY <1>2, ParamsMean DEF builtin_set
<1>3. ASSUME NEW list \in Lists, NEW name \in Words
      PROVE  call_fn(name, list) => DS!Call([zero |-> name, args |-> list])
  BY CallMeans
<1>4. \A n \in 0..MaxShift : builtin_shift(n) => DS!Shift(n)
  BY ShiftMeans
<1>5. /\ BodyEnds => DS!Leave
      /\ local_restore_frame \/ CallReturns => UNCHANGED <<Level, ScopeOf>>
  BY BodyEndsMeans, UndoMeansNothing, ReturnMeansNothing
<1> QED
  BY <1>1, <1>2, <1>3, <1>4, <1>5 DEF CommandMeans

\* Every command of petrush on variables and parameters means what it does in
\* dynamic scoping, provided that no count given to shift exceeds INT_MAX.
THEOREM DynamicScoping ==
    ASSUME MaxShift <= IntMax PROVE Spec => CommandsMean
<1>1. IInv => CommandMeans
  BY InvMeans
<1> QED
  BY <1>1, ScopesInvariance, PTL DEF CommandsMean

LEMMA ScopesInit == Init => DS!Init
<1> SUFFICES ASSUME Init PROVE DS!Init
  OBVIOUS
<1>1. /\ env \in [Names -> Cells] /\ arg0 \in Words /\ args \in Lists
      /\ depth = 0 /\ locals = <<>> /\ leaving = FALSE
  BY DEF Init
<1>2. Level = 0
  BY <1>1 DEF Level
<1>3. ScopeVars(locals, env, 0) = env
  <2>1. \A n \in Names : ~ Deeper(locals, n, 0)
    BY <1>1 DEF Deeper
  <2>2. \A n \in Names : Variable(locals, env, n, 0) = env[n]
    BY <2>1, VariableBare
  <2> QED
    BY <1>1, <2>2 DEF ScopeVars
<1>4. ScopeParams(0) = [zero |-> arg0, args |-> args]
  BY <1>1 DEF ScopeParams
<1>5. ScopeOf = [d \in 0..0 |-> [vars   |-> env,
                                 params |-> [zero |-> arg0, args |-> args]]]
  BY <1>2, <1>3, <1>4 DEF ScopeOf
<1>6. [zero |-> arg0, args |-> args] \in DS!Params
  BY <1>1 DEF DS!Params
<1> QED
  BY <1>1, <1>2, <1>5, <1>6 DEF DS!Init, Cells

LEMMA ScopesStep ==
    ASSUME IInv, MaxShift <= IntMax, [Next]_vars
    PROVE  [DS!Next]_<<Level, ScopeOf>>
<1>1. ASSUME NEW n \in Names, NEW v \in Cells, Assign(n, v) PROVE DS!Next
  BY <1>1, AssignMeans DEF DS!Next, Cells
<1>2. ASSUME NEW n \in Names, NEW v \in Cells, builtin_local(n, v) PROVE DS!Next
  BY <1>2, LocalMeans DEF DS!Next, Cells
<1>3. ASSUME NEW list \in Lists, builtin_set(list) PROVE DS!Next
  <2>1. DS!Set(list)
    BY <1>3, ParamsMean DEF builtin_set
  <2> QED
    BY <2>1 DEF DS!Next
<1>4. ASSUME NEW list \in Lists, NEW name \in Words, call_fn(name, list)
      PROVE  DS!Next
  <2>1. DS!Call([zero |-> name, args |-> list])
    BY <1>4, CallMeans
  <2>2. [zero |-> name, args |-> list] \in DS!Params
    BY DEF DS!Params
  <2> QED
    BY <2>1, <2>2 DEF DS!Next
<1>5. ASSUME NEW n \in 0..MaxShift, builtin_shift(n)
      PROVE  DS!Next \/ UNCHANGED <<Level, ScopeOf>>
  <2>1. DS!Shift(n) /\ n \in Nat
    BY <1>5, ShiftMeans
  <2>2. ScopeOf[Level].params.args = args /\ Len(args) \in Nat
    BY <1>5 DEF builtin_shift, IInv, TypeOK, Level, ScopeOf, ScopeParams
  <2>3. CASE n <= Len(args)
    BY <2>1, <2>2, <2>3 DEF DS!Next
  <2>4. CASE ~ (n <= Len(args))
    BY <2>1, <2>2, <2>4 DEF DS!Shift
  <2> QED
    BY <2>3, <2>4
<1>6. CASE BodyEnds
  BY <1>6, BodyEndsMeans DEF DS!Next
<1>7. CASE local_restore_frame \/ CallReturns
  BY <1>7, UndoMeansNothing, ReturnMeansNothing
<1>8. CASE UNCHANGED vars
  BY <1>8 DEF vars, Level, ScopeOf, ScopeParams
<1> QED
  BY <1>1, <1>2, <1>3, <1>4, <1>5, <1>6, <1>7, <1>8 DEF Next

\* The undo log and the saved parameters implement DynScope.
THEOREM ScopesRefine ==
    ASSUME MaxShift <= IntMax PROVE Spec => ImplementsDynScope
<1>1. IInv /\ [Next]_vars => [DS!Next]_<<Level, ScopeOf>>
  BY ScopesStep
<1> QED
  BY <1>1, ScopesInit, ScopesInvariance, PTL DEF Spec, ImplementsDynScope, DS!Spec
=============================================================================
