--------------------------- MODULE Session_proofs ---------------------------
(***************************************************************************)
(* Proofs about Session: its types, the entry the editor is in, the slots  *)
(* of the aliases as a map, and the stack of directories; then the history *)
(* holds the latest lines, in memory and in the file, and the bang words   *)
(* recall the right ones as long as the keys of the editor rewrite none,   *)
(* for every size of the history, every keyboard and any sessions.         *)
(***************************************************************************)
EXTENDS Session, SequenceTheorems, FiniteSetTheorems, WellFoundedInduction,
        TLAPS

-----------------------------------------------------------------------------
(* The history *)

\* A line that is added is the last one, and the limit holds.
LEMMA AddedType ==
    ASSUME NEW h \in Seq(Line), Len(h) <= HistMax, NEW l \in Line
    PROVE  /\ Added(h, l) \in Seq(Line)
           /\ Len(Added(h, l)) <= HistMax
           /\ Added(h, l) # <<>>
           /\ Added(h, l)[Len(Added(h, l))] = l
<1> USE SessionAssumption
<1>1. CASE h # <<>> /\ h[Len(h)] = l
  BY <1>1 DEF Added
<1>2. CASE ~(h # <<>> /\ h[Len(h)] = l)
  <2> DEFINE g == IF Len(h) = HistMax THEN Tail(h) ELSE h
  <2>1. g \in Seq(Line) /\ Len(g) < HistMax
    <3>1. CASE Len(h) = HistMax
      <4>1. h # <<>>
        BY <3>1
      <4>2. Tail(h) \in Seq(Line) /\ Len(Tail(h)) = Len(h) - 1
        BY <4>1
      <4> QED BY <3>1, <4>2
    <3>2. CASE Len(h) # HistMax
      BY <3>2
    <3> QED BY <3>1, <3>2
  <2>2. Added(h, l) = Append(g, l)
    BY <1>2 DEF Added
  <2> HIDE DEF g
  <2>3. /\ Append(g, l) \in Seq(Line) /\ Len(Append(g, l)) = Len(g) + 1
        /\ Append(g, l)[Len(g) + 1] = l
    BY <2>1
  <2>4. Append(g, l) # <<>>
    BY <2>1, <2>3
  <2> QED BY <2>1, <2>2, <2>3, <2>4
<1> QED BY <1>1, <1>2

\* The log with one more line.
LEMMA LoggedType ==
    ASSUME log \in Seq(Line), NEW l \in Line
    PROVE  /\ Logged(l) \in Seq(Line)
           /\ \/ Logged(l) = log /\ (l = Empty \/ (log # <<>> /\ log[Len(log)] = l))
              \/ /\ Logged(l) = Append(log, l)
                 /\ l # Empty /\ (log = <<>> \/ log[Len(log)] # l)
  BY DEF Logged, Last

LEMMA PoppedType ==
    ASSUME NEW S, NEW h \in Seq(S), h # <<>>
    PROVE  /\ Popped(h) \in Seq(S)
           /\ Len(Popped(h)) = Len(h) - 1
           /\ \A i \in 1..Len(h) - 1 : Popped(h)[i] = h[i]
<1>1. Len(h) \in Nat /\ Len(h) > 0 /\ DOMAIN h = 1..Len(h)
  BY EmptySeq, LenProperties
<1>2. \A i \in 1..Len(h) - 1 : h[i] \in S
  BY <1>1, ElementOfSeq
<1> QED BY <1>1, <1>2, SubSeqProperties DEF Popped

LEMMA EmptyIsLine == Empty \in Line
  BY DEF Empty, Line

\* Whatever the history holds, a line means a line.
LEMMA MeantType ==
    ASSUME NEW h \in Seq(Line), NEW l \in Line
    PROVE  Meant(h, l) \in Line
<1> USE SessionAssumption
<1>1. LastEvent(h) \subseteq Line
  BY DEF LastEvent
<1>2. ASSUME NEW e \in Line, NEW w PROVE Designated(e, w) \subseteq Line
  <2>1. e.words \in Seq(Words)
    BY DEF Line
  <2>2. (IF Len(e.words) < WordMax THEN Len(e.words) ELSE WordMax) \in 0..Len(e.words)
    BY <2>1
  <2>3. \A i \in 1..Len(e.words) : Typed(<<e.words[i]>>) \in Line
    <3> SUFFICES ASSUME NEW i \in 1..Len(e.words) PROVE Typed(<<e.words[i]>>) \in Line
      OBVIOUS
    <3>1. e.words[i] \in Words
      BY <2>1
    <3>2. <<e.words[i]>> \in Seq(Words)
      BY <3>1
    <3> QED BY <3>2 DEF Typed, Line
  <2> DEFINE seen == IF Len(e.words) < WordMax THEN Len(e.words) ELSE WordMax
  <2>4. \A i \in 1..seen : Typed(<<e.words[i]>>) \in Line
    BY <2>2, <2>3
  <2>5. Designated(e, w) \subseteq {Typed(<<e.words[i]>>) : i \in 1..seen}
    BY DEF Designated
  <2> HIDE DEF seen
  <2> QED BY <2>4, <2>5
<1>3. Recalled(h, l) \subseteq Line
  <2>1. UNION {Designated(e, l.words[1]) : e \in LastEvent(h)} \subseteq Line
    BY <1>1, <1>2
  <2>2. \A D : {h[n] : n \in DOMAIN h \cap D} \subseteq Line
    OBVIOUS
  <2> QED BY <1>1, <2>1, <2>2 DEF Recalled
<1> QED BY <1>3 DEF Meant
-----------------------------------------------------------------------------
(* The aliases *)

LEMMA LeastNat ==
    ASSUME NEW T \in SUBSET Nat, T # {}
    PROVE  \E x \in T : \A y \in T : x <= y
<1> DEFINE R == {ss \in Nat \X Nat : ss[1] < ss[2]}
<1>1. IsWellFoundedOn(R, Nat)
  BY NatLessThanWellFounded DEF OpToRel
<1>2. \E x \in T : \A y \in T : <<y, x>> \notin R
  <2> HIDE DEF R
  <2> QED BY <1>1, WFMin
<1>3. PICK x \in T : \A y \in T : <<y, x>> \notin R
  BY <1>2
<1>4. ASSUME NEW y \in T PROVE x <= y
  <2>1. ~(<<y, x>> \in Nat \X Nat /\ y < x)
    BY <1>3
  <2> QED BY <2>1
<1> QED BY <1>3, <1>4

LEMMA FirstIn ==
    ASSUME NEW S \in SUBSET (1..Slots), S # {}
    PROVE  First(S) \in S
<1>1. S \subseteq Nat
  BY SessionAssumption
<1> QED BY <1>1, LeastNat DEF First

\* Where alias_set puts an alias, and whether it does.
To(n)         == IF Named(n) # {} THEN Named(n) ELSE Unused
Refused(n, v) == n \notin Names \/ Len(v) > ValueMax \/ To(n) = {}

LEMMA AliasSetTo ==
    ASSUME NEW n, NEW v, AliasSet(n, v)
    PROVE  /\ Refused(n, v) => table' = table
           /\ ~Refused(n, v) =>
                table' = [table EXCEPT ![First(To(n))] =
                             [used |-> TRUE, name |-> n, value |-> v]]
  BY DEF AliasSet, Refused, To

LEMMA SlotsIn ==
    ASSUME NEW n, TypeOK
    PROVE  /\ Named(n) \subseteq 1..Slots /\ Unused \subseteq 1..Slots
           /\ To(n) \subseteq 1..Slots
           /\ DOMAIN table = 1..Slots
  BY DEF TypeOK, Named, Unused, To

LEMMA AliasSetType ==
    ASSUME TypeOK, NEW n \in Words, NEW v \in Seq(Words), AliasSet(n, v)
    PROVE  table' \in [1..Slots -> Entry]
<1>1. CASE Refused(n, v)
  BY <1>1, AliasSetTo DEF TypeOK
<1>2. CASE ~Refused(n, v)
  <2>1. First(To(n)) \in 1..Slots
    BY <1>2, SlotsIn, FirstIn DEF Refused
  <2>2. [used |-> TRUE, name |-> n, value |-> v] \in Entry
    BY DEF Entry
  <2>3. table' = [table EXCEPT ![First(To(n))] = [used |-> TRUE, name |-> n, value |-> v]]
    BY <1>2, AliasSetTo
  <2>4. table \in [1..Slots -> Entry]
    BY DEF TypeOK
  <2> QED BY <2>1, <2>2, <2>3, <2>4
<1> QED BY <1>1, <1>2

LEMMA AliasUnsetType ==
    ASSUME TypeOK, NEW n, AliasUnset(n)
    PROVE  table' \in [1..Slots -> Entry]
<1>1. Free \in Entry
  BY DEF Free, Entry
<1> QED BY <1>1, SlotsIn DEF AliasUnset, TypeOK

LEMMA RequestType ==
    ASSUME TypeOK
    PROVE  LET r == Request(doing) IN
           /\ r.op \in {"none", "set", "unset"}
           /\ r.op # "none" => r.name \in Words
           /\ r.value \in Seq(Words)
<1> DEFINE r == Request(doing)
<1>0. doing \in Seq(Words)
  BY DEF TypeOK
<1>1. CASE Len(doing) > 1 /\ doing[1] = "alias" /\ doing[2] \in DOMAIN Assign
  BY <1>1, SessionAssumption DEF Request
<1>2. CASE /\ ~(Len(doing) > 1 /\ doing[1] = "alias" /\ doing[2] \in DOMAIN Assign)
           /\ Len(doing) > 2 /\ doing[1] = "alias"
  <2>1. doing[2] \in Words
    BY <1>0, <1>2
  <2>2. SubSeq(doing, 3, Len(doing)) \in Seq(Words)
    BY <1>0, <1>2
  <2> QED BY <1>2, <2>1, <2>2 DEF Request
<1>3. CASE /\ ~(Len(doing) > 1 /\ doing[1] = "alias" /\ doing[2] \in DOMAIN Assign)
           /\ ~(Len(doing) > 2 /\ doing[1] = "alias")
           /\ Len(doing) > 1 /\ doing[1] = "unalias"
  <2>1. doing[2] \in Words
    BY <1>0, <1>3
  <2> QED BY <1>3, <2>1 DEF Request
<1>4. CASE /\ ~(Len(doing) > 1 /\ doing[1] = "alias" /\ doing[2] \in DOMAIN Assign)
           /\ ~(Len(doing) > 2 /\ doing[1] = "alias")
           /\ ~(Len(doing) > 1 /\ doing[1] = "unalias")
  BY <1>4 DEF Request
<1> QED BY <1>1, <1>2, <1>3, <1>4

LEMMA UnaliasedType ==
    ASSUME TypeOK, NEW w \in Seq(Words)
    PROVE  Unaliased(w) \in Seq(Words)
<1>1. CASE w = <<>> \/ Named(w[1]) = {}
  BY <1>1 DEF Unaliased
<1>2. CASE ~(w = <<>> \/ Named(w[1]) = {})
  <2>1. First(Named(w[1])) \in 1..Slots
    BY <1>2, SlotsIn, FirstIn
  <2>2. table[First(Named(w[1]))].value \in Seq(Words)
    BY <2>1 DEF TypeOK, Entry
  <2>3. Tail(w) \in Seq(Words)
    BY <1>2
  <2> QED BY <1>2, <2>2, <2>3 DEF Unaliased
<1> QED BY <1>1, <1>2

-----------------------------------------------------------------------------
(* The directories *)

LEMMA GoType ==
    ASSUME TypeOK, NEW d \in exists
    PROVE  /\ Go(d) \in Place
           /\ Go(d).stack = place.stack /\ Go(d).cwd = d /\ Go(d).old = place.old
  BY DEF Go, Place, TypeOK

LEMMA MoveType ==
    ASSUME TypeOK, RunCd \/ RunPushd \/ RunPopd
    PROVE  place' \in Place /\ Len(place'.stack) <= StackMax
<1>0. /\ place \in Place /\ Len(place.stack) <= StackMax /\ exists \subseteq Dirs
      /\ place.stack \in Seq(Dirs)
  BY DEF TypeOK, Place
<1>1. CASE RunCd
  <2> DEFINE d == IF Len(doing) = 1 THEN Home
                  ELSE IF doing[2] = "-" THEN place.old ELSE doing[2]
  <2>1. CASE d \notin exists
    BY <1>0, <1>1, <2>1 DEF RunCd
  <2>2. CASE d \in exists
    <3>1. Go(d) \in Place /\ Go(d).stack = place.stack
      BY <2>2, GoType
    <3>2. place' = [Go(d) EXCEPT !.pwd = d, !.old = IF place.orphan THEN @ ELSE place.cwd]
      BY <1>1, <2>2 DEF RunCd
    <3> QED BY <1>0, <2>2, <3>1, <3>2 DEF Place
  <2> QED BY <2>1, <2>2
<1>2. CASE RunPushd
  <2>1. CASE Len(place.stack) >= StackMax \/ place.orphan \/ doing[2] \notin exists
    BY <1>0, <1>2, <2>1 DEF RunPushd
  <2>2. CASE ~(Len(place.stack) >= StackMax \/ place.orphan \/ doing[2] \notin exists)
    <3>1. Go(doing[2]) \in Place /\ Go(doing[2]).stack = place.stack
      BY <2>2, GoType
    <3>2. place' = [Go(doing[2]) EXCEPT !.stack = Append(@, place.cwd)]
      BY <1>2, <2>2 DEF RunPushd
    <3>3. place.cwd \in Dirs
      BY <1>0 DEF Place
    <3>4. Append(place.stack, place.cwd) \in Seq(Dirs)
          /\ Len(Append(place.stack, place.cwd)) = Len(place.stack) + 1
      BY <1>0, <3>3
    <3>5. place' \in Place /\ place'.stack = Append(place.stack, place.cwd)
      BY <3>1, <3>2, <3>4 DEF Place
    <3> QED BY <1>0, <2>2, <3>4, <3>5, SessionAssumption
  <2> QED BY <2>1, <2>2
<1>3. CASE RunPopd
  <2> DEFINE t == place.stack
  <2>1. CASE t = <<>>
    BY <1>0, <1>3, <2>1 DEF RunPopd
  <2>2. CASE t # <<>>
    <3> DEFINE g == IF t[Len(t)] \in exists THEN Go(t[Len(t)]) ELSE place
    <3>1. g \in Place
      BY <1>0, GoType
    <3>2. place' = [g EXCEPT !.stack = Popped(t)]
      BY <1>3, <2>2 DEF RunPopd
    <3>3. Popped(t) \in Seq(Dirs) /\ Len(Popped(t)) = Len(t) - 1
      BY <1>0, <2>2, PoppedType
    <3> HIDE DEF g
    <3>4. place' \in Place /\ place'.stack = Popped(t)
      BY <3>1, <3>2, <3>3 DEF Place
    <3> QED BY <1>0, <3>3, <3>4, SessionAssumption
  <2> QED BY <2>1, <2>2
<1> QED BY <1>1, <1>2, <1>3
-----------------------------------------------------------------------------
(* The types, and the entry that the editor is in *)

IInv == TypeOK /\ EditorInside

LEMMA HomeType ==
    ASSUME NEW o \in BOOLEAN
    PROVE  /\ AtHome \in Place /\ Len(AtHome.stack) <= StackMax
           /\ [AtHome EXCEPT !.orphan = o] \in Place
           /\ Len([AtHome EXCEPT !.orphan = o].stack) <= StackMax
<1>1. <<>> \in Seq(Dirs) /\ Len(<<>>) = 0 /\ 0 <= StackMax
  BY SessionAssumption
<1>2. Home \in Dirs
  BY SessionAssumption
<1> QED BY <1>1, <1>2 DEF AtHome, Place

LEMMA InitTypes == Init => IInv
<1> SUFFICES ASSUME Init PROVE IInv
  OBVIOUS
<1>1. place \in Place /\ Len(place.stack) <= StackMax
  BY HomeType DEF Init
<1>2. table \in [1..Slots -> Entry]
  BY DEF Init, Free, Entry
<1>3. hist \in Seq(Line) /\ file \in Seq(Line) /\ log \in Seq(Line) /\ doing \in Seq(Words)
      /\ Len(hist) <= HistMax
  BY SessionAssumption DEF Init
<1>4. used \in [entries : Nat, lives : Nat]
  BY DEF Init
<1>5. keys \in Keyboards /\ tty \in BOOLEAN /\ phase = "loading" /\ at \in Nat
      /\ index \in Nat /\ rewritten \in BOOLEAN /\ exists \subseteq Dirs /\ how = "running"
  BY DEF Init
<1> QED BY <1>1, <1>2, <1>3, <1>4, <1>5 DEF IInv, TypeOK, EditorInside

\* What the buffer of the editor may hold is a line.
LEMMA TypableType ==
    ASSUME TypeOK
    PROVE  Typable \subseteq Line
<1>1. keys.lines \subseteq Line
  BY SessionAssumption DEF TypeOK, Keyboard
<1>2. {hist[i] : i \in DOMAIN hist} \subseteq Line
  BY DEF TypeOK
<1> QED BY <1>1, <1>2 DEF Typable

\* What Enter, an empty line and an end of input leave of the history.
LEMMA LeftType ==
    ASSUME IInv, phase = "edit"
    PROVE  Left \in Seq(Line) /\ Len(Left) <= HistMax
<1>1. hist \in Seq(Line) /\ Len(hist) <= HistMax /\ tty \in BOOLEAN
  BY DEF IInv, TypeOK
<1>2. CASE tty
  <2>1. hist # <<>>
    BY <1>2 DEF IInv, EditorInside
  <2>2. Popped(hist) \in Seq(Line) /\ Len(Popped(hist)) = Len(hist) - 1
    BY <1>1, <2>1, PoppedType
  <2> QED BY <1>1, <1>2, <2>2, SessionAssumption DEF Left
<1>3. CASE ~tty
  BY <1>1, <1>3 DEF Left
<1> QED BY <1>2, <1>3, <1>1

LEMMA NextTypes == IInv /\ [Next]_vars => IInv'
<1> SUFFICES ASSUME IInv, [Next]_vars PROVE IInv'
  OBVIOUS
<1>0. TypeOK /\ EditorInside
  BY DEF IInv
<1>h. /\ hist \in Seq(Line) /\ Len(hist) <= HistMax /\ file \in Seq(Line)
      /\ log \in Seq(Line) /\ at \in Nat
  BY <1>0 DEF TypeOK
<1>1. CASE LoadLine
  <2>1. file[at + 1] \in Line
    BY <1>1, <1>h DEF LoadLine
  <2>2. hist' \in Seq(Line) /\ Len(hist') <= HistMax
    BY <1>1, <1>h, <2>1, AddedType DEF LoadLine
  <2>3. log' \in Seq(Line)
    BY <1>1, <1>h, <2>1, LoggedType DEF LoadLine
  <2> QED BY <1>0, <1>1, <2>2, <2>3 DEF LoadLine, IInv, TypeOK, EditorInside
<1>2. CASE LoadEnds
  BY <1>0, <1>2 DEF LoadEnds, IInv, TypeOK, EditorInside
<1>3. CASE EditStart
  <2>1. /\ hist' \in Seq(Line) /\ Len(hist') <= HistMax
        /\ tty => hist' # <<>>
    BY <1>3, <1>h, EmptyIsLine, AddedType DEF EditStart
  <2>2. index' = 0 /\ tty' = tty /\ (tty => index' < Len(hist'))
    <3>1. index' = 0 /\ tty' = tty
      BY <1>3 DEF EditStart
    <3>2. hist' # <<>> => Len(hist') \in Nat /\ Len(hist') > 0
      BY <2>1
    <3> QED BY <2>1, <3>1, <3>2
  <2> QED BY <1>0, <1>3, <2>1, <2>2 DEF EditStart, IInv, TypeOK, EditorInside
<1>4. CASE Interrupted
  <2>1. rewritten' \in BOOLEAN
    BY <1>0, <1>4 DEF Interrupted, Strays, Stray, TypeOK
  <2> QED BY <1>0, <1>4, <2>1 DEF Interrupted, IInv, TypeOK, EditorInside
<1>18. ASSUME NEW text \in Typable \cup {Empty}, HistoryNext(text) PROVE IInv'
  <2>1. text \in Line
    BY <1>0, TypableType, EmptyIsLine
  <2>2. /\ hist' = [hist EXCEPT ![Len(hist) - index] = text]
        /\ phase' = "edit" /\ tty /\ tty' = tty /\ hist # <<>>
    BY <1>0, <1>18 DEF HistoryNext, EditorInside
  <2>3. index \in 0..Len(hist) - 1 /\ Len(hist) \in Nat
    <3>1. index \in Nat /\ index < Len(hist) /\ Len(hist) \in Nat
      BY <1>0, <1>18 DEF HistoryNext, EditorInside, TypeOK
    <3> QED BY <3>1
  <2>8. hist' \in Seq(Line) /\ Len(hist') = Len(hist)
    <3>1. Len(hist) - index \in 1..Len(hist)
      BY <2>3
    <3> QED BY <1>h, <2>1, <2>2, <3>1, ExceptSeq
  <2>4. index' \in 0..Len(hist) - 1
    <3>2. PICK to : index' = IF to \in 0..Len(hist) - 1 THEN to ELSE index
      BY <1>18 DEF HistoryNext
    <3> QED BY <2>3, <3>2
  <2>5. hist' # <<>> /\ index' \in Nat /\ index' < Len(hist')
    BY <2>3, <2>4, <2>8
  <2>6. rewritten' \in BOOLEAN
    BY <1>0, <1>18 DEF HistoryNext, TypeOK
  <2>7. UNCHANGED <<keys, tty, phase, at, file, doing, table, place, exists, how, log, used>>
    BY <1>18 DEF HistoryNext
  <2> QED BY <1>0, <1>h, <2>2, <2>5, <2>6, <2>7, <2>8 DEF IInv, TypeOK, EditorInside
<1>5. ASSUME NEW line \in Typable, Enter(line) PROVE IInv'
  <2>1. line \in Line
    BY <1>0, TypableType
  <2>2. Left \in Seq(Line) /\ Len(Left) <= HistMax
    BY <1>5, LeftType DEF Enter
  <2> DEFINE meant == Meant(Left, line)
  <2>3. meant \in Line
    BY <2>1, <2>2, MeantType
  <2>4. meant.words \in Seq(Words)
    BY <2>3 DEF Line
  <2>5. /\ hist' = Added(Left, meant)
        /\ log' = Logged(meant)
        /\ doing' = Unaliased(meant.words)
    BY <1>5 DEF Enter
  <2> HIDE DEF meant
  <2>6. hist' \in Seq(Line) /\ Len(hist') <= HistMax
    BY <2>2, <2>3, <2>5, AddedType
  <2>7. log' \in Seq(Line)
    BY <1>h, <2>3, <2>5, LoggedType
  <2>8. doing' \in Seq(Words)
    BY <1>0, <2>4, <2>5, UnaliasedType
  <2>9. used' \in [entries : Nat, lives : Nat]
    <3>1. used \in [entries : Nat, lives : Nat]
      BY <1>0 DEF TypeOK
    <3>2. used' = [used EXCEPT !.entries = @ + 1]
      BY <1>5 DEF Enter
    <3> QED BY <3>1, <3>2
  <2> QED BY <1>0, <1>5, <2>6, <2>7, <2>8, <2>9 DEF Enter, IInv, TypeOK, EditorInside
<1>6. CASE EnterNothing
  <2>1. Left \in Seq(Line) /\ Len(Left) <= HistMax
    BY <1>6, LeftType DEF EnterNothing
  <2> QED BY <1>0, <1>6, <2>1 DEF EnterNothing, IInv, TypeOK, EditorInside
<1>7. CASE Leave
  <2>1. Left \in Seq(Line) /\ Len(Left) <= HistMax
    BY <1>7, LeftType DEF Leave
  <2> QED BY <1>0, <1>7, <2>1 DEF Leave, StartSave, IInv, TypeOK, EditorInside
<1>8. CASE CtrlC
  <2>1. rewritten' \in BOOLEAN
    BY <1>0, <1>8 DEF CtrlC, Strays, Stray, TypeOK
  <2> QED BY <1>0, <1>8, <2>1 DEF CtrlC, StartSave, IInv, TypeOK, EditorInside
<1>9. CASE Run
  <2>1. table' \in [1..Slots -> Entry]
    <3>1. CASE RunAlias
      <4>1. CASE Request(doing).op = "set"
        BY <1>0, <3>1, <4>1, RequestType, AliasSetType DEF RunAlias
      <4>2. CASE Request(doing).op # "set"
        BY <1>0, <3>1, <4>2, AliasUnsetType DEF RunAlias
      <4> QED BY <4>1, <4>2
    <3>2. CASE RunCd \/ RunPushd \/ RunPopd \/ RunOther
      BY <1>0, <3>2 DEF RunCd, RunPushd, RunPopd, RunOther, TypeOK
    <3> QED BY <1>9, <3>1, <3>2 DEF Run
  <2>2. place' \in Place /\ Len(place'.stack) <= StackMax
    <3>1. CASE RunCd \/ RunPushd \/ RunPopd
      BY <1>0, <3>1, MoveType
    <3>2. CASE RunAlias \/ RunOther
      BY <1>0, <3>2 DEF RunAlias, RunOther, TypeOK
    <3> QED BY <1>9, <3>1, <3>2 DEF Run
  <2>3. UNCHANGED <<keys, tty, hist, at, index, file, exists, how, log, rewritten, used>>
        /\ phase' = "prompt" /\ doing' = <<>>
    BY <1>9 DEF Run
  <2> QED BY <1>0, <2>1, <2>2, <2>3 DEF IInv, TypeOK, EditorInside
<1>10. CASE RunExit
  BY <1>0, <1>10 DEF RunExit, IInv, TypeOK, EditorInside
<1>11. CASE Terminate
  <2>1. rewritten' \in BOOLEAN
    BY <1>0, <1>11 DEF Terminate, Strays, Stray, TypeOK
  <2> QED BY <1>0, <1>11, <2>1 DEF Terminate, StartSave, IInv, TypeOK, EditorInside
<1>12. CASE Kill
  BY <1>0, <1>12 DEF Kill, IInv, TypeOK, EditorInside
<1>13. CASE SaveLine
  <2>1. hist[Len(file) + 1] \in Line
    BY <1>13, <1>h DEF SaveLine
  <2>2. file' \in Seq(Line)
    BY <1>13, <1>h, <2>1 DEF SaveLine
  <2> QED BY <1>0, <1>13, <2>2 DEF SaveLine, IInv, TypeOK, EditorInside
<1>14. CASE SaveEnds
  BY <1>0, <1>14 DEF SaveEnds, IInv, TypeOK, EditorInside
<1>15. CASE Restart
  <2>1. place' \in Place /\ Len(place'.stack) <= StackMax
    BY <1>15, HomeType DEF Restart
  <2>2. table' \in [1..Slots -> Entry]
    BY <1>15 DEF Restart, Free, Entry
  <2>3. used' \in [entries : Nat, lives : Nat]
    BY <1>0, <1>15 DEF Restart, TypeOK
  <2>4. hist' = <<>> /\ hist' \in Seq(Line) /\ Len(hist') <= HistMax
    BY <1>15, SessionAssumption DEF Restart
  <2>5. log' \in Seq(Line) /\ doing' \in Seq(Words) /\ at' \in Nat
    BY <1>15 DEF Restart
  <2>8. index' \in Nat /\ rewritten' \in BOOLEAN
    BY <1>15 DEF Restart
  <2>6. /\ keys' = keys /\ file' = file /\ exists' = exists /\ tty' \in BOOLEAN
        /\ phase' = "loading" /\ how' = "running"
    BY <1>15 DEF Restart
  <2>7. EditorInside'
    BY <2>6 DEF EditorInside
  <2> QED BY <1>0, <2>1, <2>2, <2>3, <2>4, <2>5, <2>6, <2>7, <2>8 DEF IInv, TypeOK
<1>16. ASSUME NEW d \in Dirs, RemoveDir(d) \/ MakeDir(d) PROVE IInv'
  <2>1. place' \in Place /\ Len(place'.stack) <= StackMax /\ exists' \subseteq Dirs
    BY <1>0, <1>16 DEF RemoveDir, MakeDir, TypeOK, Place
  <2> QED BY <1>0, <1>16, <2>1 DEF RemoveDir, MakeDir, IInv, TypeOK, EditorInside
<1>17. CASE UNCHANGED vars
  BY <1>0, <1>17 DEF vars, IInv, TypeOK, EditorInside
<1> QED BY <1>1, <1>2, <1>3, <1>4, <1>5, <1>6, <1>7, <1>8, <1>9, <1>10, <1>11, <1>12,
           <1>13, <1>14, <1>15, <1>16, <1>17, <1>18 DEF Next

THEOREM SessionInvariance == Spec => []IInv
  BY InitTypes, NextTypes, PTL DEF Spec

\* Every variable keeps its type, for any keyboard, limits and crashes: the
\* history, the stack and the slots never outgrow their tables.
THEOREM SessionTypes == Spec => []TypeOK
<1>1. IInv => TypeOK
  BY DEF IInv
<1> QED BY <1>1, SessionInvariance, PTL

\* In the editor there is an entry to drop, and the entry that the keys replace is
\* one of the history, however often they are pressed.
THEOREM EditorStaysInside == Spec => []EditorInside
<1>1. IInv => EditorInside
  BY DEF IInv
<1> QED BY <1>1, SessionInvariance, PTL
-----------------------------------------------------------------------------
(* The slots of the aliases as a map *)

Used(T)   == {i \in DOMAIN T : T[i].used}
HasName(T, n) == {i \in DOMAIN T : T[i].used /\ T[i].name = n}
NamesOf(T) == {T[i].name : i \in Used(T)}
MapOf(T)  == [n \in NamesOf(T) |-> T[First(HasName(T, n))].value]
Unique(T) == \A i, j \in DOMAIN T :
                 T[i].used /\ T[j].used /\ T[i].name = T[j].name => i = j

LEMMA MapReads ==
    ASSUME NEW T \in [1..Slots -> Entry], Unique(T), NEW i \in Used(T)
    PROVE  /\ T[i].name \in DOMAIN MapOf(T)
           /\ MapOf(T)[T[i].name] = T[i].value
<1> DEFINE n == T[i].name
<1>1. i \in HasName(T, n) /\ HasName(T, n) \in SUBSET (1..Slots)
  BY DEF HasName, Used
<1>2. First(HasName(T, n)) \in HasName(T, n)
  BY <1>1, FirstIn
<1>3. First(HasName(T, n)) = i
  BY <1>1, <1>2 DEF HasName, Unique, Used
<1>4. n \in NamesOf(T)
  BY DEF NamesOf
<1> QED BY <1>3, <1>4 DEF MapOf

Filled(T, k, n, v)   == [T EXCEPT ![k] = [used |-> TRUE, name |-> n, value |-> v]]
Takes(T, k, n)       == k \in HasName(T, n) \/ (~T[k].used /\ HasName(T, n) = {})
Extended(map, n, v)  == [m \in DOMAIN map \cup {n} |-> IF m = n THEN v ELSE map[m]]

\* Setting the slot that has the name, or a free one, defines the name.
LEMMA SetDefines ==
    ASSUME NEW T \in [1..Slots -> Entry], Unique(T), NEW k \in 1..Slots,
           NEW n \in Words, NEW v \in Seq(Words), NEW U,
           U = Filled(T, k, n, v),
           Takes(T, k, n)
    PROVE  /\ Unique(U)
           /\ MapOf(U) = Extended(MapOf(T), n, v)
<1>1. [used |-> TRUE, name |-> n, value |-> v] \in Entry
  BY DEF Entry
<1>2. U \in [1..Slots -> Entry]
  BY <1>1 DEF Filled
<1>3. /\ U[k].used /\ U[k].name = n /\ U[k].value = v
      /\ \A i \in 1..Slots \ {k} : U[i] = T[i] /\ (T[i].used => T[i].name # n)
  BY DEF HasName, Unique, Filled, Takes
<1>4. Unique(U)
  BY <1>2, <1>3 DEF Unique
<1>5. NamesOf(U) = NamesOf(T) \cup {n}
  <2>1. ASSUME NEW i \in Used(U) PROVE U[i].name \in NamesOf(T) \cup {n}
    BY <1>2, <1>3 DEF NamesOf, Used
  <2>2. ASSUME NEW i \in Used(T) PROVE T[i].name \in NamesOf(U)
    <3>1. CASE i = k
      <4>1. T[i].name = n /\ k \in Used(U)
        BY <1>2, <1>3, <3>1 DEF Used, HasName, Takes
      <4> QED BY <1>3, <4>1 DEF NamesOf
    <3>2. CASE i # k
      <4>1. i \in Used(U) /\ U[i] = T[i]
        BY <1>2, <1>3, <3>2 DEF Used
      <4> QED BY <4>1 DEF NamesOf
    <3> QED BY <3>1, <3>2
  <2>3. n \in NamesOf(U)
    <3>1. k \in Used(U)
      BY <1>2, <1>3 DEF Used
    <3> QED BY <1>3, <3>1 DEF NamesOf
  <2>4. NamesOf(U) \subseteq NamesOf(T) \cup {n}
    <3> SUFFICES ASSUME NEW m \in NamesOf(U) PROVE m \in NamesOf(T) \cup {n}
      OBVIOUS
    <3>1. PICK i \in Used(U) : m = U[i].name
      BY DEF NamesOf
    <3> QED BY <2>1, <3>1
  <2>5. NamesOf(T) \cup {n} \subseteq NamesOf(U)
    <3> SUFFICES ASSUME NEW m \in NamesOf(T) PROVE m \in NamesOf(U)
      BY <2>3
    <3>1. PICK i \in Used(T) : m = T[i].name
      BY DEF NamesOf
    <3> QED BY <2>2, <3>1
  <2> QED BY <2>4, <2>5
<1>6. ASSUME NEW m \in NamesOf(U)
      PROVE  MapOf(U)[m] = IF m = n THEN v ELSE MapOf(T)[m]
  <2>1. PICK i \in Used(U) : m = U[i].name
    BY DEF NamesOf
  <2>2. MapOf(U)[m] = U[i].value
    BY <1>2, <1>4, <2>1, MapReads
  <2>3. CASE i = k
    BY <1>3, <2>1, <2>2, <2>3
  <2>4. CASE i # k
    <3>1. i \in Used(T) /\ U[i] = T[i] /\ m # n
      BY <1>2, <1>3, <2>1, <2>4 DEF Used
    <3>2. MapOf(T)[m] = T[i].value
      BY <2>1, <3>1, MapReads
    <3> QED BY <2>2, <3>1, <3>2
  <2> QED BY <2>3, <2>4
<1>7. DOMAIN MapOf(T) = NamesOf(T) /\ MapOf(U) = [m \in NamesOf(U) |-> MapOf(U)[m]]
  BY DEF MapOf
<1> QED BY <1>4, <1>5, <1>6, <1>7 DEF Extended

\* Freeing the slot that has the name forgets the name.
LEMMA FreeForgets ==
    ASSUME NEW T \in [1..Slots -> Entry], Unique(T), NEW n, NEW k \in HasName(T, n),
           NEW U, U = [T EXCEPT ![k] = Free]
    PROVE  /\ Unique(U)
           /\ MapOf(U) = [m \in DOMAIN MapOf(T) \ {n} |-> MapOf(T)[m]]
<1>1. U \in [1..Slots -> Entry] /\ k \in 1..Slots
  BY DEF Free, Entry, HasName
<1>2. /\ ~U[k].used /\ T[k].used /\ T[k].name = n
      /\ \A i \in 1..Slots \ {k} : U[i] = T[i] /\ (T[i].used => T[i].name # n)
  BY <1>1 DEF HasName, Unique, Free
<1>3. Unique(U)
  BY <1>1, <1>2 DEF Unique
<1>4. Used(U) = Used(T) \ {k}
  BY <1>1, <1>2 DEF Used
<1>5. NamesOf(U) = NamesOf(T) \ {n}
  <2>1. ASSUME NEW i \in Used(U) PROVE U[i].name \in NamesOf(T) \ {n}
    BY <1>1, <1>2, <1>4 DEF NamesOf, Used
  <2>2. ASSUME NEW i \in Used(T), T[i].name # n PROVE T[i].name \in NamesOf(U)
    <3>1. i \in Used(U) /\ U[i] = T[i]
      BY <1>1, <1>2, <1>4, <2>2 DEF Used
    <3> QED BY <3>1 DEF NamesOf
  <2>3. NamesOf(U) \subseteq NamesOf(T) \ {n}
    <3> SUFFICES ASSUME NEW m \in NamesOf(U) PROVE m \in NamesOf(T) \ {n}
      OBVIOUS
    <3>1. PICK i \in Used(U) : m = U[i].name
      BY DEF NamesOf
    <3> QED BY <2>1, <3>1
  <2>4. NamesOf(T) \ {n} \subseteq NamesOf(U)
    <3> SUFFICES ASSUME NEW m \in NamesOf(T), m # n PROVE m \in NamesOf(U)
      OBVIOUS
    <3>1. PICK i \in Used(T) : m = T[i].name
      BY DEF NamesOf
    <3> QED BY <2>2, <3>1
  <2> QED BY <2>3, <2>4
<1>6. ASSUME NEW m \in NamesOf(U) PROVE MapOf(U)[m] = MapOf(T)[m]
  <2>1. PICK i \in Used(U) : m = U[i].name
    BY DEF NamesOf
  <2>2. MapOf(U)[m] = U[i].value
    BY <1>1, <1>3, <2>1, MapReads
  <2>3. i \in Used(T) /\ U[i] = T[i]
    BY <1>1, <1>2, <1>4, <2>1 DEF Used
  <2>4. MapOf(T)[m] = T[i].value
    BY <2>1, <2>3, MapReads
  <2> QED BY <2>2, <2>3, <2>4
<1>7. DOMAIN MapOf(T) = NamesOf(T) /\ MapOf(U) = [m \in NamesOf(U) |-> MapOf(U)[m]]
  BY DEF MapOf
<1> QED BY <1>3, <1>5, <1>6, <1>7

\* There are fewer names than slots when a slot is free.
LEMMA RoomIsFree ==
    ASSUME NEW T \in [1..Slots -> Entry], Unique(T)
    PROVE  Cardinality(NamesOf(T)) < Slots <=> \E i \in 1..Slots : ~T[i].used
<1>1. Used(T) \in SUBSET (1..Slots) /\ Slots \in Nat
  BY SessionAssumption DEF Used
<1>2. IsFiniteSet(1..Slots) /\ Cardinality(1..Slots) = Slots
  <2>1. Slots > 0
    BY SessionAssumption
  <2> QED BY <1>1, <2>1, FS_Interval
<1>3. /\ IsFiniteSet(Used(T)) /\ Cardinality(Used(T)) <= Slots
      /\ Slots = Cardinality(Used(T)) => 1..Slots = Used(T)
  BY <1>1, <1>2, FS_Subset
<1>4. Cardinality(NamesOf(T)) = Cardinality(Used(T))
  <2> DEFINE f == [i \in Used(T) |-> T[i].name]
  <2>1. f \in Injection(Used(T), NamesOf(T))
    BY <1>1 DEF Injection, IsInjective, Unique, NamesOf, Used
  <2>2. f \in Surjection(Used(T), NamesOf(T))
    BY DEF Surjection, NamesOf
  <2>3. ExistsBijection(Used(T), NamesOf(T))
    BY <2>1, <2>2 DEF ExistsBijection, Bijection
  <2> QED BY <1>3, <2>3, FS_Bijection
<1>5. Cardinality(Used(T)) \in Nat
  BY <1>3, FS_CardinalityType
<1>6. 1..Slots = Used(T) <=> \A i \in 1..Slots : T[i].used
  BY <1>1 DEF Used
<1>7. (\A i \in 1..Slots : T[i].used) => Cardinality(Used(T)) = Slots
  BY <1>2, <1>6
<1>8. Cardinality(Used(T)) = Slots => \A i \in 1..Slots : T[i].used
  BY <1>3, <1>6
<1>9. Cardinality(Used(T)) < Slots <=> Cardinality(Used(T)) # Slots
  BY <1>1, <1>3, <1>5
<1> QED BY <1>4, <1>7, <1>8, <1>9
-----------------------------------------------------------------------------
(* The slots implement the map *)

LEMMA MappedIs ==
    /\ Mapped = MapOf(table) /\ Mapped' = MapOf(table')
    /\ DOMAIN Mapped = NamesOf(table)
    /\ OneSlotEach <=> Unique(table)
  BY DEF Mapped, MapOf, NamesOf, Used, Named, HasName, OneSlotEach, Unique

MapInv == IInv /\ OneSlotEach

\* alias_set puts the name in the map, unless the map does not accept it.
LEMMA SetStep ==
    ASSUME MapInv, NEW n \in Words, NEW v \in Seq(Words), AliasSet(n, v)
    PROVE  /\ OneSlotEach'
           /\ Mapped' = IF Aliases!Accepts(n, v) THEN Aliases!With(n, v) ELSE Mapped
<1>1. /\ table \in [1..Slots -> Entry] /\ TypeOK /\ Unique(table)
      /\ DOMAIN table = 1..Slots
  BY MappedIs DEF MapInv, IInv, TypeOK
<1>2. Named(n) = HasName(table, n)
  BY DEF Named, HasName
<1>3. n \in NamesOf(table) <=> Named(n) # {}
  BY <1>2 DEF NamesOf, Used, HasName
<1>4. Unused # {} <=> Cardinality(NamesOf(table)) < Slots
  <2>1. Unused # {} <=> \E i \in 1..Slots : ~table[i].used
    BY <1>1 DEF Unused
  <2> QED BY <1>1, <2>1, RoomIsFree
<1>5. Aliases!Accepts(n, v) <=> ~Refused(n, v)
  <2>1. Refused(n, v) <=> n \notin Names \/ Len(v) > ValueMax \/ (Named(n) = {} /\ Unused = {})
    BY DEF Refused, To
  <2>2. Aliases!Accepts(n, v) <=> /\ n \in Names /\ Len(v) <= ValueMax
                                  /\ n \in NamesOf(table) \/ Cardinality(NamesOf(table)) < Slots
    BY MappedIs DEF Aliases!Accepts, Aliases!Cardinality, Cardinality
  <2>3. Len(v) <= ValueMax <=> ~(Len(v) > ValueMax)
    BY SessionAssumption
  <2> QED BY <1>3, <1>4, <2>1, <2>2, <2>3
<1>6. CASE Refused(n, v)
  <2>1. table' = table
    BY <1>6, AliasSetTo
  <2>2. Mapped' = Mapped
    BY <2>1, MappedIs
  <2> QED BY <1>1, <1>5, <1>6, <2>1, <2>2 DEF MapInv, OneSlotEach
<1>7. CASE ~Refused(n, v)
  <2> DEFINE k == First(To(n))
  <2>1. k \in To(n) /\ k \in 1..Slots
    BY <1>1, <1>7, SlotsIn, FirstIn DEF Refused
  <2>2. Takes(table, k, n)
    BY <1>2, <2>1 DEF To, Unused, Takes
  <2>3. table' = Filled(table, k, n, v)
    BY <1>7, AliasSetTo DEF Filled
  <2> HIDE DEF k
  <2>4. Unique(table') /\ MapOf(table') = Extended(MapOf(table), n, v)
    BY <1>1, <2>1, <2>2, <2>3, SetDefines
  <2>5. OneSlotEach'
    BY <2>4 DEF OneSlotEach, Unique
  <2>6. Mapped' = Aliases!With(n, v)
    BY <2>4, MappedIs DEF Aliases!With, Extended
  <2> QED BY <1>5, <1>7, <2>5, <2>6
<1> QED BY <1>6, <1>7

\* alias_unset takes the name from the map.
LEMMA UnsetStep ==
    ASSUME MapInv, NEW n, AliasUnset(n)
    PROVE  OneSlotEach' /\ Mapped' = Aliases!Without(n)
<1>1. table \in [1..Slots -> Entry] /\ TypeOK /\ Unique(table)
  BY MappedIs DEF MapInv, IInv, TypeOK
<1>2. Named(n) = HasName(table, n)
  BY DEF Named, HasName
<1>3. CASE Named(n) = {}
  <2>1. table' = table
    BY <1>3 DEF AliasUnset
  <2>2. n \notin DOMAIN Mapped
    BY <1>2, <1>3, MappedIs DEF NamesOf, Used, HasName
  <2>3. Mapped = [m \in DOMAIN Mapped \ {n} |-> Mapped[m]]
    <3>1. DOMAIN Mapped \ {n} = DOMAIN Mapped
      BY <2>2
    <3>2. Mapped = [m \in DOMAIN Mapped |-> Mapped[m]]
      BY DEF Mapped
    <3> QED BY <3>1, <3>2
  <2>4. Mapped' = Mapped
    BY <2>1, MappedIs
  <2> QED BY <2>1, <2>3, <2>4 DEF MapInv, OneSlotEach, Aliases!Without
<1>4. CASE Named(n) # {}
  <2> DEFINE k == First(Named(n))
  <2>1. k \in HasName(table, n)
    BY <1>1, <1>2, <1>4, SlotsIn, FirstIn
  <2>2. table' = [table EXCEPT ![k] = Free]
    BY <1>4 DEF AliasUnset
  <2> HIDE DEF k
  <2>3. /\ Unique(table')
        /\ MapOf(table') = [m \in DOMAIN MapOf(table) \ {n} |-> MapOf(table)[m]]
    BY <1>1, <2>1, <2>2, FreeForgets
  <2>4. OneSlotEach'
    BY <2>3 DEF OneSlotEach, Unique
  <2> QED BY <2>3, <2>4, MappedIs DEF Aliases!Without
<1> QED BY <1>3, <1>4

\* A new shell starts with free slots, which are the empty map.
LEMMA NoAliases ==
    ASSUME NEW T, T = [i \in 1..Slots |-> Free]
    PROVE  Unique(T) /\ MapOf(T) = Aliases!Nothing
<1>1. Used(T) = {}
  BY DEF Used, Free
<1>2. NamesOf(T) = {}
  BY <1>1 DEF NamesOf
<1> QED BY <1>1, <1>2 DEF Unique, Used, MapOf, Aliases!Nothing

LEMMA InitMap == Init => OneSlotEach /\ Aliases!Init
<1> SUFFICES ASSUME Init PROVE OneSlotEach /\ Aliases!Init
  OBVIOUS
<1>1. Unique(table) /\ MapOf(table) = Aliases!Nothing
  BY NoAliases DEF Init
<1>2. Asked.op = "none"
  BY DEF Init, Asked
<1> QED BY <1>1, <1>2, MappedIs DEF Aliases!Init

\* Every step of a session is a step of the map.
LEMMA NextMap == MapInv /\ [Next]_vars => OneSlotEach' /\ [Aliases!Next]_<<Mapped, Asked>>
<1> SUFFICES ASSUME MapInv, [Next]_vars
             PROVE  OneSlotEach' /\ [Aliases!Next]_<<Mapped, Asked>>
  OBVIOUS
<1>0. TypeOK /\ OneSlotEach
  BY DEF MapInv, IInv
<1>s. ASSUME UNCHANGED table PROVE OneSlotEach' /\ Mapped' = Mapped
  BY <1>0, <1>s, MappedIs DEF OneSlotEach
<1>1. CASE LoadLine \/ LoadEnds \/ EditStart \/ Interrupted \/ EnterNothing
           \/ (\E line \in Typable : Enter(line))
           \/ (\E text \in Typable \cup {Empty} : HistoryNext(text))
  <2>1. UNCHANGED table /\ phase \notin {"run", "saving", "ended"}
    BY <1>1 DEF LoadLine, LoadEnds, EditStart, Interrupted, EnterNothing, Enter, HistoryNext
  <2>2. Aliases!Ask
    BY <1>s, <2>1 DEF Aliases!Ask, Asked
  <2> QED BY <1>s, <2>1, <2>2 DEF Aliases!Next
<1>2. CASE Leave \/ CtrlC \/ Terminate \/ RunExit \/ Kill \/ SaveLine \/ SaveEnds
  <2>1. UNCHANGED table /\ phase' \in {"saving", "ended"}
    BY <1>2 DEF Leave, CtrlC, Terminate, StartSave, RunExit, Kill, SaveLine, SaveEnds
  <2>2. Asked'.op = "gone"
    BY <2>1 DEF Asked
  <2>3. Aliases!End
    BY <1>s, <2>1, <2>2 DEF Aliases!End
  <2> QED BY <1>s, <2>1, <2>3 DEF Aliases!Next
<1>3. CASE Run
  <2> DEFINE r == Request(doing)
  <2>1. Asked = r /\ Asked'.op = "none"
    BY <1>3 DEF Run, Asked
  <2>2. r.op \in {"none", "set", "unset"} /\ (r.op # "none" => r.name \in Words)
        /\ r.value \in Seq(Words)
    BY <1>0, RequestType
  <2>3. CASE RunAlias /\ r.op = "set"
    <3>1. AliasSet(r.name, r.value)
      BY <2>3 DEF RunAlias
    <3>2. OneSlotEach' /\ Mapped' = IF Aliases!Accepts(r.name, r.value)
                                    THEN Aliases!With(r.name, r.value) ELSE Mapped
      BY <2>2, <2>3, <3>1, SetStep
    <3>3. Aliases!Define
      BY <2>1, <2>3, <3>2 DEF Aliases!Define
    <3> QED BY <3>2, <3>3 DEF Aliases!Next
  <2>4. CASE RunAlias /\ r.op # "set"
    <3>1. AliasUnset(r.name) /\ r.op = "unset"
      BY <2>2, <2>4 DEF RunAlias
    <3>2. OneSlotEach' /\ Mapped' = Aliases!Without(r.name)
      BY <3>1, UnsetStep
    <3>3. Aliases!Undefine
      BY <2>1, <3>1, <3>2 DEF Aliases!Undefine
    <3> QED BY <3>2, <3>3 DEF Aliases!Next
  <2>5. CASE RunCd \/ RunPushd \/ RunPopd \/ RunOther
    <3>1. UNCHANGED table
      BY <2>5 DEF RunCd, RunPushd, RunPopd, RunOther
    <3>2. r.op = "none"
      BY <2>5 DEF RunCd, RunPushd, RunPopd, RunOther, Command, Request
    <3>3. Aliases!Ask
      BY <1>s, <2>1, <3>1, <3>2 DEF Aliases!Ask
    <3> QED BY <1>s, <3>1, <3>3 DEF Aliases!Next
  <2> QED BY <1>3, <2>3, <2>4, <2>5 DEF Run
<1>4. CASE Restart
  <2>1. Unique(table') /\ MapOf(table') = Aliases!Nothing
    BY <1>4, NoAliases DEF Restart
  <2>2. OneSlotEach' /\ Mapped' = Aliases!Nothing
    BY <2>1, MappedIs DEF OneSlotEach, Unique
  <2>3. Asked.op = "gone" /\ Asked'.op = "none"
    BY <1>4 DEF Restart, Asked
  <2> QED BY <2>2, <2>3 DEF Aliases!Next, Aliases!Restart
<1>5. ASSUME NEW d \in Dirs, RemoveDir(d) \/ MakeDir(d)
      PROVE  OneSlotEach' /\ UNCHANGED <<Mapped, Asked>>
  <2>1. UNCHANGED <<table, phase, doing>>
    BY <1>5 DEF RemoveDir, MakeDir
  <2>2. Asked' = Asked
    BY <2>1 DEF Asked
  <2> QED BY <1>s, <2>1, <2>2
<1>6. CASE UNCHANGED vars
  <2>1. UNCHANGED <<table, phase, doing>>
    BY <1>6 DEF vars
  <2>2. Asked' = Asked
    BY <2>1 DEF Asked
  <2> QED BY <1>s, <2>1, <2>2
<1> QED BY <1>1, <1>2, <1>3, <1>4, <1>5, <1>6 DEF Next

\* For any number of slots, names and sessions: the table of alias.c is the map
\* that its users ask for, and a name is in it once.
THEOREM TableImplementsMap == Spec => TableIsMap /\ []OneSlotEach
<1>1. Init => MapInv /\ Aliases!Init
  BY InitMap, InitTypes DEF MapInv
<1>2. MapInv /\ [Next]_vars => MapInv' /\ [Aliases!Next]_<<Mapped, Asked>>
  BY NextMap, NextTypes DEF MapInv
<1>3. MapInv => OneSlotEach
  BY DEF MapInv
<1> QED BY <1>1, <1>2, <1>3, PTL DEF Spec, TableIsMap, Aliases!Spec, Aliases!vars
-----------------------------------------------------------------------------
(* The stack of directories *)

\* What a step does to the stack, in any session.
StackStep ==
    LET old == place.stack new == place'.stack IN
    phase # "ended" /\ new # old =>
        \/ old # <<>> /\ new = Popped(old)
           /\ (place'.cwd = Last(old) \/ Last(old) \notin exists)
        \/ new = Append(old, place.cwd) /\ ~place.orphan

LEMMA NextStack == TypeOK /\ [Next]_vars => StackStep
<1> SUFFICES ASSUME TypeOK, [Next]_vars, phase # "ended" PROVE StackStep
  BY DEF StackStep
<1>0. place \in Place /\ place.stack \in Seq(Dirs) /\ exists \subseteq Dirs
  BY DEF TypeOK, Place
<1>1. CASE LoadLine \/ LoadEnds \/ EditStart \/ Interrupted \/ EnterNothing
           \/ (\E line \in Typable : Enter(line))
           \/ (\E text \in Typable \cup {Empty} : HistoryNext(text))
           \/ Leave \/ CtrlC \/ Terminate \/ RunExit \/ Kill \/ SaveLine \/ SaveEnds
           \/ UNCHANGED vars
  <2>1. place' = place
    BY <1>1 DEF LoadLine, LoadEnds, EditStart, Interrupted, EnterNothing, Enter, Leave,
                HistoryNext, CtrlC, Terminate, StartSave, RunExit, Kill, SaveLine, SaveEnds, vars
  <2> QED BY <2>1 DEF StackStep
<1>2. CASE Run
  <2>1. CASE RunAlias \/ RunOther
    BY <2>1 DEF RunAlias, RunOther, StackStep
  <2>2. CASE RunCd
    <3> DEFINE d == IF Len(doing) = 1 THEN Home
                    ELSE IF doing[2] = "-" THEN place.old ELSE doing[2]
    <3>1. CASE d \notin exists
      BY <2>2, <3>1 DEF RunCd, StackStep
    <3>2. CASE d \in exists
      <4>1. Go(d) \in Place /\ Go(d).stack = place.stack
        BY <3>2, GoType
      <4>2. place' = [Go(d) EXCEPT !.pwd = d, !.old = IF place.orphan THEN @ ELSE place.cwd]
        BY <2>2, <3>2 DEF RunCd
      <4>3. place'.stack = place.stack
        BY <4>1, <4>2 DEF Place
      <4> QED BY <4>3 DEF StackStep
    <3> QED BY <3>1, <3>2
  <2>3. CASE RunPushd
    <3>1. CASE Len(place.stack) >= StackMax \/ place.orphan \/ doing[2] \notin exists
      BY <2>3, <3>1 DEF RunPushd, StackStep
    <3>2. CASE ~(Len(place.stack) >= StackMax \/ place.orphan \/ doing[2] \notin exists)
      <4>1. Go(doing[2]) \in Place /\ Go(doing[2]).stack = place.stack
        BY <3>2, GoType
      <4>2. place' = [Go(doing[2]) EXCEPT !.stack = Append(@, place.cwd)]
        BY <2>3, <3>2 DEF RunPushd
      <4>3. place'.stack = Append(place.stack, place.cwd)
        BY <4>1, <4>2 DEF Place
      <4> QED BY <3>2, <4>3 DEF StackStep
    <3> QED BY <3>1, <3>2
  <2>4. CASE RunPopd
    <3> DEFINE t == place.stack
    <3>1. CASE t = <<>>
      BY <2>4, <3>1 DEF RunPopd, StackStep
    <3>2. CASE t # <<>>
      <4> DEFINE g == IF t[Len(t)] \in exists THEN Go(t[Len(t)]) ELSE place
      <4>1. g \in Place /\ (t[Len(t)] \in exists => g.cwd = t[Len(t)])
        BY <1>0, GoType
      <4>2. place' = [g EXCEPT !.stack = Popped(t)]
        BY <2>4, <3>2 DEF RunPopd
      <4> HIDE DEF g
      <4>3. place'.stack = Popped(t) /\ place'.cwd = g.cwd
        BY <4>1, <4>2 DEF Place
      <4>4. place'.cwd = Last(t) \/ Last(t) \notin exists
        BY <4>1, <4>3 DEF Last
      <4> QED BY <3>2, <4>3, <4>4 DEF StackStep
    <3> QED BY <3>1, <3>2
  <2> QED BY <1>2, <2>1, <2>2, <2>3, <2>4 DEF Run
<1>3. CASE Restart
  BY <1>3 DEF Restart
<1>4. ASSUME NEW d \in Dirs, RemoveDir(d) \/ MakeDir(d) PROVE StackStep
  <2>1. place'.stack = place.stack
    BY <1>0, <1>4 DEF RemoveDir, MakeDir, Place
  <2> QED BY <2>1 DEF StackStep
<1> QED BY <1>1, <1>2, <1>3, <1>4 DEF Next

\* For any directories that come and go and any size of the stack: pushd adds the
\* directory it leaves, popd leads back to the last one unless that is gone, and
\* nothing else touches the stack of a shell.
THEOREM StackIsWayBack == Spec => StackLeadsBack
<1>1. TypeOK /\ [Next]_vars => [StackStep]_vars
  BY NextStack
<1>2. StackLeadsBack <=> [][StackStep]_vars
  BY DEF StackLeadsBack, StackStep
<1> QED BY <1>1, <1>2, SessionTypes, PTL DEF Spec

-----------------------------------------------------------------------------
(* The history against the log of what was meant *)


\* f takes the entries of h to the log l: each line to itself, the next entry
\* to the same place or, if it is a line, to the next, the last to the last.
Follows(h, l, f) ==
    /\ f \in [1..Len(h) -> 0..Len(l)]
    /\ \A i \in 1..Len(h) : h[i] # Empty => f[i] > 0 /\ h[i] = l[f[i]]
    /\ \A i \in 1..Len(h) - 1 : \/ f[i + 1] = f[i]
                                \/ h[i + 1] # Empty /\ f[i + 1] = f[i] + 1
    /\ h # <<>> => f[Len(h)] = Len(l)

\* The history starts where the log does.
Whole(h, l, f) == IF h = <<>> THEN l = <<>> ELSE f[1] = 0 \/ (f[1] = 1 /\ h[1] # Empty)

\* The history is full, or was until the line being edited was dropped.
Spent(h) == Len(h) = HistMax \/ (Len(h) = HistMax - 1 /\ h[Len(h)] # Empty)

Mirrors(h, l) == \E f : Follows(h, l, f) /\ (Whole(h, l, f) \/ Spent(h))

-----------------------------------------------------------------------------
(* What is added and dropped *)

LEMMA Limits == HistMax \in Nat /\ HistMax > 1
  BY SessionAssumption

\* An added line stays out if it is a repetition, and else takes the end; the
\* first entry goes if there is no room.
LEMMA AddedFacts ==
    ASSUME NEW h \in Seq(Line), Len(h) <= HistMax, NEW x \in Line
    PROVE  \/ Added(h, x) = h /\ h # <<>> /\ h[Len(h)] = x
           \/ /\ h = <<>> \/ h[Len(h)] # x
              /\ \E d \in {0, 1} :
                   /\ d = 1 <=> Len(h) = HistMax
                   /\ Added(h, x) \in Seq(Line) /\ Len(Added(h, x)) = Len(h) - d + 1
                   /\ \A i \in 1..Len(h) - d : Added(h, x)[i] = h[i + d]
                   /\ Added(h, x)[Len(h) - d + 1] = x
<1>1. CASE h # <<>> /\ h[Len(h)] = x
  BY <1>1 DEF Added
<1>2. CASE ~(h # <<>> /\ h[Len(h)] = x) /\ Len(h) = HistMax
  <2>1. h # <<>>
    BY <1>2, Limits
  <2>2. /\ Tail(h) \in Seq(Line) /\ Len(Tail(h)) = Len(h) - 1
        /\ \A i \in 1..Len(h) - 1 : Tail(h)[i] = h[i + 1]
    BY <2>1
  <2>3. Added(h, x) = Append(Tail(h), x)
    BY <1>2 DEF Added
  <2>4. /\ Added(h, x) \in Seq(Line) /\ Len(Added(h, x)) = Len(h)
        /\ \A i \in 1..Len(h) - 1 : Added(h, x)[i] = Tail(h)[i]
        /\ Added(h, x)[Len(h)] = x
    BY <2>2, <2>3
  <2> QED BY <1>2, <2>2, <2>4
<1>3. CASE ~(h # <<>> /\ h[Len(h)] = x) /\ Len(h) # HistMax
  <2>1. Added(h, x) = Append(h, x)
    BY <1>3 DEF Added
  <2>2. /\ Added(h, x) \in Seq(Line) /\ Len(Added(h, x)) = Len(h) + 1
        /\ \A i \in 1..Len(h) : Added(h, x)[i] = h[i]
        /\ Added(h, x)[Len(h) + 1] = x
    BY <2>1
  <2> QED BY <1>3, <2>2
<1> QED BY <1>1, <1>2, <1>3

LEMMA CleanAdded ==
    ASSUME NEW h \in Seq(Line), Len(h) <= HistMax, Clean(h), NEW x \in Line
    PROVE  Clean(Added(h, x))
<1> DEFINE a == Added(h, x)
<1>1. CASE a = h
  BY <1>1
<1>2. CASE a # h
  <2>1. PICK d \in {0, 1} :
          /\ h = <<>> \/ h[Len(h)] # x
          /\ Len(a) = Len(h) - d + 1 /\ \A i \in 1..Len(h) - d : a[i] = h[i + d]
          /\ a[Len(h) - d + 1] = x
    BY <1>2, AddedFacts
  <2>2. Len(h) \in Nat
    OBVIOUS
  <2> HIDE DEF a
  <2> SUFFICES ASSUME NEW i \in 1..Len(a) - 1 PROVE a[i] # a[i + 1]
    BY DEF Clean, a
  <2>3. CASE i = Len(h) - d
    <3>1. h # <<>> /\ a[i] = h[Len(h)] /\ a[i + 1] = x
      BY <2>1, <2>2, <2>3
    <3> QED BY <2>1, <3>1
  <2>4. CASE i # Len(h) - d
    <3>1. a[i] = h[i + d] /\ a[i + 1] = h[i + d + 1] /\ i + d \in 1..Len(h) - 1
      BY <2>1, <2>2, <2>4
    <3> QED BY <3>1 DEF Clean
  <2> QED BY <2>3, <2>4
<1> QED BY <1>1, <1>2

LEMMA CleanPopped ==
    ASSUME NEW h \in Seq(Line), h # <<>>, Clean(h)
    PROVE  Clean(Popped(h))
<1>1. /\ Len(Popped(h)) = Len(h) - 1 /\ Len(h) \in Nat
      /\ \A i \in 1..Len(h) - 1 : Popped(h)[i] = h[i]
  BY PoppedType
<1> QED BY <1>1 DEF Clean

LEMMA CleanLogged ==
    ASSUME log \in Seq(Line), Clean(log), Empty \notin {log[i] : i \in 1..Len(log)},
           NEW x \in Line
    PROVE  /\ Clean(Logged(x))
           /\ Empty \notin {Logged(x)[i] : i \in 1..Len(Logged(x))}
<1>1. CASE Logged(x) = log
  BY <1>1
<1>2. CASE Logged(x) # log
  <2>1. /\ Logged(x) = Append(log, x) /\ x # Empty /\ (log = <<>> \/ log[Len(log)] # x)
    BY <1>2, LoggedType
  <2>2. /\ Len(Logged(x)) = Len(log) + 1 /\ Len(log) \in Nat
        /\ \A i \in 1..Len(log) : Logged(x)[i] = log[i]
        /\ Logged(x)[Len(log) + 1] = x
    BY <2>1
  <2>3. Clean(Logged(x))
    <3> SUFFICES ASSUME NEW i \in 1..Len(log) PROVE Logged(x)[i] # Logged(x)[i + 1]
      BY <2>2 DEF Clean
    <3>1. CASE i = Len(log)
      BY <2>1, <2>2, <3>1
    <3>2. CASE i # Len(log)
      BY <2>2, <3>2 DEF Clean
    <3> QED BY <3>1, <3>2
  <2>4. ASSUME NEW i \in 1..Len(log) + 1 PROVE Logged(x)[i] # Empty
    <3>1. CASE i = Len(log) + 1
      BY <2>1, <2>2, <3>1
    <3>2. CASE i # Len(log) + 1
      BY <2>2, <3>2
    <3> QED BY <3>1, <3>2
  <2> QED BY <2>2, <2>3, <2>4
<1> QED BY <1>1, <1>2

LEMMA NothingMirrors == Mirrors(<<>>, <<>>)
<1>1. Follows(<<>>, <<>>, <<>>)
  <2>1. Len(<<>>) = 0 /\ <<>> \in [1..0 -> 0..0]
    OBVIOUS
  <2> QED BY <2>1 DEF Follows
<1> QED BY <1>1 DEF Mirrors, Whole

LEMMA MirrorsAdded ==
    ASSUME NEW h \in Seq(Line), Len(h) <= HistMax, log \in Seq(Line), NEW x \in Line,
           Mirrors(h, log)
    PROVE  Mirrors(Added(h, x), Logged(x))
<1> DEFINE a == Added(h, x)
           l == Logged(x)
           n == Len(h)
<1>1. PICK f : Follows(h, log, f) /\ (Whole(h, log, f) \/ Spent(h))
  BY DEF Mirrors
<1>2. /\ n \in Nat /\ Len(log) \in Nat /\ f \in [1..n -> 0..Len(log)]
      /\ h # <<>> <=> n > 0
      /\ log # <<>> <=> Len(log) > 0
  BY <1>1 DEF Follows
<1>3. \/ l = log /\ (x = Empty \/ (log # <<>> /\ log[Len(log)] = x))
      \/ /\ x # Empty /\ (log = <<>> \/ log[Len(log)] # x)
         /\ Len(l) = Len(log) + 1
         /\ \A k \in 1..Len(log) : l[k] = log[k]
         /\ l[Len(l)] = x
  <2>1. /\ Append(log, x) \in Seq(Line) /\ Len(Append(log, x)) = Len(log) + 1
        /\ \A k \in 1..Len(log) : Append(log, x)[k] = log[k]
        /\ Append(log, x)[Len(log) + 1] = x
    OBVIOUS
  <2> QED BY <2>1, LoggedType
<1>4. Len(l) \in {Len(log), Len(log) + 1} /\ (Len(l) = Len(log) => l = log)
      /\ \A k \in 1..Len(log) : l[k] = log[k]
  BY <1>2, <1>3
<1>5. CASE a = h /\ h # <<>> /\ h[n] = x
  <2>1. f[n] = Len(log) /\ (x # Empty => f[n] > 0 /\ x = log[f[n]])
    BY <1>1, <1>2, <1>5 DEF Follows
  <2>2. l = log
    BY <1>2, <1>3, <2>1
  <2> QED BY <1>5, <2>2
<1>6. ASSUME NEW d \in {0, 1}, d = 1 <=> n = HistMax, h = <<>> \/ h[n] # x,
             Len(a) = n - d + 1, \A i \in 1..n - d : a[i] = h[i + d], a[n - d + 1] = x
      PROVE  Mirrors(a, l)
  <2> HIDE DEF a, l, n
  <2> DEFINE m == n - d + 1
             g == [i \in 1..m |-> IF i = m THEN Len(l) ELSE f[i + d]]
  <2>1. m \in Nat /\ m > 0 /\ Len(a) = m
    BY <1>2, <1>6, Limits
  <2>2. \A i \in 1..m - 1 : /\ i + d \in 1..n /\ g[i] = f[i + d] /\ a[i] = h[i + d]
    BY <1>2, <1>6, <2>1
  <2>3. g[m] = Len(l) /\ a[m] = x
    BY <1>6, <2>1
  <2>4. g \in [1..Len(a) -> 0..Len(l)]
    <3>1. ASSUME NEW i \in 1..m PROVE (IF i = m THEN Len(l) ELSE f[i + d]) \in 0..Len(l)
      <4>1. CASE i = m
        BY <1>2, <1>4, <4>1
      <4>2. CASE i # m
        <5>1. i + d \in 1..n
          BY <1>2, <1>6, <2>1, <4>2
        <5>2. f[i + d] \in 0..Len(log)
          BY <1>2, <5>1
        <5> QED BY <1>2, <1>4, <4>2, <5>2
      <4> QED BY <4>1, <4>2
    <3> QED BY <2>1, <3>1
  <2> HIDE DEF g, m
  <2>5. ASSUME NEW i \in 1..m, a[i] # Empty PROVE g[i] > 0 /\ a[i] = l[g[i]]
    <3>1. CASE i = m
      BY <1>2, <1>3, <2>3, <2>5, <3>1
    <3>2. CASE i # m
      <4>1. i \in 1..m - 1
        BY <2>1, <3>2
      <4>2. i + d \in 1..n /\ g[i] = f[i + d] /\ a[i] = h[i + d]
        BY <2>2, <4>1
      <4>3. f[i + d] > 0 /\ h[i + d] = log[f[i + d]] /\ f[i + d] \in 0..Len(log)
        BY <1>1, <1>2, <2>5, <4>2 DEF Follows, n
      <4> QED BY <1>2, <1>4, <4>2, <4>3
    <3> QED BY <3>1, <3>2
  <2>6. ASSUME NEW i \in 1..m - 1
        PROVE  g[i + 1] = g[i] \/ (a[i + 1] # Empty /\ g[i + 1] = g[i] + 1)
    <3>1. CASE i = m - 1
      <4>1. i + d = n /\ h # <<>> /\ g[i] = f[n] /\ i + 1 = m
        BY <1>2, <2>1, <2>2, <3>1 DEF m
      <4>2. f[n] = Len(log)
        BY <1>1, <4>1 DEF Follows, n
      <4> QED BY <1>2, <1>3, <2>3, <4>1, <4>2
    <3>2. CASE i # m - 1
      <4>1. i \in 1..m - 1 /\ i + 1 \in 1..m - 1 /\ i + d \in 1..n - 1
            /\ (i + 1) + d = (i + d) + 1
        BY <1>2, <2>1, <3>2 DEF m
      <4>2. /\ g[i] = f[i + d] /\ g[i + 1] = f[(i + d) + 1] /\ a[i + 1] = h[(i + d) + 1]
        BY <2>2, <4>1
      <4> QED BY <1>1, <4>1, <4>2 DEF Follows, n
    <3> QED BY <3>1, <3>2
  <2>7. Follows(a, l, g)
    <3>1. \A i \in 1..Len(a) : a[i] # Empty => g[i] > 0 /\ a[i] = l[g[i]]
      BY <2>1, <2>5
    <3>2. \A i \in 1..Len(a) - 1 :
            g[i + 1] = g[i] \/ (a[i + 1] # Empty /\ g[i + 1] = g[i] + 1)
      BY <2>1, <2>6
    <3>3. g[Len(a)] = Len(l)
      BY <2>1, <2>3
    <3> QED BY <2>4, <3>1, <3>2, <3>3 DEF Follows
  <2>8. Whole(a, l, g) \/ Spent(a)
    <3>1. CASE d = 1
      BY <1>2, <1>6, <2>1, <3>1 DEF Spent, m
    <3>2. CASE d = 0 /\ Spent(h)
      BY <1>2, <1>6, <2>1, <3>2, Limits DEF Spent, m, n
    <3>3. CASE d = 0 /\ Whole(h, log, f) /\ h = <<>>
      <4>1. log = <<>> /\ m = 1 /\ Len(log) = 0
        BY <1>2, <3>3 DEF Whole, m
      <4>2. g[1] = 0 \/ (g[1] = 1 /\ a[1] # Empty)
        BY <1>3, <2>3, <4>1
      <4>3. a # <<>>
        BY <2>1
      <4> QED BY <4>2, <4>3 DEF Whole
    <3>4. CASE d = 0 /\ Whole(h, log, f) /\ h # <<>>
      <4>1. 1 \in 1..m - 1 /\ 1 + d = 1
        BY <1>2, <3>4 DEF m
      <4>2. g[1] = f[1] /\ a[1] = h[1] /\ a # <<>>
        BY <2>1, <2>2, <4>1
      <4> QED BY <3>4, <4>2 DEF Whole
    <3> QED BY <1>1, <3>1, <3>2, <3>3, <3>4
  <2> QED BY <2>7, <2>8 DEF Mirrors
<1>7. (a = h /\ h # <<>> /\ h[n] = x) \/
      \E d \in {0, 1} : /\ d = 1 <=> n = HistMax
                        /\ h = <<>> \/ h[n] # x
                        /\ Len(a) = n - d + 1
                        /\ \A i \in 1..n - d : a[i] = h[i + d]
                        /\ a[n - d + 1] = x
  BY AddedFacts
<1> QED BY <1>5, <1>6, <1>7

\* The empty entry of the editor is dropped; it was the last one.
LEMMA MirrorsPopped ==
    ASSUME NEW h \in Seq(Line), h # <<>>, h[Len(h)] = Empty, Clean(h), NEW l \in Seq(Line),
           Mirrors(h, l)
    PROVE  Mirrors(Popped(h), l)
<1> DEFINE n == Len(h)
<1>1. PICK f : Follows(h, l, f) /\ (Whole(h, l, f) \/ Spent(h))
  BY DEF Mirrors
<1>2. PICK p : p = Popped(h)
  OBVIOUS
<1>3. /\ n \in Nat /\ n > 0 /\ p \in Seq(Line) /\ Len(p) = n - 1
      /\ \A i \in 1..n - 1 : p[i] = h[i]
      /\ p # <<>> <=> n > 1
  BY <1>2, PoppedType
<1> HIDE DEF n
<1>4. f \in [1..n -> 0..Len(l)] /\ f[n] = Len(l) /\ Len(l) \in Nat
  BY <1>1 DEF Follows, n
<1> DEFINE g == [i \in 1..n - 1 |-> f[i]]
<1>5. g \in [1..Len(p) -> 0..Len(l)] /\ \A i \in 1..n - 1 : g[i] = f[i]
  BY <1>3, <1>4
<1> HIDE DEF g
<1>6. n > 1 => f[n - 1] = Len(l)
  <2> SUFFICES ASSUME n > 1 PROVE f[n - 1] = Len(l)
    OBVIOUS
  <2>1. n - 1 \in 1..n - 1 /\ (n - 1) + 1 = n
    BY <1>3
  <2> QED BY <1>1, <1>4, <2>1 DEF Follows, n
<1>7. Follows(p, l, g)
  <2>1. \A i \in 1..n - 1 : p[i] # Empty => g[i] > 0 /\ p[i] = l[g[i]]
    BY <1>1, <1>3, <1>5 DEF Follows, n
  <2>2. ASSUME NEW i \in 1..(n - 1) - 1
        PROVE  g[i + 1] = g[i] \/ (p[i + 1] # Empty /\ g[i + 1] = g[i] + 1)
    <3>1. i \in 1..n - 1 /\ i + 1 \in 1..n - 1
      BY <1>3
    <3> QED BY <1>1, <1>3, <1>5, <3>1 DEF Follows, n
  <2>3. p # <<>> => g[n - 1] = Len(l)
    BY <1>3, <1>5, <1>6
  <2> QED BY <1>3, <1>5, <2>1, <2>2, <2>3 DEF Follows
<1>8. Whole(p, l, g) \/ Spent(p)
  <2>1. CASE n = 1
    <3>1. p = <<>> /\ ~Spent(h) /\ h[1] = Empty
      BY <1>3, <2>1, Limits DEF Spent, n
    <3>2. f[1] = 0 /\ Len(l) = 0
      BY <1>1, <1>4, <2>1, <3>1 DEF Whole
    <3>3. l = <<>>
      BY <3>2
    <3> QED BY <3>1, <3>3 DEF Whole
  <2>2. CASE n > 1 /\ Whole(h, l, f)
    <3>1. 1 \in 1..n - 1
      BY <1>3, <2>2
    <3> QED BY <1>3, <1>5, <2>2, <3>1 DEF Whole
  <2>3. CASE n > 1 /\ Spent(h)
    <3>1. n = HistMax
      BY <2>3 DEF Spent, n
    <3>2. n - 1 \in 1..n - 1 /\ (n - 1) + 1 = n
      BY <1>3, <2>3
    <3>3. p[n - 1] # Empty
      BY <1>3, <3>2 DEF Clean, n
    <3> QED BY <1>3, <3>1, <3>3 DEF Spent
  <2> QED BY <1>1, <1>3, <2>1, <2>2, <2>3
<1> QED BY <1>2, <1>7, <1>8 DEF Mirrors

-----------------------------------------------------------------------------
(* What mirrors the log is recent: the places are those that Recent counts *)

\* Over empty entries the place stays.
LEMMA FlatOverEmpty ==
    ASSUME NEW h \in Seq(Line), NEW l \in Seq(Line), NEW f, Follows(h, l, f),
           NEW i \in 1..Len(h), NEW j \in i..Len(h), \A k \in i + 1..j : h[k] = Empty
    PROVE  f[j] = f[i]
<1> DEFINE T == {k \in i..j : f[k] # f[i]}
<1>1. SUFFICES ASSUME T # {} PROVE FALSE
  BY DEF T
<1>2. Len(h) \in Nat /\ T \in SUBSET Nat
  OBVIOUS
<1>3. PICK m \in T : \A y \in T : m <= y
  BY <1>1, <1>2, LeastNat
<1>4. m \in i..j /\ f[m] # f[i] /\ m # i
  BY <1>3
<1> HIDE DEF T
<1>5. m - 1 \in i..j /\ m - 1 \in 1..Len(h) - 1 /\ (m - 1) + 1 = m /\ m \in i + 1..j
  BY <1>2, <1>4
<1>6. f[m - 1] = f[i]
  BY <1>3, <1>5 DEF T
<1>7. f[m] = f[m - 1]
  BY <1>5 DEF Follows
<1> QED BY <1>4, <1>6, <1>7

\* A set of places has a last one.
LEMMA LastIn ==
    ASSUME NEW n \in Nat, NEW S \in SUBSET (1..n), S # {}
    PROVE  \E k \in S : \A m \in k + 1..n : m \notin S
<1> DEFINE T == {d \in 0..n : n - d \in S}
<1>1. T # {} /\ T \in SUBSET Nat
  <2>1. PICK k \in S : TRUE
    OBVIOUS
  <2>2. n - k \in 0..n /\ n - (n - k) = k
    BY <2>1
  <2>3. n - k \in T
    BY <2>1, <2>2
  <2>4. T \in SUBSET Nat
    OBVIOUS
  <2> HIDE DEF T
  <2> QED BY <2>3, <2>4
<1>2. PICK d \in T : \A y \in T : d <= y
  BY <1>1, LeastNat
<1>3. n - d \in S /\ d \in 0..n
  BY <1>2
<1>4. ASSUME NEW m \in (n - d) + 1..n PROVE m \notin S
  <2>1. n - m \in 0..n /\ n - (n - m) = m /\ n - m < d
    BY <1>3
  <2>2. n - m \notin T
    <3> HIDE DEF T
    <3> QED BY <1>2, <1>3, <2>1
  <2> QED BY <2>1, <2>2
<1> QED BY <1>3, <1>4

\* The last entry up to i that is a line.
LEMMA LastLine ==
    ASSUME NEW h \in Seq(Line), NEW i \in 1..Len(h), \E k \in 1..i : h[k] # Empty
    PROVE  \E k \in 1..i : h[k] # Empty /\ \A m \in k + 1..i : h[m] = Empty
<1> DEFINE S == {k \in 1..i : h[k] # Empty}
<1>1. i \in Nat /\ S \in SUBSET (1..i) /\ S # {}
  OBVIOUS
<1>2. PICK k \in S : \A m \in k + 1..i : m \notin S
  BY <1>1, LastIn
<1> QED BY <1>2

\* The next place is taken where the line changes.
LEMMA StepsAtChanges ==
    ASSUME NEW h \in Seq(Line), NEW l \in Seq(Line), Clean(l), NEW f, Follows(h, l, f),
           NEW i \in 1..Len(h) - 1, \E k \in 1..i : h[k] # Empty
    PROVE  f[i + 1] = IF Changes(h, i + 1) THEN f[i] + 1 ELSE f[i]
<1>1. /\ i \in 1..Len(h) /\ i + 1 \in 1..Len(h) /\ (i + 1) - 1 = i /\ Len(h) \in Nat
      /\ f[i] \in 0..Len(l) /\ f[i + 1] \in 0..Len(l) /\ Len(l) \in Nat
  <2>1. f \in [1..Len(h) -> 0..Len(l)] /\ Len(h) \in Nat /\ Len(l) \in Nat
    BY DEF Follows
  <2>2. i \in 1..Len(h) /\ i + 1 \in 1..Len(h) /\ (i + 1) - 1 = i
    BY <2>1
  <2> QED BY <2>1, <2>2
<1>2. PICK k \in 1..i : h[k] # Empty /\ \A m \in k + 1..i : h[m] = Empty
  BY <1>1, LastLine
<1>3. k \in 1..Len(h) /\ i \in k..Len(h)
  BY <1>1
<1>4. f[i] = f[k] /\ f[k] > 0 /\ h[k] = l[f[k]]
  <2>1. f[i] = f[k]
    BY <1>2, <1>3, FlatOverEmpty
  <2>2. f[k] > 0 /\ h[k] = l[f[k]]
    BY <1>2, <1>3 DEF Follows
  <2> QED BY <2>1, <2>2
<1>5. f[i + 1] = f[i] \/ (h[i + 1] # Empty /\ f[i + 1] = f[i] + 1)
  BY DEF Follows
<1>6. h[i + 1] # Empty => h[i + 1] = l[f[i + 1]]
  BY <1>1 DEF Follows
<1>7. Changes(h, i + 1) <=> h[i + 1] \notin {Empty, h[k]}
  <2>1. ASSUME Changes(h, i + 1) PROVE h[i + 1] \notin {Empty, h[k]}
    <3>1. PICK n \in 1..i : h[n] \notin {Empty, h[i + 1]} /\ \A m \in n + 1..i : h[m] = Empty
      BY <1>1, <2>1 DEF Changes
    <3>2. n = k
      <4>1. ~(n < k)
        <5>1. n < k => k \in n + 1..i
          BY <1>1
        <5> QED BY <1>2, <3>1, <5>1
      <4>2. ~(k < n)
        <5>1. k < n => n \in k + 1..i
          BY <1>1
        <5> QED BY <1>2, <3>1, <5>1
      <4> QED BY <4>1, <4>2
    <3> QED BY <2>1, <3>1, <3>2 DEF Changes
  <2>2. ASSUME h[i + 1] \notin {Empty, h[k]} PROVE Changes(h, i + 1)
    BY <1>1, <1>2, <2>2 DEF Changes
  <2> QED BY <2>1, <2>2
<1>8. CASE f[i + 1] = f[i]
  <2>1. h[i + 1] \in {Empty, h[k]}
    BY <1>4, <1>6, <1>8
  <2> QED BY <1>7, <1>8, <2>1
<1>9. CASE h[i + 1] # Empty /\ f[i + 1] = f[i] + 1
  <2>1. f[i] \in 1..Len(l) - 1
    BY <1>1, <1>4, <1>9
  <2>2. l[f[i]] # l[f[i] + 1]
    BY <2>1 DEF Clean
  <2>3. h[i + 1] \notin {Empty, h[k]}
    BY <1>4, <1>6, <1>9, <2>2
  <2> QED BY <1>7, <1>9, <2>3
<1> QED BY <1>5, <1>8, <1>9

\* From the first line on the place of an entry is the one that Recent counts.
LEMMA PlaceIs ==
    ASSUME NEW h \in Seq(Line), log \in Seq(Line), Clean(log), NEW f, Follows(h, log, f),
           NEW i \in 1..Len(h), h[i] # Empty
    PROVE  PlaceInLog(h, i) = f[i]
<1> DEFINE n == Len(h)
           Later(j) == {k \in j + 1..n : Changes(h, k)}
           T == {d \in 0..n - i : f[n - d] # Len(log) - Cardinality(Later(n - d))}
<1>1. n \in Nat /\ n > 0 /\ f \in [1..n -> 0..Len(log)] /\ Len(log) \in Nat /\ f[n] = Len(log)
  BY DEF Follows
<1>2. SUFFICES T = {}
  <2>1. n - i \in 0..n - i /\ n - (n - i) = i
    BY <1>1
  <2>2. T = {} => f[i] = Len(log) - Cardinality(Later(i))
    BY <2>1
  <2> QED BY <2>2 DEF PlaceInLog
<1>3. SUFFICES ASSUME T # {} PROVE FALSE
  OBVIOUS
<1>4. T \in SUBSET Nat
  OBVIOUS
<1>5. PICK d \in T : \A y \in T : d <= y
  BY <1>3, <1>4, LeastNat
<1>6. d \in 0..n - i /\ f[n - d] # Len(log) - Cardinality(Later(n - d))
  BY <1>5
<1>7. d # 0
  <2>1. Later(n) = {} /\ n - 0 = n
    BY <1>1
  <2>2. Cardinality(Later(n)) = 0
    BY <2>1, FS_EmptySet
  <2> HIDE DEF Later
  <2>3. Len(log) - 0 = Len(log)
    BY <1>1
  <2> QED BY <1>1, <1>6, <2>1, <2>2, <2>3
<1> DEFINE j == n - d
<1>8. /\ d - 1 \in 0..n - i /\ n - (d - 1) = j + 1 /\ d - 1 < d
      /\ j \in i..n - 1 /\ j \in 1..n - 1
  BY <1>1, <1>6, <1>7
<1>9. d - 1 \notin T
  BY <1>5, <1>6, <1>8
<1>10. f[j + 1] = Len(log) - Cardinality(Later(j + 1))
  BY <1>8, <1>9
<1>11. f[j + 1] = IF Changes(h, j + 1) THEN f[j] + 1 ELSE f[j]
  <2>1. \E k \in 1..j : h[k] # Empty
    BY <1>8
  <2> QED BY <1>8, <2>1, StepsAtChanges
<1>12. IsFiniteSet(Later(j + 1)) /\ Cardinality(Later(j + 1)) \in Nat
  <2>1. IsFiniteSet((j + 1) + 1..n)
    BY <1>1, <1>8, FS_Interval
  <2>2. Later(j + 1) \in SUBSET ((j + 1) + 1..n)
    OBVIOUS
  <2> QED BY <2>1, <2>2, FS_Subset, FS_CardinalityType
<1>13. CASE Changes(h, j + 1)
  <2>1. Later(j) = Later(j + 1) \cup {j + 1} /\ j + 1 \notin Later(j + 1)
    BY <1>1, <1>8, <1>13
  <2>2. Cardinality(Later(j)) = Cardinality(Later(j + 1)) + 1
    BY <1>12, <2>1, FS_AddElement
  <2>3. f[j] \in 0..Len(log) /\ f[j + 1] = f[j] + 1
    BY <1>1, <1>8, <1>11, <1>13
  <2> HIDE DEF Later, j, T
  <2>4. f[j] # Len(log) - Cardinality(Later(j))
    BY <1>6 DEF j
  <2>5. \A y, c, k \in Int : y + 1 = k - c => y = k - (c + 1)
    OBVIOUS
  <2>6. f[j] \in Int /\ Cardinality(Later(j + 1)) \in Int /\ Len(log) \in Int
    BY <1>1, <1>12, <2>3
  <2>7. f[j] + 1 = Len(log) - Cardinality(Later(j + 1))
    BY <1>10, <2>3
  <2> QED BY <2>2, <2>4, <2>5, <2>6, <2>7
<1>14. CASE ~Changes(h, j + 1)
  <2>1. Later(j) = Later(j + 1)
    BY <1>1, <1>8, <1>14
  <2> HIDE DEF Later
  <2> QED BY <1>6, <1>10, <1>11, <1>14, <2>1
<1> QED BY <1>13, <1>14

LEMMA MirrorsRecent ==
    ASSUME NEW h \in Seq(Line), log \in Seq(Line), Clean(log), Mirrors(h, log)
    PROVE  Recent(h)
<1>1. PICK f : Follows(h, log, f) /\ (Whole(h, log, f) \/ Spent(h))
  BY DEF Mirrors
<1>2. /\ Len(h) \in Nat /\ Len(log) \in Nat /\ f \in [1..Len(h) -> 0..Len(log)]
      /\ DOMAIN h = 1..Len(h)
      /\ log # <<>> => Len(log) > 0
  BY <1>1 DEF Follows
<1>3. ASSUME NEW i \in 1..Len(h), h[i] # Empty
      PROVE  PlaceInLog(h, i) = f[i] /\ f[i] > 0 /\ h[i] = log[f[i]]
  BY <1>1, <1>3, PlaceIs DEF Follows
<1>4. ASSUME Whole(h, log, f), log # <<>>
      PROVE  \E i \in 1..Len(h) : h[i] # Empty /\ PlaceInLog(h, i) = 1
  <2> DEFINE T == {i \in 1..Len(h) : f[i] > 0}
  <2>1. h # <<>> /\ Len(h) > 0 /\ f[Len(h)] = Len(log) /\ f[1] \in {0, 1}
        /\ (f[1] = 1 => h[1] # Empty)
    BY <1>1, <1>4 DEF Whole, Follows
  <2>2. T \in SUBSET Nat /\ Len(h) \in T
    BY <1>2, <1>4, <2>1
  <2>3. PICK i \in T : \A y \in T : i <= y
    BY <2>2, LeastNat
  <2>4. i \in 1..Len(h) /\ f[i] > 0
    BY <2>3
  <2>5. f[i] = 1 /\ h[i] # Empty
    <3>1. CASE i = 1
      BY <2>1, <2>4, <3>1
    <3>2. CASE i # 1
      <4>1. i - 1 \in 1..Len(h) - 1 /\ (i - 1) + 1 = i /\ i - 1 \in 1..Len(h) /\ i - 1 < i
        BY <1>2, <2>4, <3>2
      <4>2. f[i - 1] = 0
        BY <1>2, <2>3, <4>1
      <4>3. f[i] = f[i - 1] \/ (h[i] # Empty /\ f[i] = f[i - 1] + 1)
        BY <1>1, <4>1 DEF Follows
      <4> QED BY <2>4, <4>2, <4>3
    <3> QED BY <3>1, <3>2
  <2> QED BY <1>3, <2>4, <2>5
<1>5. Spent(h) => Len(h) >= HistMax - 1
  <2>1. Len(h) \in Nat /\ HistMax \in Nat
    BY <1>2, Limits
  <2> QED BY <2>1 DEF Spent
<1> QED BY <1>1, <1>2, <1>3, <1>4, <1>5 DEF Recent

-----------------------------------------------------------------------------
(* The invariant *)

\* The history, with the editor's own entry as the editor started with it.
Entries == IF phase = "edit" /\ tty THEN [hist EXCEPT ![Len(hist)] = Empty] ELSE hist

\* Nothing was rewritten, and no kill has left a line being edited.
Intact == ~rewritten /\ ~(phase = "ended" /\ how = "killed")

\* What the file holds: while it is written the beginning of the history, after
\* a session that saved all of it.
Saved ==
    /\ Len(file) <= HistMax
    /\ phase = "saving" => /\ how \in {"left", "signal", "early"}
                           /\ Len(file) <= Len(hist)
                           /\ \A i \in 1..Len(file) : file[i] = hist[i]
    /\ phase = "ended" /\ how \in {"left", "signal", "early"} => file = hist

\* What is loaded is the file as it is.
Loaded ==
    phase = "loading" => /\ at <= Len(file) /\ Len(hist) = at
                         /\ \A i \in 1..at : hist[i] = file[i]

\* The lines of the file keep their numbers until the history is full.
Kept(h) == \A n \in 1..Len(file) : file[n] # Empty => n <= Len(h) /\ h[n] = file[n]
KeptUntilFull(h) == Kept(h) \/ (tty /\ Spent(h)) \/ Len(h) = HistMax
Numbered == phase \in {"prompt", "edit", "run"} => KeptUntilFull(Entries)

Logs    == Clean(log) /\ Empty \notin {log[i] : i \in 1..Len(log)}
Holds(h) == Clean(h) /\ Mirrors(h, log)

HistInv ==
    /\ Logs /\ Saved
    /\ Intact => Holds(Entries)
    /\ Intact /\ Clean(file) => Loaded /\ Numbered

\* The editor's own entry apart, the entries are those of the history.
LEMMA EntriesFacts ==
    ASSUME IInv
    PROVE  /\ Entries \in Seq(Line) /\ Len(Entries) = Len(hist)
           /\ phase # "edit" \/ ~tty => Entries = hist
           /\ phase = "edit" /\ tty => /\ Entries # <<>> /\ Entries[Len(Entries)] = Empty
                                      /\ Left = Popped(Entries)
<1>1. hist \in Seq(Line) /\ Len(hist) \in Nat /\ tty \in BOOLEAN
  BY DEF IInv, TypeOK
<1>2. CASE phase = "edit" /\ tty
  <2>1. hist # <<>> /\ Left = Popped(hist) /\ Len(hist) > 0
    BY <1>1, <1>2 DEF IInv, EditorInside, Left
  <2>2. Entries = [hist EXCEPT ![Len(hist)] = Empty]
    BY <1>2 DEF Entries
  <2>3. /\ Entries \in Seq(Line) /\ Len(Entries) = Len(hist)
        /\ Entries[Len(hist)] = Empty
        /\ \A i \in 1..Len(hist) - 1 : Entries[i] = hist[i]
    BY <1>1, <2>1, <2>2, EmptyIsLine
  <2>4. Entries # <<>>
    BY <2>1, <2>3
  <2>5. Popped(Entries) = Popped(hist)
    <3>1. /\ Popped(Entries) \in Seq(Line) /\ Popped(hist) \in Seq(Line)
          /\ Len(Popped(Entries)) = Len(hist) - 1 /\ Len(Popped(hist)) = Len(hist) - 1
          /\ \A i \in 1..Len(hist) - 1 : Popped(Entries)[i] = Popped(hist)[i]
      BY <1>1, <2>1, <2>3, <2>4, PoppedType
    <3> QED BY <3>1
  <2> QED BY <1>2, <2>1, <2>3, <2>4, <2>5
<1>3. CASE ~(phase = "edit" /\ tty)
  BY <1>1, <1>3 DEF Entries
<1> QED BY <1>2, <1>3

\* If the editor's entry holds no text, the history is its entries.
LEMMA EntriesUnlessStray ==
    ASSUME IInv, ~Stray
    PROVE  Entries = hist
<1>1. hist \in Seq(Line)
  BY DEF IInv, TypeOK
<1>2. CASE phase = "edit" /\ tty
  <2>1. hist[Len(hist)] = Empty
    BY <1>2 DEF Stray
  <2>2. [hist EXCEPT ![Len(hist)] = Empty] = hist
    BY <1>1, <2>1
  <2> QED BY <1>2, <2>2 DEF Entries
<1>3. CASE ~(phase = "edit" /\ tty)
  BY <1>3 DEF Entries
<1> QED BY <1>2, <1>3

LEMMA SpentAdded ==
    ASSUME NEW h \in Seq(Line), Len(h) <= HistMax, NEW x \in Line
    PROVE  /\ Spent(h) => Spent(Added(h, x))
           /\ Len(h) = HistMax => Len(Added(h, x)) = HistMax
<1> DEFINE a == Added(h, x)
<1>1. Len(h) \in Nat /\ (h # <<>> <=> Len(h) > 0)
  OBVIOUS
<1>2. CASE a = h
  BY <1>2
<1>3. CASE a # h
  <2>1. PICK d \in {0, 1} : (d = 1 <=> Len(h) = HistMax) /\ Len(a) = Len(h) - d + 1
    BY <1>3, AddedFacts
  <2> HIDE DEF a
  <2>2. /\ Len(h) = HistMax => Len(a) = HistMax
        /\ Len(h) = HistMax - 1 => Len(a) = HistMax
    BY <1>1, <2>1, Limits
  <2> QED BY <2>2 DEF Spent, a
<1> QED BY <1>2, <1>3

LEMMA KeptAdded ==
    ASSUME TypeOK, NEW h \in Seq(Line), Len(h) <= HistMax, NEW x \in Line, KeptUntilFull(h)
    PROVE  KeptUntilFull(Added(h, x))
<1> DEFINE a == Added(h, x)
<1>1. Len(h) \in Nat /\ Len(file) \in Nat
  BY DEF TypeOK
<1>2. CASE a = h
  BY <1>2
<1>3. CASE (tty /\ Spent(h)) \/ Len(h) = HistMax
  BY <1>3, SpentAdded DEF KeptUntilFull
<1>4. CASE Kept(h) /\ Len(h) # HistMax /\ a # h
  <2>1. Len(a) = Len(h) + 1 /\ \A i \in 1..Len(h) : a[i] = h[i]
    <3>1. PICK d \in {0, 1} : /\ d = 1 <=> Len(h) = HistMax
                              /\ Len(a) = Len(h) - d + 1
                              /\ \A i \in 1..Len(h) - d : a[i] = h[i + d]
      BY <1>4, AddedFacts
    <3>2. d = 0
      BY <1>4, <3>1
    <3> HIDE DEF a
    <3> QED BY <1>1, <3>1, <3>2
  <2> HIDE DEF a
  <2>2. Kept(a)
    BY <1>1, <1>4, <2>1 DEF Kept
  <2> QED BY <2>2 DEF KeptUntilFull, a
<1> QED BY <1>2, <1>3, <1>4 DEF KeptUntilFull

\* A full history stays spent when the empty entry of the editor is dropped.
LEMMA KeptPopped ==
    ASSUME TypeOK, tty, NEW h \in Seq(Line), Len(h) <= HistMax, h # <<>>, h[Len(h)] = Empty,
           Clean(h), KeptUntilFull(h)
    PROVE  KeptUntilFull(Popped(h))
<1>1. /\ Len(h) \in Nat /\ Len(h) > 0 /\ Len(file) \in Nat /\ Len(Popped(h)) = Len(h) - 1
      /\ \A i \in 1..Len(h) - 1 : Popped(h)[i] = h[i]
  BY PoppedType DEF TypeOK
<1>2. CASE Kept(h)
  <2>1. ASSUME NEW n \in 1..Len(file), file[n] # Empty
        PROVE  n <= Len(Popped(h)) /\ Popped(h)[n] = file[n]
    <3>1. n <= Len(h) /\ h[n] = file[n]
      BY <1>2, <2>1 DEF Kept
    <3>2. n # Len(h)
      BY <2>1, <3>1
    <3>3. n \in 1..Len(h) - 1
      BY <1>1, <3>1, <3>2
    <3> QED BY <1>1, <3>1, <3>3
  <2> QED BY <2>1 DEF Kept, KeptUntilFull
<1>3. CASE Spent(h) \/ Len(h) = HistMax
  <2>1. Len(h) = HistMax
    BY <1>3 DEF Spent
  <2>2. Len(h) - 1 \in 1..Len(h) - 1 /\ (Len(h) - 1) + 1 = Len(h)
    BY <1>1, <2>1, Limits
  <2>3. Popped(h)[Len(h) - 1] # Empty
    <3>1. h[Len(h) - 1] # h[(Len(h) - 1) + 1]
      BY <2>2 DEF Clean
    <3> QED BY <1>1, <2>2, <3>1
  <2>4. Spent(Popped(h))
    BY <1>1, <2>1, <2>3 DEF Spent
  <2> QED BY <2>4 DEF KeptUntilFull
<1> QED BY <1>2, <1>3 DEF KeptUntilFull

\* What Enter, an empty line and the end of the input leave is as good.
LEMMA LeftFacts ==
    ASSUME IInv, HistInv, phase = "edit", Intact
    PROVE  Holds(Left) /\ (Clean(file) => KeptUntilFull(Left))
<1>1. /\ TypeOK /\ Entries \in Seq(Line) /\ Len(Entries) <= HistMax /\ tty \in BOOLEAN
      /\ log \in Seq(Line)
  BY EntriesFacts DEF IInv, TypeOK
<1>2. /\ Clean(Entries) /\ Mirrors(Entries, log)
      /\ Clean(file) => KeptUntilFull(Entries)
  BY DEF HistInv, Holds, Numbered
<1>3. CASE tty
  <2>1. Entries # <<>> /\ Entries[Len(Entries)] = Empty /\ Left = Popped(Entries)
    BY <1>3, EntriesFacts
  <2>2. Clean(Left) /\ Mirrors(Left, log)
    BY <1>1, <1>2, <2>1, CleanPopped, MirrorsPopped
  <2>3. Clean(file) => KeptUntilFull(Left)
    BY <1>1, <1>2, <1>3, <2>1, KeptPopped
  <2> QED BY <2>2, <2>3 DEF Holds
<1>4. CASE ~tty
  BY <1>2, <1>4, EntriesFacts DEF Left, Holds
<1> QED BY <1>1, <1>3, <1>4

LEMMA InitHist == Init => HistInv
<1> SUFFICES ASSUME Init PROVE HistInv
  OBVIOUS
<1>1. hist = <<>> /\ log = <<>> /\ file = <<>> /\ at = 0 /\ phase = "loading" /\ Len(<<>>) = 0
  BY DEF Init
<1>2. Clean(<<>>) /\ {log[i] : i \in 1..Len(log)} = {} /\ Entries = hist
  BY <1>1 DEF Clean, Entries
<1>3. Mirrors(<<>>, <<>>)
  BY NothingMirrors
<1>4. Saved /\ Loaded /\ Numbered
  BY <1>1, Limits DEF Saved, Loaded, Numbered
<1> QED BY <1>1, <1>2, <1>3, <1>4 DEF HistInv, Logs, Holds

\* A line of the file is appended as it is: it repeats nothing, and there is room.
LEMMA LoadStep ==
    ASSUME IInv, HistInv, LoadLine
    PROVE  HistInv'
<1>1. /\ TypeOK /\ hist \in Seq(Line) /\ Len(hist) <= HistMax /\ log \in Seq(Line)
      /\ file \in Seq(Line) /\ at \in Nat /\ Len(file) \in Nat /\ Len(hist) \in Nat
  BY DEF IInv, TypeOK
<1>2. /\ phase = "loading" /\ phase' = "loading" /\ at < Len(file) /\ at' = at + 1
      /\ hist' = Added(hist, file[at + 1]) /\ log' = Logged(file[at + 1])
      /\ file' = file /\ how' = how /\ rewritten' = rewritten
  BY DEF LoadLine
<1>3. file[at + 1] \in Line
  BY <1>1, <1>2
<1>4. Logs /\ Saved
  BY DEF HistInv
<1>5. Logs'
  BY <1>1, <1>2, <1>3, <1>4, CleanLogged DEF Logs
<1>6. Entries = hist /\ Entries' = hist'
  BY <1>2 DEF Entries
<1>7. Intact' => Intact
  BY <1>2 DEF Intact
<1>8. Intact' => Holds(Entries)'
  <2> SUFFICES ASSUME Intact PROVE Clean(hist') /\ Mirrors(hist', log')
    BY <1>6, <1>7 DEF Holds
  <2>1. Clean(hist) /\ Mirrors(hist, log)
    BY <1>6 DEF HistInv, Holds
  <2> QED BY <1>1, <1>2, <1>3, <2>1, CleanAdded, MirrorsAdded
<1>9. ASSUME Intact', Clean(file)' PROVE Loaded'
  <2>1. Clean(file) /\ Len(file) <= HistMax
    BY <1>2, <1>4, <1>9 DEF Saved, Clean
  <2>2. Len(hist) = at /\ \A i \in 1..at : hist[i] = file[i]
    BY <1>2, <1>7, <1>9, <2>1 DEF HistInv, Loaded
  <2>3. hist = <<>> \/ hist[Len(hist)] # file[at + 1]
    <3> SUFFICES ASSUME hist # <<>> PROVE hist[Len(hist)] # file[at + 1]
      OBVIOUS
    <3>1. at \in 1..at /\ at \in 1..Len(file) - 1
      BY <1>1, <1>2, <2>2
    <3> QED BY <2>1, <2>2, <3>1 DEF Clean
  <2>4. /\ Len(hist') = at + 1 /\ hist'[at + 1] = file[at + 1]
        /\ \A i \in 1..at : hist'[i] = hist[i]
    <3>1. Len(hist) # HistMax
      BY <1>1, <1>2, <2>1, <2>2, Limits
    <3>2. hist' = Append(hist, file[at + 1])
      BY <1>2, <2>3, <3>1 DEF Added
    <3> QED BY <1>1, <1>3, <2>2, <3>2
  <2>5. ASSUME NEW i \in 1..at + 1 PROVE hist'[i] = file[i]
    <3>1. CASE i = at + 1
      BY <2>4, <3>1
    <3>2. CASE i # at + 1
      BY <1>1, <2>2, <2>4, <3>2
    <3> QED BY <3>1, <3>2
  <2> QED BY <1>1, <1>2, <2>4, <2>5 DEF Loaded
<1>10. Saved'
  BY <1>2, <1>4 DEF Saved
<1>11. Numbered'
  BY <1>2 DEF Numbered
<1> QED BY <1>5, <1>8, <1>9, <1>10, <1>11 DEF HistInv

\* What Saved says does not change while nothing is saved.
LEMMA SavedStays ==
    ASSUME Saved, file' = file, phase' \notin {"saving", "ended"}
    PROVE  Saved'
  BY DEF Saved

\* A line is added to what there was, or to what the editor left.
LEMMA TakesLine ==
    ASSUME IInv, HistInv, phase \in {"prompt", "edit"}, phase' \in {"prompt", "edit", "run"},
           NEW h \in Seq(Line), Len(h) <= HistMax,
           Intact => Holds(h) /\ (Clean(file) => KeptUntilFull(h)),
           NEW x \in Line, hist' = Added(h, x), Entries' = hist', log' = Logged(x),
           file' = file, tty' = tty, rewritten' = rewritten
    PROVE  HistInv'
<1>1. TypeOK /\ log \in Seq(Line) /\ Logs /\ Saved
  BY DEF IInv, TypeOK, HistInv
<1>2. Intact' => Intact
  BY DEF Intact
<1>3. Logs'
  BY <1>1, CleanLogged DEF Logs
<1>4. Intact => Clean(hist') /\ Mirrors(hist', log')
  BY <1>1, CleanAdded, MirrorsAdded DEF Holds
<1>5. Intact /\ Clean(file) => KeptUntilFull(hist')
  BY <1>1, KeptAdded
<1>6. Saved'
  BY <1>1, SavedStays
<1>7. Loaded'
  BY DEF Loaded
<1>8. Intact' /\ Clean(file)' => Numbered'
  <2>1. Clean(file)' <=> Clean(file)
    BY DEF Clean
  <2>2. KeptUntilFull(hist') => KeptUntilFull(Entries)'
    BY DEF KeptUntilFull, Kept
  <2> QED BY <1>2, <1>5, <2>1, <2>2 DEF Numbered
<1>9. Intact' => Holds(Entries)'
  BY <1>2, <1>4 DEF Holds
<1> QED BY <1>3, <1>6, <1>7, <1>8, <1>9 DEF HistInv

\* The entries stay, or give up the line being edited, and the session goes on.
LEMMA GoesOn ==
    ASSUME IInv, HistInv, phase \in {"loading", "prompt", "edit", "run"},
           phase' \in {"prompt", "edit", "run"},
           phase = "loading" => at = Len(file),
           ~rewritten' => /\ ~rewritten
                          /\ Entries' = Entries \/ (Entries' = Left /\ phase = "edit"),
           log' = log, file' = file, tty' = tty
    PROVE  HistInv'
<1>1. Logs /\ Saved /\ Logs'
  BY DEF HistInv, Logs
<1>2. ASSUME Intact'
      PROVE  /\ Intact /\ Holds(Entries)
             /\ Entries' = Entries \/ (Entries' = Left /\ phase = "edit")
  BY <1>2 DEF Intact, HistInv
<1>3. ASSUME Intact', Clean(file) PROVE KeptUntilFull(Entries)
  <2>1. CASE phase = "loading"
    <3>1. Entries = hist /\ Loaded
      BY <1>2, <1>3, <2>1 DEF HistInv, Entries
    <3>2. Len(hist) = Len(file) /\ \A i \in 1..Len(file) : hist[i] = file[i]
      BY <2>1, <3>1 DEF Loaded
    <3>3. Len(file) \in Nat
      BY DEF IInv, TypeOK
    <3>4. Kept(hist)
      BY <3>2, <3>3 DEF Kept
    <3> QED BY <3>1, <3>4 DEF KeptUntilFull
  <2>2. CASE phase # "loading"
    BY <1>2, <1>3, <2>2 DEF HistInv, Numbered
  <2> QED BY <2>1, <2>2
<1>4. ASSUME Intact' PROVE Holds(Entries)'
  <2>1. Holds(Entries')
    BY <1>2, <1>4, LeftFacts
  <2> QED BY <2>1 DEF Holds
<1>5. ASSUME Intact', Clean(file)' PROVE Numbered'
  <2>1. Clean(file)
    BY <1>5 DEF Clean
  <2>2. KeptUntilFull(Entries')
    BY <1>2, <1>3, <1>5, <2>1, LeftFacts
  <2> QED BY <2>2 DEF Numbered, KeptUntilFull, Kept
<1>6. Saved' /\ Loaded'
  BY <1>1, SavedStays DEF Loaded
<1> QED BY <1>1, <1>4, <1>5, <1>6 DEF HistInv

\* A save starts with an empty file.
LEMMA StartsSave ==
    ASSUME IInv, HistInv, phase # "ended",
           NEW r \in {"left", "signal", "early"}, StartSave(r), hist' \in Seq(Line),
           ~rewritten' => /\ ~rewritten
                          /\ hist' = Entries \/ (hist' = Left /\ phase = "edit")
    PROVE  HistInv'
<1>1. phase' = "saving" /\ how' = r /\ file' = <<>> /\ log' = log /\ Len(<<>>) = 0
  BY DEF StartSave
<1>2. Logs'
  BY <1>1 DEF HistInv, Logs
<1>3. ASSUME Intact' PROVE Holds(Entries)'
  <2>1. Intact /\ (hist' = Entries \/ (hist' = Left /\ phase = "edit"))
    BY <1>3 DEF Intact
  <2>2. Holds(hist')
    BY <2>1, LeftFacts DEF HistInv
  <2>3. Entries' = hist'
    BY <1>1 DEF Entries
  <2> QED BY <1>1, <2>2, <2>3 DEF Holds
<1>4. Saved'
  <2>1. 0 <= HistMax /\ 0 <= Len(hist')
    BY Limits
  <2>2. \A i \in 1..0 : <<>>[i] = hist'[i]
    OBVIOUS
  <2> QED BY <1>1, <2>1, <2>2 DEF Saved
<1>5. Loaded' /\ Numbered'
  BY <1>1 DEF Loaded, Numbered
<1> QED BY <1>2, <1>3, <1>4, <1>5 DEF HistInv

\* The keys of the editor leave the entries, or rewrite one.
LEMMA KeysStep ==
    ASSUME IInv, HistInv, NEW text \in Typable \cup {Empty}, HistoryNext(text)
    PROVE  HistInv'
<1>1. /\ phase = "edit" /\ phase' = "edit" /\ tty /\ tty' = tty
      /\ log' = log /\ file' = file
      /\ hist' = [hist EXCEPT ![Len(hist) - index] = text]
      /\ rewritten' = (rewritten \/ (index > 0 /\ text # hist[Len(hist) - index]))
  BY DEF HistoryNext
<1>2. /\ hist \in Seq(Line) /\ Len(hist) \in Nat /\ index \in Nat /\ index < Len(hist)
      /\ text \in Line
  BY <1>1, TypableType, EmptyIsLine DEF IInv, TypeOK, EditorInside
<1>3. ASSUME ~rewritten' PROVE Entries' = Entries
  <2>1. Len(hist') = Len(hist) /\ hist' \in Seq(Line)
    BY <1>1, <1>2
  <2>2. CASE index = 0
    <3>1. hist' = [hist EXCEPT ![Len(hist)] = text]
      BY <1>1, <1>2, <2>2
    <3>2. [hist' EXCEPT ![Len(hist)] = Empty] = [hist EXCEPT ![Len(hist)] = Empty]
      BY <1>2, <3>1
    <3> QED BY <1>1, <2>1, <3>2 DEF Entries
  <2>3. CASE index # 0
    <3>1. text = hist[Len(hist) - index]
      <4>1. index > 0
        BY <1>2, <2>3
      <4> QED BY ONLY <1>1, <1>3, <4>1
    <3>2. hist' = hist
      BY <1>1, <1>2, <3>1
    <3> QED BY <1>1, <3>2 DEF Entries
  <2> QED BY <2>2, <2>3
<1>4. ~rewritten' => ~rewritten
  BY <1>1 DEF IInv, TypeOK
<1> QED BY <1>1, <1>3, <1>4, GoesOn

\* What does not touch the history and the file leaves the invariant.
LEMMA Untouched ==
    ASSUME HistInv, UNCHANGED <<phase, hist, at, file, tty, how, log, rewritten>>
    PROVE  HistInv'
<1>1. Entries' = Entries /\ (Intact' <=> Intact)
  BY DEF Entries, Intact
<1>2. Logs' /\ Saved' /\ (Intact' => Holds(Entries)')
  BY <1>1 DEF HistInv, Logs, Saved, Holds
<1>3. Intact' /\ Clean(file)' => Loaded' /\ Numbered'
  BY <1>1 DEF HistInv, Clean, Loaded, Numbered, KeptUntilFull, Kept
<1> QED BY <1>2, <1>3 DEF HistInv

\* A process that ends without saving leaves its history as it is.
LEMMA EndsUnsaved ==
    ASSUME IInv, HistInv, RunExit \/ Kill
    PROVE  HistInv'
<1>1. /\ UNCHANGED <<hist, at, file, tty, log, rewritten>>
      /\ phase' = "ended" /\ how' \in {"exit", "killed"}
      /\ how' = "killed" \/ phase = "run"
  BY DEF RunExit, Kill
<1>2. Logs'
  BY <1>1 DEF HistInv, Logs
<1>3. Saved'
  BY <1>1 DEF HistInv, Saved
<1>4. Loaded' /\ Numbered'
  BY <1>1 DEF Loaded, Numbered
<1>5. ASSUME Intact' PROVE Holds(Entries)'
  <2>1. phase = "run" /\ Intact
    BY <1>1, <1>5 DEF Intact
  <2>2. Entries' = Entries
    BY <1>1, <2>1 DEF Entries
  <2> QED BY <1>1, <2>1, <2>2 DEF HistInv, Holds
<1> QED BY <1>2, <1>3, <1>4, <1>5 DEF HistInv

LEMMA SaveStep ==
    ASSUME IInv, HistInv, SaveLine
    PROVE  HistInv'
<1> DEFINE n == Len(file)
<1>0. /\ hist \in Seq(Line) /\ Len(hist) \in Nat /\ Len(hist) <= HistMax
      /\ file \in Seq(Line) /\ n \in Nat
  BY DEF IInv, TypeOK
<1>1. /\ phase = "saving" /\ phase' = "saving" /\ n < Len(hist) /\ how' = how
      /\ hist' = hist /\ log' = log /\ file' = Append(file, hist[n + 1])
      /\ rewritten' = rewritten
  BY DEF SaveLine
<1>2. /\ how \in {"left", "signal", "early"}
      /\ \A i \in 1..n : file[i] = hist[i]
  BY <1>1 DEF HistInv, Saved
<1>3. /\ Len(file') = n + 1 /\ file'[n + 1] = hist[n + 1]
      /\ \A i \in 1..n : file'[i] = file[i]
  BY <1>0, <1>1
<1>4. \A i \in 1..n + 1 : file'[i] = hist[i]
  BY <1>0, <1>2, <1>3
<1>5. Saved'
  <2>1. /\ Len(file') \in Nat /\ Len(file') <= Len(hist') /\ Len(file') <= HistMax
        /\ \A i \in 1..Len(file') : file'[i] = hist'[i]
    BY <1>0, <1>1, <1>3, <1>4, Limits
  <2> QED BY <1>1, <1>2, <2>1 DEF Saved
<1>6. Loaded' /\ Numbered'
  BY <1>1 DEF Loaded, Numbered
<1>7. Logs' /\ (Intact' => Holds(Entries)')
  BY <1>1 DEF HistInv, Logs, Intact, Entries, Holds
<1> QED BY <1>5, <1>6, <1>7 DEF HistInv

LEMMA NextHist == IInv /\ HistInv /\ [Next]_vars => HistInv'
<1> SUFFICES ASSUME IInv, HistInv, [Next]_vars PROVE HistInv'
  OBVIOUS
<1>0. /\ TypeOK /\ hist \in Seq(Line) /\ Len(hist) \in Nat /\ Len(hist) <= HistMax
      /\ file \in Seq(Line) /\ Len(file) \in Nat /\ rewritten \in BOOLEAN
  BY DEF IInv, TypeOK
<1>1. CASE LoadLine
  BY <1>1, LoadStep
<1>2. CASE LoadEnds
  <2>1. Entries' = Entries
    BY <1>2 DEF LoadEnds, Entries
  <2> QED BY <1>2, <2>1, GoesOn DEF LoadEnds
<1>3. CASE EditStart
  <2>1. CASE tty
    <3>1. Logged(Empty) = log
      BY DEF Logged
    <3>2. /\ phase = "prompt" /\ phase' = "edit" /\ hist' = Added(hist, Empty)
          /\ log' = Logged(Empty) /\ file' = file /\ tty' = tty /\ rewritten' = rewritten
      BY <1>3, <2>1, <3>1 DEF EditStart
    <3>3. Entries = hist
      BY <3>2 DEF Entries
    <3>4. Entries' = hist'
      <4>1. hist' \in Seq(Line) /\ hist' # <<>> /\ hist'[Len(hist')] = Empty
        BY <1>0, <3>2, AddedType, EmptyIsLine
      <4>2. [hist' EXCEPT ![Len(hist')] = Empty] = hist'
        BY <4>1
      <4> QED BY <2>1, <3>2, <4>2 DEF Entries
    <3>5. Intact => Holds(hist) /\ (Clean(file) => KeptUntilFull(hist))
      BY <3>2, <3>3 DEF HistInv, Numbered
    <3> QED BY <1>0, <3>2, <3>4, <3>5, EmptyIsLine, TakesLine
  <2>2. CASE ~tty
    <3>1. Entries' = Entries
      BY <1>3, <2>2 DEF EditStart, Entries
    <3> QED BY <1>3, <2>2, <3>1, GoesOn DEF EditStart
  <2> QED BY <2>1, <2>2
<1>4. CASE Interrupted
  <2>1. ASSUME ~rewritten' PROVE ~rewritten /\ Entries' = Entries
    <3>1. ~rewritten /\ ~Stray
      BY <1>0, <1>4, <2>1 DEF Interrupted, Strays
    <3>2. Entries = hist /\ Entries' = hist'
      BY <1>4, <3>1, EntriesUnlessStray DEF Interrupted, Entries
    <3> QED BY <1>4, <3>1, <3>2 DEF Interrupted
  <2> QED BY <1>4, <2>1, GoesOn DEF Interrupted
<1>18. ASSUME NEW text \in Typable \cup {Empty}, HistoryNext(text) PROVE HistInv'
  BY <1>18, KeysStep
<1>5. ASSUME NEW line \in Typable, Enter(line) PROVE HistInv'
  <2>1. line \in Line
    BY <1>0, TypableType
  <2>2. /\ phase = "edit" /\ phase' = "run" /\ file' = file /\ tty' = tty
        /\ rewritten' = rewritten
    BY <1>5 DEF Enter
  <2>3. Meant(Left, line) \in Line /\ Left \in Seq(Line) /\ Len(Left) <= HistMax
    BY <2>1, <2>2, LeftType, MeantType
  <2>4. hist' = Added(Left, Meant(Left, line)) /\ log' = Logged(Meant(Left, line))
    BY <1>5 DEF Enter
  <2>5. Entries' = hist'
    BY <2>2 DEF Entries
  <2>6. Intact => Holds(Left) /\ (Clean(file) => KeptUntilFull(Left))
    BY <2>2, LeftFacts
  <2> QED BY <2>2, <2>3, <2>4, <2>5, <2>6, TakesLine
<1>6. CASE EnterNothing
  <2>1. Entries' = Left /\ phase = "edit"
    BY <1>6 DEF EnterNothing, Entries
  <2> QED BY <1>6, <2>1, GoesOn DEF EnterNothing
<1>7. CASE Leave
  <2>1. phase = "edit" /\ hist' = Left /\ rewritten' = rewritten /\ StartSave("left")
    BY <1>7 DEF Leave
  <2>2. hist' \in Seq(Line)
    BY <2>1, LeftType
  <2> QED BY <2>1, <2>2, StartsSave
<1>8. CASE CtrlC
  <2>1. phase = "edit" /\ hist' = hist /\ Strays /\ StartSave("left")
    BY <1>8 DEF CtrlC
  <2>2. ~rewritten' => ~rewritten /\ hist' = Entries
    BY <1>0, <2>1, EntriesUnlessStray DEF Strays
  <2> QED BY <1>0, <2>1, <2>2, StartsSave
<1>9. CASE Run
  <2>1. Entries' = Entries
    BY <1>9 DEF Run, Entries
  <2> QED BY <1>9, <2>1, GoesOn DEF Run
<1>10. CASE RunExit
  BY <1>10, EndsUnsaved
<1>11. CASE Terminate
  <2>1. /\ phase # "ended" /\ hist' = hist /\ Strays
        /\ \E r \in {"signal", "early"} : StartSave(r)
    BY <1>11 DEF Terminate
  <2>2. ~rewritten' => ~rewritten /\ hist' = Entries
    BY <1>0, <2>1, EntriesUnlessStray DEF Strays
  <2> QED BY <1>0, <2>1, <2>2, StartsSave
<1>12. CASE Kill
  BY <1>12, EndsUnsaved
<1>13. CASE SaveLine
  BY <1>13, SaveStep
<1>14. CASE SaveEnds
  <2>1. file = hist
    <3>1. Len(file) = Len(hist) /\ \A i \in 1..Len(file) : file[i] = hist[i]
      BY <1>14 DEF SaveEnds, HistInv, Saved
    <3> QED BY <1>0, <3>1
  <2>2. /\ phase = "saving" /\ phase' = "ended"
        /\ UNCHANGED <<hist, at, file, tty, how, log, rewritten>>
    BY <1>14 DEF SaveEnds
  <2>3. Saved' /\ Loaded' /\ Numbered' /\ Logs'
    BY <2>1, <2>2 DEF HistInv, Saved, Loaded, Numbered, Logs
  <2>4. Intact' => Holds(Entries)'
    BY <2>2 DEF HistInv, Intact, Entries, Holds
  <2> QED BY <2>3, <2>4 DEF HistInv
<1>15. CASE Restart
  <2>1. /\ phase' = "loading" /\ hist' = <<>> /\ at' = 0 /\ log' = <<>> /\ file' = file
        /\ Len(<<>>) = 0
    BY <1>15 DEF Restart
  <2>2. Clean(<<>>) /\ {log'[i] : i \in 1..Len(log')} = {} /\ Entries' = <<>>
    BY <2>1 DEF Clean, Entries
  <2>3. Mirrors(<<>>, <<>>)
    BY NothingMirrors
  <2>4. Logs' /\ Holds(Entries)'
    BY <2>1, <2>2, <2>3 DEF Logs, Holds
  <2>5. Saved' /\ Loaded' /\ Numbered'
    BY <1>0, <2>1 DEF HistInv, Saved, Loaded, Numbered
  <2> QED BY <2>4, <2>5 DEF HistInv
<1>16. ASSUME NEW d \in Dirs, RemoveDir(d) \/ MakeDir(d) PROVE HistInv'
  BY <1>16, Untouched DEF RemoveDir, MakeDir
<1>17. CASE UNCHANGED vars
  BY <1>17, Untouched DEF vars
<1> QED BY <1>1, <1>2, <1>3, <1>4, <1>5, <1>6, <1>7, <1>8, <1>9, <1>10, <1>11, <1>12,
           <1>13, <1>14, <1>15, <1>16, <1>17, <1>18 DEF Next

\* The history has no line out of order and none too many, and the file is its
\* beginning: as long as the keys of the editor rewrite nothing, for any keyboard.
THEOREM HistoryInvariance == Spec => [](IInv /\ HistInv)
<1>1. Init => IInv /\ HistInv
  BY InitTypes, InitHist
<1>2. (IInv /\ HistInv) /\ [Next]_vars => (IInv /\ HistInv)'
  BY NextTypes, NextHist
<1> QED BY <1>1, <1>2, PTL DEF Spec

\* The history, in memory and behind a session, is what the user meant last, unless
\* the keys of the editor have rewritten it.
THEOREM HistoryHoldsLatest == Spec => []LatestLines
<1>1. IInv /\ HistInv => LatestLines
  <2> SUFFICES ASSUME IInv, HistInv PROVE LatestLines
    OBVIOUS
  <2>1. hist \in Seq(Line) /\ log \in Seq(Line) /\ Clean(log)
    BY DEF IInv, TypeOK, HistInv, Logs
  <2>2. ASSUME phase \notin {"loading", "ended"}, ~rewritten
        PROVE  Recent(IF phase = "edit" THEN Left ELSE hist)
    <3>1. Intact
      BY <2>2 DEF Intact
    <3>2. CASE phase = "edit"
      <4>1. Left \in Seq(Line) /\ Mirrors(Left, log)
        BY <3>1, <3>2, LeftType, LeftFacts DEF Holds
      <4> QED BY <2>1, <3>2, <4>1, MirrorsRecent
    <3>3. CASE phase # "edit"
      <4>1. Mirrors(hist, log)
        BY <3>1, <3>3, EntriesFacts DEF HistInv, Holds
      <4> QED BY <2>1, <3>3, <4>1, MirrorsRecent
    <3> QED BY <3>2, <3>3
  <2>3. ASSUME phase = "ended", how \in {"left", "signal"}, ~rewritten PROVE Recent(file)
    <3>1. file = hist
      BY <2>3 DEF HistInv, Saved
    <3>2. Mirrors(hist, log)
      BY <2>3, EntriesFacts DEF HistInv, Holds, Intact
    <3> QED BY <2>1, <3>1, <3>2, MirrorsRecent
  <2>4. HistoryIsRecent /\ FileIsRecent
    BY <2>2, <2>3 DEF HistoryIsRecent, FileIsRecent
  <2> QED BY <2>4 DEF IInv, LatestLines
<1> QED BY <1>1, HistoryInvariance, PTL

-----------------------------------------------------------------------------
(* What is recalled *)

\* A history that mirrors the log and holds its last event has it as its own.
LEMMA LastEventHeld ==
    ASSUME NEW h \in Seq(Line), log \in Seq(Line), Mirrors(h, log), NEW e \in LastEvent(log),
           NEW i \in 1..Len(h), h[i] = e
    PROVE  LastEvent(h) = {e}
<1>1. PICK f : Follows(h, log, f)
  BY DEF Mirrors
<1>2. /\ Len(h) \in Nat /\ Len(log) \in Nat /\ f \in [1..Len(h) -> 0..Len(log)]
      /\ DOMAIN h = 1..Len(h) /\ DOMAIN log = 1..Len(log) /\ h # <<>>
      /\ f[Len(h)] = Len(log)
  BY <1>1 DEF Follows
<1>3. PICK p \in 1..Len(log) :
        log[p] = e /\ IsEvent(e) /\ \A k \in 1..Len(log) : k > p => ~IsEvent(log[k])
  BY <1>2 DEF LastEvent
<1> DEFINE S == {k \in 1..Len(h) : IsEvent(h[k])}
<1>4. PICK j \in 1..Len(h) : IsEvent(h[j]) /\ \A m \in j + 1..Len(h) : ~IsEvent(h[m])
  <2>1. S \in SUBSET (1..Len(h)) /\ S # {}
    BY <1>3
  <2>2. PICK k \in S : \A m \in k + 1..Len(h) : m \notin S
    <3>1. Len(h) \in Nat
      BY <1>2
    <3> HIDE DEF S
    <3> QED BY ONLY <2>1, <3>1, LastIn
  <2> QED BY <1>2, <2>2
<1>5. h[j] # Empty /\ f[j] > 0 /\ h[j] = log[f[j]] /\ f[j] \in 1..Len(log)
  <2>1. h[j] # Empty
    BY <1>4 DEF IsEvent
  <2>2. f[j] > 0 /\ h[j] = log[f[j]] /\ f[j] \in 0..Len(log)
    BY <1>1, <1>2, <2>1 DEF Follows
  <2> QED BY <1>2, <2>1, <2>2
<1>6. ~(f[j] > p)
  BY <1>3, <1>4, <1>5
<1>7. ~(f[j] < p)
  <2> SUFFICES ASSUME f[j] < p PROVE FALSE
    OBVIOUS
  <2> DEFINE T == {k \in j..Len(h) : f[k] >= p}
  <2>1. T \in SUBSET Nat /\ Len(h) \in T
    BY <1>2, <1>3
  <2>2. PICK k \in T : \A y \in T : k <= y
    BY <2>1, LeastNat
  <2>3. k \in j..Len(h) /\ f[k] >= p /\ k # j /\ f[k] \in 0..Len(log)
    BY <1>2, <1>3, <1>5, <2>2
  <2>4. /\ k - 1 \in j..Len(h) /\ k - 1 \in 1..Len(h) - 1 /\ k - 1 \in 1..Len(h)
        /\ (k - 1) + 1 = k /\ k - 1 < k
    BY <1>2, <2>3
  <2>5. f[k - 1] < p
    <3>1. k - 1 \notin T
      <4> HIDE DEF T
      <4> QED BY <1>2, <2>2, <2>3, <2>4
    <3>2. f[k - 1] \in 0..Len(log)
      BY <1>2, <2>4
    <3> QED BY <1>3, <2>4, <3>1, <3>2
  <2>6. f[k] = f[k - 1] \/ (h[k] # Empty /\ f[k] = f[k - 1] + 1)
    BY <1>1, <2>4 DEF Follows
  <2>7. h[k] # Empty /\ f[k] = p
    <3>1. f[k - 1] \in 0..Len(log)
      BY <1>2, <2>4
    <3> QED BY <1>2, <1>3, <2>3, <2>5, <2>6, <3>1
  <2>8. h[k] = log[p]
    BY <1>1, <1>2, <2>3, <2>7 DEF Follows
  <2>9. k \in j + 1..Len(h)
    BY <1>2, <2>3
  <2> QED BY <1>3, <1>4, <2>8, <2>9
<1>8. h[j] = e
  <2>1. f[j] = p
    BY <1>3, <1>5, <1>6, <1>7
  <2> QED BY <1>3, <1>5, <2>1
<1>9. ASSUME NEW k \in 1..Len(h), IsEvent(h[k]), \A m \in 1..Len(h) : m > k => ~IsEvent(h[m])
      PROVE  k = j
  <2>1. ~(j > k)
    BY <1>4, <1>9
  <2>2. ~(k > j)
    <3>1. k > j => k \in j + 1..Len(h)
      BY <1>2
    <3> QED BY <1>4, <1>9, <3>1
  <2> QED BY <2>1, <2>2
<1>10. \A m \in 1..Len(h) : m > j => ~IsEvent(h[m])
  <2> SUFFICES ASSUME NEW m \in 1..Len(h), m > j PROVE ~IsEvent(h[m])
    OBVIOUS
  <2>1. m \in j + 1..Len(h)
    BY <1>2
  <2> QED BY <1>4, <2>1
<1>11. e \in LastEvent(h)
  BY <1>2, <1>4, <1>8, <1>10 DEF LastEvent
<1>12. ASSUME NEW x \in LastEvent(h) PROVE x = e
  BY <1>2, <1>8, <1>9, <1>12 DEF LastEvent
<1> QED BY <1>11, <1>12

\* An entry that is not empty is still there, at its place, when the line being
\* edited is dropped.
LEMMA LeftHolds ==
    ASSUME IInv, phase = "edit", NEW i \in 1..Len(Entries), Entries[i] # Empty
    PROVE  i \in 1..Len(Left) /\ Left[i] = Entries[i] /\ DOMAIN Left = 1..Len(Left)
<1>1. /\ Entries \in Seq(Line) /\ tty \in BOOLEAN /\ Len(Entries) \in Nat
      /\ Left \in Seq(Line)
  BY EntriesFacts, LeftType DEF IInv, TypeOK
<1>2. CASE tty
  <2>1. Entries # <<>> /\ Entries[Len(Entries)] = Empty /\ Left = Popped(Entries)
    BY <1>2, EntriesFacts
  <2>2. i \in 1..Len(Entries) - 1
    BY <1>1, <2>1
  <2>3. Len(Left) = Len(Entries) - 1 /\ Left[i] = Entries[i]
    BY <1>1, <2>1, <2>2, PoppedType
  <2> QED BY <1>1, <2>2, <2>3
<1>3. CASE ~tty
  BY <1>1, <1>3, EntriesFacts DEF Left
<1> QED BY <1>1, <1>2, <1>3

LEMMA BangStep ==
    ASSUME IInv, HistInv, ~rewritten, NEW line \in Typable, Enter(line),
           line = Typed(<<"!!">>), NEW e \in LastEvent(log), NEW i \in DOMAIN Left, Left[i] = e
    PROVE  doing' = Unaliased(e.words)
<1>1. log \in Seq(Line) /\ phase = "edit" /\ Left \in Seq(Line)
  BY LeftType DEF IInv, TypeOK, Enter
<1>2. i \in 1..Len(Left)
  BY <1>1
<1>3. Mirrors(Left, log)
  BY <1>1, LeftFacts DEF Intact, Holds
<1>4. LastEvent(Left) = {e}
  BY <1>1, <1>2, <1>3, LastEventHeld
<1>5. Recalled(Left, line) = {e}
  <2>1. line.words = <<"!!">> /\ Len(<<"!!">>) = 1 /\ <<"!!">>[1] = "!!"
    BY DEF Typed
  <2>2. "!!" \notin {"!$", "!^"} \cup DOMAIN NumberOf
    BY SessionAssumption
  <2>3. Recalled(Left, line) = LastEvent(Left)
    BY <2>1, <2>2 DEF Recalled
  <2> QED BY <1>4, <2>3
<1>6. Meant(Left, line) = e
  BY <1>5 DEF Meant
<1> QED BY <1>6 DEF Enter

LEMMA NumberStep ==
    ASSUME IInv, HistInv, ~rewritten, NEW line \in Typable, Enter(line),
           NEW w \in DOMAIN NumberOf, line = Typed(<<w>>), Clean(file),
           NumberOf[w] \in DOMAIN file, Len(hist) < HistMax, file[NumberOf[w]] # Empty
    PROVE  doing' = Unaliased(file[NumberOf[w]].words)
<1> DEFINE n == NumberOf[w]
<1>1. /\ Entries \in Seq(Line) /\ tty \in BOOLEAN /\ phase = "edit" /\ Len(Entries) \in Nat
      /\ DOMAIN file = 1..Len(file) /\ Len(file) \in Nat /\ Len(Entries) < HistMax
  BY EntriesFacts DEF IInv, TypeOK, Enter
<1>2. Kept(Entries)
  <2>1. KeptUntilFull(Entries)
    BY <1>1 DEF HistInv, Numbered, Intact
  <2>2. tty => Entries[Len(Entries)] = Empty
    BY <1>1, EntriesFacts
  <2> QED BY <1>1, <2>1, <2>2 DEF KeptUntilFull, Spent
<1>3. n \in 1..Len(Entries) /\ Entries[n] = file[n]
  <2>1. n <= Len(Entries) /\ Entries[n] = file[n]
    BY <1>1, <1>2 DEF Kept
  <2> QED BY <1>1, <2>1
<1>4. n \in DOMAIN Left /\ Left[n] = file[n]
  BY <1>1, <1>3, LeftHolds
<1>5. n % IntRange = n
  <2>1. n \in Nat /\ n < IntRange /\ IntRange \in Nat /\ HistMax \in Nat
    BY <1>1, <1>3, SessionAssumption
  <2> HIDE DEF n
  <2> QED BY <2>1
<1>6. Recalled(Left, line) = {file[n]}
  <2>1. line.words = <<w>> /\ Len(<<w>>) = 1 /\ <<w>>[1] = w
    BY DEF Typed
  <2>2. w \notin {"!!", "!$", "!^"}
    BY SessionAssumption
  <2>3. Recalled(Left, line) = {Left[k] : k \in DOMAIN Left \cap {n % IntRange}}
    BY <2>1, <2>2 DEF Recalled
  <2> QED BY <1>4, <1>5, <2>3
<1>7. Meant(Left, line) = file[n]
  BY <1>6 DEF Meant
<1> QED BY <1>7 DEF Enter

\* As long as the keys of the editor rewrite nothing: !! runs again the last line
\* that was meant if the history holds it, and !n the line that the file had as n, as
\* long as the history is not full and no line of the file repeats the one before it.
THEOREM BangsRecallRight == Spec => RecallsRight
<1> DEFINE N(line) == IF line \in {Typed(<<w>>) : w \in DOMAIN NumberOf}
                      THEN NumberOf[line.words[1]] ELSE 0
           Right(line) ==
               /\ line = Typed(<<"!!">>) =>
                      \A e \in LastEvent(log) : (\E i \in DOMAIN Left : Left[i] = e)
                                                    => doing' = Unaliased(e.words)
               /\ (N(line) \in DOMAIN file /\ Len(hist) < HistMax /\ file[N(line)] # Empty
                      /\ Clean(file))
                      => doing' = Unaliased(file[N(line)].words)
           Recalls == \A line \in Typable : Enter(line) /\ ~rewritten => Right(line)
<1>1. ASSUME IInv, HistInv, NEW line \in Typable, Enter(line), ~rewritten PROVE Right(line)
  <2>1. ASSUME line = Typed(<<"!!">>), NEW e \in LastEvent(log), NEW i \in DOMAIN Left,
               Left[i] = e
        PROVE  doing' = Unaliased(e.words)
    BY <1>1, <2>1, BangStep
  <2>2. ASSUME N(line) \in DOMAIN file, Len(hist) < HistMax, file[N(line)] # Empty, Clean(file)
        PROVE  doing' = Unaliased(file[N(line)].words)
    <3>1. file \in Seq(Line)
      BY <1>1 DEF IInv, TypeOK
    <3>2. 0 \notin DOMAIN file
      BY <3>1
    <3>3. PICK w \in DOMAIN NumberOf : line = Typed(<<w>>)
      BY <2>2, <3>2
    <3>4. N(line) = NumberOf[w]
      <4>1. line.words[1] = w
        BY <3>3 DEF Typed
      <4> QED BY <3>3, <4>1
    <3> HIDE DEF N
    <3> QED BY <1>1, <2>2, <3>3, <3>4, NumberStep
  <2> HIDE DEF N
  <2> QED BY <2>1, <2>2
<1>2. IInv /\ HistInv /\ [Next]_vars => [Recalls]_vars
  BY <1>1
<1>3. Spec => [][Recalls]_vars
  BY <1>2, HistoryInvariance, PTL DEF Spec
<1> QED BY <1>3 DEF RecallsRight

=============================================================================
