-------------------------- MODULE Heredocs_proofs ---------------------------
(***************************************************************************)
(* Proofs about Heredocs and Stage, for every line and every file: each    *)
(* command runs with the body that was typed for it, and build_stage makes *)
(* of the lexemes of a command what they mean.                             *)
(***************************************************************************)
EXTENDS Heredocs, FiniteSetTheorems, WellFoundedInduction, TLAPS

\* As many documents of a command have ended as its counter says.
Counted ==
    \A k \in 1..Len(cmds) : /\ Len(cut[k]) = cmds[k].feed
                            /\ cmds[k].feed <= Documents(cmds[k])

\* Behind a command that waits no other has got a line.
Idle ==
    \A k \in 1..Len(cmds) : \A i \in 1..k - 1 :
        cmd_pending(cmds[i]) => cut[k] = <<>> /\ cmds[k].body = <<>>

\* A command that waits no more has its body, the one that gets the next line
\* has the lines since the end of the document before, none of which ends it.
Filled ==
    \A k \in 1..Len(cmds) :
        (~cmd_pending(cmds[k]) /\ Documents(cmds[k]) > 0)
        => BodyUpTo(k, cut[k][Documents(cmds[k])])
Filling ==
    \A k \in 1..Len(cmds) : First(k) =>
        /\ BodyUpTo(k, Len(fed) + 1)
        /\ \A p \in 1..Len(fed) : (\A q \in Places : q < p) =>
              ~EndsDoc(cmds[k], cmds[k].feed + 1, fed[p])

\* The last line that was taken ended a document, if no command waits.
Finished == ~Pending(cmds) => Len(fed) \in Places \cup {0}

RunsFilled == phase = "run" => ~Pending(cmds)

Inv == TypeOK /\ Counted /\ Idle /\ InOrder /\ EndsFirst
       /\ Filled /\ Filling /\ Finished /\ RunsFilled

-----------------------------------------------------------------------------
(* A command that gets a line *)

LEMMA FedType ==
    ASSUME NEW c \in Commands, NEW l \in Line
    PROVE  cmd_feed(c, l) \in Commands
<1>1. Stripped(c, l) \in Line
  BY DEF Stripped, Line, Commands
<1>2. c.body \in Seq(Line) /\ c.feed \in Nat
  BY DEF Commands
<1>3. <<>> \in Seq(Line) /\ Append(c.body, Stripped(c, l)) \in Seq(Line)
  BY <1>1, <1>2
<1>4. \A b \in Seq(Line), n \in Nat : /\ [c EXCEPT !.body = b] \in Commands
                                      /\ [c EXCEPT !.feed = n, !.body = b] \in Commands
  BY DEF Commands
<1>5. CASE Ends(c, l)
  <2> DEFINE b == IF c.feed < Len(c.skip) THEN <<>> ELSE c.body
  <2>1. b \in Seq(Line) /\ c.feed + 1 \in Nat
    BY <1>2, <1>3
  <2>2. cmd_feed(c, l) = [c EXCEPT !.feed = c.feed + 1, !.body = b]
    BY <1>5 DEF cmd_feed
  <2> QED BY <1>4, <2>1, <2>2
<1>6. CASE ~Ends(c, l)
  BY <1>3, <1>4, <1>6 DEF cmd_feed
<1> QED BY <1>5, <1>6

\* Its documents stay, and what ends them; one of them ends, or its body grows.
LEMMA FedFacts ==
    ASSUME NEW c \in Commands, NEW l \in Line
    PROVE  /\ cmd_feed(c, l).delim = c.delim
           /\ cmd_feed(c, l).strip = c.strip
           /\ cmd_feed(c, l).skip = c.skip
           /\ Ends(c, l) => /\ cmd_feed(c, l).feed = c.feed + 1
                            /\ cmd_feed(c, l).body = IF c.feed < Len(c.skip) THEN <<>> ELSE c.body
           /\ ~Ends(c, l) => /\ cmd_feed(c, l).feed = c.feed
                             /\ cmd_feed(c, l).body = Append(c.body, Stripped(c, l))
  BY DEF cmd_feed, Commands

LEMMA SameDocuments ==
    ASSUME NEW c, NEW d, d.delim = c.delim, d.strip = c.strip, d.skip = c.skip
    PROVE  /\ Documents(d) = Documents(c)
           /\ \A n, l : EndsDoc(d, n, l) = EndsDoc(c, n, l)
           /\ \A l : Stripped(d, l) = Stripped(c, l)
  BY DEF Documents, EndsDoc, Delim, Stripped

LEMMA DocumentsNat ==
    ASSUME NEW c \in Commands
    PROVE  /\ Documents(c) \in Nat
           /\ cmd_pending(c) <=> c.feed < Documents(c)
           /\ Documents(c) > 0 => Documents(c) = Len(c.skip) + 1
  BY DEF Documents, cmd_pending, Commands

-----------------------------------------------------------------------------
(* What a line changes *)

LEMMA Elements ==
    ASSUME TypeOK, NEW k \in 1..Len(cmds)
    PROVE  /\ cmds[k] \in Commands /\ cut[k] \in Seq(Nat)
           /\ Len(cmds[k].body) \in Nat /\ cmds[k].body \in Seq(Line)
           /\ cmds[k].feed \in Nat
<1>1. cmds[k] \in Commands /\ cut[k] \in Seq(Nat)
  BY DEF TypeOK
<1>2. \A c \in Commands : c.body \in Seq(Line) /\ c.feed \in Nat
  BY DEF Commands
<1> QED BY <1>1, <1>2

LEMMA FeedOthers ==
    ASSUME TypeOK, NEW k \in 1..Len(cmds), NEW l \in BodyLines, Feed(k, l)
    PROVE  /\ l \in Line
           /\ Len(cmds) \in Nat /\ Len(cmds') = Len(cmds)
           /\ Len(cut) = Len(cmds) /\ Len(cut') = Len(cmds)
           /\ \A i \in 1..Len(cmds) : i # k => cmds'[i] = cmds[i] /\ cut'[i] = cut[i]
           /\ cmds'[k] = cmd_feed(cmds[k], l)
           /\ Ends(cmds[k], l) => cut'[k] = Append(cut[k], Len(fed) + 1)
           /\ ~Ends(cmds[k], l) => cut'[k] = cut[k]
           /\ Len(fed) \in Nat /\ fed' \in Seq(Line) /\ Len(fed') = Len(fed) + 1
           /\ fed'[Len(fed) + 1] = l
           /\ \A p \in 1..Len(fed) : fed'[p] = fed[p]
<1>1. l \in Line
  BY StageAssumption
<1>2. /\ cmds' = [cmds EXCEPT ![k] = cmd_feed(cmds[k], l)]
      /\ fed' = Append(fed, l)
      /\ cut' = [cut EXCEPT ![k] = IF Ends(cmds[k], l) THEN Append(cut[k], Len(fed) + 1)
                                   ELSE cut[k]]
  BY DEF Feed
<1>3. cmds \in Seq(Commands) /\ cut \in Seq(Seq(Nat)) /\ Len(cut) = Len(cmds) /\ fed \in Seq(Line)
  BY DEF TypeOK
<1>4. /\ Len(fed) \in Nat /\ fed' \in Seq(Line) /\ Len(fed') = Len(fed) + 1
      /\ fed'[Len(fed) + 1] = l
      /\ \A p \in 1..Len(fed) : fed'[p] = fed[p]
  BY <1>1, <1>2, <1>3
<1>5. /\ Len(cmds) \in Nat /\ Len(cmds') = Len(cmds)
      /\ \A i \in 1..Len(cmds) : i # k => cmds'[i] = cmds[i]
      /\ cmds'[k] = cmd_feed(cmds[k], l)
  BY <1>2, <1>3
<1>6. /\ Len(cut') = Len(cut)
      /\ \A i \in 1..Len(cmds) : i # k => cut'[i] = cut[i]
      /\ Ends(cmds[k], l) => cut'[k] = Append(cut[k], Len(fed) + 1)
      /\ ~Ends(cmds[k], l) => cut'[k] = cut[k]
  BY <1>2, <1>3
<1> QED BY <1>1, <1>3, <1>4, <1>5, <1>6

\* The documents of all commands stay, and what ends them.
LEMMA FeedDocuments ==
    ASSUME TypeOK, NEW k \in 1..Len(cmds), NEW l \in BodyLines, Feed(k, l),
           NEW i \in 1..Len(cmds)
    PROVE  /\ Documents(cmds'[i]) = Documents(cmds[i])
           /\ \A n, x : EndsDoc(cmds'[i], n, x) = EndsDoc(cmds[i], n, x)
           /\ \A x : Stripped(cmds'[i], x) = Stripped(cmds[i], x)
           /\ cmds'[i] \in Commands
<1>1. CASE i = k
  BY <1>1, FeedOthers, Elements, FedFacts, FedType, SameDocuments
<1>2. CASE i # k
  <2>1. cmds'[i] = cmds[i]
    BY <1>2, FeedOthers
  <2> QED BY <2>1, Elements
<1> QED BY <1>1, <1>2

\* Its own place is the only new one.
LEMMA FeedPlaces ==
    ASSUME TypeOK, NEW k \in 1..Len(cmds), NEW l \in BodyLines, Feed(k, l)
    PROVE  Places' = IF Ends(cmds[k], l) THEN Places \cup {Len(fed) + 1} ELSE Places
<1>1. ASSUME NEW s \in Seq(Nat), NEW n \in Nat
      PROVE  ToSet(Append(s, n)) = ToSet(s) \cup {n}
  <2>1. /\ Append(s, n) \in Seq(Nat) /\ Len(Append(s, n)) = Len(s) + 1
        /\ Append(s, n)[Len(s) + 1] = n
        /\ \A i \in 1..Len(s) : Append(s, n)[i] = s[i]
        /\ Len(s) \in Nat
    OBVIOUS
  <2>2. /\ ToSet(Append(s, n)) = {Append(s, n)[i] : i \in 1..Len(s) + 1}
        /\ ToSet(s) = {s[i] : i \in 1..Len(s)}
    <3>1. DOMAIN Append(s, n) = 1..Len(s) + 1 /\ DOMAIN s = 1..Len(s)
      BY <2>1
    <3> QED BY <3>1, Zenon DEF ToSet
  <2>3. 1..Len(s) + 1 = (1..Len(s)) \cup {Len(s) + 1}
    BY <2>1
  <2> HIDE DEF ToSet
  <2> QED BY <2>1, <2>2, <2>3
<1>2. /\ Len(cut) = Len(cmds) /\ Len(cut') = Len(cmds)
      /\ \A i \in 1..Len(cmds) : i # k => cut'[i] = cut[i]
      /\ Ends(cmds[k], l) => cut'[k] = Append(cut[k], Len(fed) + 1)
      /\ ~Ends(cmds[k], l) => cut'[k] = cut[k]
      /\ Len(fed) + 1 \in Nat
  BY FeedOthers
<1>3. cut[k] \in Seq(Nat)
  BY Elements
<1>4. ToSet(cut'[k]) = IF Ends(cmds[k], l) THEN ToSet(cut[k]) \cup {Len(fed) + 1} ELSE ToSet(cut[k])
  BY <1>1, <1>2, <1>3
<1>5. \A i \in 1..Len(cmds) : i # k => ToSet(cut'[i]) = ToSet(cut[i])
  BY <1>2
<1>6. /\ Places = UNION {ToSet(cut[i]) : i \in 1..Len(cmds)}
      /\ Places' = UNION {ToSet(cut'[i]) : i \in 1..Len(cmds)}
  BY <1>2 DEF Places
<1> QED BY <1>4, <1>5, <1>6

LEMMA PlacesBefore ==
    ASSUME TypeOK, InOrder
    PROVE  /\ Len(fed) \in Nat
           /\ \A q \in Places : q \in 1..Len(fed)
           /\ \A k \in 1..Len(cut) : \A n \in 1..Len(cut[k]) : cut[k][n] \in Places
<1>1. \A k \in 1..Len(cut) : cut[k] \in Seq(Nat)
  BY DEF TypeOK
<1>2. \A k \in 1..Len(cut) : ToSet(cut[k]) = {cut[k][n] : n \in 1..Len(cut[k])}
  BY <1>1 DEF ToSet
<1>3. ASSUME NEW q \in Places PROVE q \in 1..Len(fed)
  <2>1. PICK k \in 1..Len(cut) : q \in ToSet(cut[k])
    BY DEF Places
  <2>2. PICK n \in 1..Len(cut[k]) : q = cut[k][n]
    BY <1>2, <2>1
  <2> QED BY <2>2 DEF InOrder
<1>4. \A k \in 1..Len(cut) : \A n \in 1..Len(cut[k]) : cut[k][n] \in Places
  BY <1>2 DEF Places
<1> QED BY <1>3, <1>4 DEF TypeOK

-----------------------------------------------------------------------------
(* A line keeps the invariant *)

LEMMA ExceptSeq ==
    ASSUME NEW S, NEW s \in Seq(S), NEW k \in 1..Len(s), NEW x \in S
    PROVE  [s EXCEPT ![k] = x] \in Seq(S)
  OBVIOUS

LEMMA FeedTypes ==
    ASSUME TypeOK, NEW k \in 1..Len(cmds), NEW l \in BodyLines, Feed(k, l)
    PROVE  TypeOK'
<1>1. cmds[k] \in Commands /\ cut[k] \in Seq(Nat) /\ cmds[k].body \in Seq(Line) /\ l \in Line
  BY Elements, FeedOthers
<1>2. cmds' \in Seq(Commands)
  <2>1. cmds \in Seq(Commands) /\ cmd_feed(cmds[k], l) \in Commands
    BY <1>1, FedType DEF TypeOK
  <2> QED BY <2>1 DEF Feed
<1>3. cut' \in Seq(Seq(Nat)) /\ Len(cut') = Len(cmds')
  <2>1. cut \in Seq(Seq(Nat)) /\ Append(cut[k], Len(fed) + 1) \in Seq(Nat)
    BY <1>1, FeedOthers DEF TypeOK
  <2>2. \A t \in Seq(Nat) : [cut EXCEPT ![k] = t] \in Seq(Seq(Nat))
    <3>1. k \in 1..Len(cut)
      BY FeedOthers
    <3> QED BY <2>1, <3>1, ExceptSeq
  <2>3. cut' \in Seq(Seq(Nat))
    <3> DEFINE t == IF Ends(cmds[k], l) THEN Append(cut[k], Len(fed) + 1) ELSE cut[k]
    <3>1. t \in Seq(Nat) /\ cut' = [cut EXCEPT ![k] = t]
      BY <1>1, <2>1 DEF Feed
    <3> QED BY <2>2, <3>1
  <2> QED BY <2>3, FeedOthers
<1>4. Len(cmds'[k].body) <= MaxBody
  <2>1. Ends(cmds[k], l) \/ Len(cmds[k].body) < MaxBody
    BY DEF Feed, Fits
  <2>2. Len(cmds[k].body) <= MaxBody /\ Len(cmds[k].body) \in Nat /\ MaxBody \in Nat
    BY Elements, StageAssumption DEF TypeOK
  <2>3. CASE Ends(cmds[k], l)
    <3>1. cmds'[k].body \in {<<>>, cmds[k].body}
      BY <1>1, <2>3, FeedOthers, FedFacts
    <3> QED BY <2>2, <3>1
  <2>4. CASE ~Ends(cmds[k], l)
    <3>1. cmds'[k].body = Append(cmds[k].body, Stripped(cmds[k], l))
      BY <1>1, <2>4, FeedOthers, FedFacts
    <3>2. Len(cmds'[k].body) = Len(cmds[k].body) + 1
      BY <1>1, <3>1
    <3> QED BY <2>1, <2>2, <2>4, <3>2
  <2> QED BY <2>3, <2>4
<1>5. \A i \in 1..Len(cmds') : Len(cmds'[i].body) <= MaxBody
  <2>1. \A i \in 1..Len(cmds) : i # k => Len(cmds'[i].body) <= MaxBody
    BY FeedOthers DEF TypeOK
  <2> QED BY <1>4, <2>1, FeedOthers
<1>6. fed' \in Seq(Line) /\ phase' \in {"fill", "run"} /\ line' \in Seq(Lexemes)
  BY FeedOthers DEF Feed, TypeOK
<1> QED BY <1>2, <1>3, <1>5, <1>6 DEF TypeOK

LEMMA FeedCounted ==
    ASSUME TypeOK, Counted, NEW k \in 1..Len(cmds), NEW l \in BodyLines, Feed(k, l)
    PROVE  Counted'
<1> SUFFICES ASSUME NEW i \in 1..Len(cmds)
             PROVE  Len(cut'[i]) = cmds'[i].feed /\ cmds'[i].feed <= Documents(cmds'[i])
  BY FeedOthers DEF Counted
<1>1. Len(cut[i]) = cmds[i].feed /\ cmds[i].feed <= Documents(cmds[i])
  BY DEF Counted
<1>2. CASE i # k
  BY <1>1, <1>2, FeedOthers
<1>3. CASE i = k
  <2>1. Documents(cmds'[k]) = Documents(cmds[k]) /\ cmds'[k] = cmd_feed(cmds[k], l)
    BY FeedDocuments, FeedOthers
  <2>2. cmds[k] \in Commands /\ cut[k] \in Seq(Nat) /\ l \in Line /\ Len(fed) \in Nat
    BY Elements, FeedOthers
  <2>3. cmds[k].feed < Documents(cmds[k]) /\ Documents(cmds[k]) \in Nat /\ cmds[k].feed \in Nat
    BY <2>2, DocumentsNat, Elements DEF Feed, First
  <2>4. CASE Ends(cmds[k], l)
    <3>1. cmds'[k].feed = cmds[k].feed + 1 /\ cut'[k] = Append(cut[k], Len(fed) + 1)
      BY <2>1, <2>2, <2>4, FedFacts, FeedOthers
    <3>2. Len(cut'[k]) = Len(cut[k]) + 1
      BY <2>2, <3>1
    <3> QED BY <1>1, <1>3, <2>1, <2>3, <3>1, <3>2
  <2>5. CASE ~Ends(cmds[k], l)
    BY <1>1, <1>3, <2>1, <2>2, <2>5, FedFacts, FeedOthers
  <2> QED BY <2>4, <2>5
<1> QED BY <1>2, <1>3

LEMMA FeedIdle ==
    ASSUME TypeOK, Idle, NEW k \in 1..Len(cmds), NEW l \in BodyLines, Feed(k, l)
    PROVE  Idle'
<1> SUFFICES ASSUME NEW j \in 1..Len(cmds), NEW i \in 1..j - 1, cmd_pending(cmds'[i])
             PROVE  cut'[j] = <<>> /\ cmds'[j].body = <<>>
  BY FeedOthers DEF Idle
<1>1. i \in 1..Len(cmds) /\ Len(cmds) \in Nat
  BY FeedOthers
<1>2. cmd_pending(cmds[k]) /\ \A h \in 1..k - 1 : ~cmd_pending(cmds[h])
  BY DEF Feed, First
<1>3. ~(i < k)
  BY <1>1, <1>2, FeedOthers
<1>4. j # k /\ k \in 1..j - 1
  BY <1>1, <1>3
<1>5. cut[j] = <<>> /\ cmds[j].body = <<>>
  BY <1>2, <1>4 DEF Idle
<1> QED BY <1>4, <1>5, FeedOthers

LEMMA FeedInOrder ==
    ASSUME TypeOK, Idle, InOrder, NEW k \in 1..Len(cmds), NEW l \in BodyLines, Feed(k, l)
    PROVE  InOrder'
<1>1. /\ Len(cut) = Len(cmds) /\ Len(cut') = Len(cmds) /\ Len(fed) \in Nat
      /\ Len(fed') = Len(fed) + 1 /\ Len(cmds) \in Nat
      /\ cut[k] \in Seq(Nat)
  BY FeedOthers, Elements
<1> SUFFICES ASSUME NEW j \in 1..Len(cmds), NEW n \in 1..Len(cut'[j])
             PROVE  /\ cut'[j][n] \in 1..Len(fed) + 1
                    /\ \A m \in 1..n - 1 : cut'[j][m] < cut'[j][n]
                    /\ \A i \in 1..j - 1 : \A m \in 1..Len(cut'[i]) : cut'[i][m] < cut'[j][n]
  BY <1>1 DEF InOrder
<1>5. \A i \in 1..j : i \in 1..Len(cmds)
  BY <1>1
\* Where nothing has changed up to here.
<1>4. ASSUME \A i \in 1..j : cut'[i] = cut[i]
      PROVE  /\ cut'[j][n] \in 1..Len(fed) + 1
             /\ \A m \in 1..n - 1 : cut'[j][m] < cut'[j][n]
             /\ \A i \in 1..j - 1 : \A m \in 1..Len(cut'[i]) : cut'[i][m] < cut'[j][n]
  <2>1. cut'[j] = cut[j] /\ \A i \in 1..j - 1 : cut'[i] = cut[i]
    BY <1>1, <1>4
  <2>2. /\ cut[j][n] \in 1..Len(fed)
        /\ \A m \in 1..n - 1 : cut[j][m] < cut[j][n]
        /\ \A i \in 1..j - 1 : \A m \in 1..Len(cut[i]) : cut[i][m] < cut[j][n]
    BY <1>1, <2>1 DEF InOrder
  <2> QED BY <1>1, <2>1, <2>2
<1>2. CASE ~Ends(cmds[k], l)
  <2>1. \A i \in 1..Len(cmds) : cut'[i] = cut[i]
    BY <1>2, FeedOthers
  <2> QED BY <1>4, <1>5, <2>1
<1>3. CASE Ends(cmds[k], l)
  <2>1. /\ \A i \in 1..Len(cmds) : i # k => cut'[i] = cut[i]
        /\ cut'[k] = Append(cut[k], Len(fed) + 1)
    BY <1>3, FeedOthers
  <2>2. /\ Len(cut'[k]) = Len(cut[k]) + 1 /\ Len(cut[k]) \in Nat
        /\ cut'[k][Len(cut[k]) + 1] = Len(fed) + 1
        /\ \A m \in 1..Len(cut[k]) : cut'[k][m] = cut[k][m]
    BY <1>1, <2>1
  <2>3. \A i \in 1..Len(cmds) : i > k => Len(cut[i]) = 0
    <3> SUFFICES ASSUME NEW i \in 1..Len(cmds), i > k PROVE Len(cut[i]) = 0
      OBVIOUS
    <3>1. k \in 1..i - 1
      BY <1>1
    <3> QED BY <3>1 DEF Idle, Feed, First
  <2>4. \A i \in 1..Len(cmds) : \A m \in 1..Len(cut[i]) : cut[i][m] \in 1..Len(fed)
    BY <1>1 DEF InOrder
  <2>5. CASE j < k
    <3>1. \A i \in 1..j : cut'[i] = cut[i]
      BY <1>1, <1>5, <2>1, <2>5
    <3> QED BY <1>4, <3>1
  <2>6. CASE j > k
    BY <2>1, <2>3, <2>6
  <2>7. CASE j = k /\ n <= Len(cut[k])
    <3>1. \A i \in 1..k - 1 : i \in 1..Len(cmds) /\ i # k
      BY <1>1
    <3>2. \A i \in 1..k - 1 : cut'[i] = cut[i]
      BY <2>1, <3>1
    <3>3. /\ cut[k][n] \in 1..Len(fed)
          /\ \A m \in 1..n - 1 : cut[k][m] < cut[k][n]
          /\ \A i \in 1..k - 1 : \A m \in 1..Len(cut[i]) : cut[i][m] < cut[k][n]
      <4>1. k \in 1..Len(cut) /\ n \in 1..Len(cut[k])
        BY <1>1, <2>7
      <4> QED BY <4>1 DEF InOrder
    <3>4. \A m \in 1..n : cut'[k][m] = cut[k][m]
      BY <2>2, <2>7
    <3>5. n \in 1..n /\ \A m \in 1..n - 1 : m \in 1..n
      BY <2>7
    <3>6. cut'[k][n] = cut[k][n] /\ cut[k][n] \in 1..Len(fed) + 1
      BY <1>1, <3>3, <3>4, <3>5
    <3>7. \A m \in 1..n - 1 : cut'[k][m] < cut'[k][n]
      BY <3>3, <3>4, <3>5, <3>6
    <3>8. \A i \in 1..k - 1 : \A m \in 1..Len(cut'[i]) : cut'[i][m] < cut'[k][n]
      BY <3>2, <3>3, <3>6
    <3> QED BY <2>7, <3>6, <3>7, <3>8
  <2>8. CASE j = k /\ n = Len(cut[k]) + 1
    <3>1. \A i \in 1..k - 1 : i \in 1..Len(cmds) /\ i # k
      BY <1>1
    <3>2. \A i \in 1..k - 1 : cut'[i] = cut[i] /\ \A m \in 1..Len(cut[i]) : cut[i][m] \in 1..Len(fed)
      BY <2>1, <2>4, <3>1
    <3>3. \A m \in 1..n - 1 : cut'[k][m] \in 1..Len(fed)
      <4>1. n - 1 = Len(cut[k]) /\ k \in 1..Len(cmds)
        BY <2>2, <2>8
      <4>2. \A m \in 1..Len(cut[k]) : cut[k][m] \in 1..Len(fed)
        BY <2>4, <4>1
      <4>3. \A m \in 1..Len(cut[k]) : cut'[k][m] = cut[k][m]
        BY <2>2
      <4> QED BY ONLY <4>1, <4>2, <4>3
    <3>4. cut'[j][n] = Len(fed) + 1 /\ cut'[j] = cut'[k]
      BY <2>2, <2>8
    <3>5. \A i \in 1..j - 1 : \A m \in 1..Len(cut'[i]) : cut'[i][m] < cut'[j][n]
      BY <1>1, <2>8, <3>2, <3>4
    <3>6. \A m \in 1..n - 1 : cut'[j][m] < cut'[j][n]
      BY <1>1, <3>3, <3>4
    <3> QED BY <1>1, <3>4, <3>5, <3>6
  <2> QED BY <1>1, <2>2, <2>5, <2>6, <2>7, <2>8
<1> QED BY <1>2, <1>3

LEMMA FeedEndsFirst ==
    ASSUME Inv, NEW k \in 1..Len(cmds), NEW l \in BodyLines, Feed(k, l)
    PROVE  EndsFirst'
<1> USE DEF Inv
<1>1. /\ Len(cut) = Len(cmds) /\ Len(cut') = Len(cmds) /\ Len(fed) \in Nat
      /\ Len(fed') = Len(fed) + 1 /\ Len(cmds) \in Nat
      /\ cut[k] \in Seq(Nat)
  BY FeedOthers, Elements
<1>2. /\ \A q \in Places : q \in 1..Len(fed)
      /\ \A i \in 1..Len(cmds) : \A n \in 1..Len(cut[i]) : cut[i][n] \in Places
  BY <1>1, PlacesBefore
<1>3. \A q \in Places' : q \in Places \/ (Ends(cmds[k], l) /\ q = Len(fed) + 1)
  BY FeedPlaces
<1>4. Places \subseteq Places'
  BY FeedPlaces
<1> SUFFICES ASSUME NEW i \in 1..Len(cmds), NEW n \in 1..Len(cut'[i]), NEW p \in 1..cut'[i][n],
                    \A q \in Places' : q < cut'[i][n] => q < p
             PROVE  EndsDoc(cmds'[i], n, fed'[p]) <=> p = cut'[i][n]
  BY <1>1 DEF EndsFirst
<1>5. EndsDoc(cmds'[i], n, fed'[p]) = EndsDoc(cmds[i], n, fed'[p])
  BY FeedDocuments
\* A place that was there before.
<1>6. ASSUME n \in 1..Len(cut[i]), cut'[i][n] = cut[i][n]
      PROVE  EndsDoc(cmds[i], n, fed'[p]) <=> p = cut'[i][n]
  <2>1. cut[i][n] \in 1..Len(fed)
    BY <1>2, <1>6
  <2>2. p \in 1..cut[i][n] /\ p \in 1..Len(fed)
    BY <1>1, <1>6, <2>1
  <2>3. \A q \in Places : q < cut[i][n] => q < p
    BY <1>4, <1>6
  <2>4. EndsDoc(cmds[i], n, fed[p]) <=> p = cut[i][n]
    BY <1>1, <1>6, <2>2, <2>3 DEF EndsFirst
  <2>5. fed'[p] = fed[p]
    BY <2>2, FeedOthers
  <2> QED BY <1>6, <2>4, <2>5
<1>7. CASE i # k \/ ~Ends(cmds[k], l)
  <2>1. cut'[i] = cut[i]
    BY <1>7, FeedOthers
  <2> QED BY <1>5, <1>6, <2>1
<1>8. CASE i = k /\ Ends(cmds[k], l)
  <2>1. cut'[k] = Append(cut[k], Len(fed) + 1)
    BY <1>8, FeedOthers
  <2>2. /\ Len(cut'[k]) = Len(cut[k]) + 1 /\ Len(cut[k]) \in Nat
        /\ cut'[k][Len(cut[k]) + 1] = Len(fed) + 1
        /\ \A m \in 1..Len(cut[k]) : cut'[k][m] = cut[k][m]
    BY <1>1, <2>1
  <2>3. CASE n <= Len(cut[k])
    BY <1>5, <1>6, <1>8, <2>2, <2>3
  <2>4. CASE n = Len(cut[k]) + 1
    <3>1. n = cmds[k].feed + 1 /\ cut'[i][n] = Len(fed) + 1
      BY <1>8, <2>2, <2>4 DEF Counted
    <3>2. \A q \in Places : q < p
      BY <1>1, <1>2, <1>4, <3>1
    <3>3. CASE p = Len(fed) + 1
      <4>1. fed'[p] = l
        BY <3>3, FeedOthers
      <4> QED BY <1>5, <1>8, <3>1, <3>3, <4>1 DEF Ends
    <3>4. CASE p \in 1..Len(fed)
      <4>1. fed'[p] = fed[p]
        BY <3>4, FeedOthers
      <4>2. First(k)
        BY DEF Feed
      <4>3. ~EndsDoc(cmds[k], n, fed[p])
        BY <3>1, <3>2, <3>4, <4>2 DEF Filling
      <4> QED BY <1>1, <1>5, <1>8, <3>1, <3>4, <4>1, <4>3
    <3> QED BY <1>1, <3>1, <3>3, <3>4
  <2> QED BY <1>8, <2>2, <2>3, <2>4
<1> QED BY <1>7, <1>8

\* A body that is there stays there.
LEMMA FeedBodyUpTo ==
    ASSUME Inv, NEW k \in 1..Len(cmds), NEW l \in BodyLines, Feed(k, l),
           NEW i \in 1..Len(cmds), cmds'[i].body = cmds[i].body,
           NEW to \in 1..Len(fed) + 1, BodyUpTo(i, to)
    PROVE  BodyUpTo(i, to)'
<1> USE DEF Inv
<1> DEFINE from == to - 1 - Len(cmds[i].body)
<1>1. /\ from \in Places \cup {0}
      /\ \A n \in 1..Len(cmds[i].body) :
            from + n \notin Places /\ cmds[i].body[n] = Stripped(cmds[i], fed[from + n])
  BY DEF BodyUpTo
<1>2. Len(cmds[i].body) \in Nat /\ Len(fed) \in Nat
  BY Elements, FeedOthers
<1>3. from \in Nat
  <2>1. \A q \in Places : q \in 1..Len(fed)
    BY PlacesBefore
  <2>2. \A q \in Places \cup {0} : q \in Nat
    BY <2>1
  <2> HIDE DEF from
  <2> QED BY <1>1, <2>2
<1>4. ASSUME NEW n \in 1..Len(cmds[i].body)
      PROVE  from + n \notin Places' /\ cmds'[i].body[n] = Stripped(cmds'[i], fed'[from + n])
  <2>1. from + n \in 1..Len(fed)
    BY <1>2, <1>3
  <2>2. from + n \notin Places'
    <3>1. from + n \notin Places
      BY <1>1
    <3>2. \A p \in 1..Len(fed) : p # Len(fed) + 1
      BY <1>2
    <3> HIDE DEF from
    <3> QED BY <2>1, <3>1, <3>2, FeedPlaces
  <2>3. fed'[from + n] = fed[from + n] /\ Stripped(cmds'[i], fed[from + n]) = Stripped(cmds[i], fed[from + n])
    <3>1. \A p \in 1..Len(fed) : fed'[p] = fed[p]
      BY FeedOthers
    <3>2. \A x : Stripped(cmds'[i], x) = Stripped(cmds[i], x)
      BY FeedDocuments
    <3> HIDE DEF from
    <3> QED BY ONLY <2>1, <3>1, <3>2, Zenon
  <2> QED BY <1>1, <2>2, <2>3
<1>5. from \in Places' \cup {0}
  BY <1>1, FeedPlaces
<1> QED BY <1>4, <1>5 DEF BodyUpTo

LEMMA FeedFilled ==
    ASSUME Inv, NEW k \in 1..Len(cmds), NEW l \in BodyLines, Feed(k, l)
    PROVE  Filled'
<1> USE DEF Inv
<1> SUFFICES ASSUME NEW i \in 1..Len(cmds), ~cmd_pending(cmds'[i]), Documents(cmds'[i]) > 0
             PROVE  BodyUpTo(i, cut[i][Documents(cmds[i])])'
  BY FeedOthers DEF Filled
<1> DEFINE d == Documents(cmds[i])
<1>1. Documents(cmds'[i]) = d /\ d \in Nat /\ d > 0
  BY FeedDocuments, Elements, DocumentsNat
<1>2. /\ Len(cut) = Len(cmds) /\ Len(fed) \in Nat /\ l \in Line
      /\ cmds[k] \in Commands /\ cut[k] \in Seq(Nat) /\ cmds[k].feed \in Nat
  BY FeedOthers, Elements
<1>3. CASE i # k
  <2>1. cmds'[i] = cmds[i] /\ cut'[i] = cut[i]
    BY <1>3, FeedOthers
  <2>2. cmds[i].feed >= d /\ cmds[i].feed \in Nat
    BY <1>1, <2>1, Elements, DocumentsNat
  <2>3. d \in 1..Len(cut[i])
    BY <1>1, <2>2 DEF Counted
  <2>4. PICK to \in 1..Len(fed) + 1 : to = cut[i][d]
    BY <1>2, <2>3 DEF InOrder
  <2>5. BodyUpTo(i, cut[i][d])
    BY <1>1, <2>1 DEF Filled
  <2>6. BodyUpTo(i, to)
    BY <2>4, <2>5
  <2>7. BodyUpTo(i, to)'
    BY <2>1, <2>6, FeedBodyUpTo
  <2> QED BY <1>1, <2>1, <2>4, <2>7
<1>4. CASE i = k
  <2>1. First(k) /\ cmds'[k] = cmd_feed(cmds[k], l)
    BY FeedOthers DEF Feed
  <2>2. cmds[k].feed < d /\ d = Len(cmds[k].skip) + 1
    BY <1>1, <1>2, <1>4, <2>1, DocumentsNat DEF First
  <2>3. ~(cmds'[k].feed < d) /\ cmds'[k] \in Commands
    BY <1>1, <1>4, FeedDocuments, DocumentsNat
  <2>4. Ends(cmds[k], l)
    BY <1>2, <2>1, <2>2, <2>3, FedFacts
  <2>5. cmds'[k].feed = cmds[k].feed + 1
    BY <1>2, <2>1, <2>4, FedFacts
  <2>6. d = cmds[k].feed + 1 /\ ~(cmds[k].feed < Len(cmds[k].skip))
    BY <1>1, <1>2, <2>2, <2>3, <2>5
  <2>7. cmds'[k].body = cmds[k].body
    BY <1>2, <2>1, <2>4, <2>6, FedFacts
  <2>8. BodyUpTo(k, Len(fed) + 1)
    BY <2>1 DEF Filling
  <2>9. PICK to \in 1..Len(fed) + 1 : to = Len(fed) + 1
    BY <1>2
  <2>10. BodyUpTo(k, to)'
    BY <2>7, <2>8, <2>9, FeedBodyUpTo
  <2>11. cut'[k] = Append(cut[k], Len(fed) + 1) /\ Len(cut[k]) = cmds[k].feed
    BY <2>4, FeedOthers DEF Counted
  <2>12. cut'[k][d] = to
    BY <1>2, <2>6, <2>9, <2>11
  <2> QED BY <1>1, <1>4, <2>10, <2>12
<1> QED BY <1>3, <1>4

LEMMA FeedFilling ==
    ASSUME Inv, NEW k \in 1..Len(cmds), NEW l \in BodyLines, Feed(k, l)
    PROVE  Filling'
<1> USE DEF Inv
<1>1. /\ Len(cut) = Len(cmds) /\ Len(fed) \in Nat /\ l \in Line /\ Len(cmds) \in Nat
      /\ Len(fed') = Len(fed) + 1 /\ fed'[Len(fed) + 1] = l
      /\ cmds[k] \in Commands /\ cut[k] \in Seq(Nat) /\ cmds[k].feed \in Nat
      /\ cmds[k].body \in Seq(Line)
      /\ cmds'[k] = cmd_feed(cmds[k], l)
  BY FeedOthers, Elements
<1>2. First(k) /\ cmd_pending(cmds[k]) /\ \A i \in 1..k - 1 : ~cmd_pending(cmds[i])
  BY DEF Feed, First
<1>3. /\ BodyUpTo(k, Len(fed) + 1)
      /\ \A p \in 1..Len(fed) : (\A q \in Places : q < p) =>
            ~EndsDoc(cmds[k], cmds[k].feed + 1, fed[p])
  BY <1>2 DEF Filling
<1> SUFFICES ASSUME NEW i \in 1..Len(cmds), First(i)'
             PROVE  /\ BodyUpTo(i, Len(fed) + 1)'
                    /\ \A p \in 1..Len(fed') : (\A q \in Places' : q < p) =>
                          ~EndsDoc(cmds'[i], cmds'[i].feed + 1, fed'[p])
  BY FeedOthers DEF Filling
<1>4. cmd_pending(cmds'[i]) /\ \A h \in 1..i - 1 : ~cmd_pending(cmds'[h])
  BY DEF First
<1>5. ~(i < k)
  <2>1. i < k => i \in 1..k - 1 /\ i # k
    OBVIOUS
  <2> QED BY <1>2, <1>4, <2>1, FeedOthers
\* The document ends: the next one has no line yet.
<1>6. CASE Ends(cmds[k], l)
  <2>1. Places' = Places \cup {Len(fed) + 1}
    BY <1>6, FeedPlaces
  <2>2. cmds'[i].body = <<>>
    <3>1. CASE i = k
      <4>1. cmds'[k].feed < Documents(cmds[k]) /\ cmds'[k].feed = cmds[k].feed + 1
        BY <1>1, <1>4, <1>6, <3>1, FeedDocuments, DocumentsNat, FedFacts
      <4>2. Documents(cmds[k]) = Len(cmds[k].skip) + 1 /\ Len(cmds[k].skip) \in Nat
        BY <1>1, <4>1, DocumentsNat DEF Commands
      <4>3. cmds[k].feed < Len(cmds[k].skip)
        BY <1>1, <4>1, <4>2
      <4> QED BY <1>1, <1>6, <3>1, <4>3, FedFacts
    <3>2. CASE i > k
      <4>1. k \in 1..i - 1 /\ cmds'[i] = cmds[i]
        BY <1>1, <3>2, FeedOthers
      <4> QED BY <1>2, <4>1 DEF Idle
    <3> QED BY <1>5, <3>1, <3>2
  <2>3. BodyUpTo(i, Len(fed) + 1)'
    <3>1. Len(fed') + 1 - 1 - Len(cmds'[i].body) = Len(fed) + 1
      BY <1>1, <2>2
    <3>2. Len(fed) + 1 \in Places' /\ Len(cmds'[i].body) = 0
      BY <2>1, <2>2
    <3> QED BY <3>1, <3>2 DEF BodyUpTo
  <2>4. ASSUME NEW p \in 1..Len(fed'), \A q \in Places' : q < p PROVE FALSE
    <3>1. Len(fed) + 1 < p
      BY <2>1, <2>4
    <3>2. \A n \in Nat : \A r \in 1..n + 1 : ~(n + 1 < r)
      OBVIOUS
    <3> QED BY <1>1, <3>1, <3>2
  <2> QED BY <2>3, <2>4
\* The line goes to the body.
<1>7. CASE ~Ends(cmds[k], l)
  <2>1. /\ Places' = Places
        /\ cmds'[k].feed = cmds[k].feed
        /\ cmds'[k].body = Append(cmds[k].body, Stripped(cmds[k], l))
    BY <1>1, <1>7, FeedPlaces, FedFacts
  <2>2. cmd_pending(cmds'[k])
    <3>1. Documents(cmds'[k]) = Documents(cmds[k]) /\ cmds'[k] \in Commands
      BY FeedDocuments
    <3> QED BY <1>1, <1>2, <2>1, <3>1, DocumentsNat
  <2>3. i = k
    <3>1. i > k => k \in 1..i - 1
      BY <1>1
    <3> QED BY <1>4, <1>5, <2>2, <3>1
  <2> DEFINE len == Len(cmds[k].body)
             from == Len(fed) - len
  <2>4. /\ len \in Nat /\ Stripped(cmds[k], l) \in Line
        /\ Len(cmds'[k].body) = len + 1
        /\ cmds'[k].body[len + 1] = Stripped(cmds[k], l)
        /\ \A n \in 1..len : cmds'[k].body[n] = cmds[k].body[n]
    <3>1. Stripped(cmds[k], l) \in Line
      BY <1>1 DEF Stripped, Line, Commands
    <3> QED BY <1>1, <2>1, <3>1
  <2>5. /\ from \in Places \cup {0}
        /\ \A n \in 1..len :
              from + n \notin Places /\ cmds[k].body[n] = Stripped(cmds[k], fed[from + n])
    <3>1. Len(fed) + 1 - 1 - Len(cmds[k].body) = from
      BY <1>1, <2>4
    <3> QED BY <1>3, <3>1 DEF BodyUpTo
  <2>6. from \in Nat /\ from + (len + 1) = Len(fed) + 1
    <3>1. len \in Nat /\ Len(fed) \in Nat
      BY <1>1, <2>4
    <3>2. from \in Nat
      BY <2>5, PlacesBefore
    <3> HIDE DEF len
    <3> QED BY <3>1, <3>2
  <2>7. ASSUME NEW n \in 1..len + 1
        PROVE  from + n \notin Places' /\ cmds'[k].body[n] = Stripped(cmds'[k], fed'[from + n])
    <3>1. \A x : Stripped(cmds'[k], x) = Stripped(cmds[k], x)
      BY FeedDocuments
    <3>2. CASE n \in 1..len
      <4>1. from + n \in 1..Len(fed)
        BY <1>1, <2>4, <2>6, <3>2
      <4>2. fed'[from + n] = fed[from + n]
        BY <4>1, FeedOthers
      <4> QED BY <2>1, <2>4, <2>5, <3>1, <3>2, <4>2
    <3>3. CASE n = len + 1
      <4>1. from + n = Len(fed) + 1
        BY <2>6, <3>3
      <4>2. Len(fed) + 1 \notin Places
        BY <1>1, PlacesBefore
      <4> QED BY <1>1, <2>1, <2>4, <3>1, <3>3, <4>1, <4>2
    <3>4. len \in Nat
      BY <2>4
    <3> HIDE DEF len, from
    <3> QED BY <3>2, <3>3, <3>4
  <2>8. BodyUpTo(k, Len(fed) + 1)'
    <3>1. Len(fed') + 1 - 1 - Len(cmds'[k].body) = from
      <4>1. len \in Nat /\ Len(fed) \in Nat
        BY <1>1, <2>4
      <4>2. Len(fed') = Len(fed) + 1 /\ Len(cmds'[k].body) = len + 1
        BY <1>1, <2>4
      <4> HIDE DEF len
      <4> QED BY <4>1, <4>2
    <3>2. from \in Places' \cup {0}
      BY <2>1, <2>5
    <3>3. Len(cmds'[k].body) = len + 1
      BY <2>4
    <3>4. Len(fed') + 1 = (Len(fed) + 1)'
      OBVIOUS
    <3> HIDE DEF from, len
    <3> QED BY <2>7, <3>1, <3>2, <3>3, <3>4 DEF BodyUpTo
  <2>9. ASSUME NEW p \in 1..Len(fed'), \A q \in Places' : q < p
        PROVE  ~EndsDoc(cmds'[k], cmds'[k].feed + 1, fed'[p])
    <3>1. \A x : EndsDoc(cmds'[k], cmds[k].feed + 1, x) = EndsDoc(cmds[k], cmds[k].feed + 1, x)
      BY FeedDocuments
    <3>2. CASE p \in 1..Len(fed)
      <4>1. fed'[p] = fed[p]
        BY <3>2, FeedOthers
      <4> QED BY <1>3, <2>1, <2>9, <3>1, <3>2, <4>1
    <3>3. CASE p = Len(fed) + 1
      BY <1>1, <1>7, <2>1, <3>1, <3>3 DEF Ends
    <3> QED BY <1>1, <3>2, <3>3
  <2> QED BY <2>3, <2>8, <2>9
<1> QED BY <1>6, <1>7

LEMMA FeedFinished ==
    ASSUME Inv, NEW k \in 1..Len(cmds), NEW l \in BodyLines, Feed(k, l)
    PROVE  Finished' /\ RunsFilled'
<1> USE DEF Inv
<1>1. CASE Ends(cmds[k], l)
  <2>1. Len(fed') \in Places'
    BY <1>1, FeedPlaces, FeedOthers
  <2> QED BY <2>1 DEF Finished, RunsFilled, Feed
<1>2. CASE ~Ends(cmds[k], l)
  <2>1. cmds[k] \in Commands /\ l \in Line /\ cmds'[k] = cmd_feed(cmds[k], l) /\ cmd_pending(cmds[k])
    BY Elements, FeedOthers DEF Feed, First
  <2>2. cmds'[k].feed = cmds[k].feed
    BY <1>2, <2>1, FedFacts
  <2>3. cmd_pending(cmds'[k])
    BY <2>1, <2>2, FeedDocuments, DocumentsNat
  <2>4. Pending(cmds')
    BY <2>3, FeedOthers DEF Pending
  <2> QED BY <2>4 DEF Finished, RunsFilled, Feed
<1> QED BY <1>1, <1>2

-----------------------------------------------------------------------------
(* The other actions, and the theorems *)

\* No line of the file is taken yet.
Blank ==
    /\ line \in Seq(Lexemes) /\ cmds \in Seq(Fresh) /\ fed = <<>>
    /\ cut = [k \in 1..Len(cmds) |-> <<>>]
    /\ phase \in {"read", "refused", "fill", "run", "quit"}

LEMMA BlankInv == Blank /\ RunsFilled => Inv
<1> SUFFICES ASSUME Blank, RunsFilled PROVE Inv
  OBVIOUS
<1>1. /\ Len(cmds) \in Nat /\ Len(cut) = Len(cmds) /\ cut \in Seq(Seq(Nat))
      /\ Len(fed) = 0 /\ fed \in Seq(Line)
      /\ \A k \in 1..Len(cmds) : cut[k] = <<>> /\ Len(cut[k]) = 0
  BY DEF Blank
<1>2. \A k \in 1..Len(cmds) : /\ cmds[k] \in Commands /\ cmds[k].feed = 0
                              /\ cmds[k].body = <<>> /\ Len(cmds[k].body) = 0
  BY DEF Blank, Fresh
<1>3. cmds \in Seq(Commands)
  BY DEF Blank, Fresh
<1>4. Places = {}
  BY <1>1 DEF Places, ToSet
<1>5. TypeOK
  BY <1>1, <1>2, <1>3, StageAssumption DEF Blank, TypeOK
<1>6. Counted /\ Filled
  <2>1. ASSUME NEW k \in 1..Len(cmds)
        PROVE  /\ Len(cut[k]) = cmds[k].feed /\ cmds[k].feed <= Documents(cmds[k])
               /\ cmd_pending(cmds[k]) <=> Documents(cmds[k]) > 0
    <3>1. Documents(cmds[k]) \in Nat /\ (cmd_pending(cmds[k]) <=> 0 < Documents(cmds[k]))
      BY <1>2, DocumentsNat
    <3> QED BY <1>1, <1>2, <3>1
  <2> QED BY <2>1 DEF Counted, Filled
<1>7. Idle
  <2>1. \A k \in 1..Len(cmds) : cut[k] = <<>> /\ cmds[k].body = <<>>
    BY <1>1, <1>2
  <2> QED BY <2>1 DEF Idle
<1>8. InOrder /\ EndsFirst
  <2>1. \A k \in 1..Len(cut) : 1..Len(cut[k]) = {}
    BY <1>1
  <2> QED BY <2>1 DEF InOrder, EndsFirst
<1>9. Filling
  <2>1. ASSUME NEW k \in 1..Len(cmds) PROVE BodyUpTo(k, Len(fed) + 1)
    BY <1>1, <1>2 DEF BodyUpTo
  <2> QED BY <1>1, <2>1 DEF Filling
<1>10. Finished
  BY <1>1 DEF Finished
<1> QED BY <1>5, <1>6, <1>7, <1>8, <1>9, <1>10 DEF Inv

LEMMA HeredocsInit == DocInit => Inv
<1> SUFFICES ASSUME DocInit PROVE Blank /\ RunsFilled
  BY BlankInv
<1>1. <<>> \in Seq(Fresh) /\ <<>> \in Seq(Lexemes) /\ cut = [k \in 1..Len(cmds) |-> <<>>]
  BY DEF DocInit
<1> QED BY <1>1 DEF DocInit, Blank, RunsFilled

\* What the invariant says of the commands is not about the phase.
LEMMA PhaseInv ==
    ASSUME Inv, UNCHANGED <<line, cmds, fed, cut>>, RunsFilled',
           phase' \in {"read", "refused", "fill", "run", "quit"}
    PROVE  Inv'
<1>1. TypeOK' /\ Counted' /\ Idle'
  BY DEF Inv, TypeOK, Counted, Idle
<1>2. Places' = Places
  BY DEF Places
<1>3. InOrder' /\ EndsFirst'
  BY <1>2 DEF Inv, InOrder, EndsFirst
<1>4. \A k, to : BodyUpTo(k, to)' <=> BodyUpTo(k, to)
  BY <1>2 DEF BodyUpTo
<1>5. Filled' /\ Filling' /\ Finished'
  <2>1. Filled'
    BY <1>4 DEF Inv, Filled
  <2>2. \A k : First(k)' <=> First(k)
    BY DEF First
  <2>3. Filling'
    BY <1>2, <1>4, <2>2 DEF Inv, Filling
  <2>4. Finished'
    BY <1>2 DEF Inv, Finished, Pending
  <2> QED BY <2>1, <2>3, <2>4
<1> QED BY <1>1, <1>3, <1>5 DEF Inv

LEMMA HeredocsNext == Inv /\ [DocNext]_docVars => Inv'
<1> SUFFICES ASSUME Inv, [DocNext]_docVars PROVE Inv'
  OBVIOUS
<1>1. CASE DocRead
  <2>1. Blank' /\ RunsFilled'
    BY <1>1 DEF DocRead, Blank, RunsFilled
  <2> QED BY <2>1, BlankInv, PTL
<1>2. ASSUME NEW k \in 1..Len(cmds), NEW l \in BodyLines, Feed(k, l) PROVE Inv'
  BY <1>2, FeedTypes, FeedCounted, FeedIdle, FeedInOrder, FeedEndsFirst, FeedFilled,
     FeedFilling, FeedFinished DEF Inv
<1>3. CASE DocQuit
  BY <1>3, PhaseInv DEF DocQuit, RunsFilled
<1>4. CASE DocDone
  <2>1. <<>> \in Seq(Fresh) /\ <<>> \in Seq(Lexemes) /\ <<>> = [k \in 1..Len(<<>>) |-> <<>>]
    OBVIOUS
  <2>2. Blank' /\ RunsFilled'
    BY <1>4, <2>1 DEF DocDone, Blank, RunsFilled
  <2> QED BY <2>2, BlankInv, PTL
<1>5. CASE UNCHANGED docVars
  <2>1. UNCHANGED <<line, cmds, fed, cut>> /\ phase' = phase
    BY <1>5 DEF docVars
  <2>2. phase' \in {"read", "refused", "fill", "run", "quit"} /\ RunsFilled'
    BY <2>1 DEF Inv, TypeOK, RunsFilled, Pending
  <2> QED BY <2>1, <2>2, PhaseInv
<1> QED BY <1>1, <1>2, <1>3, <1>4, <1>5 DEF DocNext

\* The invariant holds in every state of the specification.
THEOREM HeredocsInvariance == DocSpec => []Inv
  BY HeredocsInit, HeredocsNext, PTL DEF DocSpec

\* The state of the reader of here-documents has its type: a body is a sequence
\* of lines no longer than the ceiling of petrush_heredoc_feed_line.
THEOREM HeredocsTypeCorrect == DocSpec => []TypeOK
<1>1. Inv => TypeOK
  BY DEF Inv
<1> QED BY <1>1, HeredocsInvariance, PTL

\* When a line runs, all its here-documents have been read, in the order of the
\* text, each of its commands has the body that was typed for its last document,
\* and no line was taken from the file that no document asked for.
THEOREM BodiesFilledInOrder == DocSpec => [](phase = "run" => BodiesInOrder)
<1>1. Inv => (phase = "run" => BodiesInOrder)
  <2> SUFFICES ASSUME Inv, phase = "run" PROVE BodiesInOrder
    OBVIOUS
  <2>1. \A k \in 1..Len(cmds) : cmds[k] \in Commands /\ ~cmd_pending(cmds[k])
    BY Elements DEF Inv, RunsFilled, Pending
  <2>2. \A k \in 1..Len(cmds) : Len(cut[k]) = Documents(cmds[k])
    <3> TAKE k \in 1..Len(cmds)
    <3>1. /\ Len(cut[k]) = cmds[k].feed /\ cmds[k].feed <= Documents(cmds[k])
          /\ cmds[k] \in Commands
      BY Elements DEF Inv, Counted
    <3>2. ~(cmds[k].feed < Documents(cmds[k]))
      BY <2>1, DocumentsNat
    <3>3. cmds[k].feed \in Nat /\ Documents(cmds[k]) \in Nat
      BY <3>1, DocumentsNat DEF Commands
    <3> QED BY <3>1, <3>2, <3>3
  <2>3. \A k \in 1..Len(cmds) :
            Documents(cmds[k]) > 0 => BodyUpTo(k, cut[k][Documents(cmds[k])])
    BY <2>1 DEF Inv, Filled
  <2>4. Len(fed) \in Places \cup {0}
    BY DEF Inv, Finished, RunsFilled
  <2> QED BY <2>2, <2>3, <2>4 DEF Inv, BodiesInOrder
<1> QED BY <1>1, HeredocsInvariance, PTL

\* Whoever reads lines as DocSpec says, as Lines does, fills its commands so.
THEOREM ReadersFillInOrder == DocSpec => FilledInOrder
<1> DEFINE FillStep == DocNext /\ (phase' = "run" => BodiesInOrder')
<1>1. (phase = "run" => BodiesInOrder)' /\ [DocNext]_docVars => [FillStep]_docVars
  OBVIOUS
<1>2. DocSpec => [][FillStep]_docVars
  <2> HIDE DEF FillStep
  <2> QED BY <1>1, BodiesFilledInOrder, PTL DEF DocSpec
<1> QED BY <1>2 DEF DocSpec, FilledInOrder

-----------------------------------------------------------------------------
(* build_stage: its recursive function exists, and goes from lexeme to lexeme *)

LEMMA LeastNumber ==
    ASSUME NEW T \in SUBSET Nat, T # {}
    PROVE  \E x \in T : \A y \in T : x <= y
<1> DEFINE R == {ss \in Nat \X Nat : ss[1] < ss[2]}
<1>1. IsWellFoundedOn(R, Nat)
  BY NatLessThanWellFounded DEF OpToRel
<1>2. \E x \in T : \A y \in T : <<y, x>> \notin R
  <2> HIDE DEF R
  <2> QED BY <1>1, WFMin
<1>3. PICK x \in T : \A y \in T : <<y, x>> \notin R
  BY <1>2
<1>4. ASSUME NEW y \in T PROVE x <= y
  <2>1. ~(<<y, x>> \in Nat \X Nat /\ y < x)
    BY <1>3
  <2> QED BY <2>1
<1> QED BY <1>3, <1>4

\* What CommandAt is on the first n lexemes.
StepsTo(s, n, f) ==
    f = [p \in 0..n |-> IF p = 0 THEN NewCmd ELSE Reads(f[p - 1], s, p)]

LEMMA StepsExist ==
    ASSUME NEW s, NEW n \in Nat
    PROVE  \E f : StepsTo(s, n, f)
<1> DEFINE T == {m \in Nat : ~\E f : StepsTo(s, m, f)}
<1> SUFFICES ASSUME T # {} PROVE FALSE
  OBVIOUS
<1>1. PICK m \in T : \A y \in T : m <= y
  BY LeastNumber
<1>2. CASE m = 0
  <2>1. StepsTo(s, 0, [p \in 0..0 |-> NewCmd])
    BY DEF StepsTo
  <2> QED BY <1>1, <1>2, <2>1
<1>3. CASE m # 0
  <2>1. m - 1 \in Nat /\ m \in Nat /\ ~(m <= m - 1)
    BY <1>3
  <2>2. PICK f : StepsTo(s, m - 1, f)
    BY <1>1, <2>1
  <2> DEFINE g == [p \in 0..m |-> IF p = m THEN Reads(f[m - 1], s, m) ELSE f[p]]
  <2>3. \A p \in 0..m - 1 : g[p] = f[p] /\ p \in 0..m
    BY <2>1
  <2>4. \A p \in 0..m - 1 : f[p] = IF p = 0 THEN NewCmd ELSE Reads(f[p - 1], s, p)
    BY <2>2 DEF StepsTo
  <2>5. ASSUME NEW p \in 0..m
        PROVE  g[p] = IF p = 0 THEN NewCmd ELSE Reads(g[p - 1], s, p)
    <3>1. CASE p = m
      BY <1>3, <2>1, <2>3, <3>1
    <3>2. CASE p # m
      <4>1. p \in 0..m - 1 /\ (p # 0 => p - 1 \in 0..m - 1)
        BY <2>1, <3>2
      <4> QED BY <2>3, <2>4, <4>1
    <3> QED BY <3>1, <3>2
  <2>6. g = [p \in 0..m |-> g[p]]
    OBVIOUS
  <2>7. StepsTo(s, m, g)
    <3> HIDE DEF g
    <3> QED BY <2>5, <2>6 DEF StepsTo
  <2> QED BY <1>1, <2>7
<1> QED BY <1>2, <1>3

LEMMA CommandSteps ==
    ASSUME NEW s \in Seq(Lexemes)
    PROVE  /\ CommandAt(s)[0] = NewCmd
           /\ \A p \in 1..Len(s) : CommandAt(s)[p] = Reads(CommandAt(s)[p - 1], s, p)
<1>1. Len(s) \in Nat
  OBVIOUS
<1>2. \E f : StepsTo(s, Len(s), f)
  BY <1>1, StepsExist
<1>3. StepsTo(s, Len(s), CommandAt(s))
  BY <1>2 DEF StepsTo, CommandAt
<1>4. /\ 0 \in 0..Len(s)
      /\ \A p \in 1..Len(s) : p \in 0..Len(s) /\ p # 0
  BY <1>1
<1> QED BY <1>3, <1>4 DEF StepsTo

-----------------------------------------------------------------------------
(* build_stage: what one redirection does *)

OutOps == {">", ">>", "&>"}
ErrOps == {"2>", "2>>", "2>&1", "&>"}
InOps  == {"<", "<<", "<<-"}

\* A command that no line went to, and whose skipped documents need a last one.
Unfed(c) == c \in Commands /\ c.feed = 0 /\ c.body = <<>> /\ (c.delim = None => c.skip = <<>>)

LEMMA RedirectFacts ==
    ASSUME NEW c, Unfed(c), NEW op \in Redirs, NEW path \in Lexemes
    PROVE  LET d == Redirect(c, op, path)
           IN  /\ Unfed(d)
               /\ d.argv = c.argv
               /\ d.out = IF op \in OutOps THEN path ELSE c.out
               /\ d.append = IF op \in OutOps THEN op = ">>" ELSE c.append
               /\ d.merge = IF op \in ErrOps THEN op = "&>" ELSE c.merge
               /\ d.err = IF op \in ErrOps THEN IF op = "&>" THEN None ELSE path ELSE c.err
               /\ d.errAppend = IF op \in ErrOps THEN op = "2>>" ELSE c.errAppend
               /\ d.in = IF op \in InOps THEN IF op = "<" THEN path ELSE None ELSE c.in
               /\ d.delim = IF op \in InOps THEN IF op = "<" THEN None ELSE path ELSE c.delim
               /\ d.strip = IF op \in InOps THEN op = "<<-" ELSE c.strip
               /\ d.skip = IF op = "<" THEN <<>>
                           ELSE IF op \in {"<<", "<<-"} /\ c.delim # None
                           THEN Append(c.skip, c.delim) ELSE c.skip
<1>1. path \in Lexemes /\ path # None /\ c \in Commands
  BY DEF Lexemes, Unfed
<1>2. CASE op \in {"<<", "<<-"}
  <2>1. Redirect(c, op, path) = ReadHere(c, op, path)
    BY <1>2 DEF Redirect
  <2>2. (c.delim # None => c.delim \in Lexemes) /\ c.skip \in Seq(Lexemes)
    BY <1>1 DEF Commands
  <2>3. c.delim # None => Append(c.skip, c.delim) \in Seq(Lexemes)
    BY <2>2
  <2> DEFINE d == ReadHere(c, op, path)
             k == IF c.delim = None THEN c.skip ELSE Append(c.skip, c.delim)
  <2>4. k \in Seq(Lexemes)
    BY <2>2, <2>3
  <2>5. d = [c EXCEPT !.in = None, !.delim = path, !.strip = (op = "<<-"), !.skip = k]
    BY DEF ReadHere
  <2>6. /\ d.argv = c.argv /\ d.out = c.out /\ d.append = c.append /\ d.merge = c.merge
        /\ d.err = c.err /\ d.errAppend = c.errAppend /\ d.in = None /\ d.delim = path
        /\ d.strip = (op = "<<-") /\ d.skip = k /\ d.feed = c.feed /\ d.body = c.body
    <3> HIDE DEF k
    <3> QED BY <1>1, <2>5 DEF Commands
  <2>7. d \in Commands
    <3> HIDE DEF k, d
    <3>1. (op = "<<-") \in BOOLEAN
      OBVIOUS
    <3> QED BY <1>1, <2>4, <2>5, <3>1 DEF Commands
  <2>8. Unfed(d)
    <3> HIDE DEF d
    <3> QED BY <1>1, <2>6, <2>7 DEF Unfed
  <2>9. /\ op \notin OutOps /\ op \notin ErrOps /\ op \in InOps /\ op # "<"
    BY <1>2 DEF OutOps, ErrOps, InOps
  <2>10. d = Redirect(c, op, path)
    BY <2>1
  <2> HIDE DEF d
  <2> QED BY <1>2, <2>6, <2>8, <2>9, <2>10
<1>3. CASE op = "<"
  <2> DEFINE d == Redirect(c, op, path)
  <2>1. d = [c EXCEPT !.in = path, !.delim = None, !.strip = FALSE, !.skip = <<>>]
    BY <1>3 DEF Redirect, ReadFile
  <2>2. /\ d.argv = c.argv /\ d.out = c.out /\ d.append = c.append /\ d.err = c.err
        /\ d.errAppend = c.errAppend /\ d.merge = c.merge /\ d.in = path /\ d.delim = None
        /\ d.strip = FALSE /\ d.skip = <<>> /\ d.feed = c.feed /\ d.body = c.body
    BY <1>1, <2>1 DEF Commands
  <2>3. d \in Commands
    <3> HIDE DEF d
    <3>1. (op = ">>") \in BOOLEAN /\ (op = "2>>") \in BOOLEAN /\ <<>> \in Seq(Lexemes)
      OBVIOUS
    <3> QED BY <1>1, <2>1, <3>1 DEF Commands
  <2>4. Unfed(d)
    <3> HIDE DEF d
    <3> QED BY <1>1, <2>2, <2>3 DEF Unfed
  <2>5. /\ op \notin OutOps /\ op \notin ErrOps /\ op \in InOps
    BY <1>3 DEF OutOps, ErrOps, InOps
  <2>6. d = Redirect(c, op, path)
    OBVIOUS
  <2> HIDE DEF d
  <2> QED BY <1>3, <2>2, <2>4, <2>5, <2>6
<1>4. CASE op \in {">", ">>"}
  <2> DEFINE d == Redirect(c, op, path)
  <2>1. d = [c EXCEPT !.out = path, !.append = (op = ">>")]
    BY <1>4 DEF Redirect, WriteOut
  <2>2. /\ d.argv = c.argv /\ d.out = path /\ d.append = (op = ">>") /\ d.err = c.err
        /\ d.errAppend = c.errAppend /\ d.merge = c.merge /\ d.in = c.in /\ d.delim = c.delim
        /\ d.strip = c.strip /\ d.skip = c.skip /\ d.feed = c.feed /\ d.body = c.body
    BY <1>1, <2>1 DEF Commands
  <2>3. d \in Commands
    <3> HIDE DEF d
    <3>1. (op = ">>") \in BOOLEAN /\ (op = "2>>") \in BOOLEAN /\ <<>> \in Seq(Lexemes)
      OBVIOUS
    <3> QED BY <1>1, <2>1, <3>1 DEF Commands
  <2>4. Unfed(d)
    <3> HIDE DEF d
    <3> QED BY <1>1, <2>2, <2>3 DEF Unfed
  <2>5. /\ op \in OutOps /\ op \notin ErrOps /\ op \notin InOps
    BY <1>4 DEF OutOps, ErrOps, InOps
  <2>6. d = Redirect(c, op, path)
    OBVIOUS
  <2> HIDE DEF d
  <2> QED BY <1>4, <2>2, <2>4, <2>5, <2>6
<1>5. CASE op \in {"2>", "2>>"}
  <2> DEFINE d == Redirect(c, op, path)
  <2>1. d = [c EXCEPT !.err = path, !.errAppend = (op = "2>>"), !.merge = FALSE]
    BY <1>5 DEF Redirect, WriteErr
  <2>2. /\ d.argv = c.argv /\ d.out = c.out /\ d.append = c.append /\ d.err = path
        /\ d.errAppend = (op = "2>>") /\ d.merge = FALSE /\ d.in = c.in /\ d.delim = c.delim
        /\ d.strip = c.strip /\ d.skip = c.skip /\ d.feed = c.feed /\ d.body = c.body
    BY <1>1, <2>1 DEF Commands
  <2>3. d \in Commands
    <3> HIDE DEF d
    <3>1. (op = ">>") \in BOOLEAN /\ (op = "2>>") \in BOOLEAN /\ <<>> \in Seq(Lexemes)
      OBVIOUS
    <3> QED BY <1>1, <2>1, <3>1 DEF Commands
  <2>4. Unfed(d)
    <3> HIDE DEF d
    <3> QED BY <1>1, <2>2, <2>3 DEF Unfed
  <2>5. /\ op \notin OutOps /\ op \in ErrOps /\ op \notin InOps
    BY <1>5 DEF OutOps, ErrOps, InOps
  <2>6. d = Redirect(c, op, path)
    OBVIOUS
  <2> HIDE DEF d
  <2> QED BY <1>5, <2>2, <2>4, <2>5, <2>6
<1>6. CASE op = "&>"
  <2> DEFINE d == Redirect(c, op, path)
  <2>1. d = [c EXCEPT !.out = path, !.append = FALSE, !.err = None, !.errAppend = FALSE, !.merge = TRUE]
    BY <1>6 DEF Redirect, WriteBoth
  <2>2. /\ d.argv = c.argv /\ d.out = path /\ d.append = FALSE /\ d.err = None
        /\ d.errAppend = FALSE /\ d.merge = TRUE /\ d.in = c.in /\ d.delim = c.delim
        /\ d.strip = c.strip /\ d.skip = c.skip /\ d.feed = c.feed /\ d.body = c.body
    BY <1>1, <2>1 DEF Commands
  <2>3. d \in Commands
    <3> HIDE DEF d
    <3>1. (op = ">>") \in BOOLEAN /\ (op = "2>>") \in BOOLEAN /\ <<>> \in Seq(Lexemes)
      OBVIOUS
    <3> QED BY <1>1, <2>1, <3>1 DEF Commands
  <2>4. Unfed(d)
    <3> HIDE DEF d
    <3> QED BY <1>1, <2>2, <2>3 DEF Unfed
  <2>5. /\ op \in OutOps /\ op \in ErrOps /\ op \notin InOps
    BY <1>6 DEF OutOps, ErrOps, InOps
  <2>6. d = Redirect(c, op, path)
    OBVIOUS
  <2> HIDE DEF d
  <2> QED BY <1>6, <2>2, <2>4, <2>5, <2>6
<1> QED BY <1>2, <1>3, <1>4, <1>5, <1>6 DEF Redirs

LEMMA OtherFacts ==
    ASSUME NEW c, Unfed(c), NEW x \in Lexemes
    PROVE  /\ Unfed(MergeErr(c)) /\ Unfed(PushArg(c, x))
           /\ PushArg(c, x) = [c EXCEPT !.argv = Append(c.argv, x)]
           /\ PushArg(c, x).argv = Append(c.argv, x)
           /\ MergeErr(c) = [c EXCEPT !.err = None, !.errAppend = FALSE, !.merge = TRUE]
           /\ MergeErr(c).err = None /\ MergeErr(c).errAppend = FALSE /\ MergeErr(c).merge = TRUE
<1>1. x \in Lexemes /\ c \in Commands
  BY DEF Lexemes, Unfed
<1>2. Append(c.argv, x) \in Seq(Lexemes)
  BY <1>1 DEF Commands
<1>3. /\ PushArg(c, x) = [c EXCEPT !.argv = Append(c.argv, x)]
      /\ MergeErr(c) = [c EXCEPT !.err = None, !.errAppend = FALSE, !.merge = TRUE]
  BY DEF PushArg, MergeErr
<1>4. /\ PushArg(c, x).argv = Append(c.argv, x) /\ PushArg(c, x) \in Commands
      /\ PushArg(c, x).feed = c.feed /\ PushArg(c, x).body = c.body
      /\ PushArg(c, x).delim = c.delim /\ PushArg(c, x).skip = c.skip
  BY <1>1, <1>2, <1>3 DEF Commands
<1>5. /\ MergeErr(c).err = None /\ MergeErr(c).errAppend = FALSE /\ MergeErr(c).merge = TRUE
      /\ MergeErr(c).feed = c.feed /\ MergeErr(c).body = c.body
      /\ MergeErr(c).delim = c.delim /\ MergeErr(c).skip = c.skip
  BY <1>1, <1>3 DEF Commands
<1>6. MergeErr(c) \in Commands
  BY <1>1, <1>3 DEF Commands
<1> QED BY <1>1, <1>3, <1>4, <1>5, <1>6 DEF Unfed

\* A here-document comes behind those the command has.
LEMMA HereDocuments ==
    ASSUME NEW c, Unfed(c), NEW d,
           d.delim # None,
           d.skip = IF c.delim = None THEN c.skip ELSE Append(c.skip, c.delim)
    PROVE  /\ Documents(c) \in Nat
           /\ Documents(d) = Documents(c) + 1
           /\ Delim(d, Documents(d)) = d.delim
           /\ \A k \in 1..Documents(c) : Delim(d, k) = Delim(c, k)
<1>1. c.skip \in Seq(Lexemes) /\ Len(c.skip) \in Nat
  BY DEF Unfed, Commands
<1>2. CASE c.delim = None
  BY <1>1, <1>2 DEF Unfed, Documents, Delim
<1>3. CASE c.delim # None
  <2>1. /\ Len(d.skip) = Len(c.skip) + 1
        /\ d.skip[Len(c.skip) + 1] = c.delim
        /\ \A k \in 1..Len(c.skip) : d.skip[k] = c.skip[k]
    BY <1>1, <1>3
  <2> QED BY <1>1, <1>3, <2>1 DEF Documents, Delim
<1> QED BY <1>2, <1>3

-----------------------------------------------------------------------------
(* build_stage: positions and their ranks *)

Latest(T, q) == q \in T /\ \A r \in T : r <= q

\* A position behind all others is the latest, and has the highest rank.
LEMMA NewLatest ==
    ASSUME NEW T \in SUBSET Nat, IsFiniteSet(T), NEW n \in Nat, \A t \in T : t < n
    PROVE  /\ \A q : Latest(T \cup {n}, q) <=> q = n
           /\ IsFiniteSet(T \cup {n})
           /\ Cardinality(T) \in Nat
           /\ Cardinality(T \cup {n}) = Cardinality(T) + 1
           /\ Rank(T \cup {n}, n) = Cardinality(T) + 1
           /\ \A q \in T : Rank(T \cup {n}, q) = Rank(T, q) /\ Rank(T, q) \in 1..Cardinality(T)
<1>1. n \notin T
  OBVIOUS
<1>2. \A q : Latest(T \cup {n}, q) <=> q = n
  <2>1. \A r \in T : r \in Nat /\ r < n /\ r <= n /\ ~(n <= r)
    OBVIOUS
  <2>2. n <= n
    OBVIOUS
  <2> QED BY <2>1, <2>2 DEF Latest
<1>3. IsFiniteSet(T \cup {n}) /\ Cardinality(T) \in Nat /\ Cardinality(T \cup {n}) = Cardinality(T) + 1
  BY <1>1, FS_AddElement, FS_CardinalityType
<1>4. Rank(T \cup {n}, n) = Cardinality(T) + 1
  <2>1. \A q \in T \cup {n} : q <= n
    <3>1. \A q \in T : q \in Nat /\ q < n
      OBVIOUS
    <3> QED BY <3>1
  <2>2. {q \in T \cup {n} : q <= n} = T \cup {n}
    BY <2>1
  <2> QED BY <1>3, <2>2 DEF Rank
<1>5. ASSUME NEW q \in T
      PROVE  Rank(T \cup {n}, q) = Rank(T, q) /\ Rank(T, q) \in 1..Cardinality(T)
  <2> DEFINE U == {r \in T : r <= q}
  <2>1. {r \in T \cup {n} : r <= q} = U
    OBVIOUS
  <2>2. IsFiniteSet(U) /\ Cardinality(U) \in Nat /\ Cardinality(U) <= Cardinality(T)
    BY FS_Subset, FS_CardinalityType
  <2>3. q \in U
    OBVIOUS
  <2>4. Cardinality(U) # 0
    BY <2>2, <2>3, FS_EmptySet
  <2>5. Rank(T \cup {n}, q) = Cardinality(U) /\ Rank(T, q) = Cardinality(U)
    BY <2>1 DEF Rank
  <2> HIDE DEF U
  <2> QED BY <1>3, <2>2, <2>4, <2>5
<1> QED BY <1>2, <1>3, <1>4, <1>5

\* A redirection at q is complete when lexeme p is read.
Done(s, q, p)     == IF s[q] = "2>&1" THEN q <= p ELSE q < p
OpsAt(s, ops, p)  == {q \in 1..Len(s) : s[q] \in ops /\ Done(s, q, p)}
HeresAt(s, p)     == {q \in OpsAt(s, {"<<", "<<-"}, p) : \A r \in OpsAt(s, {"<"}, p) : r < q}
ArgumentsAt(s, p) == {q \in Arguments(s) : q <= p}

AllOps == Redirs \cup {"2>&1"}

LEMMA SetsFinite ==
    ASSUME NEW s \in Seq(Lexemes), NEW ops, NEW p
    PROVE  /\ OpsAt(s, ops, p) \in SUBSET Nat /\ IsFiniteSet(OpsAt(s, ops, p))
           /\ HeresAt(s, p) \in SUBSET Nat /\ IsFiniteSet(HeresAt(s, p))
           /\ ArgumentsAt(s, p) \in SUBSET Nat /\ IsFiniteSet(ArgumentsAt(s, p))
<1>1. Len(s) \in Nat /\ IsFiniteSet(1..Len(s)) /\ 1..Len(s) \subseteq Nat
  BY FS_Interval
<1>2. /\ OpsAt(s, ops, p) \subseteq 1..Len(s) /\ HeresAt(s, p) \subseteq 1..Len(s)
      /\ ArgumentsAt(s, p) \subseteq 1..Len(s)
  BY DEF OpsAt, HeresAt, ArgumentsAt, Arguments
<1> QED BY <1>1, <1>2, FS_Subset

\* What the lexeme at p completes: an operator at the end, its word, or nothing.
Completes(s, p) == s[p] \notin Redirs /\ Operand(s, p)

LEMMA OperandWord ==
    ASSUME NEW s \in Seq(Lexemes), WellFormed(s), NEW p \in 1..Len(s), Operand(s, p)
    PROVE  IsWord(s[p]) /\ p - 1 \in 1..Len(s) /\ s[p - 1] \in Redirs /\ p \in Nat
<1>1. p - 1 \in 1..Len(s) /\ s[p - 1] \in Redirs /\ p \in Nat /\ p - 1 + 1 = p
  BY DEF Operand
<1>2. IsWord(Lexeme(s, p - 1 + 1))
  BY <1>1 DEF WellFormed
<1>3. Lexeme(s, p) = s[p]
  BY DEF Lexeme
<1> QED BY <1>1, <1>2, <1>3

LEMMA OpsStep ==
    ASSUME NEW s \in Seq(Lexemes), WellFormed(s), NEW p \in 1..Len(s), NEW ops \in SUBSET AllOps
    PROVE  /\ Operand(s, p) =>
                /\ \A q \in OpsAt(s, AllOps, p - 1) : q < p - 1
                /\ OpsAt(s, ops, p) = OpsAt(s, ops, p - 1)
                                      \cup (IF s[p - 1] \in ops THEN {p - 1} ELSE {})
           /\ ~Operand(s, p) /\ s[p] = "2>&1" =>
                /\ \A q \in OpsAt(s, AllOps, p - 1) : q < p
                /\ OpsAt(s, ops, p) = OpsAt(s, ops, p - 1)
                                      \cup (IF s[p] \in ops THEN {p} ELSE {})
           /\ ~Operand(s, p) /\ s[p] # "2>&1" => OpsAt(s, ops, p) = OpsAt(s, ops, p - 1)
<1>1. p \in Nat /\ Len(s) \in Nat /\ p >= 1 /\ p <= Len(s)
  OBVIOUS
<1>2. "2>&1" \notin Redirs
  BY DEF Redirs
<1>3. ASSUME NEW q \in 1..Len(s), q # p, q # p - 1
      PROVE  Done(s, q, p) <=> Done(s, q, p - 1)
  BY <1>1, <1>3 DEF Done
<1>4. CASE Operand(s, p)
  <2>1. IsWord(s[p]) /\ p - 1 \in 1..Len(s) /\ s[p - 1] \in Redirs
    BY <1>4, OperandWord
  <2>2. s[p] \notin AllOps /\ s[p - 1] # "2>&1"
    BY <1>2, <2>1 DEF IsWord, AllOps
  <2>3. Done(s, p - 1, p) /\ ~Done(s, p - 1, p - 1)
    BY <1>1, <2>2 DEF Done
  <2>4. \A q \in OpsAt(s, AllOps, p - 1) : q < p - 1
    BY <1>1, <2>2, <2>3 DEF OpsAt, Done
  <2>5. OpsAt(s, ops, p) = OpsAt(s, ops, p - 1) \cup (IF s[p - 1] \in ops THEN {p - 1} ELSE {})
    BY <1>3, <2>1, <2>2, <2>3 DEF OpsAt
  <2> QED BY <1>4, <2>4, <2>5
<1>5. CASE ~Operand(s, p)
  <2>1. p = 1 \/ (p - 1 \in 1..Len(s) /\ s[p - 1] \notin Redirs)
    BY <1>1, <1>5 DEF Operand
  <2>2. ASSUME NEW q \in 1..Len(s), s[q] \in ops, q # p
        PROVE  Done(s, q, p) <=> Done(s, q, p - 1)
    <3>1. CASE q = p - 1
      <4>1. s[q] = "2>&1"
        BY <2>1, <2>2, <3>1 DEF AllOps
      <4> QED BY <1>1, <3>1, <4>1 DEF Done
    <3> QED BY <1>3, <2>2, <3>1
  <2>3. CASE s[p] = "2>&1"
    <3>1. Done(s, p, p) /\ ~Done(s, p, p - 1)
      BY <1>1, <2>3 DEF Done
    <3>2. \A q \in OpsAt(s, AllOps, p - 1) : q < p
      BY <1>1 DEF OpsAt, Done
    <3>3. OpsAt(s, ops, p) = OpsAt(s, ops, p - 1) \cup (IF s[p] \in ops THEN {p} ELSE {})
      BY <2>2, <3>1 DEF OpsAt
    <3> QED BY <1>5, <2>3, <3>2, <3>3
  <2>4. CASE s[p] # "2>&1"
    <3>1. ~Done(s, p, p) /\ ~Done(s, p, p - 1)
      BY <1>1, <2>4 DEF Done
    <3>2. OpsAt(s, ops, p) = OpsAt(s, ops, p - 1)
      BY <2>2, <3>1 DEF OpsAt
    <3> QED BY <1>5, <2>4, <3>2
  <2> QED BY <2>3, <2>4
<1> QED BY <1>4, <1>5

-----------------------------------------------------------------------------
(* build_stage: the command after each lexeme is what the lexemes mean so far *)

\* What the streams of a command come from, given the redirections of each.
OutAt(s, T, c) ==
    /\ T = {} => c.out = None /\ c.append = FALSE
    /\ \A q : Latest(T, q) => c.out = s[q + 1] /\ c.append = (s[q] = ">>")
ErrAt(s, T, c) ==
    /\ T = {} => c.err = None /\ c.errAppend = FALSE /\ c.merge = FALSE
    /\ \A q : Latest(T, q) =>
          /\ c.merge = (s[q] \in {"2>&1", "&>"})
          /\ c.err = IF s[q] \in {"2>&1", "&>"} THEN None ELSE s[q + 1]
          /\ c.errAppend = (s[q] = "2>>")
InAt(s, T, c) ==
    /\ T = {} => c.in = None /\ c.delim = None /\ c.strip = FALSE
    /\ \A q : Latest(T, q) =>
          /\ c.in = IF s[q] = "<" THEN s[q + 1] ELSE None
          /\ c.delim = IF s[q] = "<" THEN None ELSE s[q + 1]
          /\ c.strip = (s[q] = "<<-")
DocsAt(s, T, c) ==
    /\ Documents(c) = Cardinality(T)
    /\ \A q \in T : Delim(c, Rank(T, q)) = s[q + 1]
ArgsAt(s, T, c) ==
    /\ Len(c.argv) = Cardinality(T)
    /\ \A q \in T : c.argv[Rank(T, q)] = s[q]

MeansAt(s, p, c) ==
    /\ Unfed(c)
    /\ OutAt(s, OpsAt(s, OutOps, p), c) /\ ErrAt(s, OpsAt(s, ErrOps, p), c)
    /\ InAt(s, OpsAt(s, InOps, p), c)
    /\ DocsAt(s, HeresAt(s, p), c) /\ ArgsAt(s, ArgumentsAt(s, p), c)

\* The redirection at n makes d of c.
Redirected(s, c, d, n) ==
    /\ d.out = IF s[n] \in OutOps THEN s[n + 1] ELSE c.out
    /\ d.append = IF s[n] \in OutOps THEN s[n] = ">>" ELSE c.append
    /\ d.merge = IF s[n] \in ErrOps THEN s[n] \in {"2>&1", "&>"} ELSE c.merge
    /\ d.err = IF s[n] \in ErrOps
               THEN IF s[n] \in {"2>&1", "&>"} THEN None ELSE s[n + 1] ELSE c.err
    /\ d.errAppend = IF s[n] \in ErrOps THEN s[n] = "2>>" ELSE c.errAppend
    /\ d.in = IF s[n] \in InOps THEN IF s[n] = "<" THEN s[n + 1] ELSE None ELSE c.in
    /\ d.delim = IF s[n] \in InOps THEN IF s[n] = "<" THEN None ELSE s[n + 1] ELSE c.delim
    /\ d.strip = IF s[n] \in InOps THEN s[n] = "<<-" ELSE c.strip

\* A redirection of a stream replaces what came before, the others do not count.
LEMMA StreamsStep ==
    ASSUME NEW s, NEW c, NEW d, NEW n \in Nat,
           NEW To \in SUBSET Nat, NEW Te \in SUBSET Nat, NEW Ti \in SUBSET Nat,
           IsFiniteSet(To), IsFiniteSet(Te), IsFiniteSet(Ti),
           \A t \in To \cup Te \cup Ti : t < n,
           OutAt(s, To, c), ErrAt(s, Te, c), InAt(s, Ti, c),
           Redirected(s, c, d, n)
    PROVE  /\ OutAt(s, To \cup (IF s[n] \in OutOps THEN {n} ELSE {}), d)
           /\ ErrAt(s, Te \cup (IF s[n] \in ErrOps THEN {n} ELSE {}), d)
           /\ InAt(s, Ti \cup (IF s[n] \in InOps THEN {n} ELSE {}), d)
<1>1. \A T : T \cup {} = T /\ T \cup {n} # {}
  OBVIOUS
<1>2. /\ \A q : Latest(To \cup {n}, q) <=> q = n
      /\ \A q : Latest(Te \cup {n}, q) <=> q = n
      /\ \A q : Latest(Ti \cup {n}, q) <=> q = n
  BY NewLatest
<1>3. OutAt(s, To \cup (IF s[n] \in OutOps THEN {n} ELSE {}), d)
  <2>1. CASE s[n] \in OutOps
    BY <1>1, <1>2, <2>1 DEF OutAt, Redirected
  <2>2. CASE s[n] \notin OutOps
    BY <1>1, <2>2 DEF OutAt, Redirected
  <2> QED BY <2>1, <2>2
<1>4. ErrAt(s, Te \cup (IF s[n] \in ErrOps THEN {n} ELSE {}), d)
  <2>1. CASE s[n] \in ErrOps
    BY <1>1, <1>2, <2>1 DEF ErrAt, Redirected
  <2>2. CASE s[n] \notin ErrOps
    BY <1>1, <2>2 DEF ErrAt, Redirected
  <2> QED BY <2>1, <2>2
<1>5. InAt(s, Ti \cup (IF s[n] \in InOps THEN {n} ELSE {}), d)
  <2>1. CASE s[n] \in InOps
    BY <1>1, <1>2, <2>1 DEF InAt, Redirected
  <2>2. CASE s[n] \notin InOps
    BY <1>1, <2>2 DEF InAt, Redirected
  <2> QED BY <2>1, <2>2
<1> QED BY <1>3, <1>4, <1>5

LEMMA HeresStep ==
    ASSUME NEW s \in Seq(Lexemes), WellFormed(s), NEW p \in 1..Len(s)
    PROVE  HeresAt(s, p) = IF ~Operand(s, p) THEN HeresAt(s, p - 1)
                           ELSE IF s[p - 1] \in {"<<", "<<-"} THEN HeresAt(s, p - 1) \cup {p - 1}
                           ELSE IF s[p - 1] = "<" THEN {}
                           ELSE HeresAt(s, p - 1)
<1> DEFINE H == {"<<", "<<-"}
           I == {"<"}
<1>1. /\ H \in SUBSET AllOps /\ I \in SUBSET AllOps /\ AllOps \in SUBSET AllOps
      /\ "2>&1" \notin H /\ "2>&1" \notin I /\ "<" \notin H
      /\ \A x : x \in I <=> x = "<"
  BY DEF AllOps, Redirs
<1>2. \A q : (q \in OpsAt(s, H, p - 1) \/ q \in OpsAt(s, I, p - 1)) => q \in OpsAt(s, AllOps, p - 1)
  BY <1>1 DEF OpsAt
<1>3. \A q : /\ (q \in OpsAt(s, H, p - 1) \/ q \in OpsAt(s, I, p - 1)) => q \in Nat
             /\ q \in HeresAt(s, p) <=> (q \in OpsAt(s, H, p) /\ \A r \in OpsAt(s, I, p) : r < q)
             /\ q \in HeresAt(s, p - 1) <=>
                    (q \in OpsAt(s, H, p - 1) /\ \A r \in OpsAt(s, I, p - 1) : r < q)
  <2>1. \A ops, j : OpsAt(s, ops, j) \subseteq Nat
    BY SetsFinite
  <2> QED BY <2>1 DEF HeresAt
<1> HIDE DEF H, I
<1>4. CASE ~Operand(s, p)
  <2>1. OpsAt(s, H, p) = OpsAt(s, H, p - 1) /\ OpsAt(s, I, p) = OpsAt(s, I, p - 1)
    <3>1. CASE s[p] = "2>&1"
      <4>1. /\ OpsAt(s, H, p) = OpsAt(s, H, p - 1) \cup (IF s[p] \in H THEN {p} ELSE {})
            /\ OpsAt(s, I, p) = OpsAt(s, I, p - 1) \cup (IF s[p] \in I THEN {p} ELSE {})
        BY <1>1, <1>4, <3>1, OpsStep
      <4>2. s[p] \notin H /\ s[p] \notin I
        BY <1>1, <3>1
      <4> QED BY <4>1, <4>2
    <3>2. CASE s[p] # "2>&1"
      BY <1>1, <1>4, <3>2, OpsStep
    <3> QED BY <3>1, <3>2
  <2>2. HeresAt(s, p) = HeresAt(s, p - 1)
    BY <1>3, <2>1
  <2> QED BY <1>4, <2>2
<1>5. CASE Operand(s, p)
  <2>1. \A q : (q \in OpsAt(s, H, p - 1) \/ q \in OpsAt(s, I, p - 1)) => q < p - 1
    BY <1>1, <1>2, <1>5, OpsStep
  <2>2. /\ OpsAt(s, H, p) = OpsAt(s, H, p - 1) \cup (IF s[p - 1] \in H THEN {p - 1} ELSE {})
        /\ OpsAt(s, I, p) = OpsAt(s, I, p - 1) \cup (IF s[p - 1] \in I THEN {p - 1} ELSE {})
    BY <1>1, <1>5, OpsStep
  <2>3. p - 1 \in Nat
    OBVIOUS
  <2>4. CASE s[p - 1] \in H
    <3>1. \A q : q \in OpsAt(s, H, p) <=> (q \in OpsAt(s, H, p - 1) \/ q = p - 1)
      BY <2>2, <2>4
    <3>2. OpsAt(s, I, p) = OpsAt(s, I, p - 1)
      BY <1>1, <2>2, <2>4
    <3>3. HeresAt(s, p) = HeresAt(s, p - 1) \cup {p - 1}
      BY <1>3, <2>1, <3>1, <3>2
    <3> QED BY <1>5, <2>4, <3>3 DEF H
  <2>5. CASE s[p - 1] = "<"
    <3>1. OpsAt(s, H, p) = OpsAt(s, H, p - 1) /\ p - 1 \in OpsAt(s, I, p)
      BY <1>1, <2>2, <2>5
    <3>2. \A q \in OpsAt(s, H, p) : q \in Nat /\ ~(p - 1 < q)
      BY <1>3, <2>1, <2>3, <3>1
    <3>3. HeresAt(s, p) = {}
      BY <1>3, <3>1, <3>2
    <3>4. s[p - 1] \notin {"<<", "<<-"}
      BY <2>5
    <3> QED BY <1>5, <2>5, <3>3, <3>4
  <2>6. CASE s[p - 1] \notin H /\ s[p - 1] # "<"
    <3>1. OpsAt(s, H, p) = OpsAt(s, H, p - 1) /\ OpsAt(s, I, p) = OpsAt(s, I, p - 1)
      BY <1>1, <2>2, <2>6
    <3>2. HeresAt(s, p) = HeresAt(s, p - 1)
      BY <1>3, <3>1
    <3> QED BY <1>5, <2>6, <3>2 DEF H
  <2> QED BY <2>4, <2>5, <2>6
<1> QED BY <1>4, <1>5

LEMMA ArgumentsStep ==
    ASSUME NEW s \in Seq(Lexemes), NEW p \in 1..Len(s)
    PROVE  /\ \A q \in ArgumentsAt(s, p - 1) : q < p
           /\ ArgumentsAt(s, p) = ArgumentsAt(s, p - 1) \cup
                  (IF s[p] \notin AllOps /\ ~Operand(s, p) THEN {p} ELSE {})
<1>1. \A q \in 1..Len(s) : /\ q <= p <=> (q <= p - 1 \/ q = p)
                           /\ q <= p - 1 => q < p
  OBVIOUS
<1>2. \A q : q \in Arguments(s) <=> (q \in 1..Len(s) /\ s[q] \notin AllOps /\ ~Operand(s, q))
  BY DEF Arguments, AllOps
<1>3. \A q, j : q \in ArgumentsAt(s, j) <=> (q \in Arguments(s) /\ q <= j)
  BY DEF ArgumentsAt
<1>4. \A q \in ArgumentsAt(s, p - 1) : q < p
  BY <1>1, <1>2, <1>3
<1>5. p <= p /\ ~(p <= p - 1)
  OBVIOUS
<1>6. CASE s[p] \notin AllOps /\ ~Operand(s, p)
  <2>1. p \in Arguments(s)
    BY <1>2, <1>6
  <2>2. \A q : q \in ArgumentsAt(s, p) <=> (q \in ArgumentsAt(s, p - 1) \/ q = p)
    <3> TAKE q
    <3>1. q \in ArgumentsAt(s, p) <=> (q \in Arguments(s) /\ q <= p)
      BY <1>3
    <3>2. q \in ArgumentsAt(s, p - 1) <=> (q \in Arguments(s) /\ q <= p - 1)
      BY <1>3
    <3>3. q \in Arguments(s) => (q <= p <=> (q <= p - 1 \/ q = p))
      BY <1>1, <1>2
    <3>4. p <= p
      BY <1>5
    <3> QED BY ONLY <2>1, <3>1, <3>2, <3>3, <3>4, Zenon
  <2>3. ArgumentsAt(s, p) = ArgumentsAt(s, p - 1) \cup {p}
    BY ONLY <2>2, Zenon
  <2> QED BY <1>4, <1>6, <2>3
<1>7. CASE ~(s[p] \notin AllOps /\ ~Operand(s, p))
  <2>1. p \notin Arguments(s)
    BY <1>2, <1>7
  <2>2. \A q : q \in ArgumentsAt(s, p) <=> q \in ArgumentsAt(s, p - 1)
    <3> TAKE q
    <3>1. q \in ArgumentsAt(s, p) <=> (q \in Arguments(s) /\ q <= p)
      BY <1>3
    <3>2. q \in ArgumentsAt(s, p - 1) <=> (q \in Arguments(s) /\ q <= p - 1)
      BY <1>3
    <3>3. q \in Arguments(s) => (q <= p <=> (q <= p - 1 \/ q = p))
      BY <1>1, <1>2
    <3> QED BY ONLY <2>1, <3>1, <3>2, <3>3, Zenon
  <2>3. ArgumentsAt(s, p) = ArgumentsAt(s, p - 1)
    BY ONLY <2>2, Zenon
  <2> QED BY <1>4, <1>7, <2>3
<1> QED BY <1>6, <1>7

\* A here-document follows those of the command, < cancels them.
LEMMA DocsStep ==
    ASSUME NEW s, NEW c, NEW d, Unfed(c), NEW n \in Nat,
           NEW T \in SUBSET Nat, IsFiniteSet(T), \A t \in T : t < n, DocsAt(s, T, c)
    PROVE  /\ (/\ d.delim # None /\ d.delim = s[n + 1]
               /\ d.skip = IF c.delim = None THEN c.skip ELSE Append(c.skip, c.delim))
              => DocsAt(s, T \cup {n}, d)
           /\ d.delim = None => DocsAt(s, {}, d)
           /\ d.delim = c.delim /\ d.skip = c.skip => DocsAt(s, T, d)
<1>1. ASSUME d.delim # None, d.delim = s[n + 1],
             d.skip = IF c.delim = None THEN c.skip ELSE Append(c.skip, c.delim)
      PROVE  DocsAt(s, T \cup {n}, d)
  <2>1. /\ Documents(d) = Documents(c) + 1 /\ Documents(c) \in Nat
        /\ Delim(d, Documents(d)) = d.delim
        /\ \A k \in 1..Documents(c) : Delim(d, k) = Delim(c, k)
    BY <1>1, HereDocuments
  <2>2. /\ Cardinality(T \cup {n}) = Cardinality(T) + 1
        /\ Rank(T \cup {n}, n) = Cardinality(T) + 1
        /\ \A q \in T : Rank(T \cup {n}, q) = Rank(T, q) /\ Rank(T, q) \in 1..Cardinality(T)
    BY NewLatest
  <2>3. Documents(c) = Cardinality(T) /\ \A q \in T : Delim(c, Rank(T, q)) = s[q + 1]
    BY DEF DocsAt
  <2>4. ASSUME NEW q \in T \cup {n} PROVE Delim(d, Rank(T \cup {n}, q)) = s[q + 1]
    <3>1. CASE q = n
      BY <1>1, <2>1, <2>2, <2>3, <3>1
    <3>2. CASE q \in T
      BY <2>1, <2>2, <2>3, <3>2
    <3> QED BY <3>1, <3>2
  <2> QED BY <2>1, <2>2, <2>3, <2>4 DEF DocsAt
<1>2. ASSUME d.delim = None PROVE DocsAt(s, {}, d)
  BY <1>2, FS_EmptySet DEF DocsAt, Documents
<1>3. ASSUME d.delim = c.delim, d.skip = c.skip PROVE DocsAt(s, T, d)
  BY <1>3 DEF DocsAt, Documents, Delim
<1> QED BY <1>1, <1>2, <1>3

LEMMA ArgsStep ==
    ASSUME NEW s, NEW c, NEW d, Unfed(c), NEW n \in Nat,
           NEW T \in SUBSET Nat, IsFiniteSet(T), \A t \in T : t < n, ArgsAt(s, T, c)
    PROVE  /\ d.argv = Append(c.argv, s[n]) => ArgsAt(s, T \cup {n}, d)
           /\ d.argv = c.argv => ArgsAt(s, T, d)
<1>1. ASSUME d.argv = Append(c.argv, s[n]) PROVE ArgsAt(s, T \cup {n}, d)
  <2>1. c.argv \in Seq(Lexemes)
    BY DEF Unfed, Commands
  <2>2. /\ Len(c.argv) \in Nat /\ Len(d.argv) = Len(c.argv) + 1
        /\ d.argv[Len(c.argv) + 1] = s[n]
        /\ \A k \in 1..Len(c.argv) : d.argv[k] = c.argv[k]
    BY <1>1, <2>1
  <2>3. /\ Cardinality(T \cup {n}) = Cardinality(T) + 1
        /\ Rank(T \cup {n}, n) = Cardinality(T) + 1
        /\ \A q \in T : Rank(T \cup {n}, q) = Rank(T, q) /\ Rank(T, q) \in 1..Cardinality(T)
    BY NewLatest
  <2>4. Len(c.argv) = Cardinality(T) /\ \A q \in T : c.argv[Rank(T, q)] = s[q]
    BY DEF ArgsAt
  <2>5. ASSUME NEW q \in T \cup {n} PROVE d.argv[Rank(T \cup {n}, q)] = s[q]
    <3>1. CASE q = n
      BY <2>2, <2>3, <2>4, <3>1
    <3>2. CASE q \in T
      BY <2>2, <2>3, <2>4, <3>2
    <3> QED BY <3>1, <3>2
  <2> QED BY <2>2, <2>3, <2>4, <2>5 DEF ArgsAt
<1>2. ASSUME d.argv = c.argv PROVE ArgsAt(s, T, d)
  BY <1>2 DEF ArgsAt
<1> QED BY <1>1, <1>2

LEMMA Words ==
    ASSUME NEW s \in Seq(Lexemes), NEW p \in 1..Len(s)
    PROVE  /\ s[p] \in Lexemes /\ p \in Nat /\ p - 1 \in Nat /\ p - 1 + 1 = p
           /\ None \notin Lexemes
           /\ OutOps \in SUBSET AllOps /\ ErrOps \in SUBSET AllOps /\ InOps \in SUBSET AllOps
           /\ AllOps \in SUBSET AllOps
  BY DEF Lexemes, OutOps, ErrOps, InOps, AllOps, Redirs

\* The word of a redirection is read.
LEMMA MeansOperand ==
    ASSUME NEW s \in Seq(Lexemes), WellFormed(s), NEW p \in 1..Len(s), Operand(s, p),
           NEW c, MeansAt(s, p - 1, c)
    PROVE  MeansAt(s, p, Reads(c, s, p))
<1> DEFINE n == p - 1
           d == Reads(c, s, p)
<1>1. /\ n \in Nat /\ n + 1 = p /\ s[n] \in Redirs /\ IsWord(s[p]) /\ s[p] \in Lexemes
      /\ n \in 1..Len(s)
  BY Words, OperandWord
<1>2. s[p] \notin AllOps /\ s[p] \notin Redirs /\ s[n] # "2>&1"
  BY <1>1 DEF IsWord, AllOps, Redirs
<1>3. d = Redirect(c, s[n], s[n + 1])
  <2>1. s[n + 1] = s[p]
    BY <1>1
  <2>2. d = Redirect(c, s[n], s[p])
    BY <1>2 DEF Reads, AllOps
  <2> QED BY <2>1, <2>2
<1>4. Unfed(c)
  BY DEF MeansAt
<1>5. /\ Unfed(d)
      /\ d.argv = c.argv
      /\ d.out = IF s[n] \in OutOps THEN s[n + 1] ELSE c.out
      /\ d.append = IF s[n] \in OutOps THEN s[n] = ">>" ELSE c.append
      /\ d.merge = IF s[n] \in ErrOps THEN s[n] = "&>" ELSE c.merge
      /\ d.err = IF s[n] \in ErrOps THEN IF s[n] = "&>" THEN None ELSE s[n + 1] ELSE c.err
      /\ d.errAppend = IF s[n] \in ErrOps THEN s[n] = "2>>" ELSE c.errAppend
      /\ d.in = IF s[n] \in InOps THEN IF s[n] = "<" THEN s[n + 1] ELSE None ELSE c.in
      /\ d.delim = IF s[n] \in InOps THEN IF s[n] = "<" THEN None ELSE s[n + 1] ELSE c.delim
      /\ d.strip = IF s[n] \in InOps THEN s[n] = "<<-" ELSE c.strip
      /\ d.skip = IF s[n] = "<" THEN <<>>
                  ELSE IF s[n] \in {"<<", "<<-"} /\ c.delim # None
                  THEN Append(c.skip, c.delim) ELSE c.skip
  <2>1. s[n + 1] \in Lexemes /\ s[n] \in Redirs
    BY <1>1
  <2> HIDE DEF n, d
  <2>2. LET r == Redirect(c, s[n], s[n + 1])
        IN  /\ Unfed(r)
            /\ r.argv = c.argv
            /\ r.out = IF s[n] \in OutOps THEN s[n + 1] ELSE c.out
            /\ r.append = IF s[n] \in OutOps THEN s[n] = ">>" ELSE c.append
            /\ r.merge = IF s[n] \in ErrOps THEN s[n] = "&>" ELSE c.merge
            /\ r.err = IF s[n] \in ErrOps THEN IF s[n] = "&>" THEN None ELSE s[n + 1] ELSE c.err
            /\ r.errAppend = IF s[n] \in ErrOps THEN s[n] = "2>>" ELSE c.errAppend
            /\ r.in = IF s[n] \in InOps THEN IF s[n] = "<" THEN s[n + 1] ELSE None ELSE c.in
            /\ r.delim = IF s[n] \in InOps THEN IF s[n] = "<" THEN None ELSE s[n + 1] ELSE c.delim
            /\ r.strip = IF s[n] \in InOps THEN s[n] = "<<-" ELSE c.strip
            /\ r.skip = IF s[n] = "<" THEN <<>>
                        ELSE IF s[n] \in {"<<", "<<-"} /\ c.delim # None
                        THEN Append(c.skip, c.delim) ELSE c.skip
    BY <1>4, <2>1, RedirectFacts
  <2> QED BY <1>3, <2>2
<1>6. \A q \in OpsAt(s, AllOps, n) : q < n
  BY OpsStep, Words
<1> HIDE DEF d
<1>7. /\ OutAt(s, OpsAt(s, OutOps, p), d) /\ ErrAt(s, OpsAt(s, ErrOps, p), d)
      /\ InAt(s, OpsAt(s, InOps, p), d)
  <2> DEFINE To == OpsAt(s, OutOps, n)
             Te == OpsAt(s, ErrOps, n)
             Ti == OpsAt(s, InOps, n)
  <2>1. /\ OpsAt(s, OutOps, p) = To \cup (IF s[n] \in OutOps THEN {n} ELSE {})
        /\ OpsAt(s, ErrOps, p) = Te \cup (IF s[n] \in ErrOps THEN {n} ELSE {})
        /\ OpsAt(s, InOps, p) = Ti \cup (IF s[n] \in InOps THEN {n} ELSE {})
    BY OpsStep, Words
  <2>2. \A t \in To \cup Te \cup Ti : t \in OpsAt(s, AllOps, n)
    BY Words DEF OpsAt
  <2>3. \A t \in To \cup Te \cup Ti : t < n
    BY <1>6, <2>2
  <2>4. /\ To \in SUBSET Nat /\ Te \in SUBSET Nat /\ Ti \in SUBSET Nat
        /\ IsFiniteSet(To) /\ IsFiniteSet(Te) /\ IsFiniteSet(Ti)
    BY SetsFinite
  <2>5. OutAt(s, To, c) /\ ErrAt(s, Te, c) /\ InAt(s, Ti, c)
    BY DEF MeansAt
  <2>6. Redirected(s, c, d, n)
    <3>1. s[n] \in {"2>&1", "&>"} <=> s[n] = "&>"
      BY <1>2
    <3> HIDE DEF n
    <3> QED BY <1>5, <3>1 DEF Redirected
  <2> HIDE DEF n, To, Te, Ti
  <2>7. n \in Nat
    BY <1>1
  <2>8. /\ OutAt(s, To \cup (IF s[n] \in OutOps THEN {n} ELSE {}), d)
        /\ ErrAt(s, Te \cup (IF s[n] \in ErrOps THEN {n} ELSE {}), d)
        /\ InAt(s, Ti \cup (IF s[n] \in InOps THEN {n} ELSE {}), d)
    BY <2>3, <2>4, <2>5, <2>6, <2>7, StreamsStep
  <2> QED BY <2>1, <2>8
<1>8. DocsAt(s, HeresAt(s, p), d)
  <2> DEFINE T == HeresAt(s, n)
  <2>1. DocsAt(s, T, c) /\ T \in SUBSET Nat /\ IsFiniteSet(T)
    BY SetsFinite DEF MeansAt
  <2>2. \A t \in T : t \in OpsAt(s, AllOps, n)
    BY DEF HeresAt, OpsAt, AllOps, Redirs
  <2>3. \A t \in T : t < n
    BY <1>6, <2>2
  <2>4. /\ (/\ d.delim # None /\ d.delim = s[n + 1]
            /\ d.skip = IF c.delim = None THEN c.skip ELSE Append(c.skip, c.delim))
           => DocsAt(s, T \cup {n}, d)
        /\ d.delim = None => DocsAt(s, {}, d)
        /\ d.delim = c.delim /\ d.skip = c.skip => DocsAt(s, T, d)
    <3> HIDE DEF n, T
    <3> QED BY <1>1, <1>4, <2>1, <2>3, DocsStep
  <2>5. HeresAt(s, p) = IF s[n] \in {"<<", "<<-"} THEN T \cup {n}
                        ELSE IF s[n] = "<" THEN {} ELSE T
    BY HeresStep
  <2> HIDE DEF n, T
  <2>6. CASE s[n] \in {"<<", "<<-"}
    <3>1. s[n] \in InOps /\ s[n] # "<"
      BY <2>6 DEF InOps
    <3>2. d.delim = s[n + 1] /\ s[n + 1] # None
      BY <1>1, <1>5, <3>1, Words
    <3>3. d.skip = IF c.delim = None THEN c.skip ELSE Append(c.skip, c.delim)
      BY <1>5, <2>6, <3>1
    <3> QED BY <2>4, <2>5, <2>6, <3>2, <3>3
  <2>7. CASE s[n] = "<"
    <3>1. s[n] \in InOps /\ s[n] \notin {"<<", "<<-"}
      BY <2>7 DEF InOps
    <3> QED BY <1>5, <2>4, <2>5, <2>7, <3>1
  <2>8. CASE s[n] \notin {"<<", "<<-", "<"}
    <3>1. s[n] \notin InOps
      BY <2>8 DEF InOps
    <3> QED BY <1>5, <2>4, <2>5, <2>8, <3>1
  <2> QED BY <2>6, <2>7, <2>8
<1>9. ArgsAt(s, ArgumentsAt(s, p), d)
  <2>1. ArgumentsAt(s, p) = ArgumentsAt(s, n)
    <3>1. ArgumentsAt(s, p) = ArgumentsAt(s, n) \cup {}
      BY ArgumentsStep
    <3> QED BY <3>1
  <2>2. ArgsAt(s, ArgumentsAt(s, n), c)
    BY DEF MeansAt
  <2>3. d.argv = c.argv
    BY <1>5
  <2> HIDE DEF n
  <2> QED BY <2>1, <2>2, <2>3 DEF ArgsAt
<1> QED BY <1>5, <1>7, <1>8, <1>9 DEF MeansAt, d

\* Another lexeme is read.
LEMMA MeansOther ==
    ASSUME NEW s \in Seq(Lexemes), WellFormed(s), NEW p \in 1..Len(s), ~Operand(s, p),
           NEW c, MeansAt(s, p - 1, c)
    PROVE  MeansAt(s, p, Reads(c, s, p))
<1> DEFINE d == Reads(c, s, p)
<1>1. s[p] \in Lexemes /\ p \in Nat
  BY Words
<1>2. /\ Unfed(c)
      /\ OutAt(s, OpsAt(s, OutOps, p - 1), c) /\ ErrAt(s, OpsAt(s, ErrOps, p - 1), c)
      /\ InAt(s, OpsAt(s, InOps, p - 1), c)
      /\ DocsAt(s, HeresAt(s, p - 1), c) /\ ArgsAt(s, ArgumentsAt(s, p - 1), c)
  BY DEF MeansAt
<1>3. HeresAt(s, p) = HeresAt(s, p - 1)
  BY HeresStep
<1>4. CASE s[p] = "2>&1"
  <2>1. d = MergeErr(c)
    BY <1>4 DEF Reads, Redirs
  <2>2. /\ Unfed(d) /\ d.err = None /\ d.errAppend = FALSE /\ d.merge = TRUE
        /\ d.argv = c.argv /\ d.out = c.out /\ d.append = c.append /\ d.in = c.in
        /\ d.delim = c.delim /\ d.strip = c.strip /\ d.skip = c.skip
    <3> HIDE DEF d
    <3>1. /\ Unfed(d) /\ d.err = None /\ d.errAppend = FALSE /\ d.merge = TRUE
          /\ d = [c EXCEPT !.err = None, !.errAppend = FALSE, !.merge = TRUE]
      BY <1>1, <1>2, <2>1, OtherFacts
    <3>2. c \in Commands
      BY <1>2 DEF Unfed
    <3>3. /\ d.argv = c.argv /\ d.out = c.out /\ d.append = c.append /\ d.in = c.in
          /\ d.delim = c.delim /\ d.strip = c.strip /\ d.skip = c.skip
      BY <3>1, <3>2 DEF Commands
    <3> QED BY <3>1, <3>3
  <2> HIDE DEF d
  <2>3. /\ OutAt(s, OpsAt(s, OutOps, p), d) /\ ErrAt(s, OpsAt(s, ErrOps, p), d)
        /\ InAt(s, OpsAt(s, InOps, p), d)
    <3> DEFINE To == OpsAt(s, OutOps, p - 1)
               Te == OpsAt(s, ErrOps, p - 1)
               Ti == OpsAt(s, InOps, p - 1)
    <3>1. /\ OpsAt(s, OutOps, p) = To \cup (IF s[p] \in OutOps THEN {p} ELSE {})
          /\ OpsAt(s, ErrOps, p) = Te \cup (IF s[p] \in ErrOps THEN {p} ELSE {})
          /\ OpsAt(s, InOps, p) = Ti \cup (IF s[p] \in InOps THEN {p} ELSE {})
      BY <1>4, OpsStep, Words
    <3>2. \A t \in To \cup Te \cup Ti : t \in OpsAt(s, AllOps, p - 1)
      BY Words DEF OpsAt
    <3>3. \A t \in To \cup Te \cup Ti : t < p
      <4>1. \A q \in OpsAt(s, AllOps, p - 1) : q < p
        BY <1>4, OpsStep, Words
      <4> QED BY <3>2, <4>1
    <3>4. /\ To \in SUBSET Nat /\ Te \in SUBSET Nat /\ Ti \in SUBSET Nat
          /\ IsFiniteSet(To) /\ IsFiniteSet(Te) /\ IsFiniteSet(Ti)
      BY SetsFinite
    <3>5. Redirected(s, c, d, p)
      BY <1>4, <2>2 DEF Redirected, OutOps, ErrOps, InOps
    <3>6. OutAt(s, To, c) /\ ErrAt(s, Te, c) /\ InAt(s, Ti, c)
      BY <1>2
    <3> HIDE DEF To, Te, Ti
    <3>7. /\ OutAt(s, To \cup (IF s[p] \in OutOps THEN {p} ELSE {}), d)
          /\ ErrAt(s, Te \cup (IF s[p] \in ErrOps THEN {p} ELSE {}), d)
          /\ InAt(s, Ti \cup (IF s[p] \in InOps THEN {p} ELSE {}), d)
      BY <1>1, <3>3, <3>4, <3>5, <3>6, StreamsStep
    <3> QED BY <3>1, <3>7
  <2>4. DocsAt(s, HeresAt(s, p), d)
    BY <1>2, <1>3, <2>2 DEF DocsAt, Documents, Delim
  <2>5. ArgumentsAt(s, p) = ArgumentsAt(s, p - 1)
    <3>1. s[p] \in AllOps
      BY <1>4 DEF AllOps
    <3>2. ArgumentsAt(s, p) = ArgumentsAt(s, p - 1) \cup {}
      BY <3>1, ArgumentsStep
    <3> QED BY <3>2
  <2>6. ArgsAt(s, ArgumentsAt(s, p), d)
    BY <1>2, <2>2, <2>5 DEF ArgsAt
  <2> QED BY <2>2, <2>3, <2>4, <2>6 DEF MeansAt, d
<1>5. CASE s[p] # "2>&1"
  <2>1. /\ OpsAt(s, OutOps, p) = OpsAt(s, OutOps, p - 1)
        /\ OpsAt(s, ErrOps, p) = OpsAt(s, ErrOps, p - 1)
        /\ OpsAt(s, InOps, p) = OpsAt(s, InOps, p - 1)
    BY <1>5, OpsStep, Words
  <2>2. CASE s[p] \in Redirs
    <3>1. d = c
      <4>1. ~(s[p] = "2>&1")
        BY <1>5
      <4> QED BY <2>2, <4>1 DEF Reads
    <3>2. ArgumentsAt(s, p) = ArgumentsAt(s, p - 1)
      <4>1. ArgumentsAt(s, p) = ArgumentsAt(s, p - 1) \cup {}
        BY <2>2, ArgumentsStep DEF AllOps
      <4> QED BY <4>1
    <3> HIDE DEF d
    <3> QED BY <1>2, <1>3, <2>1, <3>1, <3>2 DEF MeansAt, d
  <2>3. CASE s[p] \notin Redirs
    <3>1. d = PushArg(c, s[p])
      BY <1>5, <2>3 DEF Reads
    <3>2. /\ Unfed(d) /\ d.argv = Append(c.argv, s[p])
          /\ d.err = c.err /\ d.errAppend = c.errAppend /\ d.merge = c.merge
          /\ d.out = c.out /\ d.append = c.append /\ d.in = c.in
          /\ d.delim = c.delim /\ d.strip = c.strip /\ d.skip = c.skip
      <4> HIDE DEF d
      <4>1. /\ Unfed(d) /\ d.argv = Append(c.argv, s[p])
            /\ d = [c EXCEPT !.argv = Append(c.argv, s[p])]
        BY <1>1, <1>2, <3>1, OtherFacts
      <4>2. c \in Commands
        BY <1>2 DEF Unfed
      <4>3. /\ d.err = c.err /\ d.errAppend = c.errAppend /\ d.merge = c.merge
            /\ d.out = c.out /\ d.append = c.append /\ d.in = c.in
            /\ d.delim = c.delim /\ d.strip = c.strip /\ d.skip = c.skip
        BY <4>1, <4>2 DEF Commands
      <4> QED BY <4>1, <4>3
    <3> HIDE DEF d
    <3>3. /\ OutAt(s, OpsAt(s, OutOps, p), d) /\ ErrAt(s, OpsAt(s, ErrOps, p), d)
          /\ InAt(s, OpsAt(s, InOps, p), d)
      <4>1. OutAt(s, OpsAt(s, OutOps, p), d)
        BY <1>2, <2>1, <3>2 DEF OutAt
      <4>2. ErrAt(s, OpsAt(s, ErrOps, p), d)
        BY <1>2, <2>1, <3>2 DEF ErrAt
      <4>3. InAt(s, OpsAt(s, InOps, p), d)
        BY <1>2, <2>1, <3>2 DEF InAt
      <4> QED BY <4>1, <4>2, <4>3
    <3>4. DocsAt(s, HeresAt(s, p), d)
      BY <1>2, <1>3, <3>2 DEF DocsAt, Documents, Delim
    <3>5. /\ ArgumentsAt(s, p) = ArgumentsAt(s, p - 1) \cup {p}
          /\ \A q \in ArgumentsAt(s, p - 1) : q < p
      BY <1>5, <2>3, ArgumentsStep DEF AllOps
    <3>6. ArgsAt(s, ArgumentsAt(s, p), d)
      <4> DEFINE T == ArgumentsAt(s, p - 1)
      <4>1. T \in SUBSET Nat /\ IsFiniteSet(T) /\ ArgsAt(s, T, c) /\ \A t \in T : t < p
        BY <1>2, <3>5, SetsFinite
      <4>2. ArgumentsAt(s, p) = T \cup {p}
        BY <3>5
      <4> HIDE DEF T
      <4>3. ArgsAt(s, T \cup {p}, d)
        BY <1>1, <1>2, <3>2, <4>1, ArgsStep
      <4> QED BY <4>2, <4>3
    <3> QED BY <3>2, <3>3, <3>4, <3>6 DEF MeansAt, d
  <2> QED BY <2>2, <2>3
<1> QED BY <1>4, <1>5

LEMMA MeansFirst ==
    ASSUME NEW s \in Seq(Lexemes)
    PROVE  MeansAt(s, 0, NewCmd)
<1>1. \A q \in 1..Len(s) : ~(q <= 0) /\ ~(q < 0)
  OBVIOUS
<1>2. \A ops : OpsAt(s, ops, 0) = {}
  BY <1>1 DEF OpsAt, Done
<1>3. HeresAt(s, 0) = {} /\ ArgumentsAt(s, 0) = {}
  BY <1>1, <1>2 DEF HeresAt, ArgumentsAt, Arguments
<1>4. NewCmd \in Commands
  <2>1. <<>> \in Seq(Lexemes) /\ <<>> \in Seq(Line)
    OBVIOUS
  <2> QED BY <2>1 DEF NewCmd, Commands
<1>5. Unfed(NewCmd)
  BY <1>4 DEF Unfed, NewCmd
<1>6. \A q : ~Latest({}, q)
  BY DEF Latest
<1>7. OutAt(s, {}, NewCmd) /\ ErrAt(s, {}, NewCmd) /\ InAt(s, {}, NewCmd)
  BY <1>6 DEF OutAt, ErrAt, InAt, NewCmd
<1>8. DocsAt(s, {}, NewCmd) /\ ArgsAt(s, {}, NewCmd)
  BY FS_EmptySet DEF DocsAt, ArgsAt, Documents, NewCmd
<1> QED BY <1>2, <1>3, <1>5, <1>7, <1>8 DEF MeansAt

LEMMA MeansAll ==
    ASSUME NEW s \in Seq(Lexemes), WellFormed(s)
    PROVE  MeansAt(s, Len(s), CommandAt(s)[Len(s)])
<1> DEFINE T == {p \in 0..Len(s) : ~MeansAt(s, p, CommandAt(s)[p])}
<1>1. Len(s) \in Nat
  OBVIOUS
<1>2. SUFFICES ASSUME T # {} PROVE FALSE
  BY <1>1
<1>3. T \in SUBSET Nat
  BY <1>1
<1>4. PICK p \in T : \A y \in T : p <= y
  <2> HIDE DEF T
  <2> QED BY <1>2, <1>3, LeastNumber
<1>5. p # 0
  BY MeansFirst, CommandSteps
<1>6. p \in 1..Len(s) /\ p - 1 \in 0..Len(s) /\ ~(p <= p - 1)
  BY <1>1, <1>5
<1>7. MeansAt(s, p - 1, CommandAt(s)[p - 1])
  BY <1>4, <1>6
<1>8. CommandAt(s)[p] = Reads(CommandAt(s)[p - 1], s, p)
  BY <1>6, CommandSteps
<1>9. MeansAt(s, p, CommandAt(s)[p])
  BY <1>6, <1>7, <1>8, MeansOperand, MeansOther
<1> QED BY <1>9

LEMMA LastOpIs ==
    ASSUME NEW s \in Seq(Lexemes), NEW ops
    PROVE  LET I == {i \in 1..Len(s) : s[i] \in ops}
           IN  /\ I = {} => LastOp(s, ops) = 0
               /\ I # {} => Latest(I, LastOp(s, ops))
<1> DEFINE I == {i \in 1..Len(s) : s[i] \in ops}
<1>1. LastOp(s, ops) = IF I # {} THEN Max(I) ELSE 0
  BY DEF LastOp, SelectLastInSeq
<1>2. ASSUME I # {} PROVE \E x \in I : \A y \in I : x >= y
  <2> DEFINE J == {Len(s) - i : i \in I}
  <2>1. J \in SUBSET Nat /\ J # {}
    BY <1>2
  <2>2. PICK x \in J : \A y \in J : x <= y
    <3> HIDE DEF J
    <3> QED BY <2>1, LeastNumber
  <2>3. PICK i \in I : x = Len(s) - i
    BY <2>2
  <2>4. \A y \in I : Len(s) - i <= Len(s) - y
    BY <2>2, <2>3
  <2>5. \A y \in I : i >= y
    <3>1. Len(s) \in Nat /\ I \subseteq Nat
      OBVIOUS
    <3> HIDE DEF I
    <3> QED BY <2>3, <2>4, <3>1
  <2> QED BY <2>5
<1>3. ASSUME I # {} PROVE Latest(I, Max(I))
  <2>1. Max(I) \in I /\ \A y \in I : Max(I) >= y
    <3> HIDE DEF I
    <3> QED BY <1>2, <1>3 DEF Max
  <2>2. I \subseteq Nat
    OBVIOUS
  <2> HIDE DEF I
  <2> QED BY <2>1, <2>2 DEF Latest
<1> QED BY <1>1, <1>3

\* Behind the last lexeme every redirection is complete.
LEMMA AtTheEnd ==
    ASSUME NEW s \in Seq(Lexemes), WellFormed(s)
    PROVE  /\ \A ops \in SUBSET AllOps : OpsAt(s, ops, Len(s)) = {i \in 1..Len(s) : s[i] \in ops}
           /\ HeresAt(s, Len(s)) = Heres(s)
           /\ ArgumentsAt(s, Len(s)) = Arguments(s)
<1>1. Len(s) \in Nat /\ \A q \in 1..Len(s) : q \in Nat /\ q <= Len(s)
  OBVIOUS
<1>2. ASSUME NEW q \in 1..Len(s), s[q] \in AllOps PROVE Done(s, q, Len(s))
  <2>1. CASE s[q] = "2>&1"
    BY <1>1, <2>1 DEF Done
  <2>2. CASE s[q] # "2>&1"
    <3>1. IsWord(Lexeme(s, q + 1))
      BY <1>2, <2>2 DEF WellFormed, AllOps
    <3>2. q + 1 <= Len(s)
      BY <3>1 DEF Lexeme, IsWord
    <3>3. q < Len(s)
      BY <1>1, <3>2
    <3> QED BY <2>2, <3>3 DEF Done
  <2> QED BY <2>1, <2>2
<1>3. ASSUME NEW ops \in SUBSET AllOps
      PROVE  OpsAt(s, ops, Len(s)) = {i \in 1..Len(s) : s[i] \in ops}
  BY <1>2 DEF OpsAt
<1>4. HeresAt(s, Len(s)) = Heres(s)
  <2>1. {"<<", "<<-"} \in SUBSET AllOps /\ {"<"} \in SUBSET AllOps
    BY DEF AllOps, Redirs
  <2>2. /\ OpsAt(s, {"<<", "<<-"}, Len(s)) = {i \in 1..Len(s) : s[i] \in {"<<", "<<-"}}
        /\ OpsAt(s, {"<"}, Len(s)) = {i \in 1..Len(s) : s[i] \in {"<"}}
    BY <1>3, <2>1
  <2>3. ASSUME NEW p \in 1..Len(s), s[p] \in {"<<", "<<-"}
        PROVE  (\A r \in OpsAt(s, {"<"}, Len(s)) : r < p) <=> (\A q \in p..Len(s) : s[q] # "<")
    <3>1. ASSUME \A r \in OpsAt(s, {"<"}, Len(s)) : r < p, NEW q \in p..Len(s), s[q] = "<"
          PROVE  FALSE
      <4>1. q \in 1..Len(s) /\ ~(q < p)
        BY <1>1
      <4> QED BY <2>2, <3>1, <4>1
    <3>2. ASSUME \A q \in p..Len(s) : s[q] # "<", NEW r \in OpsAt(s, {"<"}, Len(s))
          PROVE  r < p
      <4>1. r \in 1..Len(s) /\ s[r] = "<"
        BY <2>2
      <4>2. r \notin p..Len(s)
        BY <3>2, <4>1
      <4> QED BY <1>1, <4>1, <4>2
    <3> QED BY <3>1, <3>2
  <2> QED BY <2>2, <2>3 DEF HeresAt, Heres
<1>5. ArgumentsAt(s, Len(s)) = Arguments(s)
  BY <1>1 DEF ArgumentsAt, Arguments
<1> QED BY <1>3, <1>4, <1>5

\* The streams of the command at the end are those of the last redirections.
LEMMA StreamsAtEnd ==
    ASSUME NEW s \in Seq(Lexemes), NEW c,
           OutAt(s, {i \in 1..Len(s) : s[i] \in OutOps}, c),
           ErrAt(s, {i \in 1..Len(s) : s[i] \in ErrOps}, c),
           InAt(s, {i \in 1..Len(s) : s[i] \in InOps}, c)
    PROVE  StreamsOf(s, c)
<1> DEFINE To == {i \in 1..Len(s) : s[i] \in OutOps}
           Te == {i \in 1..Len(s) : s[i] \in ErrOps}
           Ti == {i \in 1..Len(s) : s[i] \in InOps}
           o  == LastOp(s, OutOps)
           e  == LastOp(s, ErrOps)
           i  == LastOp(s, InOps)
<1>1. /\ To = {} => o = 0
      /\ To # {} => Latest(To, o)
      /\ Te = {} => e = 0
      /\ Te # {} => Latest(Te, e)
      /\ Ti = {} => i = 0
      /\ Ti # {} => Latest(Ti, i)
  BY LastOpIs
<1>2. OutAt(s, To, c) /\ ErrAt(s, Te, c) /\ InAt(s, Ti, c)
  OBVIOUS
<1>3. /\ \A q : Latest(To, q) => q # 0 /\ s[q] \in OutOps
      /\ \A q : Latest(Te, q) => q # 0 /\ s[q] \in ErrOps
      /\ \A q : Latest(Ti, q) => q # 0 /\ s[q] \in InOps
  BY DEF Latest
<1> HIDE DEF To, Te, Ti, o, e, i
<1>4. c.out = PathAt(s, o) /\ c.append = (o # 0 /\ s[o] = ">>")
  <2>1. CASE To = {}
    BY <1>1, <1>2, <2>1 DEF OutAt, PathAt
  <2>2. CASE To # {}
    <3>1. o # 0 /\ s[o] \in OutOps /\ s[o] # "2>&1"
      BY <1>1, <1>3, <2>2 DEF OutOps
    <3> QED BY <1>1, <1>2, <2>2, <3>1 DEF OutAt, PathAt
  <2> QED BY <2>1, <2>2
<1>5. /\ c.merge = (e # 0 /\ s[e] \in {"2>&1", "&>"})
      /\ c.err = (IF c.merge THEN None ELSE PathAt(s, e))
      /\ c.errAppend = (e # 0 /\ s[e] = "2>>")
  <2>1. CASE Te = {}
    BY <1>1, <1>2, <2>1 DEF ErrAt, PathAt
  <2>2. CASE Te # {}
    <3>1. Latest(Te, e) /\ e # 0
      BY <1>1, <1>3, <2>2
    <3>2. /\ c.merge = (s[e] \in {"2>&1", "&>"})
          /\ c.err = IF s[e] \in {"2>&1", "&>"} THEN None ELSE s[e + 1]
          /\ c.errAppend = (s[e] = "2>>")
      BY <1>2, <3>1 DEF ErrAt
    <3>3. c.merge <=> s[e] \in {"2>&1", "&>"}
      BY <3>2
    <3>4. s[e] \notin {"2>&1", "&>"} => PathAt(s, e) = s[e + 1]
      BY <3>1 DEF PathAt
    <3>5. c.err = (IF c.merge THEN None ELSE PathAt(s, e))
      BY <3>2, <3>3, <3>4
    <3> QED BY <3>1, <3>2, <3>5
  <2> QED BY <2>1, <2>2
<1>6. /\ c.in = (IF i # 0 /\ s[i] = "<" THEN s[i + 1] ELSE None)
      /\ c.delim = (IF i # 0 /\ s[i] # "<" THEN s[i + 1] ELSE None)
      /\ c.strip = (i # 0 /\ s[i] = "<<-")
  <2>1. CASE Ti = {}
    BY <1>1, <1>2, <2>1 DEF InAt
  <2>2. CASE Ti # {}
    BY <1>1, <1>2, <1>3, <2>2 DEF InAt
  <2> QED BY <2>1, <2>2
<1> QED BY <1>4, <1>5, <1>6 DEF StreamsOf, OutOps, ErrOps, InOps, o, e, i

\* The command that build_stage makes of any lexemes is what they mean: the last
\* redirection of a stream wins, the here-documents that no < cancels are its
\* documents, and the rest are its arguments, both in order.
THEOREM StageAsTyped ==
    ASSUME NEW s \in Seq(Lexemes), build_stage(s).ok
    PROVE  StageMeans(s, build_stage(s).tree) /\ build_stage(s).tree \in Fresh
<1> DEFINE c == CommandAt(s)[Len(s)]
<1>1. WellFormed(s) /\ build_stage(s).tree = c
  BY DEF build_stage, Parsed, Failed
<1>2. MeansAt(s, Len(s), c)
  BY <1>1, MeansAll
<1> HIDE DEF c
<1>3. OutOps \in SUBSET AllOps /\ ErrOps \in SUBSET AllOps /\ InOps \in SUBSET AllOps
  BY DEF OutOps, ErrOps, InOps, AllOps, Redirs
<1>4. /\ OpsAt(s, OutOps, Len(s)) = {i \in 1..Len(s) : s[i] \in OutOps}
      /\ OpsAt(s, ErrOps, Len(s)) = {i \in 1..Len(s) : s[i] \in ErrOps}
      /\ OpsAt(s, InOps, Len(s)) = {i \in 1..Len(s) : s[i] \in InOps}
      /\ HeresAt(s, Len(s)) = Heres(s) /\ ArgumentsAt(s, Len(s)) = Arguments(s)
  BY <1>1, <1>3, AtTheEnd
<1>5. StreamsOf(s, c)
  BY <1>2, <1>4, StreamsAtEnd DEF MeansAt
<1>6. DocumentsOf(s, c) /\ ArgumentsOf(s, c)
  BY <1>2, <1>4 DEF MeansAt, DocsAt, ArgsAt, DocumentsOf, ArgumentsOf
<1>7. c \in Fresh
  BY <1>2 DEF MeansAt, Unfed, Fresh
<1> QED BY <1>1, <1>5, <1>6, <1>7 DEF StageMeans

-----------------------------------------------------------------------------
(* The commands of a line *)

LEMMA StartsRank ==
    ASSUME NEW s \in Seq(Lexemes), NEW p \in Starts(s)
    PROVE  Rank(Starts(s), p) \in 1..Cardinality(Starts(s))
<1> DEFINE T == Starts(s)
           U == {q \in T : q <= p}
<1>1. IsFiniteSet(T) /\ T \subseteq Nat
  <2>1. IsFiniteSet(1..Len(s)) /\ T \in SUBSET (1..Len(s)) /\ 1..Len(s) \subseteq Nat
    BY FS_Interval DEF Starts
  <2> HIDE DEF T
  <2> QED BY <2>1, FS_Subset
<1>2. p \in U
  BY <1>1
<1> HIDE DEF T
<1>3. /\ IsFiniteSet(U) /\ Cardinality(U) \in Nat /\ Cardinality(T) \in Nat
      /\ Cardinality(U) <= Cardinality(T)
  BY <1>1, FS_Subset, FS_CardinalityType
<1>4. Cardinality(U) # 0
  BY <1>2, <1>3, FS_EmptySet
<1>5. Rank(T, p) = Cardinality(U)
  BY DEF Rank
<1> HIDE DEF U
<1> QED BY <1>3, <1>4, <1>5 DEF T

\* A line of a here-document changes nothing that the lexemes of a command mean.
LEMMA FedMeans ==
    ASSUME NEW s, NEW c \in Commands, NEW l \in Line, StageMeans(s, c)
    PROVE  StageMeans(s, cmd_feed(c, l))
<1> DEFINE d == cmd_feed(c, l)
<1>1. /\ d.delim = c.delim /\ d.strip = c.strip /\ d.skip = c.skip /\ d.argv = c.argv
      /\ d.out = c.out /\ d.append = c.append /\ d.err = c.err
      /\ d.errAppend = c.errAppend /\ d.merge = c.merge /\ d.in = c.in
  BY DEF cmd_feed, Commands
<1> HIDE DEF d
<1>2. StreamsOf(s, d)
  BY <1>1 DEF StageMeans, StreamsOf
<1>3. DocumentsOf(s, d) /\ ArgumentsOf(s, d)
  BY <1>1 DEF StageMeans, DocumentsOf, ArgumentsOf, Documents, Delim
<1> QED BY <1>2, <1>3 DEF StageMeans, d

LEMMA ReadMeans ==
    ASSUME DocRead
    PROVE  StagesMean'
<1> SUFFICES ASSUME Plain(line'), cmds' # <<>>
             PROVE  /\ Len(cmds') = Cardinality(Starts(line'))
                    /\ \A p \in 1..Len(line') : \A e \in p..Len(line') :
                          Stretch(line', p, e) =>
                              StageMeans(SubSeq(line', p, e), cmds'[Rank(Starts(line'), p)])
  BY DEF StagesMean
<1>1. Made(line', cmds') /\ line' \in Seq(Lexemes)
  BY DEF DocRead
<1>2. ASSUME NEW p \in 1..Len(line'), NEW e \in p..Len(line'), Stretch(line', p, e)
      PROVE  StageMeans(SubSeq(line', p, e), cmds'[Rank(Starts(line'), p)])
  <2> DEFINE t == SubSeq(line', p, e)
  <2>1. t \in Seq(Lexemes)
    <3>1. \A i \in 1..Len(line') : line'[i] \in Lexemes
      BY <1>1
    <3>2. Len(line') \in Nat /\ p \in 1..Len(line') /\ e \in p..Len(line')
      BY <1>1
    <3>3. /\ t = [i \in 1..(e - p + 1) |-> line'[i + p - 1]] /\ e - p + 1 \in Nat
      BY <1>1, <3>2
    <3>4. \A i \in 1..(e - p + 1) : i + p - 1 \in 1..Len(line')
      BY <3>2
    <3>5. \A i \in 1..(e - p + 1) : line'[i + p - 1] \in Lexemes
      BY <3>1, <3>4
    <3> QED BY <3>3, <3>5
  <2>2. build_stage(t).ok /\ cmds'[Rank(Starts(line'), p)] = build_stage(t).tree
    BY <1>1, <1>2 DEF Made
  <2> HIDE DEF t
  <2>3. StageMeans(t, build_stage(t).tree)
    BY <2>1, <2>2, StageAsTyped
  <2> QED BY <2>2, <2>3 DEF t
<1> QED BY <1>1, <1>2 DEF Made

LEMMA FeedMeans ==
    ASSUME TypeOK, StagesMean, NEW k \in 1..Len(cmds), NEW l \in BodyLines, Feed(k, l)
    PROVE  StagesMean'
<1>1. /\ line' = line /\ l \in Line /\ Len(cmds') = Len(cmds) /\ Len(cmds) \in Nat
      /\ \A i \in 1..Len(cmds) : i # k => cmds'[i] = cmds[i]
      /\ cmds'[k] = cmd_feed(cmds[k], l)
      /\ line \in Seq(Lexemes)
  BY FeedOthers DEF Feed, TypeOK
<1> SUFFICES ASSUME Plain(line)
             PROVE  /\ Len(cmds') = Cardinality(Starts(line))
                    /\ \A p \in 1..Len(line) : \A e \in p..Len(line) :
                          Stretch(line, p, e) =>
                              StageMeans(SubSeq(line, p, e), cmds'[Rank(Starts(line), p)])
  BY <1>1 DEF StagesMean
<1>2. /\ Len(cmds) = Cardinality(Starts(line))
      /\ \A p \in 1..Len(line) : \A e \in p..Len(line) :
            Stretch(line, p, e) =>
                StageMeans(SubSeq(line, p, e), cmds[Rank(Starts(line), p)])
  <2>1. cmds # <<>>
    OBVIOUS
  <2> QED BY <2>1 DEF StagesMean
<1>3. ASSUME NEW p \in 1..Len(line), NEW e \in p..Len(line), Stretch(line, p, e)
      PROVE  StageMeans(SubSeq(line, p, e), cmds'[Rank(Starts(line), p)])
  <2>1. p \in Starts(line)
    BY <1>3 DEF Stretch, Starts
  <2>2. PICK r : r = Rank(Starts(line), p)
    OBVIOUS
  <2>3. r \in 1..Len(cmds) /\ StageMeans(SubSeq(line, p, e), cmds[r])
    BY <1>1, <1>2, <1>3, <2>1, <2>2, StartsRank
  <2>4. cmds[r] \in Commands
    BY <2>3, Elements
  <2>5. StageMeans(SubSeq(line, p, e), cmds'[r])
    <3>1. CASE r = k
      BY <1>1, <2>3, <2>4, <3>1, FedMeans
    <3>2. CASE r # k
      BY <1>1, <2>3, <3>2
    <3> QED BY <3>1, <3>2
  <2> QED BY <2>2, <2>5
<1> QED BY <1>1, <1>2, <1>3

\* Each command of a line without compounds is what its stretch of the line
\* means, also while petrush_heredoc_feed_line fills its here-documents.
THEOREM StagesAsTyped == DocSpec => []StagesMean
<1>1. DocInit => StagesMean
  BY DEF DocInit, StagesMean
<1>2. TypeOK /\ StagesMean /\ [DocNext]_docVars => StagesMean'
  <2> SUFFICES ASSUME TypeOK, StagesMean, [DocNext]_docVars PROVE StagesMean'
    OBVIOUS
  <2>1. CASE DocRead
    BY <2>1, ReadMeans
  <2>2. ASSUME NEW k \in 1..Len(cmds), NEW l \in BodyLines, Feed(k, l) PROVE StagesMean'
    BY <2>2, FeedMeans
  <2>3. CASE DocQuit
    BY <2>3 DEF DocQuit, StagesMean
  <2>4. CASE DocDone
    BY <2>4 DEF DocDone, StagesMean
  <2>5. CASE UNCHANGED docVars
    BY <2>5 DEF docVars, StagesMean
  <2> QED BY <2>1, <2>2, <2>3, <2>4, <2>5 DEF DocNext
<1> QED BY <1>1, <1>2, HeredocsTypeCorrect, PTL DEF DocSpec
=============================================================================
