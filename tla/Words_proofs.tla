---------------------------- MODULE Words_proofs ----------------------------
(***************************************************************************)
(* Proofs about Words, for every command, every context and every depth of *)
(* forms inside forms (whatever Inner is): parameters arrive whole, and no *)
(* command runs that had an error.                                         *)
(***************************************************************************)
EXTENDS Words, FiniteSetTheorems, WellFoundedInduction, TLAPS

-----------------------------------------------------------------------------
(* Sequences *)

LEMMA LeastNumber ==
    ASSUME NEW T \in SUBSET Nat, T # {}
    PROVE  \E x \in T : \A y \in T : x <= y
<1> DEFINE R == {ss \in Nat \X Nat : ss[1] < ss[2]}
<1>1. IsWellFoundedOn(R, Nat)
  BY NatLessThanWellFounded DEF OpToRel
<1>2. \E x \in T : \A y \in T : <<y, x>> \notin R
  <2> HIDE DEF R
  <2> QED BY <1>1, WFMin
<1>3. PICK x \in T : \A y \in T : <<y, x>> \notin R
  BY <1>2
<1>4. ASSUME NEW y \in T PROVE x <= y
  <2>1. ~(<<y, x>> \in Nat \X Nat /\ y < x)
    BY <1>3
  <2> QED BY <2>1
<1> QED BY <1>3, <1>4

LEMMA SeqOver ==
    ASSUME NEW s, IsSeq(s), NEW T, \A i \in 1..Len(s) : s[i] \in T
    PROVE  s \in Seq(T)
<1>1. s \in [1..Len(s) -> T] /\ Len(s) \in Nat
  BY DEF IsSeq
<1> QED BY <1>1

LEMMA SeqIs ==
    ASSUME NEW T, NEW s \in Seq(T)
    PROVE  IsSeq(s)
BY DEF IsSeq

LEMMA FunctionIsSeq ==
    ASSUME NEW n \in Nat, NEW s, DOMAIN s = 1..n, s = [i \in 1..n |-> s[i]]
    PROVE  IsSeq(s) /\ Len(s) = n
<1>1. s \in [1..n -> {s[i] : i \in 1..n}]
  OBVIOUS
<1>2. s \in Seq({s[i] : i \in 1..n}) /\ Len(s) = n
  BY <1>1
<1> QED BY <1>2, SeqIs

LEMMA Concatenated ==
    ASSUME NEW a, IsSeq(a), NEW b, IsSeq(b)
    PROVE  /\ IsSeq(a \o b) /\ Len(a \o b) = Len(a) + Len(b)
           /\ \A i \in 1..Len(a) : (a \o b)[i] = a[i]
           /\ \A i \in 1..Len(b) : (a \o b)[Len(a) + i] = b[i]
<1> DEFINE T == {a[i] : i \in 1..Len(a)} \cup {b[i] : i \in 1..Len(b)}
<1>1. a \in Seq(T) /\ b \in Seq(T)
  BY SeqOver
<1>2. a \o b \in Seq(T)
  BY <1>1
<1>3. IsSeq(a \o b)
  BY <1>2, SeqIs
<1> HIDE DEF T
<1> QED BY <1>1, <1>3

-----------------------------------------------------------------------------
(* What FlattenSeq makes of a sequence of sequences *)

\* flat is the first m sequences of ss, the i-th behind at[i - 1].
Laid(ss, m, flat, at) ==
    /\ at \in [0..m -> Nat] /\ at[0] = 0
    /\ \A i \in 1..m : at[i] = at[i - 1] + Len(ss[i])
    /\ IsSeq(flat) /\ Len(flat) = at[m]
    /\ \A i \in 1..m : \A n \in 1..Len(ss[i]) :
          at[i - 1] + n \in 1..Len(flat) /\ flat[at[i - 1] + n] = ss[i][n]
    /\ \A p \in 1..Len(flat) :
          \E i \in 1..m : \E n \in 1..Len(ss[i]) : p = at[i - 1] + n

LEMMA LaidRises ==
    ASSUME NEW ss, NEW m \in Nat, NEW flat, NEW at, Laid(ss, m, flat, at),
           \A i \in 1..m : Len(ss[i]) \in Nat, NEW k \in 0..m
    PROVE  at[k] <= at[m]
<1> DEFINE T == {n \in Nat : n \in k..m /\ ~(at[k] <= at[n])}
<1> SUFFICES ASSUME T # {} PROVE FALSE
  OBVIOUS
<1>1. /\ at \in [0..m -> Nat] /\ at[k] \in Nat
      /\ \A i \in 1..m : at[i] = at[i - 1] + Len(ss[i])
  BY DEF Laid
<1>2. PICK n \in T : \A y \in T : n <= y
  BY LeastNumber
<1>3. n \in k..m /\ n \in Nat /\ ~(at[k] <= at[n])
  BY <1>2
<1>4. n # k
  BY <1>1, <1>3
<1>5. /\ n - 1 \in Nat /\ n - 1 \in k..m /\ ~(n <= n - 1) /\ n \in 1..m
      /\ n - 1 \in 0..m /\ n \in 0..m
  BY <1>3, <1>4
<1>6. at[k] <= at[n - 1]
  BY <1>2, <1>5
<1>7. at[n] = at[n - 1] + Len(ss[n]) /\ Len(ss[n]) \in Nat
  BY <1>1, <1>5
<1>8. at[n] \in Nat /\ at[n - 1] \in Nat
  BY <1>1, <1>5
<1>9. \A x, y, z \in Nat : \A d \in Nat : (x <= y /\ z = y + d) => x <= z
  OBVIOUS
<1>10. at[k] <= at[n]
  BY ONLY <1>1, <1>6, <1>7, <1>8, <1>9, Zenon
<1> QED BY <1>3, <1>10

LEMMA LaidMore ==
    ASSUME NEW ss, NEW m \in Nat, NEW flat, NEW at, Laid(ss, m, flat, at), IsSeq(ss[m + 1])
    PROVE  \E more : Laid(ss, m + 1, flat \o ss[m + 1], more)
<1> DEFINE all  == flat \o ss[m + 1]
           more == [i \in 0..m + 1 |-> IF i = m + 1 THEN at[m] + Len(ss[m + 1]) ELSE at[i]]
<1>1. /\ IsSeq(flat) /\ Len(flat) = at[m] /\ at \in [0..m -> Nat] /\ at[0] = 0
      /\ Len(ss[m + 1]) \in Nat /\ at[m] \in Nat
  BY DEF Laid, IsSeq
<1>2. /\ IsSeq(all) /\ Len(all) = at[m] + Len(ss[m + 1])
      /\ \A i \in 1..at[m] : all[i] = flat[i]
      /\ \A i \in 1..Len(ss[m + 1]) : all[at[m] + i] = ss[m + 1][i]
  <2>1. PICK next : next = ss[m + 1] /\ IsSeq(next)
    OBVIOUS
  <2>2. /\ IsSeq(flat \o next) /\ Len(flat \o next) = Len(flat) + Len(next)
        /\ \A i \in 1..Len(flat) : (flat \o next)[i] = flat[i]
        /\ \A i \in 1..Len(next) : (flat \o next)[Len(flat) + i] = next[i]
    <3>1. IsSeq(flat)
      BY <1>1
    <3> QED BY ONLY <2>1, <3>1, Concatenated
  <2>3. Len(flat) = at[m]
    BY <1>1
  <2> QED BY ONLY <2>1, <2>2, <2>3, Zenon
<1>3. /\ more \in [0..m + 1 -> Nat] /\ \A i \in 0..m : more[i] = at[i]
      /\ more[m + 1] = at[m] + Len(ss[m + 1])
  BY <1>1
<1> HIDE DEF more, all
<1>4. \A i \in 1..m + 1 : i - 1 \in 0..m /\ (i # m + 1 => i \in 1..m)
  OBVIOUS
<1>5. \A i \in 1..m + 1 : more[i] = more[i - 1] + Len(ss[i])
  <2> TAKE i \in 1..m + 1
  <2>1. CASE i = m + 1
    BY <1>3, <1>4, <2>1
  <2>2. CASE i # m + 1
    <3>1. i \in 1..m /\ i \in 0..m /\ i - 1 \in 0..m
      BY <2>2
    <3> QED BY <1>3, <3>1 DEF Laid
  <2> QED BY <2>1, <2>2
<1>6. ASSUME NEW i \in 1..m + 1, NEW n \in 1..Len(ss[i])
      PROVE  more[i - 1] + n \in 1..Len(all) /\ all[more[i - 1] + n] = ss[i][n]
  <2>1. CASE i = m + 1
    <3>1. more[i - 1] = at[m]
      BY <1>3, <1>4, <2>1
    <3>2. at[m] + n \in 1..at[m] + Len(ss[m + 1])
      BY <1>1, <2>1
    <3> QED BY <1>2, <2>1, <3>1, <3>2
  <2>2. CASE i # m + 1
    <3>1. i \in 1..m /\ more[i - 1] = at[i - 1]
      BY <1>3, <1>4, <2>2
    <3>2. at[i - 1] + n \in 1..at[m] /\ flat[at[i - 1] + n] = ss[i][n]
      BY <1>1, <3>1 DEF Laid
    <3>3. at[i - 1] + n \in 1..at[m] + Len(ss[m + 1])
      BY <1>1, <3>2
    <3> QED BY <1>2, <3>1, <3>2, <3>3
  <2> QED BY <2>1, <2>2
<1>7. ASSUME NEW p \in 1..Len(all)
      PROVE  \E i \in 1..m + 1 : \E n \in 1..Len(ss[i]) : p = more[i - 1] + n
  <2>1. CASE p \in 1..at[m]
    <3>1. PICK i \in 1..m : \E n \in 1..Len(ss[i]) : p = at[i - 1] + n
      BY <1>1, <2>1 DEF Laid
    <3>2. i \in 1..m + 1 /\ more[i - 1] = at[i - 1]
      BY <1>3, <3>1
    <3> QED BY <3>1, <3>2
  <2>2. CASE p \notin 1..at[m]
    <3>1. p - at[m] \in 1..Len(ss[m + 1]) /\ p = at[m] + (p - at[m])
      BY <1>1, <1>2, <2>2
    <3>2. m + 1 \in 1..m + 1 /\ more[m + 1 - 1] = at[m]
      BY <1>3
    <3> QED BY <3>1, <3>2
  <2> QED BY <2>1, <2>2
<1>8. more[0] = 0
  BY <1>1, <1>3
<1>9. Laid(ss, m + 1, all, more)
  BY <1>2, <1>3, <1>5, <1>6, <1>7, <1>8 DEF Laid
<1> QED BY <1>9 DEF all

\* What FlattenSeq builds, up to the n-th sequence.
FlatTo(ss, n, f) ==
    f = [i \in 1..n |-> IF i = 1 THEN ss[i] ELSE f[i - 1] \o ss[i]]

LEMMA FlatExists ==
    ASSUME NEW ss, NEW n \in Nat
    PROVE  \E f : FlatTo(ss, n, f)
<1> DEFINE T == {m \in Nat : ~\E f : FlatTo(ss, m, f)}
<1> SUFFICES ASSUME T # {} PROVE FALSE
  OBVIOUS
<1>1. PICK m \in T : \A y \in T : m <= y
  BY LeastNumber
<1>2. CASE m = 0
  <2>1. FlatTo(ss, 0, [i \in 1..0 |-> ss[i]])
    BY DEF FlatTo
  <2> QED BY <1>1, <1>2, <2>1
<1>3. CASE m # 0
  <2>1. m - 1 \in Nat /\ m \in Nat /\ ~(m <= m - 1)
    BY <1>3
  <2>2. PICK f : FlatTo(ss, m - 1, f)
    BY <1>1, <2>1
  <2> DEFINE g == [i \in 1..m |-> IF i = m THEN IF m = 1 THEN ss[m] ELSE f[m - 1] \o ss[m]
                                  ELSE f[i]]
  <2>3. \A i \in 1..m - 1 : g[i] = f[i] /\ i \in 1..m
    BY <2>1
  <2>4. \A i \in 1..m - 1 : f[i] = IF i = 1 THEN ss[i] ELSE f[i - 1] \o ss[i]
    BY <2>2 DEF FlatTo
  <2>5. ASSUME NEW i \in 1..m
        PROVE  g[i] = IF i = 1 THEN ss[i] ELSE g[i - 1] \o ss[i]
    <3>1. CASE i = m
      <4>1. g[i] = IF m = 1 THEN ss[m] ELSE f[m - 1] \o ss[m]
        BY <3>1
      <4>2. m # 1 => m - 1 \in 1..m - 1
        BY <2>1
      <4>3. m # 1 => g[m - 1] = f[m - 1]
        BY <2>3, <4>2
      <4> HIDE DEF g
      <4> QED BY <3>1, <4>1, <4>3
    <3>2. CASE i # m
      <4>1. i \in 1..m - 1 /\ (i # 1 => i - 1 \in 1..m - 1)
        BY <2>1, <3>2
      <4> HIDE DEF g
      <4> QED BY <2>3, <2>4, <4>1
    <3> QED BY <3>1, <3>2
  <2>6. g = [i \in 1..m |-> g[i]]
    OBVIOUS
  <2>7. FlatTo(ss, m, g)
    <3> HIDE DEF g
    <3> QED BY <2>5, <2>6 DEF FlatTo
  <2> QED BY <1>1, <2>7
<1> QED BY <1>2, <1>3

\* The texts of a sequence are laid one behind the other, and nothing else.
LEMMA Flattened ==
    ASSUME NEW ss, IsSeq(ss), \A i \in 1..Len(ss) : IsSeq(ss[i])
    PROVE  \E at : Laid(ss, Len(ss), FlattenSeq(ss), at)
<1>1. Len(ss) \in Nat
  BY DEF IsSeq
<1>2. CASE Len(ss) = 0
  <2>1. FlattenSeq(ss) = ss
    BY <1>2 DEF FlattenSeq
  <2>2. Laid(ss, 0, ss, [i \in 0..0 |-> 0])
    BY <1>2 DEF Laid
  <2> QED BY <1>2, <2>1, <2>2
<1>3. CASE Len(ss) # 0
  <2>1. PICK f : FlatTo(ss, Len(ss), f)
    BY <1>1, FlatExists
  <2> DEFINE F == CHOOSE g : g = [i \in 1..Len(ss) |-> IF i = 1 THEN ss[i] ELSE g[i - 1] \o ss[i]]
  <2>2. FlatTo(ss, Len(ss), F)
    BY <2>1 DEF FlatTo
  <2>3. FlattenSeq(ss) = F[Len(ss)]
    BY <1>3 DEF FlattenSeq
  <2> HIDE DEF F
  <2>4. \A i \in 1..Len(ss) : F[i] = IF i = 1 THEN ss[i] ELSE F[i - 1] \o ss[i]
    BY <2>2 DEF FlatTo
  <2> DEFINE T == {m \in Nat : m \in 1..Len(ss) /\ ~\E at : Laid(ss, m, F[m], at)}
  <2>5. ASSUME T # {} PROVE FALSE
    <3>1. PICK m \in T : \A y \in T : m <= y
      BY <2>5, LeastNumber
    <3>2. m \in 1..Len(ss) /\ m \in Nat /\ ~\E at : Laid(ss, m, F[m], at)
      BY <3>1
    <3>3. CASE m = 1
      <4>1. F[1] = ss[1] /\ IsSeq(ss[1])
        BY <2>4, <3>2, <3>3
      <4>2. PICK one : one = ss[1]
        OBVIOUS
      <4>3. Len(one) \in Nat /\ IsSeq(one)
        BY <4>1, <4>2 DEF IsSeq
      <4>4. Laid(ss, 1, one, [i \in 0..1 |-> IF i = 0 THEN 0 ELSE Len(one)])
        BY <4>2, <4>3 DEF Laid
      <4> QED BY <3>2, <3>3, <4>1, <4>2, <4>4
    <3>4. CASE m # 1
      <4>1. m - 1 \in Nat /\ m - 1 \in 1..Len(ss) /\ ~(m <= m - 1) /\ (m - 1) + 1 = m
        BY <1>1, <3>2, <3>4
      <4>2. PICK at : Laid(ss, m - 1, F[m - 1], at)
        BY <3>1, <4>1
      <4>3. F[m] = F[m - 1] \o ss[m] /\ IsSeq(ss[m])
        BY <2>4, <3>2, <3>4
      <4>4. \E more : Laid(ss, (m - 1) + 1, F[m - 1] \o ss[(m - 1) + 1], more)
        BY ONLY LaidMore, <4>1, <4>2, <4>3, Zenon
      <4> QED BY ONLY <3>2, <4>1, <4>3, <4>4, Zenon
    <3> QED BY <3>3, <3>4
  <2>6. Len(ss) \in 1..Len(ss)
    BY <1>1, <1>3
  <2> QED BY <1>1, <2>3, <2>5, <2>6
<1> QED BY <1>2, <1>3

\* x stands in s, in one run behind its first k elements.
Run(s, k, x) ==
    /\ k \in Nat /\ k + Len(x) <= Len(s)
    /\ \A n \in 1..Len(x) : s[k + n] = x[n]

LEMMA RunKept ==
    ASSUME NEW ss, IsSeq(ss), \A i \in 1..Len(ss) : IsSeq(ss[i]),
           NEW x, IsSeq(x), NEW k \in Nat, k + Len(x) <= Len(ss),
           \A n \in 1..Len(x) : ss[k + n] = <<x[n]>>
    PROVE  \E l : Run(FlattenSeq(ss), l, x)
<1>1. Len(ss) \in Nat /\ Len(x) \in Nat
  BY DEF IsSeq
<1>2. PICK at : Laid(ss, Len(ss), FlattenSeq(ss), at)
  BY Flattened
<1>3. PICK flat : flat = FlattenSeq(ss)
  OBVIOUS
<1>4. /\ at \in [0..Len(ss) -> Nat] /\ Len(flat) = at[Len(ss)]
      /\ \A i \in 1..Len(ss) : at[i] = at[i - 1] + Len(ss[i])
      /\ \A i \in 1..Len(ss) : \A n \in 1..Len(ss[i]) :
            at[i - 1] + n \in 1..Len(flat) /\ flat[at[i - 1] + n] = ss[i][n]
  BY <1>2, <1>3 DEF Laid
<1>5. \A n \in 1..Len(x) : /\ k + n \in 1..Len(ss) /\ (k + n) - 1 = k + (n - 1)
                           /\ k + n \in 0..Len(ss) /\ k + (n - 1) \in 0..Len(ss)
                           /\ n - 1 \in 0..Len(x)
  BY <1>1
<1>6. \A n \in 1..Len(x) : Len(ss[k + n]) = 1 /\ ss[k + n][1] = x[n]
  <2> TAKE n \in 1..Len(x)
  <2>1. PICK v : v = x[n]
    OBVIOUS
  <2>2. Len(<<v>>) = 1 /\ <<v>>[1] = v
    OBVIOUS
  <2>3. ss[k + n] = <<v>>
    BY <2>1
  <2> QED BY ONLY <2>1, <2>2, <2>3, Zenon
<1>7. \A n \in 1..Len(x) : at[k + n] = at[k + (n - 1)] + 1
  BY <1>4, <1>5, <1>6
<1>8. \A n \in 1..Len(x) : /\ at[k + (n - 1)] + 1 \in 1..Len(flat)
                           /\ flat[at[k + (n - 1)] + 1] = x[n]
  <2> TAKE n \in 1..Len(x)
  <2>1. 1 \in 1..Len(ss[k + n])
    BY <1>6
  <2> QED BY <1>4, <1>5, <1>6, <2>1
<1>9. \A n \in 0..Len(x) : at[k + n] = at[k] + n
  <2> DEFINE T == {n \in Nat : n \in 0..Len(x) /\ at[k + n] # at[k] + n}
  <2> SUFFICES ASSUME T # {} PROVE FALSE
    BY <1>1
  <2>1. PICK n \in T : \A y \in T : n <= y
    BY LeastNumber
  <2>2. at[k] \in Nat /\ k + 0 = k /\ n \in Nat
    BY <1>1, <1>4
  <2>3. n # 0
    BY <2>1, <2>2
  <2>4. n \in 1..Len(x) /\ n - 1 \in Nat /\ n - 1 \in 0..Len(x) /\ ~(n <= n - 1)
    BY <1>1, <2>2, <2>3
  <2>5. at[k + (n - 1)] = at[k] + (n - 1)
    BY <2>1, <2>4
  <2>6. at[k + n] = at[k] + n
    BY <1>7, <2>2, <2>4, <2>5
  <2> QED BY <2>6
<1>10. at[k] \in Nat /\ Len(flat) \in Nat
  BY <1>1, <1>4
<1>11. \A n \in 1..Len(x) : at[k] + n \in 1..Len(flat) /\ flat[at[k] + n] = x[n]
  <2> TAKE n \in 1..Len(x)
  <2>1. at[k + (n - 1)] = at[k] + (n - 1)
    BY <1>5, <1>9
  <2>2. (at[k] + (n - 1)) + 1 = at[k] + n
    BY <1>1, <1>10
  <2> QED BY <1>8, <2>1, <2>2
<1>12. at[k] + Len(x) <= Len(flat)
  <2>1. CASE Len(x) = 0
    <3>1. at[k] <= at[Len(ss)]
      <4>1. k \in 0..Len(ss) /\ \A i \in 1..Len(ss) : Len(ss[i]) \in Nat
        BY <1>1, <2>1 DEF IsSeq
      <4> QED BY <1>1, <1>2, <4>1, LaidRises
    <3> QED BY <1>4, <1>10, <2>1, <3>1
  <2>2. CASE Len(x) # 0
    <3>1. Len(x) \in 1..Len(x)
      BY <1>1, <2>2
    <3> QED BY <1>10, <1>11, <3>1
  <2> QED BY <2>1, <2>2
<1>13. Run(flat, at[k], x)
  BY <1>10, <1>11, <1>12 DEF Run
<1> QED BY <1>3, <1>13

-----------------------------------------------------------------------------
(* One pass over the words of a command, in parts                            *)

IsWords(ws) == IsSeq(ws) /\ \A i \in 1..Len(ws) : ws[i].quoted \in 0..2

First(c, cmd)    == [i \in 1..Len(cmd.argv) |-> Substituted(c, cmd.argv[i])]
Brought(c, cmd)  == [i \in 1..Len(First(c, cmd)) |-> First(c, cmd)[i].words]
Between(c, cmd)  == FlattenSeq(Brought(c, cmd))
Chosen(c, cmd)   == [i \in 1..Len(Between(c, cmd)) |-> Globbed(Between(c, cmd)[i])]
FilesOf(c, cmd)  == [i \in 1..Len(cmd.files) |-> expand_word(c, cmd.files[i])]
PathsIn(c, cmd)  == [i \in 1..Len(FilesOf(c, cmd)) |-> FilesOf(c, cmd)[i].text]
BodyOf(c, cmd)   == IF cmd.bodyQuoted THEN Out(cmd.body) ELSE expand_heredoc_body(c, cmd.body)
Results1(c, cmd) == ToSet(First(c, cmd)) \cup ToSet(FilesOf(c, cmd)) \cup {BodyOf(c, cmd)}

LEMMA PassIs ==
    ASSUME NEW c, NEW cmd
    PROVE  expand_cmd_argv(c, cmd) =
             [cmd   |-> [cmd EXCEPT !.argv  = FlattenSeq(Chosen(c, cmd)),
                                    !.files = PathsIn(c, cmd),
                                    !.body  = BodyOf(c, cmd).text],
              arith |-> \E r \in Results1(c, cmd) : r.arith,
              unset |-> \E r \in Results1(c, cmd) : r.unset]
BY DEF expand_cmd_argv, MapSeq, First, Brought, Between, Chosen, FilesOf, PathsIn, BodyOf, Results1

LEMMA WordsLaid ==
    ASSUME NEW ss, IsSeq(ss), \A i \in 1..Len(ss) : IsWords(ss[i])
    PROVE  IsWords(FlattenSeq(ss))
<1>1. PICK at : Laid(ss, Len(ss), FlattenSeq(ss), at)
  BY Flattened DEF IsWords
<1>2. PICK flat : flat = FlattenSeq(ss)
  OBVIOUS
<1>3. ASSUME NEW p \in 1..Len(flat) PROVE flat[p].quoted \in 0..2
  <2>1. PICK i \in 1..Len(ss) : \E n \in 1..Len(ss[i]) : p = at[i - 1] + n
    BY <1>1, <1>2 DEF Laid
  <2>2. PICK n \in 1..Len(ss[i]) : p = at[i - 1] + n
    BY <2>1
  <2>3. flat[p] = ss[i][n]
    BY <1>1, <1>2, <2>2 DEF Laid
  <2> QED BY <2>3 DEF IsWords
<1> QED BY <1>1, <1>2, <1>3 DEF IsWords, Laid

LEMMA OneWord ==
    ASSUME NEW w, w.quoted \in 0..2
    PROVE  IsWords(<<w>>)
BY DEF IsWords, IsSeq

LEMMA AsTyped ==
    ASSUME NEW n \in Nat, NEW v
    PROVE  IsWords([i \in 1..n |-> Word(v[i], 1)]) /\ Len([i \in 1..n |-> Word(v[i], 1)]) = n
<1> DEFINE ws == [i \in 1..n |-> Word(v[i], 1)]
<1>1. DOMAIN ws = 1..n /\ ws = [i \in 1..n |-> ws[i]]
  OBVIOUS
<1>2. IsSeq(ws) /\ Len(ws) = n
  <2> HIDE DEF ws
  <2> QED BY <1>1, FunctionIsSeq
<1>3. \A i \in 1..n : ws[i].quoted = 1
  BY DEF Word
<1> QED BY <1>2, <1>3 DEF IsWords

Ranked(paths, k) ==
    CHOOSE p \in paths : Cardinality({q \in paths : TextLess(q, p)}) = k - 1

\* Matches exist and are counted: directories are finite.
LEMMA PathsCounted ==
    ASSUME NEW t
    PROVE  \/ glob_word(t) = <<t>>
           \/ Len(glob_word(t)) \in Nat
<1> DEFINE names == Found(DirOf(t), BaseOf(t))
           pre   == SubSeq(t, 1, Slash(t))
<1> SUFFICES ASSUME DirOf(t) \in DOMAIN Dirs, glob_word(t) = PathsOf(t, pre, names)
             PROVE  glob_word(t) = <<t>> \/ Len(glob_word(t)) \in Nat
  BY Zenon DEF glob_word
<1>1. IsFiniteSet(names)
  <2>1. IsFiniteSet(Dirs[DirOf(t)])
    BY ExpandAssumption
  <2>2. names \subseteq Dirs[DirOf(t)]
    BY DEF Found
  <2> QED BY <2>1, <2>2, FS_Subset
<1>2. Cardinality(names) \in Nat
  BY <1>1, FS_CardinalityType
<1> HIDE DEF names, pre
<1>3. CASE Cardinality(names) > GlobMax
  <2>1. PathsOf(t, pre, names) = TooMany
    BY <1>3 DEF PathsOf
  <2>2. Len(TooMany) = 1
    BY DEF TooMany
  <2> QED BY <2>1, <2>2
<1>4. CASE ~(Cardinality(names) > GlobMax) /\ names = {}
  BY <1>4 DEF PathsOf
<1>5. CASE ~(Cardinality(names) > GlobMax) /\ names # {}
  <2> DEFINE paths == {pre \o n : n \in names}
             ranked == [k \in 1..Cardinality(names) |-> Ranked(paths, k)]
  <2>1. PathsOf(t, pre, names) = ranked
    BY <1>5 DEF PathsOf, Ranked
  <2>2. DOMAIN ranked = 1..Cardinality(names) /\ ranked = [k \in 1..Cardinality(names) |-> ranked[k]]
    OBVIOUS
  <2>3. Len(ranked) = Cardinality(names)
    <3> HIDE DEF ranked
    <3> QED BY <1>2, <2>2, FunctionIsSeq
  <2> QED BY <1>2, <2>1, <2>3
<1> QED BY <1>3, <1>4, <1>5

LEMMA SubstitutedWords ==
    ASSUME NEW c, IsSeq(c.params), NEW w, w.quoted \in 0..2
    PROVE  IsWords(Substituted(c, w).words)
<1>1. Len(c.params) \in Nat
  BY DEF IsSeq
<1>2. CASE w.quoted = 1
  BY <1>2, OneWord DEF Substituted, Unharmed
<1>3. CASE w.quoted # 1 /\ (w.text = <<All("@")>> \/ (w.text = <<All("*")>> /\ w.quoted = 0))
  <2>1. Substituted(c, w).words = Spliced(c, w)
    BY <1>3 DEF Substituted, Unharmed
  <2>2. IsWords(Spliced(c, w))
    BY <1>1, AsTyped DEF Spliced
  <2> QED BY <2>1, <2>2
<1>4. CASE w.quoted # 1 /\ ~(w.text = <<All("@")>> \/ (w.text = <<All("*")>> /\ w.quoted = 0))
  <2>1. Substituted(c, w).words = <<Word(expand_word(c, w.text).text, w.quoted)>>
    BY <1>4 DEF Substituted, Single
  <2>2. Word(expand_word(c, w.text).text, w.quoted).quoted \in 0..2
    BY DEF Word
  <2> QED BY <2>1, <2>2, OneWord
<1> QED BY <1>2, <1>3, <1>4

LEMMA GlobbedWords ==
    ASSUME NEW w, w.quoted \in 0..2
    PROVE  /\ IsWords(Globbed(w))
           /\ w.quoted # 0 => Globbed(w) = <<w>>
<1>1. CASE w.quoted # 0 \/ ~HasMeta(w.text) \/ glob_word(w.text) \in {TooMany, <<w.text>>}
  <2>1. Globbed(w) = <<w>>
    BY <1>1 DEF Globbed, Matched
  <2> QED BY <2>1, OneWord
<1>2. CASE w.quoted = 0 /\ HasMeta(w.text) /\ glob_word(w.text) \notin {TooMany, <<w.text>>}
  <2>1. Len(glob_word(w.text)) \in Nat
    BY <1>2, PathsCounted
  <2>2. Globbed(w) = [i \in 1..Len(glob_word(w.text)) |-> Word(glob_word(w.text)[i], 1)]
    BY <1>2 DEF Globbed, Matched
  <2>3. IsWords(Globbed(w))
    BY <2>1, <2>2, AsTyped
  <2> QED BY <1>2, <2>3
<1> QED BY <1>1, <1>2

LEMMA BroughtSeqs ==
    ASSUME NEW c, IsSeq(c.params), NEW cmd, IsWords(cmd.argv)
    PROVE  /\ IsSeq(Brought(c, cmd)) /\ Len(Brought(c, cmd)) = Len(cmd.argv)
           /\ \A i \in 1..Len(cmd.argv) :
                 /\ Brought(c, cmd)[i] = Substituted(c, cmd.argv[i]).words
                 /\ IsWords(Brought(c, cmd)[i])
           /\ IsWords(Between(c, cmd))
<1>1. Len(cmd.argv) \in Nat
  BY DEF IsWords, IsSeq
<1>2. IsSeq(First(c, cmd)) /\ Len(First(c, cmd)) = Len(cmd.argv)
  BY <1>1, FunctionIsSeq DEF First
<1>3. IsSeq(Brought(c, cmd)) /\ Len(Brought(c, cmd)) = Len(cmd.argv)
  BY <1>1, <1>2, FunctionIsSeq DEF Brought
<1>4. \A i \in 1..Len(cmd.argv) : Brought(c, cmd)[i] = Substituted(c, cmd.argv[i]).words
  BY <1>2 DEF Brought, First
<1>5. \A i \in 1..Len(cmd.argv) : IsWords(Brought(c, cmd)[i])
  BY <1>4, SubstitutedWords DEF IsWords
<1>6. IsWords(Between(c, cmd))
  BY <1>3, <1>5, WordsLaid DEF Between
<1> QED BY <1>3, <1>4, <1>5, <1>6

LEMMA ChosenSeqs ==
    ASSUME NEW c, NEW cmd, IsWords(Between(c, cmd))
    PROVE  /\ IsSeq(Chosen(c, cmd)) /\ Len(Chosen(c, cmd)) = Len(Between(c, cmd))
           /\ \A i \in 1..Len(Between(c, cmd)) :
                 /\ Chosen(c, cmd)[i] = Globbed(Between(c, cmd)[i])
                 /\ IsWords(Chosen(c, cmd)[i])
           /\ IsWords(FlattenSeq(Chosen(c, cmd)))
<1>1. Len(Between(c, cmd)) \in Nat
  BY DEF IsWords, IsSeq
<1>2. IsSeq(Chosen(c, cmd)) /\ Len(Chosen(c, cmd)) = Len(Between(c, cmd))
  BY <1>1, FunctionIsSeq DEF Chosen
<1>3. \A i \in 1..Len(Between(c, cmd)) : Chosen(c, cmd)[i] = Globbed(Between(c, cmd)[i])
  BY DEF Chosen
<1>4. \A i \in 1..Len(Between(c, cmd)) : IsWords(Chosen(c, cmd)[i])
  BY <1>3, GlobbedWords DEF IsWords
<1>5. IsWords(FlattenSeq(Chosen(c, cmd)))
  BY <1>2, <1>4, WordsLaid
<1> QED BY <1>2, <1>3, <1>4, <1>5

LEMMA PassArgv ==
    ASSUME NEW c, NEW cmd, DOMAIN cmd = {"argv", "files", "body", "bodyQuoted"}
    PROVE  LET to == expand_cmd_argv(c, cmd).cmd
           IN  /\ DOMAIN to = {"argv", "files", "body", "bodyQuoted"}
               /\ to.argv = FlattenSeq(Chosen(c, cmd)) /\ to.files = PathsIn(c, cmd)
<1> DEFINE argv  == FlattenSeq(Chosen(c, cmd))
           files == PathsIn(c, cmd)
           body  == BodyOf(c, cmd).text
<1>1. expand_cmd_argv(c, cmd).cmd = [cmd EXCEPT !.argv = argv, !.files = files, !.body = body]
  BY PassIs
<1> HIDE DEF argv, files, body
<1>2. QED BY <1>1 DEF argv, files

\* A pass over a command makes a command.
LEMMA PassCommand ==
    ASSUME NEW c, IsSeq(c.params), NEW cmd, IsCommand(cmd)
    PROVE  IsCommand(expand_cmd_argv(c, cmd).cmd)
<1> DEFINE to == expand_cmd_argv(c, cmd).cmd
<1>1. /\ DOMAIN cmd = {"argv", "files", "body", "bodyQuoted"} /\ IsWords(cmd.argv)
      /\ IsSeq(cmd.files)
  BY DEF IsCommand, IsWords
<1>2. /\ DOMAIN to = {"argv", "files", "body", "bodyQuoted"}
      /\ to.argv = FlattenSeq(Chosen(c, cmd)) /\ to.files = PathsIn(c, cmd)
  BY <1>1, PassArgv
<1>3. IsWords(to.argv)
  BY <1>1, <1>2, BroughtSeqs, ChosenSeqs
<1>4. IsSeq(to.files)
  <2>1. Len(cmd.files) \in Nat
    BY <1>1 DEF IsSeq
  <2>2. Len(FilesOf(c, cmd)) = Len(cmd.files)
    BY <2>1, FunctionIsSeq DEF FilesOf
  <2>3. IsSeq(PathsIn(c, cmd))
    BY <2>1, <2>2, FunctionIsSeq DEF PathsIn
  <2> QED BY <1>2, <2>3
<1> HIDE DEF to
<1>5. IsCommand(to)
  BY <1>2, <1>3, <1>4 DEF IsCommand, IsWords
<1> QED BY <1>5 DEF to

-----------------------------------------------------------------------------
(* Parameters stay whole                                                     *)

\* The parameters as words of their own, as if typed in ''.
Whole(c) == [n \in 1..Len(c.params) |-> Word(c.params[n], 1)]

LEMMA WholeIs ==
    ASSUME NEW c, IsSeq(c.params)
    PROVE  /\ IsWords(Whole(c)) /\ Len(Whole(c)) = Len(c.params)
           /\ \A n \in 1..Len(c.params) :
                 Whole(c)[n] = Word(c.params[n], 1) /\ Whole(c)[n].quoted = 1
<1>1. Len(c.params) \in Nat
  BY DEF IsSeq
<1> QED BY <1>1, AsTyped DEF Whole, Word

\* The matcher leaves quoted words alone.
LEMMA RunChosen ==
    ASSUME NEW c, NEW cmd, IsWords(Between(c, cmd)), NEW x, IsSeq(x), NEW k,
           Run(Between(c, cmd), k, x), \A n \in 1..Len(x) : x[n].quoted = 1
    PROVE  \E l : Run(FlattenSeq(Chosen(c, cmd)), l, x)
<1>1. /\ IsSeq(Chosen(c, cmd)) /\ Len(Chosen(c, cmd)) = Len(Between(c, cmd))
      /\ \A i \in 1..Len(Between(c, cmd)) : /\ Chosen(c, cmd)[i] = Globbed(Between(c, cmd)[i])
                                            /\ IsSeq(Chosen(c, cmd)[i])
  BY ChosenSeqs DEF IsWords
<1>2. /\ k \in Nat /\ k + Len(x) <= Len(Between(c, cmd)) /\ Len(x) \in Nat
      /\ Len(Between(c, cmd)) \in Nat
  BY DEF Run, IsWords, IsSeq
<1>3. ASSUME NEW n \in 1..Len(x) PROVE Chosen(c, cmd)[k + n] = <<x[n]>>
  <2>1. k + n \in 1..Len(Between(c, cmd))
    BY <1>2
  <2>2. Between(c, cmd)[k + n] = x[n] /\ x[n].quoted = 1
    BY DEF Run
  <2>3. Globbed(x[n]) = <<x[n]>>
    BY <2>2, GlobbedWords
  <2> QED BY <1>1, <2>1, <2>2, <2>3
<1> QED BY <1>1, <1>2, <1>3, RunKept

\* What is quoted as in '' survives a pass.
LEMMA RunThroughPass ==
    ASSUME NEW c, IsSeq(c.params), NEW cmd, IsCommand(cmd), NEW x, IsSeq(x), NEW k,
           Run(cmd.argv, k, x), \A n \in 1..Len(x) : x[n].quoted = 1
    PROVE  \E l : Run(expand_cmd_argv(c, cmd).cmd.argv, l, x)
<1>1. /\ IsWords(cmd.argv) /\ DOMAIN cmd = {"argv", "files", "body", "bodyQuoted"}
      /\ Len(cmd.argv) \in Nat
  BY DEF IsCommand, IsWords, IsSeq
<1>2. /\ IsSeq(Brought(c, cmd)) /\ Len(Brought(c, cmd)) = Len(cmd.argv)
      /\ \A i \in 1..Len(cmd.argv) : /\ Brought(c, cmd)[i] = Substituted(c, cmd.argv[i]).words
                                     /\ IsSeq(Brought(c, cmd)[i])
      /\ IsWords(Between(c, cmd))
  BY <1>1, BroughtSeqs DEF IsWords
<1>3. k \in Nat /\ k + Len(x) <= Len(cmd.argv) /\ Len(x) \in Nat
  BY DEF Run, IsSeq
<1>4. ASSUME NEW n \in 1..Len(x) PROVE Brought(c, cmd)[k + n] = <<x[n]>>
  <2>1. k + n \in 1..Len(cmd.argv)
    BY <1>1, <1>3
  <2>2. cmd.argv[k + n] = x[n] /\ x[n].quoted = 1
    BY DEF Run
  <2>3. Substituted(c, x[n]).words = <<x[n]>>
    BY <2>2 DEF Substituted, Unharmed
  <2> QED BY <1>2, <2>1, <2>2, <2>3
<1>5. PICK b : Run(Between(c, cmd), b, x)
  BY <1>2, <1>3, <1>4, RunKept DEF Between
<1>6. \E l : Run(FlattenSeq(Chosen(c, cmd)), l, x)
  BY <1>2, <1>5, RunChosen
<1> QED BY <1>1, <1>6, PassArgv

\* $@ becomes the parameters.
LEMMA RunArrives ==
    ASSUME NEW c, IsSeq(c.params), NEW cmd, IsCommand(cmd), NEW i \in 1..Len(cmd.argv),
           cmd.argv[i].text = <<All("@")>>, cmd.argv[i].quoted # 1
    PROVE  \E l : Run(expand_cmd_argv(c, cmd).cmd.argv, l, Whole(c))
<1>1. /\ IsWords(cmd.argv) /\ DOMAIN cmd = {"argv", "files", "body", "bodyQuoted"}
      /\ Len(cmd.argv) \in Nat
  BY DEF IsCommand, IsWords, IsSeq
<1>2. /\ IsSeq(Brought(c, cmd)) /\ Len(Brought(c, cmd)) = Len(cmd.argv)
      /\ \A j \in 1..Len(cmd.argv) : /\ Brought(c, cmd)[j] = Substituted(c, cmd.argv[j]).words
                                     /\ IsSeq(Brought(c, cmd)[j])
      /\ IsWords(Between(c, cmd))
  BY <1>1, BroughtSeqs DEF IsWords
<1>3. Brought(c, cmd)[i] = Whole(c)
  BY <1>2 DEF Substituted, Unharmed, Spliced, Whole
<1>4. PICK at : Laid(Brought(c, cmd), Len(cmd.argv), Between(c, cmd), at)
  BY <1>2, Flattened DEF Between
<1>5. PICK x : x = Whole(c)
  OBVIOUS
<1>6. IsSeq(x) /\ Len(x) \in Nat /\ \A n \in 1..Len(x) : x[n].quoted = 1
  BY <1>5, WholeIs DEF IsWords, IsSeq
<1>7. /\ at[i - 1] \in Nat
      /\ \A n \in 1..Len(x) : /\ at[i - 1] + n \in 1..Len(Between(c, cmd))
                              /\ Between(c, cmd)[at[i - 1] + n] = x[n]
  <2>1. i - 1 \in 0..Len(cmd.argv)
    BY <1>1
  <2> QED BY <1>3, <1>4, <1>5, <2>1 DEF Laid
<1>8. at[i - 1] + Len(x) <= Len(Between(c, cmd))
  <2>1. Len(Between(c, cmd)) \in Nat
    BY <1>2 DEF IsWords, IsSeq
  <2>2. CASE Len(x) = 0
    <3>1. i - 1 \in 0..Len(cmd.argv) /\ \A j \in 1..Len(cmd.argv) : Len(Brought(c, cmd)[j]) \in Nat
      BY <1>1, <1>2 DEF IsSeq
    <3>2. at[i - 1] <= at[Len(cmd.argv)]
      BY <1>1, <1>4, <3>1, LaidRises
    <3>3. Len(Between(c, cmd)) = at[Len(cmd.argv)]
      BY <1>4 DEF Laid
    <3> QED BY <1>7, <2>1, <2>2, <3>2, <3>3
  <2>3. CASE Len(x) # 0
    <3>1. Len(x) \in 1..Len(x)
      BY <1>6, <2>3
    <3> QED BY <1>6, <1>7, <2>1, <3>1
  <2> QED BY <2>2, <2>3
<1>9. Run(Between(c, cmd), at[i - 1], x)
  BY <1>7, <1>8 DEF Run
<1>10. \E l : Run(FlattenSeq(Chosen(c, cmd)), l, x)
  BY <1>2, <1>6, <1>9, RunChosen
<1> QED BY <1>1, <1>5, <1>10, PassArgv

-----------------------------------------------------------------------------
(* Errors are noticed wherever they are                                      *)

\* One atom that is in error.
Faulty(c, a) ==
    \/ c.u /\ a[1] \in {"var", "size"} /\ c.env[a[2]] = Unset
    \/ c.u /\ a[1] = "par" /\ ~(a[2] <= Len(c.params))
    \/ a[1] = "calc" /\ eval_arith(Tokens(c, a[2])).err = "div0"

LEMMA FaultyAtom ==
    ASSUME NEW c, NEW a, NEW escapes, Faulty(c, a)
    PROVE  take_expand_errors(ExpandAtom(c, a, escapes))
<1>1. CASE a[1] = "var" /\ c.u /\ c.env[a[2]] = Unset
  BY <1>1 DEF ExpandAtom, Value, take_expand_errors
<1>2. CASE a[1] = "size" /\ c.u /\ c.env[a[2]] = Unset
  <2>1. ExpandAtom(c, a, escapes).unset = Value(c, c.env[a[2]]).unset
    BY <1>2 DEF ExpandAtom, Value
  <2> QED BY <1>2, <2>1 DEF Value, take_expand_errors
<1>3. CASE a[1] = "par" /\ c.u /\ ~(a[2] <= Len(c.params))
  <2>1. ExpandAtom(c, a, escapes) = Value(c, positional_get(c, a[2]))
    BY <1>3 DEF ExpandAtom
  <2>2. positional_get(c, a[2]) = Unset
    BY <1>3 DEF positional_get
  <2>3. Value(c, Unset).unset = (Unset = Unset /\ c.u)
    BY DEF Value
  <2> QED BY <1>3, <2>1, <2>2, <2>3 DEF take_expand_errors
<1>4. CASE a[1] = "calc" /\ eval_arith(Tokens(c, a[2])).err = "div0"
  <2>1. ExpandAtom(c, a, escapes) = Calculated(eval_arith(Tokens(c, a[2])))
    BY <1>4 DEF ExpandAtom
  <2>2. PICK e : e = eval_arith(Tokens(c, a[2]))
    OBVIOUS
  <2>3. Calculated(e).arith = (e.err = "div0")
    BY DEF Calculated
  <2> QED BY <1>4, <2>1, <2>2, <2>3 DEF take_expand_errors
<1> QED BY <1>1, <1>2, <1>3, <1>4 DEF Faulty

LEMMA FaultyText ==
    ASSUME NEW c, NEW t, IsSeq(t), Refusable(c, t), NEW escapes
    PROVE  /\ take_expand_errors(expand_params_inner(c, t, escapes))
           /\ take_expand_errors(expand_word(c, t))
           /\ t # <<All("@")>> /\ t # <<All("*")>>
<1>1. PICK i \in 1..Len(t) : t[1] # Chr("~") /\ Faulty(c, t[i])
  BY DEF Refusable, Faulty
<1>2. ASSUME NEW esc PROVE take_expand_errors(expand_params_inner(c, t, esc))
  <2> DEFINE rs == [j \in 1..Len(t) |-> ExpandAtom(c, t[j], esc)]
  <2>1. Len(t) \in Nat
    BY DEF IsSeq
  <2>2. DOMAIN rs = 1..Len(t) /\ rs = [j \in 1..Len(t) |-> rs[j]]
    OBVIOUS
  <2>3. expand_params_inner(c, t, esc) = Joined(rs)
    BY DEF expand_params_inner, MapSeq
  <2>4. rs[i] = ExpandAtom(c, t[i], esc)
    OBVIOUS
  <2> HIDE DEF rs
  <2>5. Len(rs) = Len(t)
    BY <2>1, <2>2, FunctionIsSeq
  <2>6. take_expand_errors(rs[i])
    BY <1>1, <2>4, FaultyAtom
  <2>7. take_expand_errors(Joined(rs))
    BY <2>5, <2>6 DEF Joined, take_expand_errors
  <2> QED BY <2>3, <2>7
<1>3. expand_word(c, t) = expand_params_inner(c, t, FALSE)
  BY <1>1 DEF expand_word, Tilde
<1>4. ASSUME NEW k, t = <<All(k)>> PROVE FALSE
  <2>1. i = 1 /\ t[i] = All(k)
    BY <1>4
  <2>2. t[i][1] = "all"
    BY <2>1 DEF All
  <2> QED BY <1>1, <2>2 DEF Faulty
<1> QED BY <1>2, <1>3, <1>4

\* What NothingRunsOnError asks of a command.
Clean(c, cmd) ==
    /\ \A i \in 1..Len(cmd.argv) : cmd.argv[i].quoted # 1 => ~Refusable(c, cmd.argv[i].text)
    /\ \A i \in 1..Len(cmd.files) : ~Refusable(c, cmd.files[i])
    /\ ~cmd.bodyQuoted => ~Refusable(c, cmd.body)

LEMMA PassRefuses ==
    ASSUME NEW c, NEW cmd, IsCommand(cmd), \A t \in AllTexts(cmd) : IsSeq(t),
           ~take_expand_errors(expand_cmd_argv(c, cmd))
    PROVE  Clean(c, cmd)
<1>1. Len(cmd.argv) \in Nat /\ Len(cmd.files) \in Nat
  BY DEF IsCommand, IsSeq
<1>2. \A r \in Results1(c, cmd) : ~take_expand_errors(r)
  BY PassIs DEF take_expand_errors
<1>3. ASSUME NEW i \in 1..Len(cmd.argv), cmd.argv[i].quoted # 1,
             Refusable(c, cmd.argv[i].text)
      PROVE  FALSE
  <2>1. IsSeq(cmd.argv[i].text)
    BY DEF AllTexts
  <2>2. /\ take_expand_errors(expand_word(c, cmd.argv[i].text))
        /\ cmd.argv[i].text # <<All("@")>> /\ cmd.argv[i].text # <<All("*")>>
    BY <1>3, <2>1, FaultyText
  <2>3. Substituted(c, cmd.argv[i]) = Single(expand_word(c, cmd.argv[i].text), cmd.argv[i].quoted)
    BY <1>3, <2>2 DEF Substituted
  <2>4. take_expand_errors(Substituted(c, cmd.argv[i]))
    BY <2>2, <2>3 DEF Single, take_expand_errors
  <2>5. First(c, cmd)[i] \in ToSet(First(c, cmd))
    BY DEF First, ToSet
  <2>6. First(c, cmd)[i] = Substituted(c, cmd.argv[i])
    BY DEF First
  <2> QED BY <1>2, <2>4, <2>5, <2>6 DEF Results1
<1>4. ASSUME NEW i \in 1..Len(cmd.files), Refusable(c, cmd.files[i])
      PROVE  FALSE
  <2>1. IsSeq(cmd.files[i])
    <3>1. cmd.files[i] \in ToSet(cmd.files)
      BY DEF ToSet, IsCommand, IsSeq
    <3> QED BY <3>1 DEF AllTexts
  <2>2. take_expand_errors(expand_word(c, cmd.files[i]))
    BY <1>4, <2>1, FaultyText
  <2>3. FilesOf(c, cmd)[i] \in ToSet(FilesOf(c, cmd))
    BY DEF FilesOf, ToSet
  <2>4. FilesOf(c, cmd)[i] = expand_word(c, cmd.files[i])
    BY DEF FilesOf
  <2> QED BY <1>2, <2>2, <2>3, <2>4 DEF Results1
<1>5. ASSUME ~cmd.bodyQuoted, Refusable(c, cmd.body)
      PROVE  FALSE
  <2>1. IsSeq(cmd.body)
    BY DEF AllTexts
  <2>2. take_expand_errors(expand_params_inner(c, cmd.body, TRUE))
    BY <1>5, <2>1, FaultyText
  <2>3. BodyOf(c, cmd) = expand_params_inner(c, cmd.body, TRUE)
    BY <1>5 DEF BodyOf, expand_heredoc_body
  <2> QED BY <1>2, <2>2, <2>3 DEF Results1
<1> QED BY <1>3, <1>4, <1>5 DEF Clean

-----------------------------------------------------------------------------
(* The conditions: an answer is a status, or the number of an arm            *)

LEMMA ArmExists ==
    ASSUME NEW word, NEW arms, IsSeq(arms)
    PROVE  SelectArm(word, arms) \in {0} \cup 1..Len(arms)
<1> DEFINE I == {i \in 1..Len(arms) : \E k \in 1..Len(arms[i]) : match_pat(arms[i][k], word)}
<1>1. SelectArm(word, arms) = IF I # {} THEN Min(I) ELSE 0
  BY DEF SelectArm, SelectInSeq
<1>2. I \in SUBSET Nat /\ I \subseteq 1..Len(arms)
  BY DEF IsSeq
<1> HIDE DEF I
<1>3. I # {} => Min(I) \in I
  BY <1>2, LeastNumber DEF Min
<1> QED BY <1>1, <1>2, <1>3

LEMMA Statuses ==
    /\ \A b : Status01(b) \in 0..2
    /\ \A a, op, b : Compare(a, op, b) \in 0..2
    /\ \A op, t : feat_test_unary(op, t) \in 0..2
    /\ \A l, op, r : feat_test_binary(l, op, r) \in 0..2
    /\ \A argv : builtin_test(argv) \in 0..2
    /\ \A s, i : dbr_eval_primary(s, i) \in 0..2
    /\ \A s, i : dbr_eval_term(s, i) \in 0..2
<1>1. \A b : Status01(b) \in 0..2
  BY DEF Status01
<1>2. \A a, op, b : Compare(a, op, b) \in 0..2
  <2> TAKE a, op, b
  <2>1. Compare(a, op, b) \in {Status01(a = b), Status01(a # b), Status01(a < b), Status01(a > b), 2}
    BY DEF Compare, Status01
  <2> QED BY <1>1, <2>1
<1>3. \A op, t : feat_test_unary(op, t) \in 0..2
  BY <1>1 DEF feat_test_unary
<1>4. \A l, op, r : feat_test_binary(l, op, r) \in 0..2
  BY <1>1, <1>2 DEF feat_test_binary
<1>5. \A argv : builtin_test(argv) \in 0..2
  BY <1>1, <1>3, <1>4 DEF builtin_test
<1>6. \A s, i : dbr_eval_primary(s, i) \in 0..2
  BY <1>1, <1>3, <1>4 DEF dbr_eval_primary, dbr_str_cmp
<1>7. \A s, i : dbr_eval_term(s, i) \in 0..2
  BY <1>6 DEF dbr_eval_term, Turned
<1> QED BY <1>1, <1>2, <1>3, <1>4, <1>5, <1>6, <1>7

\* The rounds of the loop of [[ ]], up to the n-th.
Rounds(s, n, f) ==
    f = [k \in 0..n |-> IF k = 0 THEN [idx |-> TermEnd(s, 1), status |-> dbr_eval_term(s, 1)]
                        ELSE AfterRound(s, f[k - 1])]

LEMMA RoundsExist ==
    ASSUME NEW s, NEW n \in Nat
    PROVE  \E f : Rounds(s, n, f)
<1> DEFINE T == {m \in Nat : ~\E f : Rounds(s, m, f)}
           first == [idx |-> TermEnd(s, 1), status |-> dbr_eval_term(s, 1)]
<1> SUFFICES ASSUME T # {} PROVE FALSE
  OBVIOUS
<1>1. PICK m \in T : \A y \in T : m <= y
  BY LeastNumber
<1>2. CASE m = 0
  <2>1. Rounds(s, 0, [k \in 0..0 |-> first])
    BY DEF Rounds
  <2> QED BY <1>1, <1>2, <2>1
<1>3. CASE m # 0
  <2>1. m - 1 \in Nat /\ m \in Nat /\ ~(m <= m - 1)
    BY <1>3
  <2>2. PICK f : Rounds(s, m - 1, f)
    BY <1>1, <2>1
  <2> DEFINE g == [k \in 0..m |-> IF k = m THEN AfterRound(s, f[m - 1]) ELSE f[k]]
  <2> HIDE DEF first
  <2>3. \A k \in 0..m - 1 : g[k] = f[k] /\ k \in 0..m
    BY <2>1
  <2>4. \A k \in 0..m - 1 : f[k] = IF k = 0 THEN first ELSE AfterRound(s, f[k - 1])
    BY <2>2 DEF Rounds, first
  <2>5. ASSUME NEW k \in 0..m
        PROVE  g[k] = IF k = 0 THEN first ELSE AfterRound(s, g[k - 1])
    <3>1. CASE k = m
      BY <1>3, <2>1, <2>3, <3>1
    <3>2. CASE k # m
      <4>1. k \in 0..m - 1 /\ (k # 0 => k - 1 \in 0..m - 1)
        BY <2>1, <3>2
      <4> QED BY <2>3, <2>4, <4>1
    <3> QED BY <3>1, <3>2
  <2>6. g = [k \in 0..m |-> g[k]]
    OBVIOUS
  <2>7. Rounds(s, m, g)
    <3> HIDE DEF g
    <3> QED BY <2>5, <2>6 DEF Rounds, first
  <2> QED BY <1>1, <2>7
<1> QED BY <1>2, <1>3

\* [[ ]] has a status after every round.
LEMMA Judged ==
    ASSUME NEW s, IsSeq(s)
    PROVE  dbr_eval_expr(s) \in 0..2
<1>1. Len(s) \in Nat
  BY DEF IsSeq
<1> DEFINE F == CHOOSE f : f = [k \in 0..Len(s) |->
                                  IF k = 0 THEN [idx |-> TermEnd(s, 1), status |-> dbr_eval_term(s, 1)]
                                  ELSE AfterRound(s, f[k - 1])]
<1>2. dbr_eval_expr(s) = IF s = <<>> THEN 1 ELSE F[Len(s)].status
  BY DEF dbr_eval_expr
<1>3. Rounds(s, Len(s), F)
  <2>1. \E f : Rounds(s, Len(s), f)
    BY <1>1, RoundsExist
  <2> QED BY <2>1 DEF Rounds
<1> HIDE DEF F
<1>4. /\ F[0].status = dbr_eval_term(s, 1)
      /\ \A k \in 1..Len(s) : F[k] = AfterRound(s, F[k - 1])
  <2>1. 0 \in 0..Len(s) /\ \A k \in 1..Len(s) : k \in 0..Len(s) /\ k # 0
    BY <1>1
  <2>2. F[0] = [idx |-> TermEnd(s, 1), status |-> dbr_eval_term(s, 1)]
    BY <1>3, <2>1 DEF Rounds
  <2>3. \A k \in 1..Len(s) : F[k] = AfterRound(s, F[k - 1])
    BY <1>3, <2>1 DEF Rounds
  <2> QED BY <2>2, <2>3
<1>5. ASSUME NEW at, at.status \in 0..2 PROVE AfterRound(s, at).status \in 0..2
  <2>1. PICK term : term = dbr_eval_term(s, at.idx + 1)
    OBVIOUS
  <2>2. term \in 0..2
    BY <2>1, Statuses
  <2>3. \E idx : \/ AfterRound(s, at) = at
                \/ AfterRound(s, at) = [idx |-> idx, status |-> 2]
                \/ AfterRound(s, at) = [idx |-> idx, status |-> term]
                \/ AfterRound(s, at) = [idx |-> idx, status |-> at.status]
    <3>1. CASE at.idx > Len(s)
      BY <3>1 DEF AfterRound
    <3>2. CASE ~(at.idx > Len(s)) /\ (s[at.idx].text \notin Joins \/ at.status = 2)
      BY <3>2 DEF AfterRound
    <3>3. CASE /\ ~(at.idx > Len(s)) /\ ~(s[at.idx].text \notin Joins \/ at.status = 2)
      BY <2>1, <3>3 DEF AfterRound
    <3> QED BY <3>1, <3>2, <3>3
  <2> QED BY <1>5, <2>2, <2>3
<1> DEFINE T == {k \in Nat : k \in 0..Len(s) /\ F[k].status \notin 0..2}
<1>6. ASSUME T # {} PROVE FALSE
  <2>1. PICK k \in T : \A y \in T : k <= y
    BY <1>6, LeastNumber
  <2>2. k \in 0..Len(s) /\ k \in Nat /\ F[k].status \notin 0..2
    BY <2>1
  <2>3. k # 0
    BY <1>4, <2>2, Statuses
  <2>4. k \in 1..Len(s) /\ k - 1 \in Nat /\ k - 1 \in 0..Len(s) /\ ~(k <= k - 1)
    BY <1>1, <2>2, <2>3
  <2>5. F[k - 1].status \in 0..2
    BY <2>1, <2>4
  <2> QED BY <1>4, <1>5, <2>2, <2>4, <2>5
<1>7. Len(s) \in 0..Len(s)
  BY <1>1
<1>8. F[Len(s)].status \in 0..2
  BY <1>1, <1>6, <1>7
<1> QED BY <1>2, <1>8

-----------------------------------------------------------------------------
(* The inductive invariant                                                   *)

\* What the assumption says of a job, at the job at hand.
GivenJob ==
    /\ job.construct \in Constructs /\ IsCommand(job.cmd) /\ IsSeq(job.head) /\ IsSeq(job.arms)
    /\ \A t \in AllTexts(job.cmd) : IsSeq(t)

GivenContext ==
    DOMAIN ctx = {"env", "params", "u", "last", "depth"} /\ IsSeq(ctx.params) /\ ctx.depth = 0

\* Where the words of $@ are handed on.
Handed ==
    \A i \in 1..Len(job.cmd.argv) :
        (job.cmd.argv[i].text = <<All("@")>> /\ job.cmd.argv[i].quoted # 1) =>
            \E l : Run(work.argv, l, Whole(ctx))

\* Up to the first pass of the first round the command is as it was given; behind
\* it, it had no error and holds the parameters.
AsGiven == phase \in {"idle", "head"} => tree = job.cmd
Taken   == phase = "pipeline" => work = job.cmd
Passed  == phase \in {"command", "ran"} => Clean(ctx, job.cmd) /\ Handed

FirstRound == round = 1 => AsGiven /\ Taken /\ Passed

Inv ==
    /\ TypeOK /\ GivenJob /\ GivenContext
    /\ IsCommand(tree) /\ IsCommand(work)
    /\ FirstRound

LEMMA NoCmdIs == IsCommand(NoCmd)
BY DEF NoCmd, IsCommand, IsSeq

LEMMA WorkTyped ==
    ASSUME NEW cmd, IsCommand(cmd)
    PROVE  \A i \in 1..Len(cmd.argv) : cmd.argv[i].quoted \in 0..2
BY DEF IsCommand

LEMMA FlagsBoolean ==
    ASSUME NEW c, NEW t
    PROVE  expand_word(c, t).unset \in BOOLEAN
<1>1. CASE Tilde(t)
  BY <1>1 DEF expand_word, Home, Out
<1>2. CASE ~Tilde(t)
  <2> DEFINE rs == [j \in 1..Len(t) |-> ExpandAtom(c, t[j], FALSE)]
  <2>1. expand_word(c, t) = Joined(rs)
    BY <1>2 DEF expand_word, expand_params_inner, MapSeq
  <2> HIDE DEF rs
  <2>2. Joined(rs).unset = \E i \in 1..Len(rs) : rs[i].unset
    BY Zenon DEF Joined
  <2> QED BY <2>1, <2>2
<1> QED BY <1>1, <1>2

LEMMA PassFlag ==
    ASSUME NEW c, NEW cmd
    PROVE  expand_cmd_argv(c, cmd).unset \in BOOLEAN
<1> DEFINE unset == \E r \in Results1(c, cmd) : r.unset
<1>1. expand_cmd_argv(c, cmd).unset = unset
  BY PassIs
<1>2. unset \in BOOLEAN
  OBVIOUS
<1> QED BY <1>1, <1>2

LEMMA InitInv == Init => Inv
<1> SUFFICES ASSUME Init PROVE Inv
  OBVIOUS
<1>1. PICK c \in Cases : job \in c.jobs /\ ctx \in c.contexts
  BY DEF Init
<1>2. GivenJob /\ GivenContext
  BY <1>1, WordsAssumption DEF GivenJob, GivenContext
<1>3. tree = job.cmd /\ work = NoCmd /\ phase = "idle" /\ round = 1 /\ abort = FALSE /\ answer = 0
  BY DEF Init
<1>4. IsCommand(tree) /\ IsCommand(work)
  BY <1>2, <1>3, NoCmdIs DEF GivenJob
<1>5. TypeOK
  <2>1. 1 \in 1..MaxRounds
    BY WordsAssumption
  <2>2. \A i \in 1..Len(work.argv) : work.argv[i].quoted \in 0..2
    BY <1>4, WorkTyped
  <2>3. job.construct \in Constructs /\ ctx.depth = 0
    BY <1>2 DEF GivenJob, GivenContext
  <2>4. answer \in 0..2 \cup 1..Len(job.arms)
    BY <1>3
  <2>5. phase \in {"idle", "head", "pipeline", "command", "ran", "refused", "skipped", "killed"}
        /\ round \in 1..MaxRounds /\ abort \in BOOLEAN
    BY <1>3, <2>1
  <2> QED BY ONLY <2>2, <2>3, <2>4, <2>5 DEF TypeOK
<1> QED BY <1>2, <1>3, <1>4, <1>5 DEF Inv, FirstRound, AsGiven, Taken, Passed

LEMMA DispatchInv ==
    ASSUME Inv, Dispatch
    PROVE  Inv'
<1>1. /\ phase = "idle" /\ phase' \in {"head", "pipeline"}
      /\ work' = (IF phase' = "head" THEN NoCmd ELSE tree)
      /\ job' = job /\ ctx' = ctx /\ tree' = tree /\ round' = round /\ abort' = abort
      /\ answer' = answer
  BY DEF Dispatch
<1>2. GivenJob' /\ GivenContext'
  BY <1>1 DEF Inv, GivenJob, GivenContext
<1>3. IsCommand(tree)' /\ IsCommand(work)'
  <2>1. IsCommand(tree') /\ IsCommand(work')
    BY <1>1, NoCmdIs DEF Inv
  <2> QED BY <2>1 DEF IsCommand
<1>4. TypeOK'
  <2>1. \A i \in 1..Len(work'.argv) : work'.argv[i].quoted \in 0..2
    BY <1>3, WorkTyped DEF IsCommand
  <2> QED BY <1>1, <2>1 DEF Inv, TypeOK
<1>5. FirstRound'
  BY <1>1 DEF Inv, FirstRound, AsGiven, Taken, Passed
<1> QED BY <1>2, <1>3, <1>4, <1>5 DEF Inv

\* The head of case, and of [[ ]], leaves the command alone.
LEMMA HeadInv ==
    ASSUME Inv, phase = "head", phase' \in {"refused", "skipped", "pipeline", "killed"},
           work' \in {work, tree}, phase' = "pipeline" => work' = tree,
           answer' \in 0..2 \cup 1..Len(job.arms), abort' \in BOOLEAN,
           job' = job, ctx' = ctx, tree' = tree, round' = round
    PROVE  Inv'
<1>1. GivenJob' /\ GivenContext'
  BY DEF Inv, GivenJob, GivenContext
<1>2. IsCommand(tree)' /\ IsCommand(work)'
  <2>1. IsCommand(tree') /\ IsCommand(work')
    BY DEF Inv
  <2> QED BY <2>1 DEF IsCommand
<1>3. TypeOK'
  <2>1. \A i \in 1..Len(work'.argv) : work'.argv[i].quoted \in 0..2
    BY <1>2, WorkTyped DEF IsCommand
  <2> QED BY <2>1 DEF Inv, TypeOK
<1>4. FirstRound'
  BY DEF Inv, FirstRound, AsGiven, Taken, Passed
<1> QED BY <1>1, <1>2, <1>3, <1>4 DEF Inv

LEMMA CaseHeadInv ==
    ASSUME Inv, CaseHead
    PROVE  Inv'
<1> DEFINE r == expand_word(ctx, job.head[1].text)
<1>1. /\ phase = "head" /\ job' = job /\ ctx' = ctx /\ tree' = tree /\ round' = round
      /\ answer' = (IF take_expand_errors(r) THEN 0 ELSE SelectArm(r.text, job.arms))
      /\ abort' = r.unset
      /\ phase' = (IF take_expand_errors(r) THEN "refused"
                   ELSE IF answer' = 0 THEN "skipped" ELSE "pipeline")
      /\ work' = (IF phase' = "pipeline" THEN tree ELSE work)
  BY DEF CaseHead, Choose
<1>2. abort' \in BOOLEAN
  BY <1>1, FlagsBoolean
<1>3. SelectArm(r.text, job.arms) \in {0} \cup 1..Len(job.arms)
  BY ArmExists DEF Inv, GivenJob
<1> HIDE DEF r
<1>4. answer' \in 0..2 \cup 1..Len(job.arms)
  BY <1>1, <1>3
<1>5. /\ phase' \in {"refused", "skipped", "pipeline", "killed"} /\ work' \in {work, tree}
      /\ phase' = "pipeline" => work' = tree
  BY <1>1
<1> QED BY <1>1, <1>2, <1>4, <1>5, HeadInv

LEMMA DbracketHeadInv ==
    ASSUME Inv, DbracketHead
    PROVE  Inv'
<1> DEFINE rs == [i \in 1..Len(job.head) |-> expand_word(ctx, job.head[i].text)]
           ws == [i \in 1..Len(rs) |-> Word(rs[i].text, job.head[i].quoted)]
<1>1. /\ phase = "head" /\ job' = job /\ ctx' = ctx /\ tree' = tree /\ round' = round
      /\ work' = work /\ Judge(rs)
  BY DEF DbracketHead, MapSeq
<1>2. /\ abort' = \E i \in 1..Len(rs) : rs[i].unset
      /\ \/ phase' = "refused" /\ answer' = 1
         \/ phase' = "skipped" /\ answer' = dbr_eval_expr(ws)
  BY <1>1 DEF Judge
<1>3. IsSeq(ws)
  <2>1. Len(job.head) \in Nat
    BY DEF Inv, GivenJob, IsSeq
  <2>2. Len(rs) = Len(job.head)
    BY <2>1, FunctionIsSeq
  <2>3. DOMAIN ws = 1..Len(rs) /\ ws = [i \in 1..Len(rs) |-> ws[i]]
    BY DEF Word
  <2> HIDE DEF ws, rs
  <2> QED BY <2>1, <2>2, <2>3, FunctionIsSeq
<1> HIDE DEF ws, rs
<1>4. dbr_eval_expr(ws) \in 0..2
  BY <1>3, Judged
<1>5. answer' \in 0..2 \cup 1..Len(job.arms)
  BY <1>2, <1>4
<1>6. abort' \in BOOLEAN
  BY <1>2
<1>7. phase' \in {"refused", "skipped", "pipeline", "killed"} /\ phase' # "pipeline"
  BY <1>2
<1> QED BY <1>1, <1>5, <1>6, <1>7, HeadInv

LEMMA HeadTrapInv ==
    ASSUME Inv, HeadTrap
    PROVE  Inv'
<1>1. /\ phase = "head" /\ phase' = "killed"
      /\ job' = job /\ ctx' = ctx /\ tree' = tree /\ work' = work /\ round' = round
      /\ abort' = abort /\ answer' = answer
  BY DEF HeadTrap
<1>2. answer \in 0..2 \cup 1..Len(job.arms) /\ abort \in BOOLEAN
  BY DEF Inv, TypeOK
<1> QED BY <1>1, <1>2, HeadInv

\* A pass: the command arrives, and in the first round its words with it.
LEMMA PassInv ==
    ASSUME Inv, NEW next \in {"ran", "command"}, Pass(next), phase \in {"pipeline", "command"},
           job' = job, ctx' = ctx, round' = round
    PROVE  Inv'
<1>1. CASE Trapped(TextsOf(work))
  <2>1. phase' = "killed" /\ tree' = tree /\ work' = work /\ abort' = abort /\ answer' = answer
    BY <1>1 DEF Pass
  <2>2. GivenJob' /\ GivenContext'
    BY DEF Inv, GivenJob, GivenContext
  <2>3. IsCommand(tree)' /\ IsCommand(work)'
    BY <2>1 DEF Inv, IsCommand
  <2>4. TypeOK'
    BY <2>1 DEF Inv, TypeOK
  <2> QED BY <2>1, <2>2, <2>3, <2>4 DEF Inv, FirstRound, AsGiven, Taken, Passed
<1>2. CASE ~Trapped(TextsOf(work))
  <2> DEFINE r == expand_cmd_argv(ctx, work)
  <2>1. /\ work' = r.cmd
        /\ tree' = (IF Cloned(job.construct) THEN tree ELSE r.cmd)
        /\ abort' = r.unset
        /\ phase' = (IF take_expand_errors(r) THEN "refused" ELSE next)
        /\ \/ answer' = answer
           \/ answer' = builtin_test([i \in 1..Len(r.cmd.argv) |-> r.cmd.argv[i].text])
    BY <1>2 DEF Pass, Arrive, MapSeq
  <2>2. GivenJob' /\ GivenContext'
    BY DEF Inv, GivenJob, GivenContext
  <2>3. IsCommand(r.cmd)
    BY PassCommand DEF Inv, GivenContext
  <2>4. IsCommand(tree)' /\ IsCommand(work)'
    <3>1. IsCommand(tree') /\ IsCommand(work')
      BY <2>1, <2>3 DEF Inv
    <3> QED BY <3>1 DEF IsCommand
  <2>5. r.unset \in BOOLEAN
    BY PassFlag
  <2>6. answer' \in 0..2 \cup 1..Len(job.arms)
    BY <2>1, Statuses DEF Inv, TypeOK
  <2>7. TypeOK'
    <3> HIDE DEF r
    <3>1. \A i \in 1..Len(work'.argv) : work'.argv[i].quoted \in 0..2
      BY <2>4, WorkTyped DEF IsCommand
    <3> QED BY <2>1, <2>5, <2>6, <3>1 DEF Inv, TypeOK
  <2>8. ASSUME round = 1, phase' \in {"command", "ran"}
        PROVE  Clean(ctx, job.cmd) /\ Handed'
    <3>1. ~take_expand_errors(r)
      BY <2>1, <2>8
    <3>2. CASE phase = "pipeline"
      <4>1. work = job.cmd
        BY <2>8, <3>2 DEF Inv, FirstRound, Taken
      <4>2. Clean(ctx, job.cmd)
        BY <3>1, <4>1, PassRefuses DEF Inv, GivenJob
      <4>3. ASSUME NEW i \in 1..Len(job.cmd.argv), job.cmd.argv[i].text = <<All("@")>>,
                   job.cmd.argv[i].quoted # 1
            PROVE  \E l : Run(r.cmd.argv, l, Whole(ctx))
        BY <4>1, <4>3, RunArrives DEF Inv, GivenJob, GivenContext
      <4> HIDE DEF r
      <4> QED BY <2>1, <4>2, <4>3 DEF Handed
    <3>3. CASE phase = "command"
      <4>1. Clean(ctx, job.cmd) /\ Handed
        BY <2>8, <3>3 DEF Inv, FirstRound, Passed
      <4>2. ASSUME NEW l, Run(work.argv, l, Whole(ctx))
            PROVE  \E k : Run(r.cmd.argv, k, Whole(ctx))
        <5>1. PICK x : x = Whole(ctx)
          OBVIOUS
        <5>2. IsSeq(x) /\ \A n \in 1..Len(x) : x[n].quoted = 1
          BY <5>1, WholeIs DEF Inv, GivenContext, IsWords
        <5> QED BY <4>2, <5>1, <5>2, RunThroughPass DEF Inv, GivenContext
      <4> HIDE DEF r
      <4> QED BY <2>1, <4>1, <4>2 DEF Handed
    <3> QED BY <3>2, <3>3
  <2>9. FirstRound'
    <3>1. phase' \in {"refused", "command", "ran"}
      BY <2>1
    <3>2. Clean(ctx, job.cmd)' <=> Clean(ctx, job.cmd)
      BY DEF Clean
    <3> HIDE DEF r
    <3> QED BY <2>8, <3>1, <3>2 DEF FirstRound, AsGiven, Taken, Passed
  <2> QED BY <2>2, <2>4, <2>7, <2>9 DEF Inv
<1> QED BY <1>1, <1>2

LEMMA NextRoundInv ==
    ASSUME Inv, NextRound
    PROVE  Inv'
<1>1. /\ phase' = "idle" /\ round < MaxRounds /\ round' = round + 1 /\ work' = NoCmd
      /\ ctx' = [ctx EXCEPT !.env = After]
      /\ job' = job /\ tree' = tree /\ abort' = abort /\ answer' = answer
  BY DEF NextRound
<1>2. GivenContext'
  <2>1. /\ DOMAIN ctx' = DOMAIN ctx /\ ctx'.params = ctx.params /\ ctx'.depth = ctx.depth
    BY <1>1 DEF Inv, GivenContext
  <2> QED BY <2>1 DEF Inv, GivenContext
<1>3. GivenJob'
  BY <1>1 DEF Inv, GivenJob
<1>4. IsCommand(tree)' /\ IsCommand(work)'
  <2>1. IsCommand(tree') /\ IsCommand(work')
    BY <1>1, NoCmdIs DEF Inv
  <2> QED BY <2>1 DEF IsCommand
<1>5. round' \in 1..MaxRounds /\ round' # 1
  BY <1>1, WordsAssumption DEF Inv, TypeOK
<1>6. TypeOK'
  <2>1. \A i \in 1..Len(work'.argv) : work'.argv[i].quoted \in 0..2
    BY <1>4, WorkTyped DEF IsCommand
  <2>2. ctx'.depth = 0
    BY <1>2 DEF GivenContext
  <2> QED BY <1>1, <1>5, <2>1, <2>2 DEF Inv, TypeOK
<1> QED BY <1>2, <1>3, <1>4, <1>5, <1>6 DEF Inv, FirstRound

LEMMA NextInv == Inv /\ [Next]_vars => Inv'
<1> SUFFICES ASSUME Inv, [Next]_vars PROVE Inv'
  OBVIOUS
<1>1. CASE Dispatch
  BY <1>1, DispatchInv
<1>2. CASE CaseHead
  BY <1>2, CaseHeadInv
<1>3. CASE DbracketHead
  BY <1>3, DbracketHeadInv
<1>4. CASE HeadTrap
  BY <1>4, HeadTrapInv
<1>5. CASE ExpandPipeline
  BY <1>5, PassInv DEF ExpandPipeline
<1>6. CASE ExpandCommand
  BY <1>6, PassInv DEF ExpandCommand
<1>7. CASE NextRound
  BY <1>7, NextRoundInv
<1>8. CASE UNCHANGED vars
  BY <1>8 DEF vars, Inv, TypeOK, GivenJob, GivenContext, IsCommand, FirstRound, AsGiven,
              Taken, Passed, Handed, Clean
<1> QED BY <1>1, <1>2, <1>3, <1>4, <1>5, <1>6, <1>7, <1>8 DEF Next

THEOREM WordsInvariance == Spec => []Inv
BY InitInv, NextInv, PTL DEF Spec

\* The command and its copy keep their shape, an answer is a status or an arm.
THEOREM WordsTypeCorrect == Spec => []TypeOK
<1>1. Inv => TypeOK
  BY DEF Inv
<1> QED BY <1>1, WordsInvariance, PTL

\* Whatever the parameters hold (forms, * or blanks), a command that runs got them
\* from $@ as they are, one word each: dispatch_pipeline and dispatch_command
\* expand them twice, and the quotes that expand_positional_token gives them hold
\* both passes and the matcher off.
THEOREM ParamsWhole == Spec => []ParamsArriveWhole
<1>1. ASSUME Inv, phase = "ran", round = 1, NEW i \in 1..Len(job.cmd.argv),
             job.cmd.argv[i].text = <<All("@")>>, job.cmd.argv[i].quoted # 1
      PROVE  \E k \in 0..Len(work.argv) - Len(ctx.params) :
                 \A n \in 1..Len(ctx.params) : work.argv[k + n] = Word(ctx.params[n], 1)
  <2>1. PICK k : Run(work.argv, k, Whole(ctx))
    BY <1>1 DEF Inv, FirstRound, Passed, Handed
  <2>2. /\ Len(Whole(ctx)) = Len(ctx.params) /\ Len(ctx.params) \in Nat
        /\ \A n \in 1..Len(ctx.params) : Whole(ctx)[n] = Word(ctx.params[n], 1)
    BY <1>1, WholeIs DEF Inv, GivenContext, IsSeq
  <2>3. Len(work.argv) \in Nat
    BY <1>1 DEF Inv, IsCommand, IsSeq
  <2>4. k \in 0..Len(work.argv) - Len(ctx.params)
    BY <2>1, <2>2, <2>3 DEF Run
  <2>5. \A n \in 1..Len(ctx.params) : work.argv[k + n] = Word(ctx.params[n], 1)
    BY <2>1, <2>2 DEF Run
  <2> QED BY <2>4, <2>5
<1>2. Inv => ParamsArriveWhole
  BY <1>1 DEF ParamsArriveWhole
<1> QED BY <1>2, WordsInvariance, PTL

\* A command that runs when it is reached for the first time had no unset parameter
\* under set -u and no division by zero in any word, path or document:
\* expand_cmd_argv goes on behind an error, and take_expand_errors still sees it.
THEOREM ErrorsStopCommands == Spec => []NothingRunsOnError
<1>1. Inv => NothingRunsOnError
  BY DEF Inv, FirstRound, Passed, Clean, NothingRunsOnError
<1> QED BY <1>1, WordsInvariance, PTL
=============================================================================
