----------------------------- MODULE WordsMeant -----------------------------
(***************************************************************************)
(* What words, patterns and conditions mean, by one substitution and by    *)
(* definitions that look for a way to match or to split; and that commands *)
(* run with what was meant.                                                *)
(***************************************************************************)
EXTENDS Words

-----------------------------------------------------------------------------
(* Reference: what a word means                                              *)

\* The place of the last operator of ops outside parentheses that has an
\* operand in front of it.
Depth(s, i) == Cardinality({j \in 1..i : s[j] = <<"(">>})
               - Cardinality({j \in 1..i : s[j] = <<")">>})
Infix(s, ops) ==
    {i \in 2..Len(s) : s[i] \in ops /\ Depth(s, i) = 0 /\ (s[i - 1][1] \in {"num", ")"})}

NoValue == 2 * 2^Width
Both(l, r, v) == IF NoValue \in {l, r} THEN NoValue ELSE Wrap(v)
Divided(l, r, v) == IF r = 0 THEN NoValue ELSE Both(l, r, v)

\* The value of an expression, if it has one: split at the last operator that
\* binds weakest.
RECURSIVE ValueOf(_)
ValueOf(s) ==
    LET sums  == Infix(s, Plus)
        prods == Infix(s, Times)
        cut == CHOOSE i \in IF sums # {} THEN sums ELSE prods :
                   \A j \in IF sums # {} THEN sums ELSE prods : j <= i
        l == ValueOf(SubSeq(s, 1, cut - 1))
        r == ValueOf(SubSeq(s, cut + 1, Len(s)))
        v == ValueOf(Tail(s))
    IN  IF sums \cup prods # {}
        THEN CASE s[cut] = <<"+">> -> Both(l, r, l + r)
               [] s[cut] = <<"-">> -> Both(l, r, l - r)
               [] s[cut] = <<"*">> -> Both(l, r, l * r)
               [] s[cut] = <<"/">> -> Divided(l, r, Quot(l, r))
               [] s[cut] = <<"%">> -> Divided(l, r, Rem(l, r))
        ELSE CASE Len(s) = 1 /\ s[1][1] = "num"  -> s[1][2]
               [] Len(s) > 1 /\ s[1] = <<"-">>   -> Both(v, v, -v)
               [] Len(s) > 1 /\ s[1] = <<"+">>   -> v
               [] Len(s) > 2 /\ s[1] = <<"(">> /\ Last(s) = <<")">> -> ValueOf(SubSeq(s, 2, Len(s) - 1))
               [] OTHER                          -> NoValue

\* A name matches a pattern if it can be cut to fit it.
RECURSIVE Matches(_, _)
Matches(pat, t) ==
    IF pat = <<>> THEN t = <<>>
    ELSE IF Head(pat) = Star THEN \E k \in 0..Len(t) : Matches(Tail(pat), SubSeq(t, k + 1, Len(t)))
    ELSE t # <<>> /\ Head(pat) \in {AnyByte, Head(t)} /\ Matches(Tail(pat), Tail(t))

\* One substitution: a form is replaced by what it stands for, and the result
\* is not looked at again.
MeantAtom(c, a) ==
    CASE a[1] = "calc" -> LET v == IF a[2] = <<>> THEN 0 ELSE ValueOf(Tokens(c, a[2]))
                          IN  <<Num(IF v = NoValue THEN 0 ELSE v)>>
      [] a[1] = "esc"  -> <<a[2]>>
      [] OTHER         -> ExpandAtom(c, a, FALSE).text
MeantText(c, t) ==
    IF t # <<>> /\ t[1] = Chr("~") THEN expand_word(c, t).text
    ELSE FlattenSeq(MapSeq(t, LAMBDA a : MeantAtom(c, a)))

\* The files that a pattern stands for, in order, or the pattern.
MeantFiles(t) ==
    LET dir == SubSeq(t, 1, Slash(t))
        fits == {n \in Dirs[DirOf(t)] : Matches(BaseOf(t), n)
                                        /\ (n[1] = Chr(".") => BaseOf(t)[1] = Chr("."))}
        found == {dir \o n : n \in fits}
    IN  IF HasMeta(dir) \/ DirOf(t) \notin DOMAIN Dirs \/ ~HasMeta(BaseOf(t))
           \/ \E i \in 1..Len(t) - 1 : t[i] = Star /\ t[i + 1] = Star
        THEN <<t>>
        ELSE IF found = {} \/ Cardinality(found) > GlobMax THEN <<t>>
        ELSE CHOOSE s \in SetToSeqs(found) :
                 \A i, k \in 1..Len(s) : i < k => TextLess(s[i], s[k])

\* The words that a word stands for.
MeantWord(c, w) ==
    CASE w.quoted = 1 -> <<w.text>>
      [] w.text = <<All("@")>> \/ (w.text = <<All("*")>> /\ w.quoted = 0) -> c.params
      [] w.quoted = 2 /\ w.text # <<All("@")>> -> <<MeantText(c, w.text)>>
      [] OTHER -> MeantFiles(MeantText(c, w.text))

MeantWords(c, cmd) == FlattenSeq(MapSeq(cmd.argv, LAMBDA w : MeantWord(c, w)))

-----------------------------------------------------------------------------
(* Properties *)

\* Forms that begin with $ in a text.
Forms(t) == {i \in 1..Len(t) : t[i][1] \notin {"chr", "num"}}

\* No value brings a form with it, so a second pass has nothing to find.
Brings(c, t) == \E i \in 1..Len(t) : t[i][1] \in {"sub", "esc"}
                                      /\ Forms(ExpandAtom(c, t[i], TRUE).text) # {}
Plain(c) ==
    /\ \A x \in DOMAIN c.env : Forms(Given(c.env[x])) = {}
    /\ \A t \in TextsOf(job.cmd) : ~Brings(c, t) /\ (Forms(t) # {} => t[1] # Chr("~"))
    /\ \A i \in 1..Len(job.cmd.argv) : \* parameters, where they are joined to a text
         (\E k \in Forms(job.cmd.argv[i].text) : job.cmd.argv[i].text[k][1] \in {"all", "par"})
         => MeantWord(c, job.cmd.argv[i]) = c.params \/ \A k \in 1..Len(c.params) : Forms(c.params[k]) = {}

Meant(c, cmd) ==
    [cmd EXCEPT !.argv  = MeantWords(c, cmd),
                !.files = MapSeq(cmd.files, LAMBDA f : MeantText(c, f)),
                !.body  = IF cmd.bodyQuoted THEN @ ELSE MeantText([c EXCEPT !.depth = 0], @)]
Texts(cmd) == [cmd EXCEPT !.argv = MapSeq(@, LAMBDA w : w.text)]

\* A command runs with the words, paths and document that were meant: values,
\* files, parameters and results, each put in once, in every round of for and
\* every call.  In a stage this holds whatever the values are; elsewhere for
\* plain values.
ArrivesAsMeant ==
    (/\ phase = "ran"
     /\ job.construct = "stage" \/ Plain(ctx)
     /\ job.construct = "while" => round = 1)
    => Texts(work) = Meant(ctx, job.cmd)

\* A loop runs the words as they are meant in this round.
EachRoundAnew == (phase = "ran" /\ Plain(ctx)) => Texts(work) = Meant(ctx, job.cmd)

\* dispatch_command expands words that are expanded: the second pass changes
\* nothing.
SecondPassIdle ==
    phase = "command" => expand_cmd_argv(ctx, work).cmd = work

\* Reference for [[ ]]: split at the last connective; ! in front of a term.
RECURSIVE TruthOf(_)
TruthOf(s) ==
    LET cuts == {i \in 1..Len(s) : s[i].text \in Joins}
        i == CHOOSE c \in cuts : \A d \in cuts : d <= c
        l == TruthOf(SubSeq(s, 1, i - 1))
    IN  IF cuts # {}
        THEN IF l = ((s[i].text = Op("&&"))) THEN TruthOf(SubSeq(s, i + 1, Len(s))) ELSE l
        ELSE IF s[1].text = Op("!") THEN ~TruthOf(Tail(s))
        ELSE CASE Len(s) = 1 -> s[1].text # <<>>
               [] Len(s) = 2 -> feat_test_unary(s[1].text, s[2].text) = 0
               [] Len(s) = 3 /\ s[2].text \in {Op("="), Op("==")} ->
                    IF s[3].quoted = 0 THEN Matches(s[3].text, s[1].text) ELSE s[1].text = s[3].text
               [] Len(s) = 3 /\ s[2].text = Op("!=") ->
                    IF s[3].quoted = 0 THEN ~Matches(s[3].text, s[1].text) ELSE s[1].text # s[3].text
               [] OTHER -> feat_test_binary(s[1].text, s[2].text, s[3].text) = 0

\* The arm that case takes is the first that fits; the status of a condition
\* without an error is its truth, short-circuit or not.
ChoosesAsMeant ==
    /\ (job.construct = "case" /\ answer # 0) =>
         LET t == MeantText(ctx, job.head[1].text)
             Fits(k) == \E p \in 1..Len(job.arms[k]) : Matches(job.arms[k][p], t)
         IN  Fits(answer) /\ \A k \in 1..answer - 1 : ~Fits(k)
    /\ (job.construct = "case" /\ phase = "skipped") =>
         \A k \in 1..Len(job.arms) : \A p \in 1..Len(job.arms[k]) :
             ~Matches(job.arms[k][p], MeantText(ctx, job.head[1].text))
    /\ (job.construct = "dbracket" /\ phase = "skipped" /\ answer # 2) =>
         (answer = 0) = TruthOf(MapSeq(job.head, LAMBDA w : Word(MeantText(ctx, w.text), w.quoted)))
=============================================================================
