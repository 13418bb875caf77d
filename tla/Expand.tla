------------------------------- MODULE Expand -------------------------------
(***************************************************************************)
(* The expansion of words in mid/expand.c.                                 *)
(*                                                                         *)
(* A text is a sequence of atoms: a character, a decimal numeral, or a     *)
(* form that begins with $.  The value of a variable is a text as well,    *)
(* so a second pass finds the forms that a first one has brought in.  An   *)
(* expansion returns its text and the two error flags of the code.         *)
(***************************************************************************)
EXTENDS Arith, FiniteSets, TLC

CONSTANTS
    Dirs,         \* the directories that can be opened: texts to sets of names
    GlobMax,      \* PETRUSH_GLOB_MAX
    MaxDepth,     \* PETRUSH_CMDSUBST_MAX_DEPTH
    Inner(_, _)   \* what expand_params_inner makes of a text inside a form, in a
                  \* context: the code calls itself there

ASSUME ExpandAssumption ==
    /\ GlobMax \in Nat /\ MaxDepth \in Nat
    /\ \A dir \in DOMAIN Dirs : IsFiniteSet(Dirs[dir])

Unset == <<<<"unset">>>>

Chr(c)    == <<"chr", c>>
Num(n)    == <<"num", n>>
Var(x)    == <<"var", x>>          \* $x and ${x}
Def(x, w) == <<"def", x, w>>       \* ${x:-w}
Alt(x, w) == <<"alt", x, w>>       \* ${x:+w}
Size(x)   == <<"size", x>>         \* ${#x}
Par(i)    == <<"par", i>>          \* $i
All(c)    == <<"all", c>>          \* $@ and $*
Count     == <<"count">>           \* $#
Status    == <<"status">>          \* $?
Calc(e)   == <<"calc", e>>         \* $(( )), with names as <<"var", x>>, <<"par", i>>
Sub(t)    == <<"sub", t>>          \* $(echo t)
Esc(a)    == <<"esc", a>>          \* a backslash in front of a
Space     == Chr(" ")

MapSeq(s, Op(_)) == [i \in 1..Len(s) |-> Op(s[i])]

Out(t) == [text |-> t, arith |-> FALSE, unset |-> FALSE]
Also(r, s) == [text |-> r.text \o s.text, arith |-> r.arith \/ s.arith,
               unset |-> r.unset \/ s.unset]

\* Values.  A parameter that is not there is unset; only set -u tells.
positional_get(ctx, i) == IF i <= Len(ctx.params) THEN ctx.params[i] ELSE Unset
positional_join(ctx) ==
    FoldLeft(LAMBDA t, v : IF t = Unset THEN v ELSE t \o <<Space>> \o v, Unset, ctx.params)
Given(v) == IF v = Unset THEN <<>> ELSE v
Value(ctx, v) == [text |-> Given(v), arith |-> FALSE, unset |-> v = Unset /\ ctx.u]
Bytes(t) == FoldLeft(LAMBDA n, a : n + (IF a[1] = "num" THEN Len(ToString(a[2])) ELSE 1), 0, t)

\* The value of a name in $(( )): 0 unless it is a numeral.
NumberOf(v) == IF Len(Given(v)) = 1 /\ v[1][1] = "num" THEN FromNumeral(v[1][2]) ELSE 0
Tokens(ctx, e) ==
    [i \in 1..Len(e) |->
        CASE e[i][1] = "var" -> Num(NumberOf(ctx.env[e[i][2]]))
          [] e[i][1] = "par" -> Num(NumberOf(positional_get(ctx, e[i][2])))
          [] e[i][1] = "num" -> Num(FromNumeral(e[i][2]))
          [] OTHER           -> e[i]]

\* A division by zero is an error, and counts as 0; so does a syntax error,
\* without an error.  The trap ends the process (see Words).
Calculated(r) ==
    [text |-> <<Num(IF r.err = "ok" THEN r.val ELSE 0)>>, arith |-> r.err = "div0",
     unset |-> FALSE]

Chomp(t) ==
    LET n == CHOOSE n \in 0..Len(t) :
                 /\ \A i \in n + 1..Len(t) : t[i] = Chr("\n")
                 /\ n = 0 \/ t[n] # Chr("\n")
    IN  SubSeq(t, 1, n)

\* ~ and ~/: the rest of the word is left as it is.
Tilde(t)     == t # <<>> /\ t[1] = Chr("~") /\ (Len(t) = 1 \/ t[2] = Chr("/"))
Home(ctx, t) == Out(Given(ctx.env["HOME"]) \o Tail(t))

\* A form that needs the expansion of a word inside it: expand_brace, and the
\* child of a substitution, which runs its words through both passes.
InnerWord(ctx, t)   == IF Tilde(t) THEN Home(ctx, t) ELSE Inner(ctx, t)
OfWord(ctx, use, w) == IF use THEN InnerWord(ctx, w) ELSE Out(<<>>)

Again(child, r) == Also([r EXCEPT !.text = <<>>], InnerWord(child, r.text))
Captured(r)     == Out(IF r.arith \/ r.unset THEN <<>> ELSE Chomp(r.text))
Deeper(ctx)     == [ctx EXCEPT !.depth = @ + 1]

run_cmdsubst(ctx, t) ==
    IF ctx.depth >= MaxDepth THEN Out(<<>>)
    ELSE Captured(Again(Deeper(ctx), InnerWord(Deeper(ctx), t)))

ExpandAtom(ctx, a, escapes) ==
    CASE a[1] \in {"chr", "num"} -> Out(<<a>>)
      [] a[1] = "var"    -> Value(ctx, ctx.env[a[2]])
      [] a[1] = "par"    -> Value(ctx, positional_get(ctx, a[2]))
      [] a[1] = "size"   -> [Value(ctx, ctx.env[a[2]]) EXCEPT
                               !.text = <<Num(Bytes(Given(ctx.env[a[2]])))>>]
      [] a[1] = "def"    -> IF Given(ctx.env[a[2]]) # <<>> THEN Out(ctx.env[a[2]])
                            ELSE InnerWord(ctx, a[3])
      [] a[1] = "alt"    -> OfWord(ctx, Given(ctx.env[a[2]]) # <<>>, a[3])
      [] a[1] = "all"    -> Out(Given(positional_join(ctx)))
      [] a[1] = "count"  -> Out(<<Num(Len(ctx.params))>>)
      [] a[1] = "status" -> Out(<<Num(ctx.last)>>)
      [] a[1] = "calc"   -> Calculated(eval_arith(Tokens(ctx, a[2])))
      [] a[1] = "sub"    -> run_cmdsubst(ctx, a[2])
      [] a[1] = "esc"    -> IF escapes THEN Out(<<a[2]>>)
                            ELSE Also(Out(<<Chr("\\")>>), Inner(ctx, <<a[2]>>))

\* An error in one atom does not keep the others from being expanded.
Joined(rs) ==
    [text  |-> FlattenSeq(MapSeq(rs, LAMBDA r : r.text)),
     arith |-> \E i \in 1..Len(rs) : rs[i].arith,
     unset |-> \E i \in 1..Len(rs) : rs[i].unset]

expand_params_inner(ctx, t, escapes) ==
    Joined(MapSeq(t, LAMBDA a : ExpandAtom(ctx, a, escapes)))

expand_word(ctx, t) ==
    IF Tilde(t) THEN Home(ctx, t) ELSE expand_params_inner(ctx, t, FALSE)

expand_heredoc_body(ctx, t) == expand_params_inner(ctx, t, TRUE)

-----------------------------------------------------------------------------
(* Names of files *)

HasMeta(t) == \E i \in 1..Len(t) : t[i] \in {Star, AnyByte}

\* The order of strcmp on the characters of the model.
ByteOrder == <<"$", "*", ".", "/", "?", "a", "b", "~">>
Byte(a)   == SelectInSeq(ByteOrder, LAMBDA c : c = IF a[1] = "chr" THEN a[2] ELSE "$")
TextLess(s, t) ==
    \E i \in 1..Len(t) : /\ SubSeq(s, 1, i - 1) = SubSeq(t, 1, i - 1)
                         /\ i > Len(s) \/ Byte(s[i]) < Byte(t[i])

Slash(t) == SelectLastInSeq(t, LAMBDA a : a = Chr("/"))
DirOf(t) == CASE Slash(t) = 0 -> <<Chr(".")>>
              [] Slash(t) = 1 -> <<Chr("/")>>
              [] OTHER        -> SubSeq(t, 1, Slash(t) - 1)
BaseOf(t) == SubSeq(t, Slash(t) + 1, Len(t))

TooMany == <<<<<<"too many">>>>>>

\* The sorted matches, or the pattern itself if there are none or if it is not
\* for the matcher (**, no * or ? in the last part, a directory that cannot be
\* opened).
Found(dir, base) ==
    {n \in Dirs[dir] : (n[1] = Chr(".") => base[1] = Chr(".")) /\ match_pat(base, n)}
PathsOf(t, prefix, names) ==
    LET paths == {prefix \o n : n \in names}
    IN  IF Cardinality(names) > GlobMax THEN TooMany
        ELSE IF names = {} THEN <<t>>
        ELSE [k \in 1..Cardinality(names) |->
                 CHOOSE p \in paths : Cardinality({q \in paths : TextLess(q, p)}) = k - 1]

glob_word(t) ==
    IF \/ \E i \in 1..Len(t) - 1 : t[i] = Star /\ t[i + 1] = Star
       \/ ~HasMeta(BaseOf(t)) \/ HasMeta(SubSeq(t, 1, Slash(t)))
       \/ DirOf(t) \notin DOMAIN Dirs
    THEN <<t>>
    ELSE PathsOf(t, SubSeq(t, 1, Slash(t)), Found(DirOf(t), BaseOf(t)))

-----------------------------------------------------------------------------
(* The words of a command: texts with the quotes they were typed with (0, 1  *)
(* for '', 2 for ""), the paths of redirections, and a here-document.        *)

Word(t, q) == [text |-> t, quoted |-> q]

\* Mutant: parameters keep the quotes of $@.
Spliced_as_typed(ctx, w) == [i \in 1..Len(ctx.params) |-> Word(ctx.params[i], w.quoted)]

\* $@, and $* without quotes: one word for each parameter, as if in ''.
Spliced(ctx, w) == [i \in 1..Len(ctx.params) |-> Word(ctx.params[i], 1)]

Unharmed(words)    == [words |-> words, arith |-> FALSE, unset |-> FALSE]
Single(r, quoted)  == [words |-> <<Word(r.text, quoted)>>, arith |-> r.arith, unset |-> r.unset]

\* The first loop of expand_cmd_argv, on one word.
Substituted(ctx, w) ==
    IF w.quoted = 1 THEN Unharmed(<<w>>)
    ELSE IF w.text = <<All("@")>> \/ (w.text = <<All("*")>> /\ w.quoted = 0)
    THEN Unharmed(Spliced(ctx, w))
    ELSE Single(expand_word(ctx, w.text), w.quoted)

\* Mutant: matches are words like any other.
Matched_plain(w, paths) ==
    IF paths \in {TooMany, <<w.text>>} THEN <<w>>
    ELSE [i \in 1..Len(paths) |-> Word(paths[i], 0)]

\* Matches arrive as if in ''.
Matched(w, paths) ==
    IF paths \in {TooMany, <<w.text>>} THEN <<w>>
    ELSE [i \in 1..Len(paths) |-> Word(paths[i], 1)]

\* The second loop.
Globbed(w) ==
    IF w.quoted # 0 \/ ~HasMeta(w.text) THEN <<w>> ELSE Matched(w, glob_word(w.text))

expand_cmd_argv(ctx, cmd) ==
    LET first == MapSeq(cmd.argv, LAMBDA w : Substituted(ctx, w))
        words == FlattenSeq(MapSeq(first, LAMBDA r : r.words))
        files == MapSeq(cmd.files, LAMBDA f : expand_word(ctx, f))
        body  == IF cmd.bodyQuoted THEN Out(cmd.body) ELSE expand_heredoc_body(ctx, cmd.body)
        all   == ToSet(first) \cup ToSet(files) \cup {body}
    IN  [cmd   |-> [cmd EXCEPT !.argv  = FlattenSeq(MapSeq(words, Globbed)),
                               !.files = MapSeq(files, LAMBDA r : r.text),
                               !.body  = body.text],
         arith |-> \E r \in all : r.arith,
         unset |-> \E r \in all : r.unset]
=============================================================================
