------------------------------ MODULE MCLines -------------------------------
(* Lines for the run of Lines: the texts of all small trees, every line that *)
(* differs from one of some texts in a lexeme, and lines of redirections.    *)
EXTENDS Lines

Cmd(words) == [NewCmd EXCEPT !.argv = words]
Simple     == {Cmd(<<"f">>), Cmd(<<"f", "fi">>), Cmd(<<"'do'", "}">>)}
WithHere   == {[Cmd(<<"f">>) EXCEPT !.delim = "X"],
               [Cmd(<<"f">>) EXCEPT !.delim = "X", !.skip = <<"Y">>],
               [Cmd(<<"f">>) EXCEPT !.delim = "X", !.strip = TRUE]}
Pipe(cs)   == Item("pipeline", cs, <<>>, <<>>)

\* A command with a file on each stream that has one.
Files      == {[NewCmd EXCEPT !.argv = <<"f">>, !.in = i, !.out = o, !.append = a,
                              !.err = e, !.errAppend = b, !.merge = m] :
                   i, o, e \in {None, "X"}, a, b, m \in BOOLEAN}
WithFiles  == {c \in Files : /\ c.append => c.out # None
                             /\ c.errAppend => c.err # None
                             /\ c.merge => c.err = None}

One(c)     == <<Pipe(<<c>>)>>
F          == One(Cmd(<<"f">>))

\* An item, as the last of a list, or joined to what follows.
Joined(it, next) ==
    {<<[it EXCEPT !.bg = b], [next EXCEPT !.cond = c]>> :
        b \in {FALSE}, c \in {";", "&&", "||"}}
    \cup {<<[it EXCEPT !.bg = TRUE], next>>}

Basic == {One(c) : c \in Simple \cup WithHere \cup WithFiles}
         \cup {<<Pipe(<<c, d>>)>> : c \in Simple, d \in WithHere \cup {Cmd(<<"f">>)}}
         \cup Joined(Pipe(<<Cmd(<<"f">>)>>), Pipe(<<Cmd(<<"'if'">>)>>))

Compound(a, b, c) ==
    {Item("while", <<>>, <<>>, <<a, b>>),
     Item("if", <<>>, <<>>, <<a, b>>),
     Item("if", <<>>, <<>>, <<a, b, c>>),
     Item("if", <<>>, <<>>, <<a, b, b, c>>),
     Item("if", <<>>, <<>>, <<a, <<>>, b, c, a>>),
     Item("for", <<>>, <<<<"f">>, <<>>>>, <<a>>),
     Item("for", <<>>, <<<<"f">>, <<"f", "if">>>>, <<b>>),
     Item("case", <<>>, <<<<"f">>>>, <<>>),
     Item("case", <<>>, <<<<"f">>, <<"f">>, <<"f", "in">>>>, <<a, b>>),
     Item("fn", <<>>, <<<<"f">>>>, <<b>>),
     Item("dbracket", <<>>, <<<<"f", "&&", "!", "f">>>>, <<>>)}

Flat   == UNION {Compound(a, F, <<>>) : a \in Basic}
          \cup UNION {Compound(One(d), One(e), F) : d \in WithHere, e \in WithHere}
Nested == UNION {Compound(<<x>>, <<x>>, F) : x \in Compound(F, F, <<>>)}
Pairs  == UNION {Joined(x, y) : x \in Compound(F, F, <<>>), y \in Compound(F, F, F)}
Trees  == Basic \cup {<<x>> : x \in Flat \cup Nested} \cup Pairs

Printed == {[line |-> Text(t), tree |-> t] : t \in Trees}

Alphabet == Keywords \cup Links \cup {"f", "|", "(", ")", "{", "}", "[[", "]]", "&>"}

\* A lexeme is left out, put in, or replaced.
Edits(s) ==
    {SubSeq(s, 1, i - 1) \o mid \o SubSeq(s, i + n, Len(s)) :
        i \in 1..Len(s), n \in {0, 1}, mid \in {<<x>> : x \in Alphabet} \cup {<<>>}}

Edited == UNION {Edits(Text(<<x>>)) : x \in Compound(F, F, F)}
          \cup UNION {Edits(Text(t)) : t \in Joined(Pipe(<<Cmd(<<"f">>), Cmd(<<"f">>)>>),
                                                    Pipe(<<Cmd(<<"f">>)>>))}

\* Up to three redirections of one command; no << next to <<-.
Redirs3 == BoundedSeq(Redirs \cup {"2>&1"}, 3)
OneKind(ops) == ~({"<<", "<<-"} \subseteq ToSet(ops))
Redirected ==
    {<<"f">> \o FlattenSeq([k \in 1..Len(ops) |->
        IF ops[k] = "2>&1" THEN <<"2>&1">>
        ELSE <<ops[k], IF k = 1 THEN "X" ELSE "Y">>]) : ops \in {o \in Redirs3 : OneKind(o)}}

\* Two commands with a redirection each.
Twice == {x \o <<c>> \o y : c \in {"|", "&&", ";"}, x, y \in {r \in Redirected : Len(r) <= 3}}

Unmeant(texts) == {[line |-> x, tree |-> Unprinted] : x \in texts}

MCInputs    == Printed \cup Unmeant(Edited \cup Redirected \cup Twice)
MCBodyLines == [tab : BOOLEAN, text : {"X", "Y"}]
=============================================================================
