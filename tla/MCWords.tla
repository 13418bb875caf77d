------------------------------ MODULE MCWords -------------------------------
(* Commands for the runs of Words: every form in every construct with every  *)
(* value, all short expressions, and conditions.                             *)
EXTENDS WordsMeant

\* expand_params_inner calls itself on the text inside a form.  (The LET keeps
\* TLC's statistics from following the substitution of Inner for ever.)
RECURSIVE InnerText(_, _)
InnerText(c, t) == LET r == expand_params_inner(c, t, FALSE) IN r

A == Chr("a")
B == Chr("b")
Dot == Chr(".")
SlashAtom == Chr("/")

MCDirs == (<<Dot>> :> {<<A>>, <<B>>, <<A, B>>, <<Dot, A>>, <<Var("x")>>})
          @@ (<<B>> :> {<<A>>, <<B>>, <<A, A>>, <<A, B>>, <<B, A>>})
          @@ (<<SlashAtom>> :> {<<B>>})

VarForms == {<<A>>, <<Var("x")>>, <<A, Var("x")>>, <<Var("x"), AnyByte>>,
             <<Chr("~")>>, <<Chr("~"), SlashAtom, Var("x")>>, <<Size("x")>>,
             <<Def("x", <<Var("y")>>)>>, <<Alt("x", <<A, Var("y")>>)>>,
             <<Sub(<<Var("x"), Chr("\n")>>)>>,
             <<Sub(<<A, Sub(<<B, Sub(<<A>>)>>)>>)>>}
ParForms == {<<All("@")>>, <<All("*")>>, <<A, All("@")>>, <<Par(1)>>, <<Par(2), A>>,
             <<Count>>, <<Status>>,
             <<Calc(<<<<"var", "x">>, <<"+">>, <<"par", 1>>>>)>>,
             <<Calc(<<Num(1), <<"/">>, <<"par", 1>>>>)>>}
Patterns == {<<Star>>, <<Star, B>>, <<Dot, Star>>, <<A, Star, Star>>, <<AnyByte>>,
             <<B, SlashAtom, Star>>, <<B, SlashAtom, A, Star>>, <<SlashAtom, Star>>,
             <<Star, SlashAtom, A>>, <<A, SlashAtom, Star>>}

Values  == {Unset, <<>>, <<A>>, <<Star>>, <<Num(2)>>, <<Var("y")>>}
Env(x, y) == ("x" :> x) @@ ("y" :> y) @@ ("HOME" :> <<SlashAtom, B>>)
Params  == {<<>>, <<<<A>>>>, <<<<Num(1)>>, <<Var("x")>>>>, <<<<Star>>, <<>>>>, <<<<Num(0)>>>>}

Contexts(xs, ys, ps, us) ==
    {[env |-> Env(x, y), params |-> p, u |-> u, last |-> 0, depth |-> 0] :
        x \in xs, y \in ys, p \in ps, u \in us}
OfVars   == Contexts(Values, {Unset, <<B>>}, {<<>>}, BOOLEAN)
OfParams == Contexts({<<Num(2)>>}, {<<B>>}, Params, BOOLEAN)
Few      == Contexts(Values, {<<B>>}, {<<>>}, BOOLEAN)

MCAfter == Env(<<B>>, <<A>>)

Cmd(ws) == [NoCmd EXCEPT !.argv = <<Word(<<A>>, 0)>> \o ws]
Job(k, cmd) == [construct |-> k, cmd |-> cmd, head |-> <<>>, arms |-> <<>>]
OneWord(forms) ==
    {Job(k, Cmd(<<Word(t, q)>>)) : k \in {"once", "stage", "call"}, t \in forms, q \in 0..2}

Loops ==
    {Job(k, [NoCmd EXCEPT !.argv = <<Word(s, 0), Word(t, 0)>>]) :
        k \in {"for", "while", "background"}, s \in {<<A>>, <<Var("x")>>, <<Star>>, <<Par(1)>>},
        t \in {<<Var("x")>>, <<All("@")>>}}

Paths ==
    {Job(k, [Cmd(<<>>) EXCEPT !.files = <<s>>, !.body = t, !.bodyQuoted = q]) :
        k \in {"once", "stage"}, s \in {<<A>>, <<Var("x")>>, <<Star>>},
        t \in {<<>>, <<Var("x"), A>>, <<Esc(Var("x"))>>, <<Esc(Chr("\\"))>>},
        q \in BOOLEAN}

Signs == {Num(1), Num(3), <<"var", "x">>, <<"-">>, <<"*">>, <<"/">>, <<"(">>, <<")">>}
Expressions ==
    {<<a>> : a \in Signs} \cup {<<a, b>> : a, b \in Signs} \cup {<<a, b, c>> : a, b, c \in Signs}
    \cup {<<a, b, c, d>> : a, b, c, d \in Signs}
    \cup {<<a, o, b, p, c>> : a, b, c \in {Num(3), <<"var", "x">>}, o, p \in Plus \cup Times}
    \cup {<<<<"(">>>> \o <<a, o, b>> \o <<<<")">>, p, c>> :
            a, b, c \in {Num(3), <<"var", "x">>}, o, p \in Plus \cup Times}
Sums == {Job("stage", Cmd(<<Word(<<Calc(e)>>, 0)>>)) : e \in Expressions}
Numbers == Contexts({<<Num(-8)>>, <<Num(7)>>, <<Num(8)>>, <<A>>}, {Unset}, {<<>>}, {FALSE})

Conditions ==
    {<<Word(t, q)>> : t \in {<<>>, <<A>>, <<Var("x")>>}, q \in {0, 2}}
    \cup {<<Word(<<Var("x")>>, 0), Word(Op(o), 0), Word(t, q)>> :
            o \in {"=", "!="}, t \in {<<A>>, <<A, Star>>, <<AnyByte>>}, q \in {0, 2}}
    \cup {<<Word(Op(o), 0), Word(t, 0)>> : o \in {"-n", "-z", "-f", "-d"}, t \in {<<Var("x")>>, <<A>>, <<B>>}}
    \cup {<<Word(<<Var("x")>>, 0), Word(Op(o), 0), Word(<<Num(2)>>, 0)>> : o \in {"-eq", "-ne", "-lt", "-gt"}}
Negated == Conditions \cup {<<Word(Op("!"), 0)>> \o c : c \in Conditions}
FewConditions ==
    {<<Word(<<A>>, 0)>>, <<Word(<<Var("x")>>, 0)>>,
     <<Word(Op("!"), 0), Word(<<Var("x")>>, 2)>>,
     <<Word(<<Var("x")>>, 0), Word(Op("-lt"), 0), Word(<<Num(3)>>, 0)>>}
Brackets ==
    Negated
    \cup {c \o <<Word(Op(o), 0)>> \o d : c \in FewConditions, d \in Negated, o \in {"&&", "||"}}
    \cup {c \o <<Word(Op(o), 0)>> \o d \o <<Word(Op(p), 0)>> \o e :
            c, d, e \in FewConditions, o, p \in {"&&", "||"}}

Heads ==
    {[Job("dbracket", NoCmd) EXCEPT !.head = h] : h \in Brackets}
CaseHeads ==
    {[Job("case", Cmd(<<Word(<<Var("x")>>, 0)>>)) EXCEPT !.head = <<Word(t, 2)>>, !.arms = arms] :
            t \in {<<A>>, <<Var("x")>>, <<Var("x"), B>>,
                  <<Calc(<<<<"var", "x">>, <<"/">>, <<"-">>, Num(1)>>)>>},
            arms \in {<<>>, <<<<<<Star>>>>>>, <<<<<<A>>, <<Star, B>>>>, <<<<A, AnyByte>>, <<>>>>>>,
                      <<<<<<AnyByte, B>>>>, <<<<B>>>>, <<<<Star>>>>>>}}

Tested ==
    {Job("once", [NoCmd EXCEPT !.argv = MapSeq(ws, LAMBDA t : Word(t, 0))]) :
        ws \in {<<Op("test")>>, <<Op("[")>>, <<Op("["), <<A>>>>, <<Op("["), Op("]")>>,
                <<Op("["), <<Var("x")>>, Op("-gt"), <<Num(1)>>, Op("]")>>,
                <<Op("test"), Op("-d"), <<B>>>>, <<Op("test"), <<A>>, <<A>>, <<A>>, <<A>>>>}}

Case(jobs, contexts) == [jobs |-> jobs, contexts |-> contexts]
MCCases ==
    {Case(OneWord(VarForms), OfVars), Case(OneWord(ParForms), OfParams),
     Case(OneWord(Patterns), Contexts({<<A>>}, {<<B>>}, {<<>>}, {FALSE})),
     Case(Loops, OfParams \cup Few), Case(Paths, Few), Case(Sums, Numbers),
     Case(Heads, Contexts({Unset, <<A>>, <<Num(2)>>}, {Unset}, {<<>>}, BOOLEAN)),
     Case(CaseHeads, Few \cup Numbers), Case(Tested, Contexts({<<A>>, <<Num(2)>>}, {Unset}, {<<>>}, {FALSE}))}

\* The commands with which the code departs from what it says.
LoopCases == {Case({j \in Loops : j.construct = "while"}, Few)}
OnceCases == {Case({j \in Paths : j.construct = "once"}, Few)}
=============================================================================
