------------------------------- MODULE Parser -------------------------------
(***************************************************************************)
(* The parser of mid/parser.c: one line of text becomes a tree.            *)
(*                                                                         *)
(* A line is a sequence of lexemes separated by spaces.  A word with its   *)
(* quotes, $( ) and $(( )) is one lexeme, since all scanners of the code   *)
(* skip such groups; a quoted keyword is a word that is no keyword.  A     *)
(* position is an index into the line.  A parser returns whether it        *)
(* succeeded, where it stopped, and its part of the tree.                  *)
(***************************************************************************)
EXTENDS Stage

CONSTANT Names   \* unquoted words that may name a function

Keywords == {"if", "then", "elif", "else", "fi", "while", "do", "done", "for",
             "in", "case", "esac", "function"}

IsName(x) == x \in Names \cup Keywords

-----------------------------------------------------------------------------
(* Pipelines *)

\* The stretches of s between the lexemes x.
Split(s, x) ==
    LET cuts == <<0>> \o SelectSeq([i \in 1..Len(s) |-> i], LAMBDA i : s[i] = x)
                      \o <<Len(s) + 1>>
    IN  [k \in 1..Len(cuts) - 1 |-> SubSeq(s, cuts[k] + 1, cuts[k + 1] - 1)]

petrush_parse_pipeline(s) ==
    LET stages == [k \in 1..Len(Split(s, "|")) |-> build_stage(Split(s, "|")[k])]
    IN  IF \A k \in 1..Len(stages) : stages[k].ok
        THEN Parsed(Len(s) + 1, [k \in 1..Len(stages) |-> stages[k].tree])
        ELSE Failed

-----------------------------------------------------------------------------
(* Lists.  An item is a pipeline (cmds) or a compound: the words of its      *)
(* head, and its lists in the order of the text.                             *)

Item(kind, cmds, head, parts) ==
    [kind |-> kind, cmds |-> cmds, head |-> head, parts |-> parts,
     cond |-> ";", bg |-> FALSE]

\* The first connector at p or later, with the length of what it consumes:
\* ;; is left for case to read.  Words in [[ ]] are not searched by the caller.
find_list_connector(s, p) == SelectInSubSeq(s, p, Len(s), LAMBDA x : x \in Links)
\* Mutants: ;; is consumed; || is taken for ;.
Width_eats(link) == 1
CondOf_and(link) == IF link = "&&" THEN link ELSE ";"

Width(link) == IF link = ";;" THEN 0 ELSE 1
CondOf(link) == IF link \in {"&&", "||"} THEN link ELSE ";"

\* What follows an item that was read as r and hangs by cond: the connector, if any.
Then(r, cond, s) ==
    LET x == Lexeme(s, r.at)
    IN  IF ~r.ok THEN Failed
        ELSE IF x \in Links
        THEN [ok |-> TRUE, at |-> r.at + Width(x), joined |-> TRUE, next |-> CondOf(x),
              tree |-> [r.tree EXCEPT !.cond = cond, !.bg = (x = "&")]]
        ELSE [ok |-> TRUE, at |-> r.at, joined |-> FALSE, next |-> ";",
              tree |-> [r.tree EXCEPT !.cond = cond]]

\* A pipeline: all lexemes up to the next connector, keywords or not.
parse_pipeline_item(s, p) ==
    LET c   == find_list_connector(s, p)
        end == IF c = 0 THEN Len(s) + 1 ELSE c
        pl  == petrush_parse_pipeline(SubSeq(s, p, end - 1))
    IN  IF p < end /\ pl.ok THEN Parsed(end, Item("pipeline", pl.tree, <<>>, <<>>))
        ELSE Failed

\* The words from p on, up to a lexeme of stops or one that is no word.
Words(s, p, stops) ==
    LET e == SelectInSubSeq(s, p, Len(s), LAMBDA x : x \in stops \/ ~IsWord(x))
    IN  SubSeq(s, p, IF e = 0 THEN Len(s) ELSE e - 1)

RECURSIVE ListFrom(_, _, _, _, _, _), ItemAt(_, _, _), ArmsFrom(_, _, _), BranchFrom(_, _, _)

\* Items up to a keyword of stops in the place of a command, or to the end of
\* the line unless closed says that a keyword must come.
parse_list_until(s, p, stops, closed) == ListFrom(s, p, stops, closed, <<>>, ";")

\* An item that ends the list, or is joined to the next by a connector.
ListAfter(r, s, stops, closed, items) ==
    IF ~r.ok THEN Failed
    ELSE IF r.joined THEN ListFrom(s, r.at, stops, closed, Append(items, r.tree), r.next)
    ELSE IF Lexeme(s, r.at) \in stops \/ (Lexeme(s, r.at) = "eof" /\ ~closed)
    THEN Parsed(r.at, Append(items, r.tree))
    ELSE Failed

ListFrom(s, p, stops, closed, items, cond) ==
    IF Lexeme(s, p) = "eof" \/ Lexeme(s, p) \in stops
    THEN IF cond = ";" /\ (Lexeme(s, p) = "eof" => ~closed)
         THEN Parsed(p, items) ELSE Failed
    ELSE ListAfter(ItemAt(s, p, cond), s, stops, closed, items)

\* The list after the keyword at p, which must be open, up to the first of close.
Block(s, p, open, close) ==
    IF Lexeme(s, p) = open THEN parse_list_until(s, p + 1, close, TRUE) ELSE Failed

parse_while(s, p) ==
    LET cond == Block(s, p, "while", {"do"})
        body == Block(s, cond.at, "do", {"done"})
    IN  IF cond.ok /\ cond.tree # <<>> /\ body.ok
        THEN Parsed(body.at + 1, Item("while", <<>>, <<>>, <<cond.tree, body.tree>>))
        ELSE Failed

\* The branches of an if, from the keyword if or elif at p on.
BranchFrom(s, p, parts) ==
    LET cond == Block(s, p, s[p], {"then"})
        body == Block(s, cond.at, "then", {"elif", "else", "fi"})
        last == Block(s, body.at, "else", {"fi"})
        more == parts \o <<cond.tree, body.tree>>
    IN  IF ~cond.ok \/ cond.tree = <<>> \/ ~body.ok THEN Failed
        ELSE CASE s[body.at] = "elif" -> BranchFrom(s, body.at, more)
               [] s[body.at] = "fi"   -> Parsed(body.at + 1, more)
               [] s[body.at] = "else" -> IF last.ok
                                         THEN Parsed(last.at + 1, Append(more, last.tree))
                                         ELSE Failed

parse_if(s, p) ==
    LET r == BranchFrom(s, p, <<>>)
    IN  IF r.ok THEN Parsed(r.at, Item("if", <<>>, <<>>, r.tree)) ELSE Failed

parse_for(s, p) ==
    LET words == Words(s, p + 3, {"do"})
        q     == p + 3 + Len(words)
        do    == IF Lexeme(s, q) = ";" THEN q + 1 ELSE q
        body  == Block(s, do, "do", {"done"})
    IN  IF IsWord(Lexeme(s, p + 1)) /\ s[p + 1] # "(" /\ Lexeme(s, p + 2) = "in" /\ body.ok
        THEN Parsed(body.at + 1, Item("for", <<>>, <<<<s[p + 1]>>, words>>, <<body.tree>>))
        ELSE Failed

\* The patterns of an arm from p on, up to the parenthesis behind them.
RECURSIVE PatternsFrom(_, _, _)
PatternsFrom(s, p, pats) ==
    IF ~IsWord(Lexeme(s, p)) \/ s[p] = ")" THEN Failed
    ELSE CASE Lexeme(s, p + 1) = "|" -> PatternsFrom(s, p + 2, Append(pats, s[p]))
           [] Lexeme(s, p + 1) = ")" -> Parsed(p + 2, Append(pats, s[p]))
           [] OTHER                  -> Failed

\* The arms from p on; the last one may do without ;; before esac.
ArmsFrom(s, p, item) ==
    LET pats == PatternsFrom(s, IF Lexeme(s, p) = "(" THEN p + 1 ELSE p, <<>>)
        body == parse_list_until(s, pats.at, {";;", "esac"}, TRUE)
    IN  IF Lexeme(s, p) = "esac" THEN Parsed(p + 1, item)
        ELSE IF ~pats.ok \/ ~body.ok THEN Failed
        ELSE ArmsFrom(s, IF s[body.at] = ";;" THEN body.at + 1 ELSE body.at,
                      [item EXCEPT !.head = Append(@, pats.tree),
                                   !.parts = Append(@, body.tree)])

parse_case(s, p) ==
    IF IsWord(Lexeme(s, p + 1)) /\ Lexeme(s, p + 2) = "in"
    THEN ArmsFrom(s, p + 3, Item("case", <<>>, <<<<s[p + 1]>>>>, <<>>))
    ELSE Failed

\* Up to the bracket that closes; && and || in it are tokens of the test.
parse_dbracket(s, p) ==
    LET e == SelectInSubSeq(s, p + 1, Len(s), LAMBDA x :
                 x = "]]" \/ (~IsWord(x) /\ x \notin {"&&", "||"}))
    IN  IF e # 0 /\ s[e] = "]]"
        THEN Parsed(e + 1, Item("dbracket", <<>>, <<SubSeq(s, p + 1, e - 1)>>, <<>>))
        ELSE Failed

\* name ( ) {   and   function name [( )] {   with the name at p.
Parens(s, p) == Lexeme(s, p) = "(" /\ Lexeme(s, p + 1) = ")"

looks_like_fn_def(s, p) ==
    IsName(Lexeme(s, p)) /\ Parens(s, p + 1) /\ Lexeme(s, p + 3) = "{"

parse_fn(s, p) ==
    LET body == Block(s, IF Parens(s, p + 1) THEN p + 3 ELSE p + 1, "{", {"}"})
    IN  IF IsName(Lexeme(s, p)) /\ body.ok
        THEN Parsed(body.at + 1, Item("fn", <<>>, <<<<s[p]>>>>, <<body.tree>>))
        ELSE Failed

\* The item at p, linked to the one before by cond, and the connector behind it.
CompoundAt(s, p) ==
    CASE s[p] = "if"       -> parse_if(s, p)
      [] s[p] = "while"    -> parse_while(s, p)
      [] s[p] = "for"      -> parse_for(s, p)
      [] s[p] = "case"     -> parse_case(s, p)
      [] s[p] = "[["       -> parse_dbracket(s, p)
      [] s[p] = "function" -> parse_fn(s, p + 1)
      [] looks_like_fn_def(s, p) -> parse_fn(s, p)
      [] OTHER -> parse_pipeline_item(s, p)
ItemAt(s, p, cond) == Then(CompoundAt(s, p), cond, s)

petrush_parse_list(s) == parse_list_until(s, 1, {}, FALSE)

-----------------------------------------------------------------------------
(* Here-documents: the lines that follow are fed to the commands in order.   *)
(* A body line is a text with or without a tab in front of it.               *)

RECURSIVE item_pending(_), FeedList(_, _), Waiting(_)
list_pending(list) == \E i \in 1..Len(list) : item_pending(list[i])
item_pending(it) == \/ \E k \in 1..Len(it.cmds) : cmd_pending(it.cmds[k])
                    \/ \E k \in 1..Len(it.parts) : list_pending(it.parts[k])

\* The first element of a sequence that is pending.
FirstPending(seq, Pending(_)) == SelectInSeq(seq, Pending)

\* One line goes to the first pending command of the tree.
FeedItem(it, line) ==
    LET c == FirstPending(it.cmds, cmd_pending)
        k == FirstPending(it.parts, list_pending)
    IN  IF c # 0 THEN [it EXCEPT !.cmds[c] = cmd_feed(@, line)]
        ELSE [it EXCEPT !.parts[k] = FeedList(@, line)]
FeedList(list, line) ==
    LET i == FirstPending(list, item_pending)
    IN  [list EXCEPT ![i] = FeedItem(@, line)]

\* The command that gets the next line.
Waiting(list) ==
    LET it == list[FirstPending(list, item_pending)]
        c  == FirstPending(it.cmds, cmd_pending)
    IN  IF c # 0 THEN it.cmds[c] ELSE Waiting(it.parts[FirstPending(it.parts, list_pending)])
=============================================================================
