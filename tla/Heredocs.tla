------------------------------ MODULE Heredocs ------------------------------
(***************************************************************************)
(* What the reader of a line promises of its commands, in the order of the *)
(* text, wherever in the tree they are: build_stage makes each of them     *)
(* from its stretch of the line, and petrush_heredoc_feed_line gives each  *)
(* line of the file to the first command that waits for one.  Lines, which *)
(* reads the tree, is shown to implement it.                               *)
(***************************************************************************)
EXTENDS Stage

VARIABLES
    line,    \* the line at hand
    cmds,    \* its commands, in the order of the text
    phase,   \* of the reader: "read", "refused", "fill", "run", "quit"
    fed,     \* history: the lines that went to here-documents,
    cut      \* and the places in fed of those that ended the documents of each command

docVars == <<line, cmds, phase, fed, cut>>

Fresh       == {c \in Commands : c.feed = 0 /\ c.body = <<>>}
Pending(cs) == \E k \in 1..Len(cs) : cmd_pending(cs[k])

\* A line without compounds is a list of pipelines.
Plain(s) == \A p \in 1..Len(s) :
                s[p] \notin {"if", "while", "for", "case", "function", "[[", "("}

\* The stretch of a command in such a line, from p to e.
Breaks(s, p)     == s[p] \in Links \cup {"|"}
Begins(s, p)     == ~Breaks(s, p) /\ (p = 1 \/ Breaks(s, p - 1))
Stretch(s, p, e) == /\ Begins(s, p) /\ (e = Len(s) \/ Breaks(s, e + 1))
                    /\ \A q \in p..e : ~Breaks(s, q)
Starts(s)        == {p \in 1..Len(s) : Begins(s, p)}

\* The commands cs of s, in order, one of each stretch.
Made(s, cs) ==
    /\ Len(cs) = Cardinality(Starts(s))
    /\ \A p \in 1..Len(s) : \A e \in p..Len(s) : Stretch(s, p, e) =>
          LET r == build_stage(SubSeq(s, p, e))
          IN  r.ok /\ cs[Rank(Starts(s), p)] = r.tree

DocInit == line = <<>> /\ cmds = <<>> /\ phase = "read" /\ fed = <<>> /\ cut = <<>>

\* A line is read: it is refused, or its here-documents are filled, if any.
DocRead ==
    /\ phase = "read"
    /\ line' \in Seq(Lexemes) /\ cmds' \in Seq(Fresh)
    /\ (Plain(line') /\ cmds' # <<>>) => Made(line', cmds')
    /\ phase' \in {"refused", IF Pending(cmds') THEN "fill" ELSE "run"}
    /\ fed' = <<>>
    /\ cut' = [k \in 1..Len(cmds') |-> <<>>]

\* The first command that waits gets the next line.
First(k) == cmd_pending(cmds[k]) /\ \A i \in 1..k - 1 : ~cmd_pending(cmds[i])
Feed(k, l) ==
    /\ phase = "fill" /\ First(k) /\ Fits(cmds[k], l)
    /\ cmds' = [cmds EXCEPT ![k] = cmd_feed(@, l)]
    /\ fed' = Append(fed, l)
    /\ cut' = [cut EXCEPT ![k] = IF Ends(cmds[k], l) THEN Append(@, Len(fed) + 1) ELSE @]
    /\ phase' = IF Pending(cmds') THEN "fill" ELSE "run"
    /\ UNCHANGED line

\* The file ends, or a body is at its ceiling.
DocQuit ==
    /\ phase \in {"read", "fill"}
    /\ phase' = "quit"
    /\ UNCHANGED <<line, cmds, fed, cut>>

\* The line runs, or was refused.
DocDone ==
    /\ phase \in {"run", "refused"}
    /\ phase' = "read" /\ line' = <<>> /\ cmds' = <<>> /\ fed' = <<>> /\ cut' = <<>>

DocNext ==
    \/ DocRead
    \/ \E k \in 1..Len(cmds), l \in BodyLines : Feed(k, l)
    \/ DocQuit
    \/ DocDone

DocSpec == DocInit /\ [][DocNext]_docVars

-----------------------------------------------------------------------------
(* Properties *)

TypeOK ==
    /\ line \in Seq(Lexemes)
    /\ cmds \in Seq(Commands)
    /\ \A k \in 1..Len(cmds) : Len(cmds[k].body) <= MaxBody
    /\ phase \in {"read", "refused", "fill", "run", "quit"}
    /\ fed \in Seq(Line)
    /\ cut \in Seq(Seq(Nat)) /\ Len(cut) = Len(cmds)

\* Each command of a line without compounds is what its stretch of the line
\* means, also while its here-documents are filled.
StagesMean ==
    (Plain(line) /\ cmds # <<>>) =>
        /\ Len(cmds) = Cardinality(Starts(line))
        /\ \A p \in 1..Len(line) : \A e \in p..Len(line) :
              Stretch(line, p, e) =>
                  StageMeans(SubSeq(line, p, e), cmds[Rank(Starts(line), p)])

\* The places in fed of lines that ended a document.
Places == UNION {ToSet(cut[k]) : k \in 1..Len(cut)}

\* The documents end in the order of the text.
InOrder ==
    \A k \in 1..Len(cut) : \A n \in 1..Len(cut[k]) :
        /\ cut[k][n] \in 1..Len(fed)
        /\ \A m \in 1..n - 1 : cut[k][m] < cut[k][n]
        /\ \A i \in 1..k - 1 : \A m \in 1..Len(cut[i]) : cut[i][m] < cut[k][n]

\* Document n of command k ends at the first line behind the document before
\* it that reads as its delimiter.
EndsFirst ==
    \A k \in 1..Len(cut) : \A n \in 1..Len(cut[k]) : \A p \in 1..cut[k][n] :
        (\A q \in Places : q < cut[k][n] => q < p)
        => (EndsDoc(cmds[k], n, fed[p]) <=> p = cut[k][n])

\* The body of a command is what lies between the end of the document before its
\* last one and to.
BodyUpTo(k, to) ==
    LET from == to - 1 - Len(cmds[k].body)
    IN  /\ from \in Places \cup {0}
        /\ \A n \in 1..Len(cmds[k].body) :
              from + n \notin Places /\ cmds[k].body[n] = Stripped(cmds[k], fed[from + n])

\* The commands have the bodies that were typed for them, however many documents
\* and commands share the line; all documents have ended, and no line of the file
\* was taken that no document asked for.
BodiesInOrder ==
    /\ InOrder /\ EndsFirst
    /\ \A k \in 1..Len(cmds) :
          /\ Len(cut[k]) = Documents(cmds[k])
          /\ Documents(cmds[k]) > 0 => BodyUpTo(k, cut[k][Documents(cmds[k])])
    /\ Len(fed) \in Places \cup {0}

\* The commands get their lines as DocSpec says, and a line starts to run when each
\* of them has the body that was typed for it.
FilledInOrder == DocInit /\ [][DocNext /\ (phase' = "run" => BodiesInOrder')]_docVars
=============================================================================
