------------------------------- MODULE Stage --------------------------------
(***************************************************************************)
(* One command of a pipeline in mid/parser.c: build_stage makes it from    *)
(* its lexemes, and cmd_heredoc_feed reads the bodies of its               *)
(* here-documents, a line at a time.                                       *)
(***************************************************************************)
EXTENDS Naturals, Sequences, SequencesExt

CONSTANTS
    MaxBody,    \* lines of a here-document, for the ceiling of 1 MiB
    BodyLines   \* the lines that a here-document can get

\* A line of a here-document: a text, with or without a tab in front of it.
Line == [tab : BOOLEAN, text : STRING]

ASSUME StageAssumption == MaxBody \in Nat /\ BodyLines \subseteq Line

Redirs == {"<", "<<", "<<-", ">", ">>", "2>", "2>>", "&>"}
Links  == {"&&", "||", ";", ";;", "&"}

\* All that is no operator is a word, a keyword out of place too.  At an
\* operator the scanner of a word of for, case and [[ finds nothing, or only
\* the 2 of 2>, and every caller fails then.
IsWord(x) == x \notin Redirs \cup Links \cup {"|", "2>&1", "eof"}

Lexeme(s, p) == IF p <= Len(s) THEN s[p] ELSE "eof"

Failed       == [ok |-> FALSE]
Parsed(p, t) == [ok |-> TRUE, at |-> p, tree |-> t]

None    == "none"
Lexemes == STRING \ {None, "eof"}

Commands ==
    LET Path == Lexemes \cup {None}
    IN  [argv : Seq(Lexemes), in : Path, out : Path, append : BOOLEAN,
         err : Path, errAppend : BOOLEAN, merge : BOOLEAN, delim : Path,
         strip : BOOLEAN, skip : Seq(Lexemes), feed : Nat, body : Seq(Line)]

NewCmd == [argv |-> <<>>, in |-> None, out |-> None, append |-> FALSE,
           err |-> None, errAppend |-> FALSE, merge |-> FALSE,
           delim |-> None, strip |-> FALSE, skip |-> <<>>, feed |-> 0, body |-> <<>>]

-----------------------------------------------------------------------------
(* The redirections, each of which replaces what came before on its stream.  *)

ReadHere(cmd, op, delim) ==
    [cmd EXCEPT !.in = None, !.delim = delim, !.strip = (op = "<<-"),
                !.skip = IF cmd.delim = None THEN @ ELSE Append(@, cmd.delim)]
ReadFile(cmd, path) ==
    [cmd EXCEPT !.in = path, !.delim = None, !.strip = FALSE, !.skip = <<>>]
WriteErr(cmd, op, path) ==
    [cmd EXCEPT !.err = path, !.errAppend = (op = "2>>"), !.merge = FALSE]
WriteBoth(cmd, path) ==
    [cmd EXCEPT !.out = path, !.append = FALSE,
                !.err = None, !.errAppend = FALSE, !.merge = TRUE]
MergeErr(cmd) == [cmd EXCEPT !.err = None, !.errAppend = FALSE, !.merge = TRUE]

\* Mutant: > leaves the mode of an earlier >>.
WriteOut_keeps_append(cmd, op, path) ==
    [cmd EXCEPT !.out = path, !.append = @ \/ op = ">>"]

WriteOut(cmd, op, path) == [cmd EXCEPT !.out = path, !.append = (op = ">>")]

Redirect(cmd, op, path) ==
    CASE op \in {"<<", "<<-"} -> ReadHere(cmd, op, path)
      [] op = "<"             -> ReadFile(cmd, path)
      [] op \in {">", ">>"}   -> WriteOut(cmd, op, path)
      [] op \in {"2>", "2>>"} -> WriteErr(cmd, op, path)
      [] op = "&>"            -> WriteBoth(cmd, path)

\* A redirection takes the lexeme behind it.
Operand(s, p)   == p > 1 /\ s[p - 1] \in Redirs
PushArg(cmd, x) == [cmd EXCEPT !.argv = Append(@, x)]

\* What lexeme p of s does to the command.
Reads(cmd, s, p) ==
    CASE s[p] \in Redirs -> cmd
      [] Operand(s, p)   -> Redirect(cmd, s[p - 1], s[p])
      [] s[p] = "2>&1"   -> MergeErr(cmd)
      [] OTHER           -> PushArg(cmd, s[p])

\* The command after each of the lexemes of s.
CommandAt(s) ==
    LET at[p \in 0..Len(s)] == IF p = 0 THEN NewCmd ELSE Reads(at[p - 1], s, p)
    IN  at

\* Every redirection has a word behind it, and there is a word to run.
WellFormed(s)  == \A p \in 1..Len(s) : s[p] \in Redirs => IsWord(Lexeme(s, p + 1))
build_stage(s) ==
    LET cmd == CommandAt(s)[Len(s)]
    IN  IF WellFormed(s) /\ cmd.argv # <<>> THEN Parsed(Len(s) + 1, cmd) ELSE Failed

-----------------------------------------------------------------------------
(* Here-documents: those of a command that is redirected more than once are  *)
(* all read, and the body of the last one stays.                             *)

cmd_pending(cmd) == cmd.delim # None /\ cmd.feed < Len(cmd.skip) + 1

\* Document n of a command, of all its documents.
Documents(cmd) == IF cmd.delim = None THEN 0 ELSE Len(cmd.skip) + 1
Delim(cmd, n)  == IF n <= Len(cmd.skip) THEN cmd.skip[n] ELSE cmd.delim

\* A line ends document n, or the one that the command reads now.
Stripped(cmd, line)   == IF cmd.strip THEN [line EXCEPT !.tab = FALSE] ELSE line
EndsDoc(cmd, n, line) == Stripped(cmd, line) = [tab |-> FALSE, text |-> Delim(cmd, n)]
Ends(cmd, line)       == EndsDoc(cmd, cmd.feed + 1, line)

\* Mutant: the test of the ceiling comes one line late.
Fits_late(cmd, line) == Ends(cmd, line) \/ Len(cmd.body) <= MaxBody

\* The ceiling: a line that does not fit in the body is an error.
Fits(cmd, line) == Ends(cmd, line) \/ Len(cmd.body) < MaxBody

\* Mutant: the body of a skipped here-document stays.
cmd_feed_keeps(cmd, line) ==
    IF Ends(cmd, line) THEN [cmd EXCEPT !.feed = @ + 1]
    ELSE [cmd EXCEPT !.body = Append(@, Stripped(cmd, line))]

cmd_feed(cmd, line) ==
    IF Ends(cmd, line)
    THEN [cmd EXCEPT !.feed = @ + 1, !.body = IF cmd.feed < Len(cmd.skip) THEN <<>> ELSE @]
    ELSE [cmd EXCEPT !.body = Append(@, Stripped(cmd, line))]

-----------------------------------------------------------------------------
(* What the lexemes of a command mean                                        *)

\* The last redirection of s among ops, and the word behind it.
LastOp(s, ops) == SelectLastInSeq(s, LAMBDA x : x \in ops)
PathAt(s, i)   == IF i = 0 \/ s[i] = "2>&1" THEN None ELSE s[i + 1]

\* The last redirection of a stream wins, over &> and 2>&1 too, and takes its
\* mode with it.
StreamsOf(s, cmd) ==
    LET o == LastOp(s, {">", ">>", "&>"})
        e == LastOp(s, {"2>", "2>>", "2>&1", "&>"})
        i == LastOp(s, {"<", "<<", "<<-"})
    IN  /\ cmd.out = PathAt(s, o)
        /\ cmd.append = (o # 0 /\ s[o] = ">>")
        /\ cmd.merge = (e # 0 /\ s[e] \in {"2>&1", "&>"})
        /\ cmd.err = (IF cmd.merge THEN None ELSE PathAt(s, e))
        /\ cmd.errAppend = (e # 0 /\ s[e] = "2>>")
        /\ cmd.in = (IF i # 0 /\ s[i] = "<" THEN s[i + 1] ELSE None)
        /\ cmd.delim = (IF i # 0 /\ s[i] # "<" THEN s[i + 1] ELSE None)
        /\ cmd.strip = (i # 0 /\ s[i] = "<<-")

\* The place of p in the order of a set of positions.
Rank(set, p) == Cardinality({q \in set : q <= p})

\* The here-documents that no < behind them cancels are the documents of the
\* command, in order.
Heres(s) ==
    {p \in 1..Len(s) : s[p] \in {"<<", "<<-"} /\ \A q \in p..Len(s) : s[q] # "<"}
DocumentsOf(s, cmd) ==
    /\ Documents(cmd) = Cardinality(Heres(s))
    /\ \A p \in Heres(s) : Delim(cmd, Rank(Heres(s), p)) = s[p + 1]

\* All that is no redirection, nor belongs to one, is an argument, in order.
Arguments(s) ==
    {p \in 1..Len(s) : s[p] \notin Redirs \cup {"2>&1"} /\ ~Operand(s, p)}
ArgumentsOf(s, cmd) ==
    /\ Len(cmd.argv) = Cardinality(Arguments(s))
    /\ \A p \in Arguments(s) : cmd.argv[Rank(Arguments(s), p)] = s[p]

StageMeans(s, cmd) == StreamsOf(s, cmd) /\ DocumentsOf(s, cmd) /\ ArgumentsOf(s, cmd)
=============================================================================
