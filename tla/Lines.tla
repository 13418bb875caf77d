------------------------------- MODULE Lines --------------------------------
(***************************************************************************)
(* The two readers of lines: run_file_lines of mid/source.c with           *)
(* fill_heredocs, and the loop of main.c, which does not read the bodies   *)
(* of here-documents.  A line is parsed, its here-documents are filled     *)
(* from the lines that follow, and only then the list is dispatched.       *)
(***************************************************************************)
EXTENDS Parser, Heredocs

CONSTANT Inputs   \* the lines: [line, tree], with the tree it was printed from, if any

Unprinted == <<>>

\* Heredocs has the line, the phase, and what the here-documents were given;
\* its cmds are all commands of the tree.
VARIABLES
    prompt,   \* the reader is the loop of main
    meant,    \* the tree that the line was printed from
    ok,       \* what petrush_parse_list returned, and its tree
    list

vars == <<prompt, meant, ok, list, line, cmds, phase, fed, cut>>

\* All commands of a tree, in the order of the text.
RECURSIVE CmdsOf(_)
CmdsOf(t) == FlattenSeq([i \in 1..Len(t) |->
                 t[i].cmds \o FlattenSeq([k \in 1..Len(t[i].parts) |-> CmdsOf(t[i].parts[k])])])

Init ==
    /\ prompt \in BOOLEAN
    /\ meant = Unprinted /\ ok = TRUE /\ list = <<>>
    /\ DocInit

\* A line is read and parsed.  At the prompt a pending here-document is refused.
Read ==
    /\ phase = "read"
    /\ \E input \in Inputs :
         LET r == petrush_parse_list(input.line)
         IN  /\ line' = input.line /\ meant' = input.tree
             /\ ok' = r.ok
             /\ list' = IF r.ok THEN r.tree ELSE <<>>
             /\ phase' = IF ~r.ok \/ (prompt /\ list_pending(r.tree)) THEN "refused"
                         ELSE IF list_pending(r.tree) THEN "fill" ELSE "run"
    /\ cmds' = CmdsOf(list')
    /\ fed' = <<>> /\ cut' = [k \in 1..Len(cmds') |-> <<>>]
    /\ UNCHANGED prompt

\* petrush_heredoc_feed_line; a body at its ceiling ends the file.
FeedLine(l) ==
    /\ phase = "fill"
    /\ IF ~Fits(Waiting(list), l)
       THEN phase' = "quit" /\ UNCHANGED <<list, cmds, fed, cut>>
       ELSE /\ list' = FeedList(list, l) /\ cmds' = CmdsOf(list')
            /\ fed' = Append(fed, l)
            /\ cut' = IF Ends(Waiting(list), l)
                      THEN [cut EXCEPT ![FirstPending(cmds, cmd_pending)] =
                                           Append(@, Len(fed) + 1)]
                      ELSE cut
            /\ phase' = IF list_pending(list') THEN "fill" ELSE "run"
    /\ UNCHANGED <<prompt, line, meant, ok>>

\* The end of the file: an error in a here-document, the end otherwise.
EndOfFile ==
    /\ phase \in {"read", "fill"}
    /\ phase' = "quit"
    /\ UNCHANGED <<prompt, line, meant, ok, list, cmds, fed, cut>>

\* The list is dispatched, or the line is refused with a message; the next line.
NextLine ==
    /\ phase \in {"run", "refused"}
    /\ phase' = "read" /\ line' = <<>> /\ meant' = Unprinted /\ ok' = TRUE
    /\ list' = <<>> /\ cmds' = <<>> /\ fed' = <<>> /\ cut' = <<>>
    /\ UNCHANGED prompt

Next ==
    \/ Read
    \/ \E l \in BodyLines : FeedLine(l)
    \/ EndOfFile
    \/ NextLine

Spec == Init /\ [][Next]_vars

-----------------------------------------------------------------------------
(* Reference: the text of a tree                                             *)

TextOfRedir(op, path) == IF path = None THEN <<>> ELSE <<op, path>>
HereOp(cmd) == IF cmd.strip THEN "<<-" ELSE "<<"

TextOfCmd(cmd) ==
    cmd.argv \o FlattenSeq([k \in 1..Len(cmd.skip) |-> <<HereOp(cmd), cmd.skip[k]>>])
             \o TextOfRedir(HereOp(cmd), cmd.delim)
             \o TextOfRedir("<", cmd.in)
             \o TextOfRedir(IF cmd.append THEN ">>" ELSE ">", cmd.out)
             \o TextOfRedir(IF cmd.errAppend THEN "2>>" ELSE "2>", cmd.err)
             \o (IF cmd.merge THEN <<"2>&1">> ELSE <<>>)

Between(texts, x) ==
    FlattenSeq([k \in 1..Len(texts) |-> IF k = 1 THEN texts[k] ELSE <<x>> \o texts[k]])

\* The last ; may be left out in front of ;;.
Unclosed(text) == IF text # <<>> /\ Last(text) = ";" THEN Front(text) ELSE text

RECURSIVE Text(_)

Branches(parts) ==
    FlattenSeq([k \in 1..Len(parts) |->
        (IF k % 2 = 0 THEN <<"then">>
         ELSE IF k = 1 THEN <<"if">> ELSE IF k = Len(parts) THEN <<"else">> ELSE <<"elif">>)
        \o Text(parts[k])])

TextOf(it) ==
    CASE it.kind = "pipeline" -> Between([k \in 1..Len(it.cmds) |-> TextOfCmd(it.cmds[k])], "|")
      [] it.kind = "if"       -> Branches(it.parts) \o <<"fi">>
      [] it.kind = "while"    -> <<"while">> \o Text(it.parts[1]) \o <<"do">>
                                             \o Text(it.parts[2]) \o <<"done">>
      [] it.kind = "for"      -> <<"for">> \o it.head[1] \o <<"in">> \o it.head[2]
                                 \o <<";", "do">> \o Text(it.parts[1]) \o <<"done">>
      [] it.kind = "case"     -> <<"case">> \o it.head[1] \o <<"in">>
                                 \o FlattenSeq([k \in 1..Len(it.parts) |->
                                      Between([j \in 1..Len(it.head[k + 1]) |->
                                                 <<it.head[k + 1][j]>>], "|")
                                      \o <<")">> \o Unclosed(Text(it.parts[k])) \o <<";;">>])
                                 \o <<"esac">>
      [] it.kind = "dbracket" -> <<"[[">> \o it.head[1] \o <<"]]">>
      [] it.kind = "fn"       -> it.head[1] \o <<"(", ")", "{">> \o Text(it.parts[1]) \o <<"}">>

\* Every item is closed by its connector, or by ; for want of one.
Text(t) ==
    FlattenSeq([i \in 1..Len(t) |->
        TextOf(t[i]) \o <<IF t[i].bg THEN "&"
                          ELSE IF i < Len(t) /\ t[i + 1].cond # ";" THEN t[i + 1].cond
                          ELSE ";">>])

-----------------------------------------------------------------------------
(* Properties: those of Heredocs, which the readers implement, and these *)

\* What a program text means to its writer is what the parser makes of it:
\* the text of a tree is understood, as that tree.
MeansWhatItSays == (meant # Unprinted /\ fed = <<>>) => (ok /\ list = meant)

\* Lexemes that a tree does not keep: separators and forms with one meaning.
Noise == {";", ";;", "function", "(", ")"}
Skeleton(s) ==
    SelectSeq([i \in 1..Len(s) |->
                 IF s[i] \in Redirs \cup {"2>&1"} \/ (i > 1 /\ s[i - 1] \in Redirs) THEN ";"
                 ELSE s[i]], LAMBDA x : x \notin Noise)

\* Nothing that was typed is dropped, moved or run twice: an accepted line,
\* well-formed or not, has the words, keywords and connectors of its tree in
\* the same order.
NothingLost == ok => Skeleton(line) = Skeleton(Text(list))
=============================================================================
