------------------------------- MODULE Tests --------------------------------
(***************************************************************************)
(* The conditions of mid/dispatcher.c on expanded words: [[ ]], test, and  *)
(* the choice of an arm of case.  A status is 0 (true), 1 (false) or 2 (an *)
(* error).  An operator is a text of one atom.                             *)
(***************************************************************************)
EXTENDS Expand

Op(o) == <<Chr(o)>>

UnaryOps == {Op(o) : o \in {"-f", "-d", "-e", "-z", "-n"}}
TextOps  == {Op(o) : o \in {"=", "==", "!="}}
NumOps   == {Op(o) : o \in {"-eq", "-ne", "-lt", "-gt"}}
Joins    == {Op("&&"), Op("||")}

Status01(b) == IF b THEN 0 ELSE 1
Exists(t)   == DirOf(t) \in DOMAIN Dirs /\ BaseOf(t) \in Dirs[DirOf(t)]

feat_test_unary(op, t) ==
    CASE op = Op("-z") -> Status01(t = <<>>)
      [] op = Op("-n") -> Status01(t # <<>>)
      [] op = Op("-e") -> Status01(Exists(t))
      [] op = Op("-d") -> Status01(t \in DOMAIN Dirs)
      [] op = Op("-f") -> Status01(Exists(t) /\ t \notin DOMAIN Dirs)
      [] OTHER         -> 2

IsNumeral(t) == Len(t) = 1 /\ t[1][1] = "num" /\ t[1][2] \in Lowest..Highest

Compare(a, op, b) ==
    CASE op = Op("-eq") -> Status01(a = b)
      [] op = Op("-ne") -> Status01(a # b)
      [] op = Op("-lt") -> Status01(a < b)
      [] op = Op("-gt") -> Status01(a > b)
      [] OTHER          -> 2

feat_test_binary(l, op, r) ==
    CASE op = Op("=")  -> Status01(l = r)
      [] op = Op("!=") -> Status01(l # r)
      [] OTHER         -> IF IsNumeral(l) /\ IsNumeral(r)
                          THEN Compare(l[1][2], op, r[1][2]) ELSE 2

\* test and [ ], from argv.
builtin_test(argv) ==
    LET bracket == argv[1] = Op("[")
        args    == SubSeq(argv, 2, IF bracket THEN Len(argv) - 1 ELSE Len(argv))
    IN  IF bracket /\ (Len(argv) < 2 \/ Last(argv) # Op("]")) THEN 2
        ELSE CASE Len(args) = 0 -> 1
               [] Len(args) = 1 -> Status01(args[1] # <<>>)
               [] Len(args) = 2 -> feat_test_unary(args[1], args[2])
               [] Len(args) = 3 -> feat_test_binary(args[1], args[2], args[3])
               [] OTHER         -> 2

-----------------------------------------------------------------------------
(* [[ ]]: words with their quotes; a position moves over them                *)

dbr_str_cmp(l, op, r) ==
    LET eq == IF r.quoted = 0 THEN match_pat(r.text, l.text) ELSE l.text = r.text
    IN  Status01(eq # (op = Op("!=")))

IsUnaryAt(s, i)  == i + 1 <= Len(s) /\ s[i].text \in UnaryOps
IsBinaryAt(s, i) == i + 2 <= Len(s) /\ s[i + 1].text \in TextOps \cup NumOps

\* How many words the term at i has, behind its !.
Primary_size(s, i) == IF IsUnaryAt(s, i) THEN 2 ELSE IF IsBinaryAt(s, i) THEN 3 ELSE 1

dbr_eval_primary(s, i) ==
    CASE i > Len(s)      -> 2
      [] IsUnaryAt(s, i) -> feat_test_unary(s[i].text, s[i + 1].text)
      [] i <= Len(s) /\ ~IsUnaryAt(s, i) /\ IsBinaryAt(s, i)
           -> IF s[i + 1].text \in TextOps THEN dbr_str_cmp(s[i], s[i + 1].text, s[i + 2])
              ELSE feat_test_binary(s[i].text, s[i + 1].text, s[i + 2].text)
      [] OTHER           -> Status01(s[i].text # <<>>)

\* The first word at i or later that is no !.
Bare(s, i) ==
    CHOOSE k \in i..Len(s) + 1 : /\ \A j \in i..k - 1 : s[j].text = Op("!")
                                 /\ k <= Len(s) => s[k].text # Op("!")

\* Mutant: ! turns an error around as well.
Turned_errors(n, st) == IF n % 2 = 0 THEN st ELSE 1 - st

\* An odd number of ! turns a status around, but no error.
Turned(n, st) == IF st = 2 \/ n % 2 = 0 THEN st ELSE 1 - st

dbr_eval_term(s, i) == Turned(Bare(s, i) - i, dbr_eval_primary(s, Bare(s, i)))

TermEnd(s, i) == Bare(s, i) + Primary_size(s, Bare(s, i))

\* Mutant: a term that is skipped still counts.
Takes_always(status, op) == TRUE

\* Whether && and || look at their right side.
Takes(status, op) == (status = 0) = (op = Op("&&"))

\* A round of the loop: at is the next word, and the status so far.
AfterRound(s, at) ==
    IF at.idx > Len(s) THEN at
    ELSE IF s[at.idx].text \notin Joins \/ at.status = 2 THEN [idx |-> Len(s) + 1, status |-> 2]
    ELSE [idx    |-> TermEnd(s, at.idx + 1),
          status |-> IF Takes(at.status, s[at.idx].text) THEN dbr_eval_term(s, at.idx + 1)
                     ELSE IF Bare(s, at.idx + 1) > Len(s) THEN 2 ELSE at.status]
dbr_eval_expr(s) ==
    LET loop[n \in 0..Len(s)] ==
            IF n = 0 THEN [idx |-> TermEnd(s, 1), status |-> dbr_eval_term(s, 1)]
            ELSE AfterRound(s, loop[n - 1])
    IN  IF s = <<>> THEN 1 ELSE loop[Len(s)].status

-----------------------------------------------------------------------------
(* case: the first arm with a pattern that matches, or 0                     *)

SelectArm(word, arms) ==
    SelectInSeq(arms, LAMBDA pats : \E k \in 1..Len(pats) : match_pat(pats[k], word))
=============================================================================
