------------------------------- MODULE Arith --------------------------------
(***************************************************************************)
(* The evaluator of $(( )) in mid/expand.c and the matcher of * and ?.     *)
(*                                                                         *)
(* An expression is a sequence of tokens: an operator, a parenthesis, or   *)
(* <<"num", n>>, the value of a numeral, a name or a parameter.  Integers  *)
(* have Width bits; the build wraps sums and products, and the division    *)
(* of the lowest integer by -1 stops the process with SIGFPE.              *)
(***************************************************************************)
EXTENDS Integers, Sequences, SequencesExt

CONSTANT Width

Highest == 2^(Width - 1) - 1
Lowest  == -Highest - 1
Wrap(n) == ((n - Lowest) % 2^Width) + Lowest

\* arith_value_from_text: a numeral out of range counts as 0.
FromNumeral(n) == IF n \in Lowest..Highest THEN n ELSE 0

\* Division of C: towards zero.
Abs(n)     == IF n < 0 THEN -n ELSE n
Quot(a, b) == IF (a < 0) = (b < 0) THEN Abs(a) \div Abs(b) ELSE -(Abs(a) \div Abs(b))
Rem(a, b)  == a - b * Quot(a, b)

Token(s, p) == IF p <= Len(s) THEN s[p] ELSE <<"end">>
Ok(p, v)    == [err |-> "ok", at |-> p, val |-> v]
Error(e)    == [err |-> e, at |-> 0, val |-> 0]

Times == {<<"*">>, <<"/">>, <<"%">>}
Plus  == {<<"+">>, <<"-">>}

\* What one operator makes of its operands, if the right one was read.
Multiplied(left, op, r) ==
    IF r.err # "ok" THEN r
    ELSE IF op = <<"*">> THEN Ok(r.at, Wrap(left * r.val))
    ELSE IF r.val = 0 THEN Error("div0")
    ELSE IF left = Lowest /\ r.val = -1 THEN Error("trap")
    ELSE Ok(r.at, IF op = <<"/">> THEN Quot(left, r.val) ELSE Rem(left, r.val))

Added(left, op, r) ==
    IF r.err # "ok" THEN r
    ELSE Ok(r.at, Wrap(IF op = <<"+">> THEN left + r.val ELSE left - r.val))

Signed(op, r) == IF r.err = "ok" /\ op = <<"-">> THEN Ok(r.at, Wrap(-r.val)) ELSE r

\* The parenthesis behind the expression in.
Closed(s, in) ==
    IF in.err # "ok" THEN in
    ELSE IF Token(s, in.at) = <<")">> THEN Ok(in.at + 1, in.val) ELSE Error("syntax")

\* The parsers call each other: parse is what they return for an operand at a
\* position, and for the loops of products and sums from what was read so far on.
Results == [err : {"ok", "syntax", "div0", "trap"}, at : Nat, val : Int]
Calls   == ({"unary"} \X Nat) \cup ({"term", "expr"} \X Results)

arith_parse_term(p, parse) == parse[<<"term", parse[<<"unary", p>>]>>]
arith_parse_expr(p, parse) == parse[<<"expr", arith_parse_term(p, parse)>>]

Primary(s, p, parse) ==
    CASE Token(s, p)[1] = "num" -> Ok(p + 1, s[p][2])
      [] Token(s, p) = <<"(">>  -> Closed(s, arith_parse_expr(p + 1, parse))
      [] OTHER                  -> Error("syntax")

Unary(s, p, parse) ==
    IF Token(s, p) \in Plus THEN Signed(s[p], parse[<<"unary", p + 1>>])
    ELSE Primary(s, p, parse)

\* The loops of arith_parse_term and arith_parse_expr, from a left operand on.
TermFrom(s, left, parse) ==
    IF left.err # "ok" \/ Token(s, left.at) \notin Times THEN left
    ELSE parse[<<"term", Multiplied(left.val, s[left.at], parse[<<"unary", left.at + 1>>])>>]
SumFrom(s, left, parse) ==
    IF left.err # "ok" \/ Token(s, left.at) \notin Plus THEN left
    ELSE parse[<<"expr", Added(left.val, s[left.at], arith_parse_term(left.at + 1, parse))>>]

ParserOf(s) ==
    LET parse[call \in Calls] ==
            CASE call[1] = "unary" -> Unary(s, call[2], parse)
              [] call[1] = "term"  -> TermFrom(s, call[2], parse)
              [] call[1] = "expr"  -> SumFrom(s, call[2], parse)
    IN  parse

\* Nothing may be left behind the expression.
ToTheEnd(s, r) == IF r.err = "ok" /\ r.at <= Len(s) THEN Error("syntax") ELSE r

eval_arith(s) == IF s = <<>> THEN Ok(1, 0) ELSE ToTheEnd(s, arith_parse_expr(1, ParserOf(s)))

-----------------------------------------------------------------------------
(* petrush_glob_match: * and ? in a pattern, with one point to return to     *)

Star    == <<"chr", "*">>
AnyByte == <<"chr", "?">>

match_pat(pat, str) ==
    LET from[p, starP \in 0..Len(pat) + 1, s, starS \in 0..Len(str) + 1] ==
            IF s > Len(str) THEN \A i \in p..Len(pat) : pat[i] = Star
            ELSE IF p <= Len(pat) /\ pat[p] = Star
            THEN p = Len(pat) \/ from[p + 1, p + 1, s, s]
            ELSE IF p <= Len(pat) /\ pat[p] \in {AnyByte, str[s]}
            THEN from[p + 1, starP, s + 1, starS]
            ELSE starP # 0 /\ from[starP, starP, starS + 1, starS + 1]
    IN  from[1, 0, 1, 0]
=============================================================================
