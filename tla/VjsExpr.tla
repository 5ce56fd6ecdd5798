------------------------------ MODULE VjsExpr -------------------------------
(***************************************************************************)
(* How Parser::expr groups the expressions of a flow (core/src/vjs.rs),    *)
(* against a definition by where an expression falls apart.  The tokens of *)
(* an expression are typed one after the other.                            *)
(***************************************************************************)
EXTENDS Integers, Sequences, FiniteSets

CONSTANTS
    Operators, \* binary operators in use
    MaxTokens  \* bound: tokens of an expression

VARIABLE toks  \* the expression typed so far

\* Trees are tuples with the constructor first; an operand is "x".
Power(op) ==
    CASE op = "or" -> 1 [] op = "and" -> 2 [] op = "??" -> 3
      [] op \in {"==", "<", "in"} -> 4 [] op \in {"+", "-"} -> 5 [] op \in {"*", "/"} -> 6
Prefixes == {"not", "-"}
Failed   == [at |-> 0, e |-> <<"none">>]

\* A bracket after an operand filters by a comparison and indexes by anything else.
IsFilter(e) == e[1] = "not" \/ (e[1] = "bin" /\ e[2] \in {"==", "<", "in", "and", "or"})
Bracket(base, inner) == IF IsFilter(inner) THEN <<"filter", base, inner>> ELSE <<"index", base, inner>>

\* Parser::expr over t from i, for operators that bind tighter than min.  A result
\* holds the tree and the position after it, 0 when there is a syntax error.
RECURSIVE expr(_, _, _), Postfix(_, _), Climb(_, _, _)
At(t, i) == IF i \in DOMAIN t THEN t[i] ELSE "\n"
Postfix(t, lhs) ==
    LET inner == expr(t, lhs.at + 1, 0)
    IN  CASE lhs.at = 0 \/ At(t, lhs.at) # "[" -> lhs
          [] lhs.at # 0 /\ At(t, lhs.at) = "[" /\ At(t, lhs.at + 1) = "]" ->
               Postfix(t, [at |-> lhs.at + 2, e |-> <<"proj", lhs.e>>])
          [] OTHER -> IF inner.at # 0 /\ At(t, inner.at) = "]"
                      THEN Postfix(t, [at |-> inner.at + 1, e |-> Bracket(lhs.e, inner.e)])
                      ELSE Failed
Stops(bp, min)      == bp <= min
Climb(t, lhs, min) ==
    LET op  == At(t, lhs.at)
        rhs == expr(t, lhs.at + 1, Power(op))
    IN  IF lhs.at = 0 \/ op \notin Operators THEN lhs
        ELSE IF Stops(Power(op), min) THEN lhs
        ELSE IF rhs.at = 0 THEN Failed
        ELSE Climb(t, [at |-> rhs.at, e |-> <<"bin", op, lhs.e, rhs.e>>], min)
expr(t, i, min) ==
    LET un    == expr(t, i + 1, 9)
        group == expr(t, i + 1, 0)
        first == CASE At(t, i) = "x" -> [at |-> i + 1, e |-> <<"var">>]
                   [] At(t, i) \in Prefixes ->
                        IF un.at = 0 THEN Failed ELSE [at |-> un.at, e |-> <<At(t, i), un.e>>]
                   [] At(t, i) = "(" ->
                        IF group.at # 0 /\ At(t, group.at) = ")" THEN [group EXCEPT !.at = @ + 1] ELSE Failed
                   [] OTHER -> Failed
    IN  Climb(t, Postfix(t, first), min)

\* The reference: an expression is split at the operator that binds least, the last
\* one of them; without one, a prefix applies to all that follows it; then come the
\* brackets at the end, and the parentheses.
Depth(t, i) == Cardinality({j \in 1..i : t[j] \in {"(", "["}}) - Cardinality({j \in 1..i : t[j] \in {")", "]"}})
Operand(t, i)  == i \in DOMAIN t /\ t[i] \in {"x", ")", "]"}
Splits(t)  == {i \in DOMAIN t : Depth(t, i) = 0 /\ t[i] \in Operators /\ Operand(t, i - 1)}
RECURSIVE Reads(_)
Reads(t) ==
    LET least  == {i \in Splits(t) : \A j \in Splits(t) : Power(t[i]) <= Power(t[j])}
        split  == CHOOSE i \in least : \A j \in least : j <= i
        opens  == CHOOSE i \in DOMAIN t : t[i] = "[" /\ Depth(t, i) = 1
                     /\ \A j \in i+1..Len(t) - 1 : Depth(t, j) >= 1
        base   == Reads(SubSeq(t, 1, opens - 1))
        inner  == SubSeq(t, opens + 1, Len(t) - 1)
    IN  CASE Splits(t) # {} -> <<"bin", t[split], Reads(SubSeq(t, 1, split - 1)), Reads(SubSeq(t, split + 1, Len(t)))>>
          [] Splits(t) = {} /\ t[1] \in Prefixes -> <<t[1], Reads(Tail(t))>>
          [] Splits(t) = {} /\ t[1] \notin Prefixes /\ t[Len(t)] = "]" ->
               IF inner = <<>> THEN <<"proj", base>> ELSE Bracket(base, Reads(inner))
          [] Splits(t) = {} /\ t[1] = "(" /\ t[Len(t)] = ")" -> Reads(SubSeq(t, 2, Len(t) - 1))
          [] OTHER -> <<"var">>

-----------------------------------------------------------------------------
Init == toks = <<>>

\* What may follow: an operand, a prefix or an opening bracket where an operand is
\* due, and an operator or a bracket after one.
Opened(t) == t[CHOOSE i \in DOMAIN t : t[i] \in {"(", "["} /\ Depth(t, i) = Depth(t, Len(t))
                   /\ \A j \in i..Len(t) : Depth(t, j) >= Depth(t, i)]
Follows(t) ==
    IF Operand(t, Len(t))
    THEN Operators \cup {"["} \cup
           (IF Depth(t, Len(t)) = 0 THEN {} ELSE IF Opened(t) = "(" THEN {")"} ELSE {"]"})
    ELSE {"x", "("} \cup Prefixes \cup (IF t # <<>> /\ t[Len(t)] = "[" THEN {"]"} ELSE {})
Type(c) ==
    /\ Len(toks) < MaxTokens
    /\ c \in Follows(toks)
    /\ toks' = Append(toks, c)
Next == \E c \in Operators \cup Prefixes \cup {"x", "(", ")", "[", "]"} : Type(c)
Spec == Init /\ [][Next]_toks

Complete == Operand(toks, Len(toks)) /\ Depth(toks, Len(toks)) = 0

\* A complete expression is read to its end, and grouped as the powers of its
\* operators say: to the left among equals, prefixes tighter than any of them, and
\* what is in brackets on its own.
GroupsAsItReads == Complete => expr(toks, 1, 0) = [at |-> Len(toks) + 1, e |-> Reads(toks)]
=============================================================================
