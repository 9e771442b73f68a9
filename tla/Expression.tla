----------------------------- MODULE Expression -----------------------------
(***************************************************************************)
(* The tree an expression is read into (adapter/syntax/expr.go), for every *)
(* sequence of tokens up to a length.  The parser's three levels are       *)
(* recursive operators that return the tree and the place they stopped at. *)
(* A statement's terminator follows the tokens.  A number is "n", with its *)
(* unit; a name is "a".  The reference is the set of readings: the trees   *)
(* that yield the tokens and respect the ranks of the operators.           *)
(***************************************************************************)
EXTENDS Integers, Sequences, FiniteSets

CONSTANTS
  Alphabet,   \* the tokens tried, of n a + - * / ( ) . >
  MaxTokens   \* bound on the length of an expression

VARIABLE toks

Kind(at) == IF at <= Len(toks) THEN toks[at] ELSE ";"

Leaf(words) == [op |-> "leaf", words |-> words]
Binary(op, left, right) == [op |-> op, left |-> left, right |-> right]

Read(tree, at) == [ok |-> TRUE, tree |-> tree, at |-> at]
Refused(at) == [ok |-> FALSE, tree |-> Leaf(<<>>), at |-> at]

-----------------------------------------------------------------------------
(* The parser. *)

IsArrow(at) == Kind(at) = "-" /\ Kind(at + 1) = ">"

ParseLiteral(at) ==
  LET number == IF Kind(at) = "-" THEN at + 1 ELSE at
  IN  IF Kind(number) = "n"
      THEN Read(Leaf(SubSeq(toks, at, number)), number + 1)
      ELSE Refused(number)

RECURSIVE ParseChain(_, _)
ParseChain(from, at) ==
  CASE Kind(at) # "a" -> Refused(at)
    [] Kind(at) = "a" /\ Kind(at + 1) = "." -> ParseChain(from, at + 2)
    [] OTHER -> Read(Leaf(SubSeq(toks, from, at)), at + 1)

RECURSIVE ParseExpr(_), ParseTerm(_), ParsePrimary(_), MoreTerms(_), MoreFactors(_)

ParsePrimary(at) ==
  CASE Kind(at) \in {"n", "-"} -> ParseLiteral(at)
    [] Kind(at) = "a" -> ParseChain(at, at)
    [] Kind(at) = "(" ->
         LET inner == ParseExpr(at + 1)
         IN  IF inner.ok /\ Kind(inner.at) = ")"
             THEN Read(inner.tree, inner.at + 1)
             ELSE Refused(inner.at)
    [] OTHER -> Refused(at)

MoreFactors(left) ==
  IF ~left.ok \/ Kind(left.at) \notin {"*", "/"} THEN left
  ELSE LET right == ParsePrimary(left.at + 1)
       IN  IF right.ok
           THEN MoreFactors(Read(Binary(Kind(left.at), left.tree, right.tree), right.at))
           ELSE right

ParseTerm(at) == MoreFactors(ParsePrimary(at))

\* Seeded fault: what follows the operator is read as a whole expression.
MoreTermsRight(left) ==
  IF ~left.ok \/ Kind(left.at) \notin {"+", "-"} \/ IsArrow(left.at) THEN left
  ELSE LET right == ParseExpr(left.at + 1)
       IN  IF right.ok
           THEN Read(Binary(Kind(left.at), left.tree, right.tree), right.at)
           ELSE right

MoreTerms(left) ==
  IF ~left.ok \/ Kind(left.at) \notin {"+", "-"} \/ IsArrow(left.at) THEN left
  ELSE LET right == ParseTerm(left.at + 1)
       IN  IF right.ok
           THEN MoreTerms(Read(Binary(Kind(left.at), left.tree, right.tree), right.at))
           ELSE right

ParseExpr(at) == MoreTerms(ParseTerm(at))

-----------------------------------------------------------------------------
(* The reference. *)

Rank(op) == CASE op \in {"+", "-"} -> 1 [] op \in {"*", "/"} -> 2 [] OTHER -> 3

IsLiteral(s) == s = <<"n">> \/ s = <<"-", "n">>
IsChain(s) ==
  /\ Len(s) % 2 = 1
  /\ \A i \in DOMAIN s : s[i] = IF i % 2 = 1 THEN "a" ELSE "."

\* A group keeps the tree within it and ranks with the leaves.
RECURSIVE Readings(_)
Readings(s) ==
  {[rank |-> 3, tree |-> Leaf(w)] : w \in {x \in {s} : IsLiteral(x) \/ IsChain(x)}}
  \cup (IF Len(s) > 2 /\ s[1] = "(" /\ s[Len(s)] = ")"
        THEN {[rank |-> 3, tree |-> r.tree] : r \in Readings(SubSeq(s, 2, Len(s) - 1))}
        ELSE {})
  \cup UNION {{[rank |-> Rank(s[i]), tree |-> Binary(s[i], l.tree, r.tree)] :
                 l \in {x \in Readings(SubSeq(s, 1, i - 1)) : x.rank >= Rank(s[i])},
                 r \in {x \in Readings(SubSeq(s, i + 1, Len(s))) : x.rank > Rank(s[i])}} :
              i \in {j \in 2..(Len(s) - 1) : s[j] \in {"+", "-", "*", "/"}}}

-----------------------------------------------------------------------------
Init == toks = <<>>

Append1 == Len(toks) < MaxTokens /\ \E t \in Alphabet : toks' = Append(toks, t)

Spec == Init /\ [][Append1]_toks

ReadsTheOneReading ==
  LET parsed == ParseExpr(1)
      readings == Readings(toks)
  IN  IF parsed.ok /\ parsed.at = Len(toks) + 1
      THEN {r.tree : r \in readings} = {parsed.tree}
      ELSE readings = {}

ArrowEndsTheExpression ==
  \A i \in 2..Len(toks) :
    IsArrow(i) /\ Readings(SubSeq(toks, 1, i - 1)) # {} => ParseExpr(1).ok /\ ParseExpr(1).at = i

\* An expression is accepted when it has a reading, and then the tree is that
\* reading, the only one: the levels give the operators their ranks and group
\* equals to the left, and a minus after an operator is a sign (expr.go:17-84).
\* An arrow is "refused where the statement's terminator was due rather than
\* inside the expression" (expr.go:7-8).
ReadsAsWritten == ReadsTheOneReading /\ ArrowEndsTheExpression
=============================================================================
