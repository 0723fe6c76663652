------------------------------ MODULE Evaluator ------------------------------
(***************************************************************************)
(* What a formula computes, and what it reads (src/dsl/evaluator.cpp).  A  *)
(* tree is given as what stands in the place of each of its nodes: Parsed, *)
(* or folded.  `lookup' is the callback of the context: the number of      *)
(* every name.                                                             *)
(***************************************************************************)
EXTENDS Parser

\* logicalValue: NaN counts as false.
IsTrue(x) == x # 0 /\ x # NaN
Truth(holds) == IF holds THEN One ELSE 0

Logic(op, x, y) ==
    Truth(CASE op = "&&" -> IsTrue(x) /\ IsTrue(y)
            [] op = "||" -> IsTrue(x) \/ IsTrue(y)
            [] op = "==" -> Equal(x, y)
            [] op = "!=" -> ~Equal(x, y)
            [] op = "<"  -> Below(x, y)
            [] op = "<=" -> Below(x, y) \/ Equal(x, y)
            [] op = ">"  -> Below(y, x)
            [] op = ">=" -> Below(y, x) \/ Equal(x, y))

EvaluateUnary(op, x) ==
    CASE op = "+" -> x
      [] op = "-" -> Negate(x)
      [] op = "!" -> Truth(~IsTrue(x))

EvaluateBinary(op, x, y) ==
    CASE op = "+" -> Plus(x, y)
      [] op = "-" -> Minus(x, y)
      [] op = "*" -> Times(x, y)
      [] op = "/" -> DividedBy(x, y)
      [] op = "^" -> Power(x, y)
      [] OTHER    -> Logic(op, x, y)

\* root(index, value) is the only function there is.
EvaluateCall(index, number) == Power(number, DividedBy(One, index))
Callable(k) == TokenOf(k).lexeme = <<"root">> /\ Len(OperandsOf(k)) = 2

\* What an evaluation comes to: a number, or unreachable(), which ends the process.
Result(x) == [ends |-> FALSE, value |-> x]
Unreachable == [ends |-> TRUE, value |-> 0]

\* A node whose operands are evaluated.  Both operands of a binary operator are,
\* also of && and ||; of a conditional only the branch that is taken.
EvaluateNode(k, x, lookup) ==
    IF Op(k) = "?"
    THEN IF x[1].ends THEN Unreachable ELSE IF IsTrue(x[1].value) THEN x[2] ELSE x[3]
    ELSE IF \E i \in DOMAIN x : x[i].ends THEN Unreachable
    ELSE CASE Op(k) = "NodeRef" -> Result(lookup[TokenOf(k).lexeme])
           [] IsUnary(k)        -> Result(EvaluateUnary(Op(k), x[1].value))
           [] IsBinary(k)       -> Result(EvaluateBinary(Op(k), x[1].value, x[2].value))
           [] OTHER             -> IF Callable(k) THEN Result(EvaluateCall(x[1].value, x[2].value))
                                   ELSE Unreachable

\* evaluate, for what stands in each place of a tree.
Evaluate(stands, lookup) ==
    LET value[k \in DOMAIN nodes] ==
            IF IsLiteral(stands[k]) THEN Result(stands[k].value)
            ELSE LET n == stands[k].value
                 IN  EvaluateNode(n, [i \in DOMAIN OperandsOf(n) |-> value[OperandsOf(n)[i]]], lookup)
    IN  value

-----------------------------------------------------------------------------
\* Wrong variant: the last operand of a conditional is forgotten.
Children_NoElse(stands, k) ==
    IF IsLiteral(stands[k]) THEN {}
    ELSE {OperandsOf(stands[k].value)[i] : i \in DOMAIN OperandsOf(stands[k].value) \ {3}}

\* The places of the operands of what stands in a place.
Children(stands, k) ==
    IF IsLiteral(stands[k]) THEN {} ELSE Range(OperandsOf(stands[k].value))

\* The queue of extractDependencies, started with k: the least set with k that
\* no operand leaves.
Queue(stands, k) ==
    {n \in DOMAIN nodes :
        \A S \in SUBSET DOMAIN nodes :
            k \in S /\ (\A m \in S : Children(stands, m) \subseteq S) => n \in S}

\* extractDependencies.  The vector is sorted and without duplicates, so it is
\* the set that matters.
ExtractDependencies(stands, k) ==
    {TokenOf(stands[n].value).lexeme :
        n \in {m \in Queue(stands, k) : ~IsLiteral(stands[m]) /\ Op(stands[m].value) = "NodeRef"}}
=============================================================================
