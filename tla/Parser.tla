-------------------------------- MODULE Parser --------------------------------
(***************************************************************************)
(* The parser of formulas (src/dsl/parser.cpp): precedence climbing over a *)
(* vector of tokens that ends in EndOfFile, and the folding of constants   *)
(* in the tree it makes.                                                   *)
(*                                                                         *)
(* A node of the tree (src/dsl/ast.hpp) has the kind, name and number of   *)
(* the token it is made from, and owns its operands.  Nodes are numbered   *)
(* in the order the code makes them, operands first.  The activations of   *)
(* parsePrimary and parseExpression that wait for an operand are the stack *)
(* `calls'; the running one is reading an operand, or has one in `lhs' and *)
(* is in the loop that extends it.                                         *)
(***************************************************************************)
EXTENDS Tokenizer

VARIABLES at,                \* _pos, counted from one
          calls,             \* who waits for an operand
          lhs,               \* the operand read so far, or None
          nodes,             \* the nodes made so far
          folded             \* what folding puts in their places

treeVars == <<at, calls, lhs, nodes>>
parserVars == <<treeVars, folded>>

None == 0

Arithmetic == {"+", "-", "*", "/", "^"}
Comparison == {"<", "<=", ">", ">=", "==", "!="}
BinaryOperator == Arithmetic \cup Comparison \cup {"&&", "||"}
UnaryOperator == {"+", "-", "!"}

\* Wrong variant: what is no operator binds like the weakest of all.
LeftBindingPower_DefaultZero(kind) ==
    CASE kind = "^" -> 11
      [] kind \in {"*", "/"} -> 9
      [] kind \in {"+", "-"} -> 8
      [] kind \in Comparison -> 7
      [] kind = "&&" -> 6
      [] kind = "||" -> 5
      [] OTHER -> 0

LeftBindingPower(kind) ==
    CASE kind = "^" -> 11
      [] kind \in {"*", "/"} -> 9
      [] kind \in {"+", "-"} -> 8
      [] kind \in Comparison -> 7
      [] kind = "&&" -> 6
      [] kind = "||" -> 5
      [] OTHER -> -1

\* Wrong variant: every operator associates to the right.
RightBindingPower_Same(kind) == LeftBindingPower(kind)

\* All but '^' associate to the left.
RightBindingPower(kind) ==
    IF kind \in BinaryOperator \ {"^"} THEN LeftBindingPower(kind) + 1
    ELSE LeftBindingPower(kind)

-----------------------------------------------------------------------------
\* peek does not go past the last token.
Kind(p) == tokens[IF p < Len(tokens) THEN p ELSE Len(tokens)].kind

\* A call waits for one more operand of what the token in place p makes.
Waiting(role, p, operands) == [role |-> role, token |-> p, operands |-> operands]

\* Wrong variant: what is in parentheses or a branch leaves '||' to its caller.
MinBindingPower_LeavesOr ==
    IF calls = << >> THEN 0
    ELSE CASE Last(calls).role = "unary" -> 11
           [] Last(calls).role = "right" -> RightBindingPower(tokens[Last(calls).token].kind)
           [] OTHER -> 6

\* What the running parseExpression was called with.
MinBindingPower ==
    IF calls = << >> THEN 0
    ELSE CASE Last(calls).role = "unary" -> 11
           [] Last(calls).role = "right" -> RightBindingPower(tokens[Last(calls).token].kind)
           [] OTHER -> 0

\* parseExpression is called by `waiting', and starts at p.
Enter(waiting, p) ==
    /\ calls' = waiting
    /\ lhs' = None
    /\ at' = p
    /\ UNCHANGED <<nodes, outcome>>

\* make_unique: the node from the token in place p is what has been read.
Make(p, operands, waiting, next) ==
    /\ nodes' = Append(nodes, [token |-> p, operands |-> operands])
    /\ lhs' = Len(nodes) + 1
    /\ calls' = waiting
    /\ at' = next
    /\ UNCHANGED outcome

\* SF_ERR_INVALID_DSL, which every caller hands on.
RefuseTokens == outcome' = "no formula" /\ UNCHANGED treeVars

-----------------------------------------------------------------------------
(***************************************************************************)
(* parsePrimary.                                                           *)
(***************************************************************************)
Starts(kinds) == lhs = None /\ tokens[at].kind \in kinds

ReadLeaf == Starts({"Number", "NodeRef"}) /\ Make(at, << >>, calls, at + 1)

ReadPrefix ==
    /\ Starts(UnaryOperator)
    /\ Enter(Append(calls, Waiting("unary", at, << >>)), at + 1)

OpenGroup ==
    /\ Starts({"("})
    /\ Enter(Append(calls, Waiting("group", at, << >>)), at + 1)

OpenCall ==
    /\ Starts({"Identifier"}) /\ Kind(at + 1) = "("
    /\ IF Kind(at + 2) = ")" THEN Make(at, << >>, calls, at + 3)
       ELSE Enter(Append(calls, Waiting("argument", at, << >>)), at + 2)

RefuseOperand ==
    /\ \/ Starts(TokenKind \ ({"Number", "NodeRef", "Identifier", "("} \cup UnaryOperator))
       \/ Starts({"Identifier"}) /\ Kind(at + 1) # "("
    /\ RefuseTokens

-----------------------------------------------------------------------------
(***************************************************************************)
(* The loop of parseExpression.                                            *)
(***************************************************************************)
\* A '?' is taken whatever the binding power.
ReadQuestion ==
    /\ lhs # None /\ Kind(at) = "?"
    /\ Enter(Append(calls, Waiting("then", at, <<lhs>>)), at + 1)

ReadOperator ==
    /\ lhs # None /\ LeftBindingPower(Kind(at)) >= MinBindingPower
    /\ Enter(Append(calls, Waiting("right", at, <<lhs>>)), at + 1)

\* The loop ends, and lhs goes to a caller that waits in one of `roles'.
Returns(roles) ==
    /\ lhs # None /\ Kind(at) # "?" /\ LeftBindingPower(Kind(at)) < MinBindingPower
    /\ calls # << >> /\ Last(calls).role \in roles

Operands == Append(Last(calls).operands, lhs)

\* The last operand of an operator or a conditional.
FinishNode ==
    /\ Returns({"unary", "right", "else"})
    /\ Make(Last(calls).token, Operands, Front(calls), at)

FinishGroup ==
    /\ Returns({"group"}) /\ Kind(at) = ")"
    /\ calls' = Front(calls) /\ at' = at + 1
    /\ UNCHANGED <<lhs, nodes, outcome>>

FinishThen ==
    /\ Returns({"then"}) /\ Kind(at) = ":"
    /\ Enter(Append(Front(calls), Waiting("else", Last(calls).token, Operands)), at + 1)

NextArgument ==
    /\ Returns({"argument"}) /\ Kind(at) = ","
    /\ Enter(Append(Front(calls), Waiting("argument", Last(calls).token, Operands)), at + 1)

FinishCall ==
    /\ Returns({"argument"}) /\ Kind(at) = ")"
    /\ Make(Last(calls).token, Operands, Front(calls), at + 1)

RefuseRest ==
    /\ \/ Returns({"group"}) /\ Kind(at) # ")"
       \/ Returns({"then"}) /\ Kind(at) # ":"
       \/ Returns({"argument"}) /\ Kind(at) \notin {",", ")"}
       \/ lhs # None /\ calls = << >> /\ LeftBindingPower(Kind(at)) < 0
          /\ Kind(at) \notin {"?", "EndOfFile"}
    /\ RefuseTokens

\* parse: the whole text has been read.
FinishFormula ==
    /\ lhs # None /\ calls = << >> /\ Kind(at) = "EndOfFile"
    /\ at' = at + 1
    /\ outcome' = "parsed"
    /\ UNCHANGED <<calls, lhs, nodes>>

Parse ==
    /\ outcome = "tokenized"
    /\ \/ ReadLeaf \/ ReadPrefix \/ OpenGroup \/ OpenCall \/ RefuseOperand
       \/ ReadQuestion \/ ReadOperator
       \/ FinishNode \/ FinishGroup \/ FinishThen \/ NextArgument \/ FinishCall
       \/ RefuseRest \/ FinishFormula
    /\ UNCHANGED <<text, pos, tokens, folded>>

-----------------------------------------------------------------------------
(***************************************************************************)
(* Folding.  The recursion of foldConstants comes to the nodes in the      *)
(* order they were made in, and leaves in the place of each a literal, the *)
(* node itself, or the branch of a conditional.                            *)
(***************************************************************************)
TokenOf(k) == tokens[nodes[k].token]
Op(k) == TokenOf(k).kind
OperandsOf(k) == nodes[k].operands
IsUnary(k) == Op(k) \in UnaryOperator /\ Len(OperandsOf(k)) = 1
IsBinary(k) == Op(k) \in BinaryOperator /\ Len(OperandsOf(k)) = 2

Literal(number) == [kind |-> "literal", value |-> number]
Node(k) == [kind |-> "node", value |-> k]
IsLiteral(x) == x.kind = "literal"

\* The tree as it was parsed.
Parsed == [k \in DOMAIN nodes |-> IF Op(k) = "Number" THEN Literal(TokenOf(k).number) ELSE Node(k)]

Calculate(op, x, y) ==
    CASE op = "+" -> Plus(x, y)
      [] op = "-" -> Minus(x, y)
      [] op = "*" -> Times(x, y)
      [] op = "/" -> DividedBy(x, y)
      [] op = "^" -> Power(x, y)

FoldUnary(op, x) ==
    CASE op = "-" -> Negate(x)
      [] op = "+" -> x
      [] op = "!" -> IF x = 0 THEN One ELSE 0

\* Wrong variant: a divisor of zero is looked for on the left.
DividesByZero_Dividend(k, x) ==
    IsBinary(k) /\ Op(k) = "/" /\ x[1] = Literal(0) /\ IsLiteral(x[2])

DividesByZero(k, x) ==
    IsBinary(k) /\ Op(k) = "/" /\ IsLiteral(x[1]) /\ x[2] = Literal(0)

\* Wrong variant: a literal condition picks the wrong branch.
FoldNode_Swapped(k, x) ==
    IF Op(k) = "Number" THEN Literal(TokenOf(k).number)
    ELSE IF Op(k) = "?" /\ IsLiteral(x[1]) THEN x[IF x[1].value # 0 THEN 3 ELSE 2]
    ELSE Node(k)

\* Literals under an arithmetic operator become a literal, a literal condition
\* its branch.
FoldNode(k, x) ==
    IF Op(k) = "Number" THEN Literal(TokenOf(k).number)
    ELSE IF IsUnary(k) /\ IsLiteral(x[1]) THEN Literal(FoldUnary(Op(k), x[1].value))
    ELSE IF IsBinary(k) /\ Op(k) \in Arithmetic /\ IsLiteral(x[1]) /\ IsLiteral(x[2])
         THEN Literal(Calculate(Op(k), x[1].value, x[2].value))
    ELSE IF Op(k) = "?" /\ IsLiteral(x[1]) THEN x[IF x[1].value # 0 THEN 2 ELSE 3]
    ELSE Node(k)

\* foldConstants, one node.  A division of literals by zero fails the whole fold,
\* also in a branch that would not be taken.
FoldConstants ==
    /\ outcome = "parsed" /\ Len(folded) < Len(nodes)
    /\ LET k == Len(folded) + 1
           x == [i \in DOMAIN OperandsOf(k) |-> folded[OperandsOf(k)[i]]]
       IN  IF DividesByZero(k, x)
           THEN outcome' = "divides by zero" /\ UNCHANGED folded
           ELSE folded' = Append(folded, FoldNode(k, x)) /\ UNCHANGED outcome
    /\ UNCHANGED <<text, pos, tokens, treeVars>>
=============================================================================
