------------------------------- MODULE AstDump -------------------------------
(***************************************************************************)
(* dumpSExpr (src/dsl/ast.cpp): the prefix notation trees are written in   *)
(* for tests and debugging.                                                *)
(***************************************************************************)
EXTENDS FormulaCompiler

\* Wrong variant: one operator is missing in the switch.
OpName_NoBang(op) == IF op = "!" THEN "?" ELSE op

OpName(op) == op

\* operator<< of double: a stream prints six significant digits unless told
\* otherwise, fewer than a double has, and rounds ties to even.  The counterpart
\* in the small format is one digit: 1.5 and 2.5 are both printed as 2.
ASSUME OneDigitBeforeThePoint == Largest < 20

PrintedNumber(halves) ==
    IF halves = 1 \/ halves % 2 = 0 THEN halves
    ELSE IF halves % 4 = 1 THEN halves - 1 ELSE halves + 1

\* The pieces a dump is made of.
Text(s) == [text |-> s]
Name(k) == [name |-> TokenOf(k).lexeme]
Printed(k) == [number |-> PrintedNumber(TokenOf(k).number)]

\* dump: an operator with its operands in parentheses, the rest as written.
Dump ==
    LET dump[k \in DOMAIN nodes] ==
            LET inside(head) ==
                    <<Text("(")>> \o head
                    \o FlattenSeq([i \in DOMAIN OperandsOf(k) |-> dump[OperandsOf(k)[i]]])
                    \o <<Text(")")>>
            IN  CASE Op(k) = "Number"     -> <<Printed(k)>>
                  [] Op(k) = "NodeRef"    -> <<Text("<"), Name(k), Text(">")>>
                  [] Op(k) = "Identifier" -> inside(<<Text("call"), Name(k)>>)
                  [] OTHER                -> inside(<<Text(OpName(Op(k)))>>)
    IN  dump

-----------------------------------------------------------------------------
\* What node k is, apart from its operands: of a literal, the digits a dump shows.
Label(k) == [op |-> Op(k), lexeme |-> IF Op(k) = "Number" THEN << >> ELSE TokenOf(k).lexeme,
            number |-> PrintedNumber(TokenOf(k).number)]

\* The tree below every node, whatever the numbers of its nodes.
TreesAsPrinted ==
    LET tree[k \in DOMAIN nodes] ==
            [head |-> Label(k), operands |-> [i \in DOMAIN OperandsOf(k) |-> tree[OperandsOf(k)[i]]]]
    IN  tree

\* A dump read back, from p on: trees, up to the next parenthesis or the end, and
\* where that is.
RECURSIVE Undump(_, _)
Undump(d, p) ==
    IF p > Len(d) \/ d[p] = Text(")") THEN [trees |-> << >>, stop |-> p]
    ELSE LET leaf(op, name, number, next) ==
                 [tree |-> [head |-> [op |-> op, lexeme |-> name, number |-> number],
                            operands |-> << >>],
                  stop |-> next]
             node(op, name, from) ==
                 LET inner == Undump(d, from)
                 IN  [tree |-> [head |-> [op |-> op, lexeme |-> name, number |-> 0],
                                operands |-> inner.trees],
                      stop |-> inner.stop + 1]
             \* The operators are their own lexemes.
             lexeme(op) == IF op \in DOMAIN Pair THEN Pair[op] ELSE <<op>>
             one == IF "number" \in DOMAIN d[p] THEN leaf("Number", << >>, d[p].number, p + 1)
                    ELSE IF d[p] = Text("<") THEN leaf("NodeRef", d[p + 1].name, 0, p + 3)
                    ELSE IF d[p + 1] = Text("call") THEN node("Identifier", d[p + 2].name, p + 3)
                    ELSE node(d[p + 1].text, lexeme(d[p + 1].text), p + 2)
             rest == Undump(d, one.stop)
         IN  [trees |-> <<one.tree>> \o rest.trees, stop |-> rest.stop]

\* The tests compare trees by their dumps (tests/dsl/parser.cpp).  A dump leaves
\* out the digits of literals that the stream does not print, and nothing else:
\* it determines the operators, names, calls and nesting of the tree, so trees
\* with one dump differ at most in literals that print alike.
DumpsHideOnlyDigits ==
    outcome = "parsed" => Undump(Dump[lhs], 1).trees = <<TreesAsPrinted[lhs]>>
=============================================================================
