--------------------------- MODULE FormulaCompiler ---------------------------
(***************************************************************************)
(* From the text of a formula to what the kernel keeps of it: compileAst   *)
(* (src/stat_kernel/compiler.cpp) tokenizes, parses and folds, and the     *)
(* kernel then takes the names the formula reads from the tree.            *)
(***************************************************************************)
EXTENDS Evaluator

CONSTANTS Texts,             \* what callers write
          Held               \* the numbers that nodes may hold

ASSUME TextsAreTexts == Texts \subseteq Seq(Character)
ASSUME HeldAreNumbers == Held \subseteq Number

VARIABLE dependencies        \* the names the kernel links the node to

vars == <<tokenizerVars, parserVars, dependencies>>

Init ==
    /\ text \in Texts
    /\ TokenizerInit
    /\ at = 1 /\ calls = << >> /\ lhs = None
    /\ nodes = << >> /\ folded = << >>
    /\ dependencies = {}

\* The rest of compileAst, and extractDependencies.
Compile ==
    /\ outcome = "parsed" /\ Len(folded) = Len(nodes)
    /\ outcome' = "compiled"
    /\ dependencies' = ExtractDependencies(folded, lhs)
    /\ UNCHANGED <<text, pos, tokens, parserVars>>

\* The result has been handed over.
Returned ==
    /\ outcome \notin {"tokenizing", "tokenized", "parsed"}
    /\ UNCHANGED vars

Next ==
    \/ Tokenize /\ UNCHANGED <<parserVars, dependencies>>
    \/ Parse /\ UNCHANGED dependencies
    \/ FoldConstants /\ UNCHANGED dependencies
    \/ Compile
    \/ Returned

Spec == Init /\ [][Next]_vars

-----------------------------------------------------------------------------
(***************************************************************************)
(* The grammar.  A phrase is a stretch of tokens with what it says to the  *)
(* operators beside it: one before it may take it for an operand only if   *)
(* it needs no more than `left', one behind it no more than `right'.       *)
(***************************************************************************)
Phrase(first, last, left, right) ==
    [first |-> first, last |-> last, left |-> left, right |-> right]

\* How strongly operators bind, as in C; '^' binds more than the prefix operators.
Strength(op) ==
    CASE op = "^" -> 8
      [] op \in {"*", "/"} -> 6
      [] op \in {"+", "-"} -> 5
      [] op \in Comparison -> 4
      [] op = "&&" -> 3
      [] op = "||" -> 2

Prefix == 7                  \* the strength of the prefix operators
Alone == 9                   \* of numbers, references, calls and parentheses
Weaker(a, b) == IF a < b THEN a ELSE b

\* What an operator needs of the operand before it: the condition of a '?' and
\* the base of a '^' stand alone.
NeedsLeft(op) == IF op \in {"^", "?"} THEN Alone ELSE Strength(op)
\* And of the one behind it.
NeedsRight(op) == IF op = "^" THEN Strength(op) ELSE Strength(op) + 1

\* The phrases in any number of parentheses.
Enclosed(phrases) ==
    phrases \cup
    UNION {{Phrase(p.first - d, p.last + d, Alone, Alone) :
              d \in {d \in 1 .. p.first - 1 :
                        \A i \in 1 .. d : Kind(p.first - i) = "(" /\ Kind(p.last + i) = ")"}} :
           p \in phrases}

\* The arguments of the call whose name stands in place t: one of y[1], a comma,
\* one of y[2] and so on, between two parentheses; the second in place b.
IsArguments(y, t, b) ==
    /\ Kind(t + 1) = "(" /\ Kind(b) = ")"
    /\ IF y = << >> THEN b = t + 2
       ELSE /\ y[1].first = t + 2 /\ Last(y).last + 1 = b
            /\ \A i \in 1 .. Len(y) - 1 :
                  Kind(y[i].last + 1) = "," /\ y[i + 1].first = y[i].last + 2

\* The rules, for operands with the phrases x[1], x[2] and so on, and the token in
\* place t.  A conditional is taken for an operand by whatever stands before it, and
\* its last branch by nothing behind it.
CallPhrases(t, x) ==
    {Phrase(t, b, Alone, Alone) :
        b \in {b \in DOMAIN tokens :
                  \E y \in [DOMAIN x -> UNION Range(x)] :
                     (\A i \in DOMAIN x : y[i] \in x[i]) /\ IsArguments(y, t, b)}}

ConditionalPhrases(t, x) ==
    {Phrase(y[1].first, y[3].last, Alone, 0) :
        y \in {y \in x[1] \X x[2] \X x[3] :
                  /\ y[1].last = t - 1 /\ y[1].right >= NeedsLeft("?")
                  /\ y[2].first = t + 1
                  /\ Kind(y[2].last + 1) = ":" /\ y[3].first = y[2].last + 2}}

PrefixPhrases(t, x) ==
    {Phrase(t, y.last, Alone, Weaker(Prefix, y.right)) :
        y \in {y \in x[1] : y.first = t + 1 /\ y.left > Prefix}}

InfixPhrases(t, op, x) ==
    {Phrase(y[1].first, y[2].last, Strength(op), Weaker(Strength(op), y[2].right)) :
        y \in {y \in x[1] \X x[2] :
                  /\ y[1].last = t - 1 /\ y[1].right >= NeedsLeft(op)
                  /\ y[2].first = t + 1 /\ y[2].left >= NeedsRight(op)}}

Says(k, x) ==
    LET t == nodes[k].token
    IN  IF IsUnary(k) THEN PrefixPhrases(t, x)
        ELSE IF IsBinary(k) THEN InfixPhrases(t, Op(k), x)
        ELSE CASE Op(k) \in {"Number", "NodeRef"} -> {Phrase(t, t, Alone, Alone)}
               [] Op(k) = "Identifier"            -> CallPhrases(t, x)
               [] Op(k) = "?"                     -> ConditionalPhrases(t, x)

Phrases ==
    LET phrases[k \in DOMAIN nodes] ==
            Enclosed(Says(k, [i \in DOMAIN OperandsOf(k) |-> phrases[OperandsOf(k)[i]]]))
    IN  phrases

\* The same grammar without its precedences: whether the tokens from a to b can be
\* read as a formula, or as a list of arguments, given what is known of shorter ones.
ReadsFormula(known, a, b) ==
    LET formula(i, j) == <<"formula", i, j>> \in known IN
    \/ a = b /\ Kind(a) \in {"Number", "NodeRef"}
    \/ Kind(a) \in UnaryOperator /\ formula(a + 1, b)
    \/ Kind(a) = "(" /\ formula(a + 1, b - 1) /\ Kind(b) = ")"
    \/ /\ Kind(a) = "Identifier" /\ Kind(a + 1) = "(" /\ Kind(b) = ")"
       /\ b = a + 2 \/ <<"list", a + 2, b - 1>> \in known
    \/ \E p \in a .. b :
          /\ formula(a, p - 1)
          /\ \/ Kind(p) \in BinaryOperator /\ formula(p + 1, b)
             \/ /\ Kind(p) = "?"
                /\ \E q \in p .. b : formula(p + 1, q - 1) /\ Kind(q) = ":" /\ formula(q + 1, b)

ReadsList(known, a, b) ==
    \/ <<"formula", a, b>> \in known
    \/ \E p \in a .. b :
          <<"formula", a, p - 1>> \in known /\ Kind(p) = "," /\ <<"list", p + 1, b>> \in known

MoreReadings(known) ==
    {r \in {"formula", "list"} \X (DOMAIN tokens) \X (DOMAIN tokens) :
        IF r[1] = "list" THEN ReadsList(known, r[2], r[3]) ELSE ReadsFormula(known, r[2], r[3])}

\* What can be read in at most so many steps; a step for each token is enough.
Readings ==
    LET readings[n \in 0 .. Len(tokens)] == IF n = 0 THEN {} ELSE MoreReadings(readings[n - 1])
    IN  readings[Len(tokens)]

IsFormula == <<"formula", 1, Len(tokens) - 1>> \in Readings

-----------------------------------------------------------------------------
(***************************************************************************)
(* Correctness.                                                            *)
(***************************************************************************)
\* advance() indexes the vector of tokens without a check: no text, however
\* incomplete, takes it past EndOfFile.
StaysWithinTokens == outcome = "tokenized" => at \in DOMAIN tokens

Accepted == outcome \in {"parsed", "divides by zero", "compiled"}

\* Precedence and associativity: the tree of a text that is accepted says the text,
\* from its first token to its last, by the grammar.  No token is skipped, read twice
\* or moved, and every operator has the operands its strength gives it.
ParsesByGrammar ==
    Accepted => \E p \in Phrases[lhs] : p.first = 1 /\ p.last = Len(tokens) - 1

\* A text is refused only if its tokens are no formula, whatever the precedences:
\* the one pass from left to right never takes a wrong turn.
RefusesNoFormula == outcome = "no formula" => ~IsFormula

Names == {tokens[i].lexeme : i \in {k \in DOMAIN tokens : tokens[k].kind = "NodeRef"}}
Lookups == [Names -> Held]
Zeros == [name \in Names |-> 0]

\* What a formula computes without reading or comparing anything.
Constant ==
    LET constant[k \in DOMAIN nodes] ==
            LET operand(i) == OperandsOf(k)[i] IN
            \/ Op(k) = "Number"
            \/ IsUnary(k) /\ constant[operand(1)]
            \/ IsBinary(k) /\ Op(k) \in Arithmetic /\ constant[operand(1)] /\ constant[operand(2)]
            \/ /\ Op(k) = "?" /\ constant[operand(1)]
               /\ constant[operand(IF IsTrue(Evaluate(Parsed, Zeros)[operand(1)].value) THEN 2 ELSE 3)]
    IN  {k \in DOMAIN nodes : constant[k]}

\* The one difference between the two evaluators: to foldConstants a literal
\* NaN, which (0-1)^0.5 makes, is neither 0 nor false; to evaluate it is false.
TestsLiteralNaN ==
    \E k \in DOMAIN nodes :
        /\ Op(k) = "?" \/ (IsUnary(k) /\ Op(k) = "!")
        /\ OperandsOf(k)[1] \in Constant
        /\ Evaluate(Parsed, Zeros)[OperandsOf(k)[1]] = Result(NaN)

\* Folding constants and evaluating what is left gives what evaluating the
\* whole tree gives, for all numbers the nodes may hold, and ends the process
\* in the same cases.
FoldingAgrees ==
    outcome = "compiled" /\ ~TestsLiteralNaN =>
        \A lookup \in Lookups : Evaluate(folded, lookup)[lhs] = Evaluate(Parsed, lookup)[lhs]

\* A formula that parses is refused exactly if somewhere in it, in a branch
\* that is never taken too, a constant is divided by a constant zero, however
\* that zero is computed.  Every other division by zero is accepted, and is
\* infinite or NaN when it is evaluated.
RefusesConstantZeroDivisors ==
    outcome \in {"divides by zero", "compiled"} /\ ~TestsLiteralNaN =>
        (outcome = "divides by zero" <=>
            \E k \in DOMAIN nodes :
                /\ IsBinary(k) /\ Op(k) = "/" /\ Range(OperandsOf(k)) \subseteq Constant
                /\ Evaluate(Parsed, Zeros)[OperandsOf(k)[2]] = Result(0))

\* The kernel links a node to `dependencies' and recomputes it when one of them
\* changes: what the formula computes depends on no other name of the text,
\* also where folding has dropped a branch.
DependenciesSuffice ==
    outcome = "compiled" =>
        \A lookup \in Lookups :
            Evaluate(folded, lookup)[lhs] =
                Evaluate(folded, [n \in DOMAIN lookup |->
                                    IF n \in dependencies THEN lookup[n] ELSE 0])[lhs]

\* tests/dsl/parser.cpp:69, "ternary inside binary still respects precedence",
\* and the comment "unary precedence" at parser.cpp:230: no operator has a
\* conditional for an operand unless parentheses make it one.
ConditionalBindsWeakest ==
    Accepted /\ (\A i \in DOMAIN tokens : tokens[i].kind # "(") =>
        \A k \in DOMAIN nodes :
            IsUnary(k) \/ IsBinary(k) => \A j \in Range(OperandsOf(k)) : Op(j) # "?"
=============================================================================
