-------------------------- MODULE MCFormulaCompiler --------------------------
(***************************************************************************)
(* Texts for TLC.                                                          *)
(***************************************************************************)
EXTENDS AstDump

MCDigitValue == [d \in {"0", "1", "2", "5"} |->
                    CASE d = "0" -> 0 [] d = "1" -> 1 [] d = "2" -> 2 [] d = "5" -> 5]

\* Every text of up to two characters, and up to four of those that meet in
\* numbers, references and comparisons; sequences of up to four tokens, which
\* seldom are formulas.
ShortTexts ==
    LET CloseCharacter == {"a", "1", ".", "<", ">", "=", "!", "&", " "}
        Chunk == {<<"1">>, <<"<", "a", ">">>, <<"root">>, <<"-">>,
                  <<"(">>, <<")">>, <<",">>, <<"?">>, <<":">>}
    IN  UNION {[1 .. n -> Character] : n \in 0 .. 2}
        \cup UNION {[1 .. n -> CloseCharacter] : n \in 3 .. 4}
        \cup {FlattenSeq(s) : s \in UNION {[1 .. n -> Chunk] : n \in 1 .. 4}}

Joined(sets) ==
    FoldLeft(LAMBDA S, T : {s \o t : s \in S, t \in T}, {<< >>}, sets)
Among(names) == {<<name>> : name \in names}

Reference(name) == <<"<">> \o name \o <<">">>
A == {Reference(<<"a">>)}
B == {Reference(<<"b">>)}
Spelled(operators) == {IF op \in DOMAIN Pair THEN Pair[op] \o <<" ">> ELSE <<op>> : op \in operators}
Open == {<<"(">>}
Close == {<<")">>}
Numbers == {<<"0">>, <<"1">>, <<"0", ".", "5">>}

\* Every operator next to every other, before and behind it, with prefix
\* operators between them and parentheses around each; conditionals beside and
\* inside of all of them; every three operators of a few.
Operators ==
    LET every == Spelled(BinaryOperator)
        few == {<<"^">>, <<"*">>, <<"-">>, <<"<">>, <<"?">>}
        sign == {<< >>, <<"-">>}
    IN  Joined(<<sign, A, every, sign \cup {<<"!">>}, A, every, A>>)
        \cup Joined(<<sign, Open, A, every, A, Close, every, A>>)
        \cup Joined(<<A, every, Open, A, every, A, Close>>)
        \cup Joined(<<sign, A, every, {<<"1", "?">>}, A, {<<":">>}, B, every, A>>)
        \cup Joined(<<A, {<<"?">>}, A, every, A, {<<":", "-">>}, B, {<< >>, <<"?", "1", ":", "2">>}>>)
        \cup Joined(<<sign, A, few, A, few, sign, A, few, A, {<< >>, <<":", "1">>, <<":", "1", ":", "0">>}>>)

\* Arithmetic of literals that reaches the infinities and NaN; conditions made of
\* it; conditionals whose branches read different names or divide by zero.
Constants ==
    LET operator == {<<"^">>, <<"-">>, <<"/">>}
        group == Joined(<<Open, Numbers, operator, Numbers, Close>>)
        test == Numbers \cup A \cup {<<"(", "0", "-", "1", ")", "^", "0", ".", "5">>, <<"!", "0">>}
        branch == B \cup Joined(<<A, {<<"/">>}, Numbers>>) \cup {<<"1", "/", "0">>, <<"root", "(", ")">>}
    IN  Joined(<<{<<"-">>, <<"!">>}, Numbers, operator, Numbers>>)
        \cup Joined(<<group, operator, Numbers>>) \cup Joined(<<Numbers, operator, group>>)
        \cup Joined(<<Numbers, {<<"/">>}, group, {<<"-">>}, A>>)
        \cup Joined(<<{<< >>, <<"2", "/">>}, Open, test, Close, {<<"?">>}, branch, {<<":">>}, branch>>)

\* Calls of the one function and of another, with any number of arguments, and
\* arguments that are formulas.
Calls ==
    LET argument == A \cup {<<"2">>} \cup Joined(<<A, {<<"-">>}, B>>) \cup {<<"(", "1", ")">>}
        function == {<<"root">>, <<"a">>}
        comma == {<<",">>}
        two == Joined(<<function, Open, argument, comma, argument, Close>>)
    IN  two \cup Joined(<<{<<"-">>}, two, {<<"^">>}, A>>)
        \cup Joined(<<function, Open, argument \cup two, Close>>)
        \cup Joined(<<function, Open, A, comma, A, comma, B, {<<")">>, <<"?">>, <<",">>}>>)
        \cup Joined(<<function, Open, two, comma, A, {<< >>, <<"?">>}, Close>>)

\* Literals that are printed alike (1.5, 2.5 and 2) and others, in every kind of node.
Rounding ==
    LET literal == {<<"2">>, <<"1", ".", "5">>, <<"2", ".", "5">>, <<"0", ".", "5">>}
        sum == Joined(<<literal, {<<"+">>}, literal>>)
    IN  sum \cup Joined(<<{<<"!">>}, literal, {<<"?">>}, literal, {<<":">>}, literal>>)
        \cup Joined(<<{<<"root">>}, Open, literal, {<<",">>}, sum, Close>>)

\* The numbers the logic tells apart.
MCHeld == {0, One, NaN}

MCTexts == ShortTexts \cup Operators \cup Constants \cup Calls \cup Rounding
=============================================================================
