------------------------------ MODULE Tokenizer ------------------------------
(***************************************************************************)
(* The tokenizer of formula texts (src/dsl/tokenizer.cpp).  One step is    *)
(* one iteration of the loop of tokenize().  A text is a sequence of       *)
(* characters; a member of Letter or Digit may stand for several of them   *)
(* where they are only ever read together.  Where a token stands (its      *)
(* span) matters to error messages only and is left out.                   *)
(***************************************************************************)
EXTENDS SmallDouble, SequencesExt

CONSTANTS Letter,            \* letters, and runs of letters such as "true"
          DigitValue,        \* the digits, each with its value
          Space,             \* what std::isspace accepts
          Unknown            \* what no token starts with, '"' included

VARIABLES text,              \* _source
          pos,               \* _pos: how many characters have been read
          tokens,            \* _tokens
          outcome            \* "tokenizing", or how far compilation has come

tokenizerVars == <<text, pos, tokens, outcome>>

EndOfText == "NUL"           \* '\0', in the text or past its end
Symbol == {"(", ")", ",", "?", ":", "+", "-", "*", "/", "^"}
Doubled == {"=", "&", "|"}   \* tokens only when there are two of them
Pair == [kind \in {"!=", "<=", ">=", "==", "&&", "||"} |->
            CASE kind = "!=" -> <<"!", "=">> [] kind = "<=" -> <<"<", "=">>
              [] kind = ">=" -> <<">", "=">> [] kind = "==" -> <<"=", "=">>
              [] kind = "&&" -> <<"&", "&">> [] kind = "||" -> <<"|", "|">>]

Digit == DOMAIN DigitValue
Punctuation == Symbol \cup Doubled \cup {"!", "<", ">", "_", ".", EndOfText}
Character == Letter \cup Digit \cup Space \cup Unknown \cup Punctuation
ReferenceChar == Letter \cup Digit \cup {"_"}

\* What std::isalpha, std::isdigit and std::isspace accept does not overlap.
ASSUME CharacterClasses ==
    /\ Letter \cap (Digit \cup Space \cup Unknown \cup Punctuation) = {}
    /\ Digit \cap (Space \cup Unknown \cup Punctuation) = {}
    /\ Space \cap (Unknown \cup Punctuation) = {}
    /\ Unknown \cap Punctuation = {}

Peek(offset) == IF pos + offset < Len(text) THEN text[pos + offset + 1] ELSE EndOfText

\* Where a loop that starts at p and goes on while it sees `chars' stops.
EndOfRun(p, chars) ==
    CHOOSE e \in p .. Len(text) :
        /\ \A i \in p + 1 .. e : text[i] \in chars
        /\ e = Len(text) \/ text[e + 1] \notin chars

\* std::from_chars: a number the format cannot hold leaves the 0 there was.
Value(lexeme) ==
    LET point == IF Contains(lexeme, ".")
                 THEN CHOOSE p \in DOMAIN lexeme : lexeme[p] = "." ELSE Len(lexeme) + 1
        whole == FoldLeft(LAMBDA n, d : 10 * n + DigitValue[d], 0, SubSeq(lexeme, 1, point - 1))
        half == point < Len(lexeme) /\ DigitValue[lexeme[point + 1]] >= 5
        halves == 2 * whole + IF half THEN 1 ELSE 0
    IN  IF halves \in 0 .. Largest THEN halves ELSE 0

\* Literal tokens carry their number, the others 0, as `Token::number' does.
TokenKind == Character \cup DOMAIN Pair \cup {"Number", "Identifier", "NodeRef", "EndOfFile"}
TokenType == [kind: TokenKind, lexeme: Seq(Character), number: 0 .. Largest]
Token(kind, lexeme, number) == [kind |-> kind, lexeme |-> lexeme, number |-> number]
EndOfFile == Token("EndOfFile", << >>, 0)

\* A token of `kind' ends at p.
Take(kind, lexeme, number, p) ==
    /\ tokens' = Append(tokens, Token(kind, lexeme, number))
    /\ pos' = p
    /\ UNCHANGED <<text, outcome>>

\* tokenize returns SF_ERR_INVALID_DSL.
Refuse ==
    /\ outcome' = "INVALID_DSL"
    /\ UNCHANGED <<text, pos, tokens>>

TokenizerInit ==
    /\ pos = 0
    /\ tokens = << >>
    /\ outcome = "tokenizing"

-----------------------------------------------------------------------------
SkipSpace ==
    /\ Peek(0) \in Space
    /\ pos' = pos + 1
    /\ UNCHANGED <<text, tokens, outcome>>

\* The tokens of one character; '!', '<' and '>' are such tokens unless what
\* follows them makes a longer one.
TakeSymbol ==
    /\ \/ Peek(0) \in Symbol
       \/ Peek(0) \in {"!", ">"} /\ Peek(1) # "="
       \/ Peek(0) = "<" /\ Peek(1) # "=" /\ Peek(1) \notin Letter
    /\ Take(Peek(0), <<Peek(0)>>, 0, pos + 1)

\* The tokens of two characters.
TakePair ==
    \E kind \in DOMAIN Pair :
        /\ <<Peek(0), Peek(1)>> = Pair[kind]
        /\ Take(kind, Pair[kind], 0, pos + 2)

\* nodeReference, and the '<' and the letter that announce it: the name is
\* what stands between the brackets.
TakeNodeReference ==
    /\ Peek(0) = "<" /\ Peek(1) \in Letter
    /\ LET end == EndOfRun(pos + 1, ReferenceChar)
       IN  IF end < Len(text) /\ text[end + 1] = ">"
           THEN Take("NodeRef", SubSeq(text, pos + 2, end), 0, end + 1)
           ELSE Refuse

\* Wrong variant: a point belongs to the number whatever follows it.
TakeNumber_AnyPoint ==
    /\ Peek(0) \in Digit
    /\ LET whole == EndOfRun(pos, Digit)
           end == IF whole < Len(text) /\ text[whole + 1] = "."
                  THEN EndOfRun(whole + 1, Digit) ELSE whole
           lexeme == SubSeq(text, pos + 1, end)
       IN  Take("Number", lexeme, Value(lexeme), end)

\* number: digits, and a fraction if the point has a digit after it.
TakeNumber ==
    /\ Peek(0) \in Digit
    /\ LET whole == EndOfRun(pos, Digit)
           end == IF /\ whole + 1 < Len(text)
                     /\ text[whole + 1] = "." /\ text[whole + 2] \in Digit
                  THEN EndOfRun(whole + 1, Digit) ELSE whole
           lexeme == SubSeq(text, pos + 1, end)
       IN  Take("Number", lexeme, Value(lexeme), end)

\* identifierOrKeyword.
TakeWord ==
    /\ Peek(0) \in Letter \cup {"_"}
    /\ LET end == EndOfRun(pos, ReferenceChar)
           lexeme == SubSeq(text, pos + 1, end)
       IN  IF lexeme \in {<<"true">>, <<"false">>}
           THEN Take("Number", lexeme, IF lexeme = <<"true">> THEN One ELSE 0, end)
           ELSE Take("Identifier", lexeme, 0, end)

RefuseCharacter ==
    /\ \/ Peek(0) \in Unknown \cup {"."}
       \/ Peek(0) \in Doubled /\ Peek(1) # Peek(0)
    /\ Refuse

\* After the loop, which a '\0' in the text ends too.
FinishTokens ==
    /\ Peek(0) = EndOfText
    /\ outcome' = "tokenized"
    /\ tokens' = Append(tokens, EndOfFile)
    /\ UNCHANGED <<text, pos>>

Tokenize ==
    /\ outcome = "tokenizing"
    /\ \/ SkipSpace \/ TakeSymbol \/ TakePair \/ TakeNodeReference
       \/ TakeNumber \/ TakeWord \/ RefuseCharacter \/ FinishTokens

-----------------------------------------------------------------------------
\* The lexical grammar: what a token looks like, whatever stands around it.
IsSymbol(s) == Len(s) = 1 /\ s[1] \in Symbol \cup {"!", "<", ">"}
IsPair(s) == s \in {<<"!", "=">>, <<"<", "=">>, <<">", "=">>, <<"=", "=">>, <<"&", "&">>, <<"|", "|">>}
IsNumber(s) ==
    \E p \in 0 .. Len(s) :
        /\ p = 0 \/ (p > 1 /\ p < Len(s) /\ s[p] = ".")
        /\ s # << >> /\ \A i \in DOMAIN s \ {p} : s[i] \in Digit
IsWord(s) == s # << >> /\ s[1] \notin Digit /\ \A i \in DOMAIN s : s[i] \in ReferenceChar
IsReference(s) ==
    /\ Len(s) > 2 /\ s[1] = "<" /\ s[2] \in Letter /\ Last(s) = ">"
    /\ \A i \in 2 .. Len(s) - 1 : s[i] \in ReferenceChar

IsLexeme(s) == IsSymbol(s) \/ IsPair(s) \/ IsNumber(s) \/ IsWord(s) \/ IsReference(s)

\* What a token was read from.
Spelling(token) ==
    IF token.kind = "NodeRef" THEN <<"<">> \o token.lexeme \o <<">">> ELSE token.lexeme

\* The ends of the lexemes that start where the last token ended.
Lexemes == {e \in pos + 1 .. Len(text) : IsLexeme(SubSeq(text, pos + 1, e))}

\* Reading from the left, every token is the longest lexeme that starts where
\* the last one ended, exactly what it was read from, and nothing but spaces is
\* skipped; the text is refused only where no lexeme starts, or where a letter
\* right after a '<' promises a reference that does not come, however the '<'
\* was meant.  (So "1<a>2" never compares, and "1<root(2,4)" is an error.)
TakesLongestToken ==
    [][outcome = "tokenizing" =>
        \/ /\ pos' \in Lexemes /\ \A e \in Lexemes : e <= pos'
           /\ Spelling(Last(tokens')) = SubSeq(text, pos + 1, pos')
           /\ tokens' = Append(tokens, Last(tokens'))
        \/ Lexemes = {} /\ tokens' = tokens /\ pos' = pos + 1 /\ text[pos'] \in Space
        \/ outcome' = "tokenized" /\ Peek(0) = EndOfText
        \/ /\ outcome' = "INVALID_DSL"
           /\ \/ Lexemes = {}
              \/ Lexemes = {pos + 1} /\ Peek(0) = "<" /\ Peek(1) \in Letter]_tokenizerVars
=============================================================================
