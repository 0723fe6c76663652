----------------------------- MODULE FormulaProofs -----------------------------
(***************************************************************************)
(* What becomes of the text of a formula, for texts of any length over any *)
(* characters: the tokenizer reads what the lexical grammar says, the      *)
(* parser makes the tree the grammar gives the text and refuses no         *)
(* formula, and folding changes nothing of what a formula computes.        *)
(*                                                                         *)
(* The parser is the hard part.  Its invariant reads the stack of waiting  *)
(* calls as a row of phrases, each with what it needs of its operand.      *)
(* That no formula is refused is a second argument, about a reader who     *)
(* knows the brackets that are open but no precedences: the parser can     *)
(* always follow him.                                                      *)
(***************************************************************************)
EXTENDS FormulaCompiler, SequenceTheorems, FiniteSetTheorems, WellFoundedInduction, TLAPS

-----------------------------------------------------------------------------
(***************************************************************************)
(* tokenize().  The grammar is about sequences of characters; the proofs   *)
(* first restate it about the places of the text, and sort it by the first *)
(* character, as the switch does.  The loops that read digits and names    *)
(* stop at the first character that does not belong.                       *)
(***************************************************************************)

\* Where the tokenizer is, and what it has read.
TInv ==
    /\ text \in Seq(Character)
    /\ pos \in 0 .. Len(text)
    /\ tokens \in Seq(TokenType)

-----------------------------------------------------------------------------
\* A loop over characters stops, at the first that does not belong.
LEMMA RunEnds ==
    ASSUME text \in Seq(Character), NEW p \in 0 .. Len(text), NEW chars
    PROVE  /\ EndOfRun(p, chars) \in p .. Len(text)
           /\ \A i \in p + 1 .. EndOfRun(p, chars) : text[i] \in chars
           /\ EndOfRun(p, chars) = Len(text) \/ text[EndOfRun(p, chars) + 1] \notin chars
<1> DEFINE n == Len(text)
           stops == {e \in p .. n : e = n \/ text[e + 1] \notin chars}
           lt == {q \in Nat \X Nat : q[1] < q[2]}
<1>1. n \in Nat /\ p \in Nat /\ p <= n
  OBVIOUS
<1>2. lt = OpToRel(<, Nat)
  BY Zenon DEF OpToRel
<1>3. IsWellFoundedOn(lt, Nat)
  BY <1>2, NatLessThanWellFounded, Zenon
<1>4. stops \subseteq Nat /\ n \in stops /\ \A e \in stops : e \in p .. n
  BY <1>1
<1>5. PICK e \in stops : \A d \in stops : ~ (<<d, e>> \in lt)
  <2> HIDE DEF lt, stops
  <2>1. stops # {}
    BY <1>4
  <2> QED
    BY <1>3, <1>4, <2>1, WFMin
<1>6. \A d \in stops : e <= d
  <2>1. \A i, j \in Nat : ~ (<<j, i>> \in lt) => i <= j
    OBVIOUS
  <2> HIDE DEF lt, stops
  <2> QED
    BY <1>4, <1>5, <2>1
<1>7. e \in p .. n /\ (e = n \/ text[e + 1] \notin chars)
  BY <1>5
<1>8. ASSUME NEW i \in p + 1 .. e PROVE text[i] \in chars
  <2>1. i - 1 \in p .. n /\ i - 1 < e /\ i - 1 # n /\ (i - 1) + 1 = i
    BY <1>1, <1>7
  <2>2. i - 1 \notin stops
    <3> HIDE DEF stops
    <3> QED
      BY <1>1, <1>6, <1>7, <2>1
  <2> QED
    BY <2>1, <2>2
<1> HIDE DEF n, stops, lt
<1>9. \E d \in p .. n : /\ \A i \in p + 1 .. d : text[i] \in chars
                        /\ d = n \/ text[d + 1] \notin chars
  BY <1>7, <1>8
<1> QED
  BY <1>9 DEF EndOfRun, n

\* The characters from the one after pos up to that in place e.
Chunk(e) == SubSeq(text, pos + 1, e)

LEMMA ChunkElements ==
    ASSUME TInv, NEW e \in pos + 1 .. Len(text)
    PROVE  /\ Chunk(e) \in Seq(Character)
           /\ Len(Chunk(e)) = e - pos
           /\ DOMAIN Chunk(e) = 1 .. e - pos
           /\ \A i \in 1 .. e - pos : Chunk(e)[i] = text[pos + i] /\ pos + i \in pos + 1 .. e
           /\ Chunk(e) # << >>
<1>1. /\ pos \in Nat /\ e \in Nat /\ pos + 1 <= e /\ e <= Len(text) /\ Len(text) \in Nat
      /\ text \in Seq(Character)
  BY DEF TInv
<1>2. \A i \in pos + 1 .. e : text[i] \in Character
  BY <1>1
<1>3. /\ Chunk(e) \in Seq(Character)
      /\ Len(Chunk(e)) = IF pos + 1 <= e THEN e - (pos + 1) + 1 ELSE 0
      /\ \A i \in 1 .. e - (pos + 1) + 1 : Chunk(e)[i] = text[(pos + 1) + i - 1]
  BY <1>1, <1>2, SubSeqProperties DEF Chunk
<1>4. e - (pos + 1) + 1 = e - pos /\ e - pos > 0 /\ e - pos \in Nat
      /\ \A i \in 1 .. e - pos : (pos + 1) + i - 1 = pos + i /\ pos + i \in pos + 1 .. e
  BY <1>1
<1>5. Len(Chunk(e)) = e - pos
  BY <1>1, <1>3, <1>4
<1>6. DOMAIN Chunk(e) = 1 .. e - pos /\ Chunk(e) # << >>
  BY <1>3, <1>4, <1>5
<1> QED
  BY <1>3, <1>4, <1>5, <1>6

-----------------------------------------------------------------------------
(***************************************************************************)
(* The lexical grammar, about the places of the text.                      *)
(***************************************************************************)

Pairs == {<<"!", "=">>, <<"<", "=">>, <<">", "=">>, <<"=", "=">>, <<"&", "&">>, <<"|", "|">>}

SymbolAt(e) == e = pos + 1 /\ text[pos + 1] \in Symbol \cup {"!", "<", ">"}
PairAt(e) == e = pos + 2 /\ <<text[pos + 1], text[pos + 2]>> \in Pairs
NumberAt(e) ==
    \/ \A i \in pos + 1 .. e : text[i] \in Digit
    \/ \E p \in pos + 2 .. e - 1 :
          text[p] = "." /\ \A i \in pos + 1 .. e : i # p => text[i] \in Digit
WordAt(e) ==
    /\ text[pos + 1] \notin Digit
    /\ \A i \in pos + 1 .. e : text[i] \in ReferenceChar
ReferenceAt(e) ==
    /\ e > pos + 2 /\ text[pos + 1] = "<" /\ text[pos + 2] \in Letter /\ text[e] = ">"
    /\ \A i \in pos + 2 .. e - 1 : text[i] \in ReferenceChar

LEMMA SymbolsAt ==
    ASSUME TInv, NEW e \in pos + 1 .. Len(text)
    PROVE  IsSymbol(Chunk(e)) <=> SymbolAt(e)
<1>1. pos \in Nat /\ e \in Nat /\ e > pos /\ Len(Chunk(e)) = e - pos
      /\ Chunk(e)[1] = text[pos + 1]
  BY ChunkElements DEF TInv
<1>2. e - pos = 1 <=> e = pos + 1
  BY <1>1
<1> QED
  BY <1>1, <1>2 DEF IsSymbol, SymbolAt

LEMMA PairsAt ==
    ASSUME TInv, NEW e \in pos + 1 .. Len(text)
    PROVE  IsPair(Chunk(e)) <=> PairAt(e)
<1> DEFINE s == Chunk(e)
<1>1. /\ pos \in Nat /\ e \in Nat /\ e > pos /\ s \in Seq(Character) /\ Len(s) = e - pos
      /\ \A i \in 1 .. e - pos : s[i] = text[pos + i]
  BY ChunkElements DEF TInv
<1>2. ASSUME NEW c, NEW d PROVE s = <<c, d>> <=> e = pos + 2 /\ text[pos + 1] = c /\ text[pos + 2] = d
  <2>1. s = <<c, d>> => e - pos = 2 /\ s[1] = c /\ s[2] = d
    BY <1>1
  <2>2. e - pos = 2 => s = <<s[1], s[2]>>
    BY <1>1
  <2>3. e - pos = 2 => s[1] = text[pos + 1] /\ s[2] = text[pos + 2]
    BY <1>1
  <2>4. e - pos = 2 <=> e = pos + 2
    BY <1>1
  <2> HIDE DEF s
  <2> QED
    BY <2>1, <2>2, <2>3, <2>4
<1> HIDE DEF s
<1>3. s \in Pairs <=> \/ s = <<"!", "=">> \/ s = <<"<", "=">> \/ s = <<">", "=">>
                      \/ s = <<"=", "=">> \/ s = <<"&", "&">> \/ s = <<"|", "|">>
  BY DEF Pairs
<1>4. PairAt(e) <=>
        /\ e = pos + 2
        /\ \/ text[pos + 1] = "!" /\ text[pos + 2] = "="
           \/ text[pos + 1] = "<" /\ text[pos + 2] = "="
           \/ text[pos + 1] = ">" /\ text[pos + 2] = "="
           \/ text[pos + 1] = "=" /\ text[pos + 2] = "="
           \/ text[pos + 1] = "&" /\ text[pos + 2] = "&"
           \/ text[pos + 1] = "|" /\ text[pos + 2] = "|"
  BY DEF PairAt, Pairs
<1>5. IsPair(s) <=> s \in Pairs
  BY DEF IsPair, Pairs
<1> QED
  BY <1>2, <1>3, <1>4, <1>5 DEF s

LEMMA NumbersAt ==
    ASSUME TInv, NEW e \in pos + 1 .. Len(text)
    PROVE  IsNumber(Chunk(e)) <=> NumberAt(e)
<1> DEFINE s == Chunk(e)
           m == e - pos
<1>1. /\ pos \in Nat /\ e \in Nat /\ e > pos /\ s \in Seq(Character) /\ s # << >>
      /\ Len(s) = m /\ DOMAIN s = 1 .. m
      /\ \A i \in 1 .. m : s[i] = text[pos + i]
  BY ChunkElements DEF TInv
<1>2. m \in Nat /\ m > 0 /\ e = pos + m
  BY <1>1
<1>3. /\ \A i \in pos + 1 .. e : i - pos \in 1 .. m /\ text[i] = s[i - pos]
      /\ \A i \in 1 .. m : pos + i \in pos + 1 .. e
  BY <1>1
<1> HIDE DEF s, m
<1>4. ASSUME IsNumber(s) PROVE NumberAt(e)
  <2>1. PICK p \in 0 .. m : /\ p = 0 \/ (p > 1 /\ p < m /\ s[p] = ".")
                            /\ \A i \in 1 .. m : i # p => s[i] \in Digit
    BY <1>1, <1>4 DEF IsNumber
  <2>2. CASE p = 0
    <3>1. \A i \in pos + 1 .. e : text[i] \in Digit
      BY <1>1, <1>2, <1>3, <2>1, <2>2
    <3> QED
      BY <3>1 DEF NumberAt
  <2>3. CASE p # 0
    <3>1. pos + p \in pos + 2 .. e - 1 /\ text[pos + p] = "."
      BY <1>1, <1>2, <2>1, <2>3
    <3>2. \A i \in pos + 1 .. e : i # pos + p => text[i] \in Digit
      BY <1>1, <1>2, <1>3, <2>1
    <3> QED
      BY <3>1, <3>2 DEF NumberAt
  <2> QED
    BY <2>2, <2>3
<1>5. ASSUME NumberAt(e) PROVE IsNumber(s)
  <2>1. CASE \A i \in pos + 1 .. e : text[i] \in Digit
    <3>1. 0 \in 0 .. Len(s) /\ \A i \in DOMAIN s \ {0} : s[i] \in Digit
      BY <1>1, <1>2, <1>3, <2>1, SMTT(30)
    <3> QED
      BY <1>1, <3>1 DEF IsNumber
  <2>2. CASE \E p \in pos + 2 .. e - 1 :
                text[p] = "." /\ \A i \in pos + 1 .. e : i # p => text[i] \in Digit
    <3>1. PICK p \in pos + 2 .. e - 1 :
             text[p] = "." /\ \A i \in pos + 1 .. e : i # p => text[i] \in Digit
      BY <2>2
    <3>2. p - pos \in 0 .. Len(s) /\ p - pos > 1 /\ p - pos < Len(s) /\ s[p - pos] = "."
      BY <1>1, <1>2, <1>3, <3>1
    <3>3. \A i \in DOMAIN s \ {p - pos} : s[i] \in Digit
      BY <1>1, <1>2, <1>3, <3>1
    <3> QED
      BY <1>1, <3>2, <3>3 DEF IsNumber
  <2> QED
    BY <1>5, <2>1, <2>2 DEF NumberAt
<1> QED
  BY <1>4, <1>5 DEF s

LEMMA WordsAt ==
    ASSUME TInv, NEW e \in pos + 1 .. Len(text)
    PROVE  IsWord(Chunk(e)) <=> WordAt(e)
<1> DEFINE s == Chunk(e)
<1>1. /\ pos \in Nat /\ e \in Nat /\ e > pos /\ s # << >> /\ DOMAIN s = 1 .. e - pos
      /\ \A i \in 1 .. e - pos : s[i] = text[pos + i] /\ pos + i \in pos + 1 .. e
  BY ChunkElements DEF TInv
<1>2. /\ \A i \in pos + 1 .. e : i - pos \in 1 .. e - pos /\ text[i] = s[i - pos]
      /\ 1 \in 1 .. e - pos /\ s[1] = text[pos + 1]
  BY <1>1
<1> HIDE DEF s
<1> QED
  BY <1>1, <1>2 DEF IsWord, WordAt, s

LEMMA ReferencesAt ==
    ASSUME TInv, NEW e \in pos + 1 .. Len(text)
    PROVE  IsReference(Chunk(e)) <=> ReferenceAt(e)
<1> DEFINE s == Chunk(e)
           m == e - pos
<1>1. /\ pos \in Nat /\ e \in Nat /\ e > pos /\ Len(s) = m
      /\ \A i \in 1 .. m : s[i] = text[pos + i] /\ pos + i \in pos + 1 .. e
  BY ChunkElements DEF TInv
<1>2. m \in Nat /\ m > 0 /\ (m > 2 <=> e > pos + 2) /\ pos + m = e
  BY <1>1
<1>3. s[1] = text[pos + 1] /\ Last(s) = text[e] /\ (m > 2 => s[2] = text[pos + 2])
  <2> HIDE DEF s, m
  <2>1. Last(s) = s[m]
    BY <1>1 DEF Last
  <2> QED
    BY <1>1, <1>2, <2>1
<1> HIDE DEF s, m
<1>4. ASSUME NEW i \in pos + 2 .. e - 1 PROVE i - pos \in 2 .. m - 1 /\ text[i] = s[i - pos]
  <2>1. i - pos \in 2 .. m - 1 /\ i - pos \in 1 .. m /\ pos + (i - pos) = i
    BY <1>1, <1>2
  <2> QED
    BY <1>1, <2>1
<1>5. ASSUME NEW i \in 2 .. m - 1 PROVE pos + i \in pos + 2 .. e - 1 /\ s[i] = text[pos + i]
  <2>1. pos + i \in pos + 2 .. e - 1 /\ i \in 1 .. m
    BY <1>1, <1>2
  <2> QED
    BY <1>1, <2>1
<1> QED
  BY <1>1, <1>2, <1>3, <1>4, <1>5 DEF IsReference, ReferenceAt, s

-----------------------------------------------------------------------------
(***************************************************************************)
(* By the first character.                                                 *)
(***************************************************************************)

LEMMA LexemesAt ==
    ASSUME TInv, NEW e \in pos + 1 .. Len(text)
    PROVE  e \in Lexemes <=> SymbolAt(e) \/ PairAt(e) \/ NumberAt(e) \/ WordAt(e) \/ ReferenceAt(e)
<1>1. e \in Lexemes <=> IsLexeme(Chunk(e))
  BY DEF Lexemes, Chunk
<1> QED
  BY <1>1, SymbolsAt, PairsAt, NumbersAt, WordsAt, ReferencesAt DEF IsLexeme

\* What a lexeme of each kind begins with.
LEMMA LexemeBegins ==
    ASSUME TInv, NEW e \in pos + 1 .. Len(text)
    PROVE  /\ PairAt(e) => text[pos + 1] \in Doubled \cup {"!", "<", ">"}
           /\ NumberAt(e) => text[pos + 1] \in Digit
           /\ WordAt(e) => text[pos + 1] \in Letter \cup {"_"}
           /\ ReferenceAt(e) => text[pos + 1] = "<"
<1>1. pos \in Nat /\ e \in Nat /\ pos + 1 \in pos + 1 .. e /\ \A p \in pos + 2 .. e - 1 : pos + 1 # p
  BY DEF TInv
<1>2. PairAt(e) => text[pos + 1] \in Doubled \cup {"!", "<", ">"}
  BY DEF PairAt, Pairs, Doubled
<1>3. NumberAt(e) => text[pos + 1] \in Digit
  BY <1>1 DEF NumberAt
<1>4. WordAt(e) => text[pos + 1] \in Letter \cup {"_"}
  BY <1>1 DEF WordAt, ReferenceChar
<1> QED
  BY <1>2, <1>3, <1>4 DEF ReferenceAt

\* What the tokenizer sees is what stands in the text.
LEMMA PeekText ==
    ASSUME TInv
    PROVE  /\ pos \in Nat /\ Len(text) \in Nat /\ pos <= Len(text)
           /\ Peek(0) # EndOfText => pos + 1 <= Len(text)
           /\ pos + 1 <= Len(text) => Peek(0) = text[pos + 1]
           /\ Peek(1) # EndOfText => pos + 2 <= Len(text)
           /\ pos + 2 <= Len(text) => Peek(1) = text[pos + 2]
<1>1. pos \in Nat /\ Len(text) \in Nat /\ pos <= Len(text)
  BY DEF TInv
<1>2. /\ pos + 0 < Len(text) <=> pos + 1 <= Len(text)
      /\ pos + 1 < Len(text) <=> pos + 2 <= Len(text)
      /\ pos + 0 + 1 = pos + 1 /\ pos + 1 + 1 = pos + 2
  BY <1>1
<1> QED
  BY <1>1, <1>2 DEF Peek

\* The token that is taken is the last one.
LEMMA TakenToken ==
    ASSUME TInv, NEW kind \in TokenKind, NEW lexeme \in Seq(Character),
           NEW number \in 0 .. Largest, NEW p \in 0 .. Len(text), Take(kind, lexeme, number, p)
    PROVE  /\ TInv' /\ pos' = p
           /\ Last(tokens') = Token(kind, lexeme, number)
           /\ tokens' = Append(tokens, Last(tokens'))
<1> DEFINE token == Token(kind, lexeme, number)
<1>1. token \in TokenType
  BY DEF Token, TokenType
<1>2. /\ tokens' = Append(tokens, token) /\ pos' = p /\ text' = text /\ tokens \in Seq(TokenType)
      /\ text \in Seq(Character)
  BY DEF Take, TInv
<1> HIDE DEF token
<1>3. /\ tokens' \in Seq(TokenType) /\ Len(tokens') = Len(tokens) + 1
      /\ tokens'[Len(tokens) + 1] = token
  BY <1>1, <1>2, AppendProperties
<1>4. Last(tokens') = token
  BY <1>3 DEF Last
<1> QED
  BY <1>2, <1>3, <1>4 DEF TInv, token

\* The conclusion of TakesLongestToken, one disjunct at a time.
TakesLongest ==
    /\ pos' \in Lexemes /\ \A e \in Lexemes : e <= pos'
    /\ Spelling(Last(tokens')) = SubSeq(text, pos + 1, pos')
    /\ tokens' = Append(tokens, Last(tokens'))
SkipsSpace == Lexemes = {} /\ tokens' = tokens /\ pos' = pos + 1 /\ text[pos'] \in Space
ReachesEnd == outcome' = "tokenized" /\ Peek(0) = EndOfText
RefusesRightly ==
    /\ outcome' = "INVALID_DSL"
    /\ \/ Lexemes = {}
       \/ Lexemes = {pos + 1} /\ Peek(0) = "<" /\ Peek(1) \in Letter

\* A token that is not a reference and was read from the text up to p.
LEMMA TokenTaken ==
    ASSUME TInv, NEW kind \in TokenKind, kind # "NodeRef", NEW number \in 0 .. Largest,
           NEW p \in pos + 1 .. Len(text), p \in Lexemes, \A e \in Lexemes : e <= p,
           Take(kind, Chunk(p), number, p)
    PROVE  TakesLongest /\ TInv'
<1>1. Chunk(p) \in Seq(Character)
  BY ChunkElements
<1>2. p \in 0 .. Len(text)
  BY DEF TInv
<1>3. /\ TInv' /\ pos' = p /\ Last(tokens') = Token(kind, Chunk(p), number)
      /\ tokens' = Append(tokens, Last(tokens'))
  BY <1>1, <1>2, TakenToken
<1>4. Spelling(Last(tokens')) = Chunk(p)
  BY <1>3 DEF Spelling, Token
<1> QED
  BY <1>3, <1>4 DEF TakesLongest, Chunk

LEMMA SkipSpaceReads ==
    ASSUME TInv, SkipSpace
    PROVE  SkipsSpace /\ TInv'
<1>1. Peek(0) \in Space /\ pos' = pos + 1 /\ UNCHANGED <<text, tokens>>
  BY DEF SkipSpace
<1>2. pos \in Nat /\ Len(text) \in Nat /\ pos + 1 <= Len(text) /\ text[pos + 1] \in Space
  BY <1>1, PeekText, CharacterClasses DEF Punctuation
<1>3. ASSUME NEW e \in pos + 1 .. Len(text) PROVE e \notin Lexemes
  <2>1. ~(text[pos + 1] \in Symbol \cup Doubled \cup {"!", "<", ">", "_"} \cup Digit \cup Letter)
    BY <1>2, CharacterClasses DEF Punctuation
  <2> QED
    BY <2>1, LexemesAt, LexemeBegins DEF SymbolAt
<1>4. Lexemes = {}
  BY <1>3 DEF Lexemes
<1> QED
  BY <1>1, <1>2, <1>4 DEF SkipsSpace, TInv

LEMMA TakeSymbolReads ==
    ASSUME TInv, TakeSymbol
    PROVE  TakesLongest /\ TInv'
<1> DEFINE c == Peek(0)
<1>1. /\ \/ c \in Symbol
         \/ c \in {"!", ">"} /\ Peek(1) # "="
         \/ c = "<" /\ Peek(1) # "=" /\ Peek(1) \notin Letter
      /\ Take(c, <<c>>, 0, pos + 1)
  BY DEF TakeSymbol
<1>2. /\ pos \in Nat /\ Len(text) \in Nat /\ pos + 1 <= Len(text) /\ text[pos + 1] = c
      /\ c \in Symbol \cup {"!", "<", ">"}
  BY <1>1, PeekText DEF Symbol, EndOfText
<1>3. pos + 1 \in pos + 1 .. Len(text) /\ SymbolAt(pos + 1)
  BY <1>2 DEF SymbolAt
<1>4. pos + 1 \in Lexemes
  BY <1>3, LexemesAt
<1>5. c \notin Digit /\ c \notin Letter \cup {"_"} /\ c \in TokenKind /\ c # "NodeRef"
  BY <1>2, CharacterClasses DEF Punctuation, TokenKind, Character, Symbol
<1>6. ASSUME NEW e \in pos + 1 .. Len(text), e \in Lexemes PROVE e = pos + 1
  <2>1. SymbolAt(e) \/ PairAt(e) \/ ReferenceAt(e)
    BY <1>2, <1>5, <1>6, LexemesAt, LexemeBegins
  <2>2. CASE PairAt(e)
    <3>1. e = pos + 2 /\ pos + 2 <= Len(text) /\ <<c, text[pos + 2]>> \in Pairs
      BY <1>2, <2>2 DEF PairAt
    <3>2. Peek(1) = text[pos + 2]
      BY <3>1, PeekText
    <3>3. c \notin Symbol
      BY <3>1 DEF Pairs, Symbol
    <3>4. c \in {"!", "<", ">"} => text[pos + 2] = "="
      BY <3>1 DEF Pairs
    <3> QED
      BY <1>1, <3>2, <3>3, <3>4
  <2>3. CASE ReferenceAt(e)
    <3>1. e > pos + 2 /\ c = "<" /\ text[pos + 2] \in Letter /\ pos + 2 <= Len(text)
      BY <1>2, <2>3 DEF ReferenceAt
    <3> QED
      BY <1>1, <3>1, PeekText DEF Symbol
  <2> QED
    BY <2>1, <2>2, <2>3 DEF SymbolAt
<1>7. \A e \in Lexemes : e <= pos + 1
  BY <1>2, <1>6 DEF Lexemes
<1>8. <<c>> = Chunk(pos + 1)
  <2>1. /\ Chunk(pos + 1) \in Seq(Character) /\ Len(Chunk(pos + 1)) = (pos + 1) - pos
        /\ \A i \in 1 .. (pos + 1) - pos : Chunk(pos + 1)[i] = text[pos + i]
    BY <1>3, ChunkElements
  <2>2. (pos + 1) - pos = 1
    BY <1>2
  <2>3. Len(Chunk(pos + 1)) = 1 /\ Chunk(pos + 1)[1] = c
    BY <1>2, <2>1, <2>2
  <2> HIDE DEF c
  <2> QED
    BY <2>1, <2>3
<1>9. 0 \in 0 .. Largest
  BY FormatConstants
<1> HIDE DEF c
<1>10. Take(c, Chunk(pos + 1), 0, pos + 1)
  BY <1>1, <1>8
<1> QED
  BY <1>3, <1>4, <1>5, <1>7, <1>9, <1>10, TokenTaken

LEMMA TakePairReads ==
    ASSUME TInv, TakePair
    PROVE  TakesLongest /\ TInv'
<1>1. PICK kind \in DOMAIN Pair : /\ <<Peek(0), Peek(1)>> = Pair[kind]
                                  /\ Take(kind, Pair[kind], 0, pos + 2)
  BY DEF TakePair
<1>2. Pair[kind] \in Pairs /\ kind # "NodeRef" /\ kind \in TokenKind
  BY DEF Pair, Pairs, TokenKind
<1>3. <<Peek(0), Peek(1)>> \in Pairs
  BY <1>1, <1>2
<1>4. /\ Peek(0) # EndOfText /\ Peek(1) # EndOfText
      /\ Peek(0) \in Doubled \cup {"!", "<", ">"} /\ Peek(1) \in Doubled
  BY <1>3 DEF Pairs, EndOfText, Doubled
<1>5. /\ pos \in Nat /\ Len(text) \in Nat /\ pos + 2 <= Len(text)
      /\ text[pos + 1] = Peek(0) /\ text[pos + 2] = Peek(1)
  BY <1>4, PeekText
<1>6. pos + 2 \in pos + 1 .. Len(text) /\ PairAt(pos + 2)
  BY <1>3, <1>5 DEF PairAt
<1>7. pos + 2 \in Lexemes
  BY <1>6, LexemesAt
<1>8. /\ Peek(0) \notin Digit /\ Peek(0) \notin Letter \cup {"_"}
      /\ Peek(1) \notin Letter
  BY <1>4, CharacterClasses DEF Punctuation, Doubled
<1>9. ASSUME NEW e \in pos + 1 .. Len(text), e \in Lexemes PROVE e <= pos + 2
  <2>1. SymbolAt(e) \/ PairAt(e) \/ ReferenceAt(e)
    BY <1>5, <1>8, <1>9, LexemesAt, LexemeBegins
  <2>2. ~ReferenceAt(e)
    BY <1>5, <1>8 DEF ReferenceAt
  <2> QED
    BY <1>5, <2>1, <2>2 DEF SymbolAt, PairAt
<1>10. \A e \in Lexemes : e <= pos + 2
  BY <1>9 DEF Lexemes
<1>11. Pair[kind] = Chunk(pos + 2)
  <2>1. /\ Chunk(pos + 2) \in Seq(Character) /\ Len(Chunk(pos + 2)) = (pos + 2) - pos
        /\ \A i \in 1 .. (pos + 2) - pos : Chunk(pos + 2)[i] = text[pos + i]
    BY <1>6, ChunkElements
  <2>2. (pos + 2) - pos = 2
    BY <1>5
  <2>3. Len(Chunk(pos + 2)) = 2 /\ Chunk(pos + 2)[1] = Peek(0) /\ Chunk(pos + 2)[2] = Peek(1)
    BY <1>5, <2>1, <2>2
  <2>4. Chunk(pos + 2) = <<Peek(0), Peek(1)>>
    BY <2>1, <2>3
  <2> QED
    BY <1>1, <2>4
<1>12. 0 \in 0 .. Largest
  BY FormatConstants
<1>13. Take(kind, Chunk(pos + 2), 0, pos + 2)
  BY <1>1, <1>11
<1> QED
  BY <1>2, <1>6, <1>7, <1>10, <1>12, <1>13, TokenTaken

\* Where a reference ends, if one begins here.
LEMMA ReferenceEnds ==
    ASSUME TInv, Peek(0) = "<", Peek(1) \in Letter
    PROVE  LET end == EndOfRun(pos + 1, ReferenceChar)
           IN  /\ pos + 2 <= Len(text) /\ text[pos + 1] = "<" /\ text[pos + 2] \in Letter
               /\ end \in pos + 2 .. Len(text)
               /\ \A i \in pos + 2 .. end : text[i] \in ReferenceChar
               /\ \A e \in pos + 1 .. Len(text) :
                     e \in Lexemes <=>
                        e = pos + 1 \/ (e = end + 1 /\ end < Len(text) /\ text[end + 1] = ">")
<1> DEFINE end == EndOfRun(pos + 1, ReferenceChar)
<1>1. "<" # EndOfText /\ Peek(1) # EndOfText
  BY CharacterClasses DEF Punctuation, EndOfText
<1>2. /\ pos \in Nat /\ Len(text) \in Nat /\ pos + 2 <= Len(text)
      /\ text[pos + 1] = "<" /\ text[pos + 2] \in Letter
  BY <1>1, PeekText
<1>3. pos + 1 \in 0 .. Len(text) /\ text \in Seq(Character)
  BY <1>2 DEF TInv
<1>4. /\ end \in pos + 1 .. Len(text)
      /\ \A i \in pos + 1 + 1 .. end : text[i] \in ReferenceChar
      /\ end = Len(text) \/ text[end + 1] \notin ReferenceChar
  BY <1>3, RunEnds
<1> HIDE DEF end
<1>5. text[pos + 2] \in ReferenceChar
  BY <1>2 DEF ReferenceChar
<1>6. end # pos + 1
  BY <1>2, <1>4, <1>5
<1>7. end \in pos + 2 .. Len(text) /\ \A i \in pos + 2 .. end : text[i] \in ReferenceChar
  BY <1>2, <1>4, <1>6
<1>8. /\ ">" \notin ReferenceChar /\ "<" \notin Digit /\ "<" \notin Letter \cup {"_"}
      /\ "=" \notin Letter
  BY CharacterClasses DEF Punctuation, ReferenceChar, Doubled
<1>9. ASSUME NEW e \in pos + 1 .. Len(text)
      PROVE  e \in Lexemes <=>
                e = pos + 1 \/ (e = end + 1 /\ end < Len(text) /\ text[end + 1] = ">")
  <2>1. e \in Lexemes <=> SymbolAt(e) \/ PairAt(e) \/ ReferenceAt(e)
    BY <1>2, <1>8, LexemesAt, LexemeBegins
  <2>2. SymbolAt(e) <=> e = pos + 1
    BY <1>2 DEF SymbolAt
  <2>3. ~PairAt(e)
    BY <1>2, <1>8 DEF PairAt, Pairs
  <2>4. ASSUME ReferenceAt(e) PROVE e = end + 1 /\ end < Len(text) /\ text[end + 1] = ">"
    <3>1. /\ e \in Nat /\ e > pos + 2 /\ text[e] = ">" /\ e <= Len(text)
          /\ \A i \in pos + 2 .. e - 1 : text[i] \in ReferenceChar
      BY <1>2, <2>4 DEF ReferenceAt
    <3>2. ~(e <= end)
      BY <1>2, <1>7, <1>8, <3>1
    <3>3. ~(e > end + 1)
      <4>1. e > end + 1 => end + 1 \in pos + 2 .. e - 1 /\ end # Len(text)
        BY <1>2, <1>7, <3>1
      <4> QED
        BY <1>4, <3>1, <4>1
    <3> QED
      BY <1>2, <1>7, <3>1, <3>2, <3>3
  <2>5. ASSUME e = end + 1, end < Len(text), text[end + 1] = ">" PROVE ReferenceAt(e)
    <3>1. e > pos + 2 /\ text[e] = ">" /\ \A i \in pos + 2 .. e - 1 : i \in pos + 2 .. end
      BY <1>2, <1>7, <2>5
    <3> QED
      BY <1>2, <1>7, <3>1 DEF ReferenceAt
  <2> QED
    BY <2>1, <2>2, <2>3, <2>4, <2>5
<1> QED
  BY <1>2, <1>7, <1>9 DEF end

\* A name between brackets, with the brackets, is the text it was read from.
LEMMA ReferenceSpelling ==
    ASSUME TInv, NEW end \in pos + 2 .. Len(text), end < Len(text),
           text[pos + 1] = "<", text[end + 1] = ">"
    PROVE  /\ SubSeq(text, pos + 2, end) \in Seq(Character)
           /\ <<"<">> \o SubSeq(text, pos + 2, end) \o <<">">> = Chunk(end + 1)
<1> DEFINE name == SubSeq(text, pos + 2, end)
           all == Chunk(end + 1)
           k == end - pos - 1
<1>1. /\ pos \in Nat /\ end \in Nat /\ Len(text) \in Nat /\ text \in Seq(Character)
      /\ end + 1 \in pos + 1 .. Len(text) /\ k \in Nat /\ k > 0
  BY DEF TInv
<1>2. \A i \in pos + 2 .. end : text[i] \in Character
  BY <1>1
<1>3. /\ name \in Seq(Character)
      /\ Len(name) = IF pos + 2 <= end THEN end - (pos + 2) + 1 ELSE 0
      /\ \A i \in 1 .. end - (pos + 2) + 1 : name[i] = text[(pos + 2) + i - 1]
  BY <1>1, <1>2, SubSeqProperties
<1>4. /\ pos + 2 <= end /\ end - (pos + 2) + 1 = k
      /\ \A i \in 1 .. k : (pos + 2) + i - 1 = pos + 1 + i
  BY <1>1
<1>5. Len(name) = k /\ \A i \in 1 .. k : name[i] = text[pos + 1 + i]
  BY <1>3, <1>4
<1>6. /\ all \in Seq(Character) /\ Len(all) = (end + 1) - pos
      /\ \A i \in 1 .. (end + 1) - pos : all[i] = text[pos + i]
  BY <1>1, ChunkElements
<1>7. (end + 1) - pos = k + 2
  BY <1>1
<1> HIDE DEF name, all, k
<1>8. /\ Len(all) = k + 2 /\ \A i \in 1 .. k + 2 : all[i] = text[pos + i]
  BY <1>6, <1>7
<1> DEFINE some == Character \cup {"<", ">"}
<1>9. <<"<">> \in Seq(some) /\ <<">">> \in Seq(some) /\ name \in Seq(some) /\ all \in Seq(some)
  <2>1. Character \subseteq some /\ "<" \in some /\ ">" \in some
    OBVIOUS
  <2> HIDE DEF some
  <2>2. Seq(Character) \subseteq Seq(some)
    BY <2>1, SeqMonotonic
  <2> QED
    BY <1>3, <1>6, <2>1, <2>2
<1> HIDE DEF some
<1> DEFINE front == <<"<">> \o name
           whole == front \o <<">">>
<1>10. /\ front \in Seq(some) /\ Len(front) = k + 1 /\ front[1] = "<"
       /\ \A i \in 1 .. k : front[1 + i] = name[i]
  BY <1>1, <1>5, <1>9, ConcatProperties
<1> HIDE DEF front
<1>11. /\ whole \in Seq(some) /\ Len(whole) = k + 2
       /\ \A i \in 1 .. k + 1 : whole[i] = front[i]
       /\ whole[k + 2] = ">"
  BY <1>1, <1>9, <1>10, ConcatProperties
<1> HIDE DEF whole
<1>12. \A i \in 1 .. k + 2 : whole[i] = all[i]
  <2>1. TAKE i \in 1 .. k + 2
  <2>2. CASE i = 1
    BY <1>1, <1>8, <1>10, <1>11, <2>2
  <2>3. CASE i = k + 2
    <3>1. pos + i = end + 1
      BY <1>1, <2>3 DEF k
    <3> QED
      BY <1>1, <1>8, <1>11, <2>3, <3>1
  <2>4. CASE i # 1 /\ i # k + 2
    <3>1. i - 1 \in 1 .. k /\ i \in 1 .. k + 1 /\ 1 + (i - 1) = i /\ pos + 1 + (i - 1) = pos + i
      BY <1>1, <2>4
    <3>2. whole[i] = name[i - 1]
      BY <1>10, <1>11, <3>1
    <3> QED
      BY <1>5, <1>8, <3>1, <3>2
  <2> QED
    BY <2>2, <2>3, <2>4
<1>13. whole = all
  BY <1>1, <1>8, <1>9, <1>11, <1>12, SeqEqual
<1> QED
  BY <1>3, <1>13 DEF whole, front, all, name

LEMMA TakeNodeReferenceReads ==
    ASSUME TInv, TakeNodeReference
    PROVE  (TakesLongest \/ RefusesRightly) /\ TInv'
<1> DEFINE end == EndOfRun(pos + 1, ReferenceChar)
           name == SubSeq(text, pos + 2, end)
<1>1. /\ Peek(0) = "<" /\ Peek(1) \in Letter
      /\ IF end < Len(text) /\ text[end + 1] = ">" THEN Take("NodeRef", name, 0, end + 1) ELSE Refuse
  BY DEF TakeNodeReference
<1>2. /\ pos + 2 <= Len(text) /\ text[pos + 1] = "<" /\ end \in pos + 2 .. Len(text)
      /\ \A e \in pos + 1 .. Len(text) :
            e \in Lexemes <=> e = pos + 1 \/ (e = end + 1 /\ end < Len(text) /\ text[end + 1] = ">")
  BY <1>1, ReferenceEnds
<1> HIDE DEF end
<1>3. pos \in Nat /\ Len(text) \in Nat /\ \A e \in Lexemes : e \in pos + 1 .. Len(text)
  BY DEF TInv, Lexemes
<1>4. CASE end < Len(text) /\ text[end + 1] = ">"
  <2>1. end + 1 \in pos + 1 .. Len(text) /\ end + 1 \in 0 .. Len(text)
    BY <1>2, <1>3, <1>4
  <2>2. end + 1 \in Lexemes /\ \A e \in Lexemes : e <= end + 1
    BY <1>2, <1>3, <1>4, <2>1
  <2>3. name \in Seq(Character) /\ <<"<">> \o name \o <<">">> = Chunk(end + 1)
    BY <1>2, <1>4, ReferenceSpelling
  <2>4. "NodeRef" \in TokenKind /\ 0 \in 0 .. Largest
    BY FormatConstants DEF TokenKind
  <2> HIDE DEF name
  <2>5. /\ TInv' /\ pos' = end + 1 /\ Last(tokens') = Token("NodeRef", name, 0)
        /\ tokens' = Append(tokens, Last(tokens'))
    BY <1>1, <1>4, <2>1, <2>3, <2>4, TakenToken
  <2>6. Spelling(Last(tokens')) = Chunk(end + 1)
    BY <2>3, <2>5 DEF Spelling, Token
  <2> QED
    BY <2>2, <2>5, <2>6 DEF TakesLongest, Chunk
<1>5. CASE ~(end < Len(text) /\ text[end + 1] = ">")
  <2>1. Refuse
    BY <1>1, <1>5
  <2>2. Lexemes = {pos + 1}
    BY <1>2, <1>3, <1>5
  <2> QED
    BY <1>1, <2>1, <2>2 DEF Refuse, RefusesRightly, TInv
<1> QED
  BY <1>4, <1>5

\* Digits, and a fraction if the point has a digit after it, are the longest
\* number that starts here.
NumberEnd ==
    LET whole == EndOfRun(pos, Digit)
    IN  IF /\ whole + 1 < Len(text)
           /\ text[whole + 1] = "." /\ text[whole + 2] \in Digit
        THEN EndOfRun(whole + 1, Digit) ELSE whole

LEMMA NumberEnds ==
    ASSUME TInv, pos + 1 <= Len(text), text[pos + 1] \in Digit
    PROVE  /\ NumberEnd \in pos + 1 .. Len(text)
           /\ NumberAt(NumberEnd)
           /\ \A e \in pos + 1 .. Len(text) : NumberAt(e) => e <= NumberEnd
<1> DEFINE n == Len(text)
           whole == EndOfRun(pos, Digit)
           last == EndOfRun(whole + 1, Digit)
           fraction == whole + 1 < n /\ text[whole + 1] = "." /\ text[whole + 2] \in Digit
<1>1. pos \in Nat /\ n \in Nat /\ pos + 1 <= n /\ pos \in 0 .. n /\ text \in Seq(Character)
  BY DEF TInv
<1>2. /\ whole \in pos .. n
      /\ \A i \in pos + 1 .. whole : text[i] \in Digit
      /\ whole = n \/ text[whole + 1] \notin Digit
  BY <1>1, RunEnds
<1> HIDE DEF whole
<1>3. whole \in pos + 1 .. n
  <2>1. whole # pos
    BY <1>1, <1>2
  <2> QED
    BY <1>1, <1>2, <2>1
<1>4. "." \notin Digit
  BY CharacterClasses DEF Punctuation
<1>5. CASE fraction
  <2>1. whole + 1 \in 0 .. n
    BY <1>1, <1>3, <1>5
  <2>2. /\ last \in whole + 1 .. n
        /\ \A i \in whole + 1 + 1 .. last : text[i] \in Digit
        /\ last = n \/ text[last + 1] \notin Digit
    BY <1>1, <2>1, RunEnds
  <2> HIDE DEF last, n
  <2>3. last # whole + 1
    BY <1>1, <1>3, <1>5, <2>2
  <2>4. last \in whole + 2 .. n /\ \A i \in whole + 2 .. last : text[i] \in Digit
    BY <1>1, <1>3, <2>2, <2>3
  <2>5. /\ whole + 1 \in pos + 2 .. last - 1 /\ text[whole + 1] = "."
        /\ \A i \in pos + 1 .. last : i # whole + 1 => text[i] \in Digit
    <3>1. whole + 1 \in pos + 2 .. last - 1
      BY <1>1, <1>3, <2>4
    <3>2. ASSUME NEW i \in pos + 1 .. last, i # whole + 1 PROVE text[i] \in Digit
      <4>1. i \in pos + 1 .. whole \/ i \in whole + 2 .. last
        BY <1>1, <1>3, <2>4, <3>2
      <4> QED
        BY <1>2, <2>4, <4>1
    <3> QED
      BY <1>5, <3>1, <3>2
  <2>6. NumberAt(last)
    BY <2>5 DEF NumberAt
  <2>7. ASSUME NEW e \in pos + 1 .. n, NumberAt(e), e > last PROVE FALSE
    <3>1. /\ whole + 1 \in pos + 1 .. e /\ text[whole + 1] \notin Digit
          /\ last + 1 \in pos + 1 .. e /\ last + 1 # whole + 1 /\ text[last + 1] \notin Digit
      BY <1>1, <1>3, <1>4, <1>5, <2>2, <2>4, <2>7
    <3> QED
      BY <2>7, <3>1 DEF NumberAt
  <2>8. \A e \in pos + 1 .. n : NumberAt(e) => e <= last
    BY <1>1, <2>4, <2>7
  <2>9. NumberEnd = last
    BY <1>5 DEF NumberEnd, last, whole, n
  <2> QED
    BY <1>1, <1>3, <2>4, <2>6, <2>8, <2>9 DEF n
<1>6. CASE ~fraction
  <2>1. NumberEnd = whole
    BY <1>6 DEF NumberEnd, whole
  <2> HIDE DEF n
  <2>2. NumberAt(whole)
    BY <1>2 DEF NumberAt
  <2>3. ASSUME NEW e \in pos + 1 .. n, NumberAt(e), e > whole PROVE FALSE
    <3>1. whole + 1 \in pos + 1 .. e /\ text[whole + 1] \notin Digit
      BY <1>1, <1>2, <1>3, <2>3
    <3>2. PICK p \in pos + 2 .. e - 1 :
             text[p] = "." /\ \A i \in pos + 1 .. e : i # p => text[i] \in Digit
      BY <2>3, <3>1 DEF NumberAt
    <3>3. p = whole + 1
      BY <3>1, <3>2
    <3>4. whole + 2 \in pos + 1 .. e /\ whole + 2 # p /\ whole + 1 < n
      BY <1>1, <1>3, <3>2, <3>3
    <3> QED
      BY <1>6, <3>2, <3>3, <3>4
  <2>4. \A e \in pos + 1 .. n : NumberAt(e) => e <= whole
    BY <1>1, <1>3, <2>3
  <2> QED
    BY <1>3, <2>1, <2>2, <2>4 DEF n
<1> QED
  BY <1>5, <1>6

\* std::from_chars gives a number of the format, or leaves the 0.
LEMMA ValueType ==
    ASSUME NEW lexeme
    PROVE  Value(lexeme) \in 0 .. Largest
<1> DEFINE point == IF Contains(lexeme, ".")
                    THEN CHOOSE p \in DOMAIN lexeme : lexeme[p] = "." ELSE Len(lexeme) + 1
           whole == FoldLeft(LAMBDA n, d : 10 * n + DigitValue[d], 0, SubSeq(lexeme, 1, point - 1))
           half == point < Len(lexeme) /\ DigitValue[lexeme[point + 1]] >= 5
           halves == 2 * whole + IF half THEN 1 ELSE 0
<1>1. Value(lexeme) = IF halves \in 0 .. Largest THEN halves ELSE 0
  BY Zenon DEF Value
<1>2. 0 \in 0 .. Largest
  BY FormatConstants
<1> HIDE DEF halves
<1> QED
  BY <1>1, <1>2

LEMMA TakeNumberReads ==
    ASSUME TInv, TakeNumber
    PROVE  TakesLongest /\ TInv'
<1> DEFINE lexeme == Chunk(NumberEnd)
<1>1. Peek(0) \in Digit /\ Take("Number", lexeme, Value(lexeme), NumberEnd)
  BY DEF TakeNumber, NumberEnd, Chunk
<1>2. Peek(0) # EndOfText
  BY <1>1, CharacterClasses DEF Punctuation
<1>3. pos + 1 <= Len(text) /\ text[pos + 1] \in Digit
  BY <1>1, <1>2, PeekText
<1>4. /\ NumberEnd \in pos + 1 .. Len(text) /\ NumberAt(NumberEnd)
      /\ \A e \in pos + 1 .. Len(text) : NumberAt(e) => e <= NumberEnd
  BY <1>3, NumberEnds
<1>5. NumberEnd \in Lexemes
  BY <1>4, LexemesAt
<1>6. /\ text[pos + 1] \notin Symbol \cup {"!", "<", ">"} /\ text[pos + 1] \notin Doubled
      /\ text[pos + 1] \notin Letter \cup {"_"}
  BY <1>3, CharacterClasses DEF Punctuation
<1>7. \A e \in pos + 1 .. Len(text) : e \in Lexemes => NumberAt(e)
  BY <1>6, LexemesAt, LexemeBegins DEF SymbolAt
<1>8. \A e \in Lexemes : e <= NumberEnd
  BY <1>4, <1>7 DEF Lexemes
<1>9. Value(lexeme) \in 0 .. Largest /\ "Number" \in TokenKind
  BY ValueType DEF TokenKind
<1> QED
  BY <1>1, <1>4, <1>5, <1>8, <1>9, TokenTaken

LEMMA TakeWordReads ==
    ASSUME TInv, TakeWord
    PROVE  TakesLongest /\ TInv'
<1> DEFINE stop == EndOfRun(pos, ReferenceChar)
           lexeme == Chunk(stop)
<1>1. /\ Peek(0) \in Letter \cup {"_"}
      /\ \/ \E v \in {One, 0} : Take("Number", lexeme, v, stop)
         \/ Take("Identifier", lexeme, 0, stop)
  BY DEF TakeWord, Chunk
<1>2. Peek(0) # EndOfText
  BY <1>1, CharacterClasses DEF Punctuation, EndOfText
<1>3. /\ pos \in Nat /\ Len(text) \in Nat /\ pos + 1 <= Len(text)
      /\ text[pos + 1] \in Letter \cup {"_"}
  BY <1>1, <1>2, PeekText
<1>4. pos \in 0 .. Len(text) /\ text \in Seq(Character)
  BY DEF TInv
<1>5. /\ stop \in pos .. Len(text)
      /\ \A i \in pos + 1 .. stop : text[i] \in ReferenceChar
      /\ stop = Len(text) \/ text[stop + 1] \notin ReferenceChar
  BY <1>4, RunEnds
<1> HIDE DEF stop, lexeme
<1>6. stop # pos
  <2>1. text[pos + 1] \in ReferenceChar
    BY <1>3 DEF ReferenceChar
  <2>2. pos \in Nat /\ Len(text) \in Nat /\ pos + 1 <= Len(text)
    BY <1>3
  <2>3. pos # Len(text)
    BY <2>2
  <2> QED
    BY <1>5, <2>1, <2>3
<1>7. stop \in pos + 1 .. Len(text)
  <2>1. pos \in Nat /\ Len(text) \in Nat
    BY <1>3
  <2>2. stop \in pos .. Len(text)
    BY <1>5
  <2> QED
    BY <1>6, <2>1, <2>2
<1>8. /\ text[pos + 1] \notin Digit /\ text[pos + 1] \notin Symbol \cup {"!", "<", ">"}
      /\ text[pos + 1] \notin Doubled
  BY <1>3, CharacterClasses DEF Punctuation, Symbol, Doubled
<1>9. stop \in Lexemes
  BY <1>5, <1>7, <1>8, LexemesAt DEF WordAt
<1>10. \A e \in pos + 1 .. Len(text) : e \in Lexemes => WordAt(e)
  BY <1>8, LexemesAt, LexemeBegins DEF SymbolAt
<1>11. ASSUME NEW e \in pos + 1 .. Len(text), WordAt(e) PROVE e <= stop
  <2>1. pos \in Nat /\ Len(text) \in Nat
    BY <1>3
  <2>2. ~(e <= stop) => stop + 1 \in pos + 1 .. e /\ stop # Len(text)
    BY <1>7, <2>1
  <2> QED
    BY <1>5, <1>11, <2>2 DEF WordAt
<1>12. \A e \in Lexemes : e <= stop
  BY <1>10, <1>11 DEF Lexemes
<1>13. /\ One \in 0 .. Largest /\ 0 \in 0 .. Largest
       /\ "Number" \in TokenKind /\ "Identifier" \in TokenKind
  BY FormatConstants DEF One, TokenKind
<1> QED
  BY <1>1, <1>7, <1>9, <1>12, <1>13, TokenTaken DEF lexeme

LEMMA RefuseCharacterReads ==
    ASSUME TInv, RefuseCharacter
    PROVE  RefusesRightly /\ TInv'
<1>1. /\ Peek(0) \in Unknown \cup {"."} \/ (Peek(0) \in Doubled /\ Peek(1) # Peek(0))
      /\ outcome' = "INVALID_DSL" /\ UNCHANGED <<text, pos, tokens>>
  BY DEF RefuseCharacter, Refuse
<1>2. Peek(0) # EndOfText
  BY <1>1, CharacterClasses DEF Punctuation, EndOfText, Doubled
<1>3. /\ pos \in Nat /\ Len(text) \in Nat /\ pos + 1 <= Len(text) /\ text[pos + 1] = Peek(0)
  BY <1>2, PeekText
<1>4. /\ text[pos + 1] \notin Digit /\ text[pos + 1] \notin Symbol \cup {"!", "<", ">"}
      /\ text[pos + 1] \notin Letter \cup {"_"}
  BY <1>1, <1>3, CharacterClasses, ZenonT(30) DEF Punctuation, Symbol, Doubled
<1>5. ASSUME NEW e \in pos + 1 .. Len(text) PROVE e \notin Lexemes
  <2>1. e \in Lexemes => PairAt(e)
    BY <1>4, LexemesAt, LexemeBegins DEF SymbolAt
  <2>2. ASSUME PairAt(e) PROVE FALSE
    <3>1. e = pos + 2 /\ <<text[pos + 1], text[pos + 2]>> \in Pairs /\ pos + 2 <= Len(text)
      BY <1>3, <2>2 DEF PairAt
    <3>2. Peek(1) = text[pos + 2]
      BY <3>1, PeekText
    <3>3. Peek(0) \in Doubled => text[pos + 2] = Peek(0)
      BY <1>3, <3>1 DEF Pairs, Doubled
    <3>4. Peek(0) \in Doubled \cup {"!", "<", ">"}
      BY <1>3, <3>1 DEF Pairs, Doubled
    <3>5. Peek(0) \notin Unknown \cup {"."}
      BY <3>4, CharacterClasses DEF Punctuation, Doubled
    <3> QED
      BY <1>1, <3>2, <3>3, <3>5
  <2> QED
    BY <2>1, <2>2
<1>6. Lexemes = {}
  BY <1>5 DEF Lexemes
<1> QED
  BY <1>1, <1>6 DEF RefusesRightly, TInv

LEMMA FinishTokensReads ==
    ASSUME TInv, FinishTokens
    PROVE  ReachesEnd /\ TInv'
<1>1. /\ Peek(0) = EndOfText /\ outcome' = "tokenized" /\ UNCHANGED <<text, pos>>
      /\ tokens' = Append(tokens, EndOfFile)
  BY DEF FinishTokens
<1>2. EndOfFile \in TokenType
  <2>1. << >> \in Seq(Character) /\ 0 \in 0 .. Largest /\ "EndOfFile" \in TokenKind
    BY FormatConstants DEF TokenKind
  <2> QED
    BY <2>1 DEF EndOfFile, Token, TokenType
<1>3. tokens' \in Seq(TokenType)
  BY <1>1, <1>2, AppendProperties DEF TInv
<1> QED
  BY <1>1, <1>3 DEF ReachesEnd, TInv

-----------------------------------------------------------------------------
(***************************************************************************)
(* All of tokenize().                                                      *)
(***************************************************************************)

LEMMA TokenizeReads ==
    ASSUME TInv, Tokenize
    PROVE  (TakesLongest \/ SkipsSpace \/ ReachesEnd \/ RefusesRightly) /\ TInv'
BY SkipSpaceReads, TakeSymbolReads, TakePairReads, TakeNodeReferenceReads, TakeNumberReads,
   TakeWordReads, RefuseCharacterReads, FinishTokensReads DEF Tokenize

-----------------------------------------------------------------------------
(***************************************************************************)
(* Trees.  The operands of a node are made before it, so what is computed  *)
(* over a tree is defined, one node after the other.                       *)
(***************************************************************************)

\* What holds of a number if it holds of all below it, holds of all.
LEMMA Upward ==
    ASSUME NEW n \in Nat, NEW S,
           \A k \in 1 .. n : (\A j \in 1 .. k - 1 : j \in S) => k \in S
    PROVE  \A k \in 1 .. n : k \in S
<1> DEFINE bad == {k \in 1 .. n : k \notin S}
           lt == {q \in Nat \X Nat : q[1] < q[2]}
<1> SUFFICES ASSUME bad # {} PROVE FALSE
  OBVIOUS
<1>1. lt = OpToRel(<, Nat)
  BY Zenon DEF OpToRel
<1>2. IsWellFoundedOn(lt, Nat)
  BY <1>1, NatLessThanWellFounded, Zenon
<1>3. bad \subseteq Nat
  OBVIOUS
<1>4. PICK k \in bad : \A j \in bad : ~ (<<j, k>> \in lt)
  <2> HIDE DEF lt, bad
  <2> QED
    BY <1>2, <1>3, WFMin
<1>5. ASSUME NEW j \in 1 .. k - 1 PROVE j \in S
  <2>1. j \in 1 .. n /\ j < k /\ j \in Nat /\ k \in Nat
    OBVIOUS
  <2>2. <<j, k>> \in lt
    BY <2>1
  <2> QED
    BY <1>4, <2>1, <2>2
<1> QED
  BY <1>5

\* The same, from zero and by steps.
LEMMA Stepwise ==
    ASSUME NEW n \in Nat, NEW S, 0 \in S,
           \A k \in 0 .. n - 1 : k \in S => k + 1 \in S
    PROVE  n \in S
<1>1. \A k \in 1 .. n : (\A j \in 1 .. k - 1 : j \in S) => k \in S
  <2> SUFFICES ASSUME NEW k \in 1 .. n, \A j \in 1 .. k - 1 : j \in S PROVE k \in S
    OBVIOUS
  <2>1. k - 1 \in 0 .. n - 1 /\ (k - 1) + 1 = k /\ (k - 1 = 0 \/ k - 1 \in 1 .. k - 1)
    OBVIOUS
  <2>2. k - 1 \in S
    BY <2>1
  <2> QED
    BY <2>1, <2>2
<1>2. \A k \in 1 .. n : k \in S
  BY <1>1, Upward
<1> QED
  BY <1>2

\* The nodes are numbered operands first.
OperandsFirst ==
    /\ nodes \in Seq([token : Nat, operands : Seq(Nat)])
    /\ \A k \in DOMAIN nodes : OperandsOf(k) \in Seq(1 .. k - 1)

LEMMA OperandsBelow ==
    ASSUME OperandsFirst, NEW k \in DOMAIN nodes
    PROVE  /\ DOMAIN nodes = 1 .. Len(nodes) /\ Len(nodes) \in Nat /\ k \in 1 .. Len(nodes)
           /\ DOMAIN OperandsOf(k) = 1 .. Len(OperandsOf(k)) /\ Len(OperandsOf(k)) \in Nat
           /\ \A i \in DOMAIN OperandsOf(k) : /\ OperandsOf(k)[i] \in 1 .. k - 1
                                              /\ OperandsOf(k)[i] \in DOMAIN nodes
                                              /\ OperandsOf(k)[i] < k
<1>1. DOMAIN nodes = 1 .. Len(nodes) /\ Len(nodes) \in Nat
  BY DEF OperandsFirst
<1>2. OperandsOf(k) \in Seq(1 .. k - 1)
  BY DEF OperandsFirst
<1> QED
  BY <1>1, <1>2

-----------------------------------------------------------------------------
\* The phrases of a node are what it says with the phrases of its operands.
OfOperands(k, f) == [i \in DOMAIN OperandsOf(k) |-> f[OperandsOf(k)[i]]]

LEMMA SameOfOperands ==
    ASSUME OperandsFirst, NEW k \in DOMAIN nodes, NEW f, NEW g,
           \A j \in 1 .. k - 1 : f[j] = g[j]
    PROVE  OfOperands(k, f) = OfOperands(k, g)
BY OperandsBelow DEF OfOperands

LEMMA PhrasesAre ==
    ASSUME OperandsFirst
    PROVE  Phrases = [k \in DOMAIN nodes |-> Enclosed(Says(k, OfOperands(k, Phrases)))]
<1> DEFINE Step(k, f) == Enclosed(Says(k, OfOperands(k, f)))
           Has(m) == \E f : f = [k \in 1 .. m |-> Step(k, f)]
           n == Len(nodes)
           S == {m \in 0 .. n : Has(m)}
<1>1. DOMAIN nodes = 1 .. n /\ n \in Nat
  BY DEF OperandsFirst
<1>2. \A k \in 1 .. n : \A f, g : (\A j \in 1 .. k - 1 : f[j] = g[j]) => Step(k, f) = Step(k, g)
  BY <1>1, SameOfOperands, Zenon
<1> HIDE DEF Step
<1>3. Has(0)
  <2> DEFINE f == [k \in 1 .. 0 |-> 0]
  <2>1. f = [k \in 1 .. 0 |-> Step(k, f)]
    OBVIOUS
  <2> QED
    BY <2>1
<1>4. ASSUME NEW m \in 0 .. n - 1, Has(m) PROVE Has(m + 1)
  <2> PICK f : f = [k \in 1 .. m |-> Step(k, f)]
    BY <1>4
  <2> DEFINE g == [k \in 1 .. m + 1 |-> IF k <= m THEN f[k] ELSE Step(m + 1, f)]
  <2>1. \A k \in 1 .. m + 1 : k \in 1 .. n /\ \A j \in 1 .. k - 1 : f[j] = g[j]
    BY <1>1
  <2>2. \A k \in 1 .. m + 1 : Step(k, f) = Step(k, g)
    <3> HIDE DEF g, n
    <3> QED
      BY <1>2, <2>1, Zenon
  <2>3. \A k \in 1 .. m + 1 : g[k] = Step(k, f)
    OBVIOUS
  <2>4. g = [k \in 1 .. m + 1 |-> Step(k, g)]
    <3>1. DOMAIN g = 1 .. m + 1 /\ g = [k \in 1 .. m + 1 |-> g[k]]
      OBVIOUS
    <3> HIDE DEF g
    <3> QED
      BY <2>2, <2>3, <3>1
  <2> QED
    BY <2>4
<1>5. Has(n)
  <2> HIDE DEF Has
  <2>1. 0 \in S /\ \A m \in 0 .. n - 1 : m \in S => m + 1 \in S
    BY <1>1, <1>3, <1>4
  <2>2. n \in S
    <3> HIDE DEF S, n
    <3> QED
      BY <1>1, <2>1, Stepwise
  <2> QED
    BY <2>2
<1>6. \E f : f = [k \in DOMAIN nodes |-> Step(k, f)]
  BY <1>1, <1>5
<1>7. Phrases = CHOOSE f : f = [k \in DOMAIN nodes |-> Step(k, f)]
  BY Zenon DEF Phrases, Step, OfOperands
<1> HIDE DEF Has
<1>8. Phrases = [k \in DOMAIN nodes |-> Step(k, Phrases)]
  BY <1>6, <1>7, Zenon
<1> QED
  BY <1>8, Zenon DEF Step

-----------------------------------------------------------------------------
(***************************************************************************)
(* The parser.  What has been read is a row of pieces: one for each call   *)
(* that waits, and the operand in lhs.                                     *)
(***************************************************************************)

\* EndOfFile is the last token and no other.
TokensEnd ==
    /\ tokens \in Seq(TokenType)
    /\ Len(tokens) > 0
    /\ \A i \in DOMAIN tokens : tokens[i].kind = "EndOfFile" <=> i = Len(tokens)

\* The places of the others.
Inside == 1 .. Len(tokens) - 1

\* A node has the operands that its token asks for.
Shaped(k) ==
    /\ nodes[k].token \in Inside
    /\ \/ Op(k) \in {"Number", "NodeRef"} /\ Len(OperandsOf(k)) = 0
       \/ IsUnary(k)
       \/ IsBinary(k)
       \/ Op(k) = "?" /\ Len(OperandsOf(k)) = 3
       \/ Op(k) = "Identifier"

TreeOK == OperandsFirst /\ \A k \in DOMAIN nodes : Shaped(k)

Strengths == 0 .. Alone

\* Node n says the tokens from a to b.
Read(n, a, b) == \E l, r \in Strengths : Phrase(a, b, l, r) \in Phrases[n]

\* And the token behind them may take it for its left operand.
ReadBefore(n, a, b, kind) ==
    \E l, r \in Strengths :
        /\ Phrase(a, b, l, r) \in Phrases[n]
        /\ kind \in BinaryOperator \cup {"?"} => r >= NeedsLeft(kind)

IsComma(p) == Kind(p) = ","

\* The operands ns, a comma behind each, are read from the place behind a up to b.
List(ns, a, b) ==
    \E cut \in [0 .. Len(ns) -> Inside] :
        /\ cut[0] = a /\ cut[Len(ns)] = b
        /\ \A i \in 1 .. Len(ns) : /\ Read(ns[i], cut[i - 1] + 1, cut[i] - 1)
                                   /\ IsComma(cut[i])

Roles == {"unary", "right", "then", "else", "group", "argument"}
Frames == [role : Roles, token : Nat, operands : Seq(Nat)]

\* What a waiting call needs of its operand.
NeedOf(c) ==
    IF c.role = "unary" THEN Prefix + 1
    ELSE IF c.role = "right" THEN NeedsRight(tokens[c.token].kind)
    ELSE 0
TopNeed(cs) == IF cs = << >> THEN 0 ELSE NeedOf(Last(cs))

\* The call c, whose caller needs `need', has read the tokens from a to b - 1.
FrameOK(c, need, a, b) ==
    LET t == c.token
        ns == c.operands
        kind == tokens[t].kind
    IN  /\ t \in Inside /\ b \in 1 .. Len(tokens)
        /\ ns \in Seq(DOMAIN nodes)
        /\ \/ c.role = "unary" /\ kind \in UnaryOperator /\ ns = << >> /\ t = a /\ b = a + 1
           \/ c.role = "group" /\ kind = "(" /\ t = a /\ b = a + 1
           \/ /\ c.role = "right" /\ kind \in BinaryOperator /\ Strength(kind) >= need
              /\ Len(ns) = 1 /\ ReadBefore(ns[1], a, t - 1, kind) /\ b = t + 1
           \/ /\ c.role = "then" /\ kind = "?"
              /\ Len(ns) = 1 /\ ReadBefore(ns[1], a, t - 1, kind) /\ b = t + 1
           \/ /\ c.role = "else" /\ kind = "?"
              /\ Len(ns) = 2 /\ ReadBefore(ns[1], a, t - 1, kind)
              /\ b - 1 \in Inside /\ Kind(b - 1) = ":" /\ Read(ns[2], t + 1, b - 2)
           \/ /\ c.role = "argument" /\ kind = "Identifier" /\ t = a /\ Kind(a + 1) = "("
              /\ List(ns, a + 1, b - 1)

\* The calls cs have read the tokens before place b.
Stack(cs, b) ==
    /\ cs \in Seq(Frames)
    /\ \E start \in [0 .. Len(cs) -> 1 .. Len(tokens)] :
          /\ start[0] = 1 /\ start[Len(cs)] = b
          /\ \A s \in 1 .. Len(cs) :
                FrameOK(cs[s], IF s = 1 THEN 0 ELSE NeedOf(cs[s - 1]), start[s - 1], start[s])

\* The running call has read the tokens from a on.
Running(cs, a) ==
    IF lhs = None THEN at = a
    ELSE /\ lhs \in DOMAIN nodes
         /\ \E l, r \in Strengths :
               /\ Phrase(a, at - 1, l, r) \in Phrases[lhs]
               /\ l >= TopNeed(cs)
               /\ Kind(at) \in BinaryOperator \cup {"?"} => r >= NeedsLeft(Kind(at))

ParseInv ==
    /\ TokensEnd /\ TreeOK
    /\ at \in DOMAIN tokens
    /\ \E a \in DOMAIN tokens : Stack(calls, a) /\ Running(calls, a)

-----------------------------------------------------------------------------
LEMMA Kinds ==
    ASSUME TokensEnd, NEW p \in Nat \ {0}
    PROVE  /\ Len(tokens) \in Nat /\ DOMAIN tokens = 1 .. Len(tokens)
           /\ p <= Len(tokens) => Kind(p) = tokens[p].kind
           /\ Kind(p) # "EndOfFile" <=> p \in Inside
           /\ p \in Inside => tokens[p].kind # "EndOfFile"
<1>1. Len(tokens) \in Nat /\ DOMAIN tokens = 1 .. Len(tokens) /\ Len(tokens) > 0
  BY DEF TokensEnd
<1>2. p <= Len(tokens) => Kind(p) = tokens[p].kind
  BY <1>1 DEF Kind
<1>3. p >= Len(tokens) => Kind(p) = "EndOfFile"
  BY <1>1 DEF Kind, TokensEnd
<1>4. p \in Inside => tokens[p].kind # "EndOfFile"
  BY <1>1 DEF Inside, TokensEnd
<1> QED
  BY <1>1, <1>2, <1>3, <1>4 DEF Inside

\* The phrases of one node.
LEMMA PhrasesOf ==
    ASSUME OperandsFirst, NEW k \in DOMAIN nodes
    PROVE  Phrases[k] = Enclosed(Says(k, OfOperands(k, Phrases)))
BY PhrasesAre

LEMMA SaidIsRead ==
    ASSUME OperandsFirst, NEW k \in DOMAIN nodes, NEW p \in Says(k, OfOperands(k, Phrases))
    PROVE  p \in Phrases[k]
BY PhrasesOf DEF Enclosed

LEMMA OperandPhrases ==
    ASSUME OperandsFirst, NEW k \in DOMAIN nodes, NEW i \in DOMAIN OperandsOf(k)
    PROVE  OfOperands(k, Phrases)[i] = Phrases[OperandsOf(k)[i]]
BY DEF OfOperands

LEMMA PhraseFields ==
    ASSUME NEW a, NEW b, NEW l, NEW r
    PROVE  /\ Phrase(a, b, l, r).first = a /\ Phrase(a, b, l, r).last = b
           /\ Phrase(a, b, l, r).left = l /\ Phrase(a, b, l, r).right = r
BY DEF Phrase

\* What operators are and are not.
LEMMA OperatorKinds ==
    /\ {"Number", "NodeRef", "Identifier", "?"} \cap BinaryOperator = {}
    /\ {"Number", "NodeRef", "Identifier", "?"} \cap UnaryOperator = {}
    /\ {"(", ")", ":", "EndOfFile"} \cap BinaryOperator = {}
BY DEF BinaryOperator, UnaryOperator, Arithmetic, Comparison

\* Which of the rules of the grammar makes a phrase of a node.
LEMMA SaysCases ==
    ASSUME TreeOK, NEW k \in DOMAIN nodes, NEW x
    PROVE  /\ Op(k) \in {"Number", "NodeRef"} =>
                Says(k, x) = {Phrase(nodes[k].token, nodes[k].token, Alone, Alone)}
           /\ Op(k) = "Identifier" => Says(k, x) = CallPhrases(nodes[k].token, x)
           /\ Op(k) = "?" => Says(k, x) = ConditionalPhrases(nodes[k].token, x)
           /\ IsUnary(k) => Says(k, x) = PrefixPhrases(nodes[k].token, x)
           /\ IsBinary(k) => Says(k, x) = InfixPhrases(nodes[k].token, Op(k), x)
<1>1. Op(k) \in {"Number", "NodeRef", "Identifier", "?"} => ~IsUnary(k) /\ ~IsBinary(k)
  BY OperatorKinds DEF IsUnary, IsBinary
<1>2. IsBinary(k) => ~IsUnary(k)
  BY DEF IsUnary, IsBinary
<1> QED
  BY <1>1, <1>2 DEF Says

\* A number, a reference.
LEMMA LeafReads ==
    ASSUME TreeOK, NEW k \in DOMAIN nodes, Op(k) \in {"Number", "NodeRef"}
    PROVE  Phrase(nodes[k].token, nodes[k].token, Alone, Alone) \in Phrases[k]
<1>1. Phrase(nodes[k].token, nodes[k].token, Alone, Alone) \in Says(k, OfOperands(k, Phrases))
  BY SaysCases
<1> QED
  BY <1>1, SaidIsRead DEF TreeOK

LEMMA PhrasePlaces ==
    ASSUME TreeOK, TokensEnd
    PROVE  \A k \in DOMAIN nodes : \A p \in Phrases[k] : p.first \in Int /\ p.last \in Int
<1> DEFINE S == {k \in DOMAIN nodes : \A p \in Phrases[k] : p.first \in Int /\ p.last \in Int}
           n == Len(nodes)
<1>1. OperandsFirst /\ n \in Nat /\ DOMAIN nodes = 1 .. n
  BY DEF TreeOK, OperandsFirst
<1>2. ASSUME NEW k \in 1 .. n, \A j \in 1 .. k - 1 : j \in S
      PROVE  k \in S
  <2> DEFINE x == OfOperands(k, Phrases)
  <2>1. k \in DOMAIN nodes /\ Shaped(k) /\ nodes[k].token \in Int
    BY <1>1 DEF TreeOK, Shaped, Inside
  <2>2. ASSUME NEW i \in DOMAIN OperandsOf(k), NEW y \in x[i]
        PROVE  y.first \in Int /\ y.last \in Int
    BY <1>1, <1>2, <2>1, OperandsBelow, OperandPhrases
  <2>3. DOMAIN OperandsOf(k) = 1 .. Len(OperandsOf(k))
    BY <1>1, <2>1, OperandsBelow
  <2>4. ASSUME NEW p \in Says(k, x) PROVE p.first \in Int /\ p.last \in Int
    <3> HIDE DEF x
    <3>1. CASE Op(k) \in {"Number", "NodeRef"}
      BY <2>1, <2>4, <3>1, SaysCases, PhraseFields
    <3>2. CASE Op(k) = "Identifier"
      <4>1. PICK b \in DOMAIN tokens : p = Phrase(nodes[k].token, b, Alone, Alone)
        BY <2>1, <2>4, <3>2, SaysCases DEF CallPhrases
      <4>2. b \in Int
        BY DEF TokensEnd
      <4> QED
        BY <2>1, <4>1, <4>2, PhraseFields
    <3>3. CASE Op(k) = "?"
      <4>1. Len(OperandsOf(k)) = 3
        BY <2>1, <3>3, OperatorKinds DEF Shaped, IsUnary, IsBinary
      <4>2. PICK y \in x[1] \X x[2] \X x[3] : p = Phrase(y[1].first, y[3].last, Alone, 0)
        BY <2>1, <2>4, <3>3, SaysCases DEF ConditionalPhrases
      <4>3. y[1] \in x[1] /\ y[3] \in x[3] /\ 1 \in DOMAIN OperandsOf(k) /\ 3 \in DOMAIN OperandsOf(k)
        BY <2>3, <4>1, <4>2
      <4> QED
        BY <2>2, <4>2, <4>3, PhraseFields
    <3>4. CASE IsUnary(k)
      <4>1. PICK y \in x[1] : p = Phrase(nodes[k].token, y.last, Alone, Weaker(Prefix, y.right))
        BY <2>1, <2>4, <3>4, SaysCases DEF PrefixPhrases
      <4>2. 1 \in DOMAIN OperandsOf(k)
        BY <2>3, <3>4 DEF IsUnary
      <4> QED
        BY <2>1, <2>2, <4>1, <4>2, PhraseFields
    <3>5. CASE IsBinary(k)
      <4>1. PICK y \in x[1] \X x[2] :
               p = Phrase(y[1].first, y[2].last, Strength(Op(k)), Weaker(Strength(Op(k)), y[2].right))
        BY <2>1, <2>4, <3>5, SaysCases DEF InfixPhrases
      <4>2. y[1] \in x[1] /\ y[2] \in x[2] /\ 1 \in DOMAIN OperandsOf(k) /\ 2 \in DOMAIN OperandsOf(k)
        BY <2>3, <3>5, <4>1 DEF IsBinary
      <4> QED
        BY <2>2, <4>1, <4>2, PhraseFields
    <3> QED
      BY <2>1, <3>1, <3>2, <3>3, <3>4, <3>5 DEF Shaped
  <2>5. ASSUME NEW p \in Enclosed(Says(k, x)) PROVE p.first \in Int /\ p.last \in Int
    <3> HIDE DEF x
    <3>1. CASE p \in Says(k, x)
      BY <2>4, <3>1
    <3>2. CASE p \notin Says(k, x)
      <4>1. PICK q \in Says(k, x) : \E d \in 1 .. q.first - 1 : p = Phrase(q.first - d, q.last + d, Alone, Alone)
        BY <2>5, <3>2 DEF Enclosed
      <4>2. PICK d \in 1 .. q.first - 1 : p = Phrase(q.first - d, q.last + d, Alone, Alone)
        BY <4>1
      <4>3. d \in Int /\ q.first \in Int /\ q.last \in Int
        BY <2>4
      <4> QED
        BY <4>2, <4>3, PhraseFields
    <3> QED
      BY <3>1, <3>2
  <2> QED
    BY <1>1, <2>1, <2>5, PhrasesOf
<1>3. \A k \in 1 .. n : k \in S
  <2> HIDE DEF S, n
  <2> QED
    BY <1>1, <1>2, Upward
<1> QED
  BY <1>1, <1>3

LEMMA GroupReads ==
    ASSUME TreeOK, TokensEnd, NEW k \in DOMAIN nodes,
           NEW a \in Nat, NEW b \in Nat, NEW l, NEW r, Phrase(a, b, l, r) \in Phrases[k],
           a > 1, Kind(a - 1) = "(", Kind(b + 1) = ")"
    PROVE  Phrase(a - 1, b + 1, Alone, Alone) \in Phrases[k]
<1> DEFINE S == Says(k, OfOperands(k, Phrases))
           Wide(p) == {d \in 1 .. p.first - 1 :
                         \A i \in 1 .. d : Kind(p.first - i) = "(" /\ Kind(p.last + i) = ")"}
<1>1. Phrases[k] = Enclosed(S) /\ S \subseteq Phrases[k]
  BY PhrasesOf, SaidIsRead DEF TreeOK
<1>2. \A p \in S : \A d \in Wide(p) : Phrase(p.first - d, p.last + d, Alone, Alone) \in Enclosed(S)
  BY DEF Enclosed
<1>3. CASE Phrase(a, b, l, r) \in S
  <2> DEFINE p == Phrase(a, b, l, r)
  <2>1. p.first = a /\ p.last = b
    BY PhraseFields
  <2>2. 1 \in Wide(p)
    <3> HIDE DEF p
    <3> QED
      BY <2>1
  <2> HIDE DEF p, Wide, S
  <2> QED
    BY <1>1, <1>2, <1>3, <2>1, <2>2 DEF p
<1>4. CASE Phrase(a, b, l, r) \notin S
  <2>1. PICK p \in S : \E d \in Wide(p) : Phrase(a, b, l, r) = Phrase(p.first - d, p.last + d, Alone, Alone)
    BY <1>1, <1>4 DEF Enclosed
  <2>2. PICK d \in Wide(p) : Phrase(a, b, l, r) = Phrase(p.first - d, p.last + d, Alone, Alone)
    BY <2>1
  <2>3. a = p.first - d /\ b = p.last + d
    BY <2>2, PhraseFields
  <2>4. p.first \in Int /\ p.last \in Int /\ d \in Int
    BY <1>1, PhrasePlaces
  <2>5. /\ p.first - (d + 1) = a - 1 /\ p.last + (d + 1) = b + 1 /\ d + 1 \in 1 .. p.first - 1
        /\ \A i \in 1 .. d + 1 : i \in 1 .. d \/ i = d + 1
    BY <2>3, <2>4
  <2>6. d + 1 \in Wide(p)
    BY <2>5
  <2> HIDE DEF Wide, S
  <2> QED
    BY <1>1, <1>2, <2>5, <2>6
<1> QED
  BY <1>3, <1>4

LEMMA UnaryReads ==
    ASSUME TreeOK, NEW k \in DOMAIN nodes, IsUnary(k),
           NEW b, NEW l, NEW r, l > Prefix,
           Phrase(nodes[k].token + 1, b, l, r) \in Phrases[OperandsOf(k)[1]]
    PROVE  Phrase(nodes[k].token, b, Alone, Weaker(Prefix, r)) \in Phrases[k]
<1> DEFINE x == OfOperands(k, Phrases)
           y == Phrase(nodes[k].token + 1, b, l, r)
<1>1. 1 \in DOMAIN OperandsOf(k)
  BY OperandsBelow DEF TreeOK, IsUnary
<1>2. y \in x[1]
  BY <1>1, OperandPhrases DEF TreeOK
<1>3. y.first = nodes[k].token + 1 /\ y.last = b /\ y.left = l /\ y.right = r
  BY PhraseFields
<1> HIDE DEF x, y
<1>4. Phrase(nodes[k].token, y.last, Alone, Weaker(Prefix, y.right)) \in Says(k, x)
  BY <1>2, <1>3, SaysCases DEF PrefixPhrases
<1> QED
  BY <1>3, <1>4, SaidIsRead DEF x, TreeOK

LEMMA BinaryReads ==
    ASSUME TreeOK, NEW k \in DOMAIN nodes, IsBinary(k),
           NEW a, NEW b, NEW l1, NEW r1, NEW l2, NEW r2,
           Phrase(a, nodes[k].token - 1, l1, r1) \in Phrases[OperandsOf(k)[1]],
           Phrase(nodes[k].token + 1, b, l2, r2) \in Phrases[OperandsOf(k)[2]],
           r1 >= NeedsLeft(Op(k)), l2 >= NeedsRight(Op(k))
    PROVE  Phrase(a, b, Strength(Op(k)), Weaker(Strength(Op(k)), r2)) \in Phrases[k]
<1> DEFINE x == OfOperands(k, Phrases)
           y == <<Phrase(a, nodes[k].token - 1, l1, r1), Phrase(nodes[k].token + 1, b, l2, r2)>>
<1>1. 1 \in DOMAIN OperandsOf(k) /\ 2 \in DOMAIN OperandsOf(k)
  BY OperandsBelow DEF TreeOK, IsBinary
<1>2. y \in x[1] \X x[2]
  BY <1>1, OperandPhrases DEF TreeOK
<1>3. /\ y[1].first = a /\ y[1].last = nodes[k].token - 1 /\ y[1].right = r1
      /\ y[2].first = nodes[k].token + 1 /\ y[2].last = b /\ y[2].left = l2 /\ y[2].right = r2
  BY PhraseFields
<1> HIDE DEF x, y
<1>4. Phrase(y[1].first, y[2].last, Strength(Op(k)), Weaker(Strength(Op(k)), y[2].right)) \in Says(k, x)
  BY <1>2, <1>3, SaysCases DEF InfixPhrases
<1> QED
  BY <1>3, <1>4, SaidIsRead DEF x, TreeOK

LEMMA ConditionalReads ==
    ASSUME TreeOK, NEW k \in DOMAIN nodes, Op(k) = "?", Len(OperandsOf(k)) = 3,
           NEW a, NEW c, NEW b, NEW l1, NEW r1, NEW l2, NEW r2, NEW l3, NEW r3,
           Phrase(a, nodes[k].token - 1, l1, r1) \in Phrases[OperandsOf(k)[1]],
           r1 >= NeedsLeft("?"),
           Phrase(nodes[k].token + 1, c, l2, r2) \in Phrases[OperandsOf(k)[2]],
           Kind(c + 1) = ":",
           Phrase(c + 2, b, l3, r3) \in Phrases[OperandsOf(k)[3]]
    PROVE  Phrase(a, b, Alone, 0) \in Phrases[k]
<1> DEFINE x == OfOperands(k, Phrases)
           y == <<Phrase(a, nodes[k].token - 1, l1, r1), Phrase(nodes[k].token + 1, c, l2, r2),
                  Phrase(c + 2, b, l3, r3)>>
<1>1. 1 \in DOMAIN OperandsOf(k) /\ 2 \in DOMAIN OperandsOf(k) /\ 3 \in DOMAIN OperandsOf(k)
  BY OperandsBelow DEF TreeOK
<1>2. y \in x[1] \X x[2] \X x[3]
  BY <1>1, OperandPhrases DEF TreeOK
<1>3. /\ y[1].first = a /\ y[1].last = nodes[k].token - 1 /\ y[1].right = r1
      /\ y[2].first = nodes[k].token + 1 /\ y[2].last = c
      /\ y[3].first = c + 2 /\ y[3].last = b
  BY PhraseFields
<1> HIDE DEF x, y
<1>4. Phrase(y[1].first, y[3].last, Alone, 0) \in Says(k, x)
  BY <1>2, <1>3, SaysCases DEF ConditionalPhrases
<1> QED
  BY <1>3, <1>4, SaidIsRead DEF x, TreeOK

LEMMA ArgumentsAre ==
    ASSUME NEW y, NEW t, NEW b, Len(y) > 0,
           Kind(t + 1) = "(", Kind(b) = ")", y[1].first = t + 2, Last(y).last + 1 = b,
           \A i \in 1 .. Len(y) - 1 : IsComma(y[i].last + 1) /\ y[i + 1].first = y[i].last + 2
    PROVE  IsArguments(y, t, b)
<1>1. y # << >>
  OBVIOUS
<1> QED
  BY <1>1, Zenon DEF IsArguments, IsComma

\* A call: its arguments end at the places cut[1], cut[2], ..., each with a comma but
\* the last, which ends with the parenthesis.
LEMMA CallReads ==
    ASSUME TokensEnd, TreeOK, NEW k \in DOMAIN nodes, Op(k) = "Identifier",
           Len(OperandsOf(k)) > 0,
           NEW cut \in [0 .. Len(OperandsOf(k)) -> Inside],
           cut[0] = nodes[k].token + 1, Kind(nodes[k].token + 1) = "(",
           \A i \in 1 .. Len(OperandsOf(k)) : Read(OperandsOf(k)[i], cut[i - 1] + 1, cut[i] - 1),
           \A i \in 1 .. Len(OperandsOf(k)) - 1 : IsComma(cut[i]),
           Kind(cut[Len(OperandsOf(k))]) = ")"
    PROVE  Phrase(nodes[k].token, cut[Len(OperandsOf(k))], Alone, Alone) \in Phrases[k]
<1> DEFINE x == OfOperands(k, Phrases)
           n == Len(OperandsOf(k))
           t == nodes[k].token
           said(i, p) == p \in x[i] /\ p.first = cut[i - 1] + 1 /\ p.last = cut[i] - 1
           y == [i \in 1 .. n |-> CHOOSE p : said(i, p)]
<1>1. n \in Nat /\ n > 0 /\ DOMAIN OperandsOf(k) = 1 .. n
  BY OperandsBelow DEF TreeOK
<1>2. ASSUME NEW i \in 1 .. n PROVE said(i, y[i])
  <2>1. PICK l \in Strengths, r \in Strengths :
           Phrase(cut[i - 1] + 1, cut[i] - 1, l, r) \in Phrases[OperandsOf(k)[i]]
    BY DEF Read
  <2>2. said(i, Phrase(cut[i - 1] + 1, cut[i] - 1, l, r))
    BY <1>1, <2>1, PhraseFields, OperandPhrases DEF TreeOK
  <2> HIDE DEF said
  <2> QED
    BY <2>2
<1>3. DOMAIN x = 1 .. n /\ DOMAIN y = 1 .. n /\ y \in Seq(UNION Range(x)) /\ Len(y) = n
  <2>1. DOMAIN x = 1 .. n
    BY <1>1 DEF OfOperands
  <2>2. \A i \in 1 .. n : y[i] \in UNION Range(x)
    BY <1>2, <2>1 DEF Range
  <2>3. y \in [1 .. n -> UNION Range(x)]
    <3>1. y = [i \in 1 .. n |-> y[i]]
      OBVIOUS
    <3> HIDE DEF x, y
    <3> QED
      BY <2>2, <3>1
  <2> HIDE DEF x, y
  <2> QED
    BY <1>1, <2>1, <2>3
<1>4. cut[n] \in DOMAIN tokens /\ cut[n] \in Nat /\ \A i \in 0 .. n : cut[i] \in Nat /\ cut[i] > 0
  <2>1. Len(tokens) \in Nat /\ DOMAIN tokens = 1 .. Len(tokens)
    BY DEF TokensEnd
  <2>2. n \in 0 .. n /\ \A i \in 0 .. n : cut[i] \in 1 .. Len(tokens) - 1
    BY <1>1 DEF Inside
  <2> HIDE DEF n, y, x
  <2> QED
    BY <2>1, <2>2
<1>5. IsArguments(y, t, cut[n])
  <2>1. y[1].first = cut[0] + 1 /\ Last(y) = y[n] /\ y[n].last = cut[n] - 1 /\ y # << >>
    <3>1. 1 \in 1 .. n /\ n \in 1 .. n
      BY <1>1
    <3>2. said(1, y[1]) /\ said(n, y[n])
      BY <1>2, <3>1
    <3> HIDE DEF y, x
    <3> QED
      BY <1>1, <1>3, <3>2 DEF Last
  <2>2. ASSUME NEW i \in 1 .. n - 1
        PROVE  IsComma(y[i].last + 1) /\ y[i + 1].first = y[i].last + 2
    <3>1. i \in 1 .. n /\ i + 1 \in 1 .. n /\ (i + 1) - 1 = i
      BY <1>1
    <3>2. said(i, y[i]) /\ said(i + 1, y[i + 1])
      BY <1>2, <3>1
    <3> HIDE DEF y, x
    <3>3. cut[i] \in Nat
      BY <1>4, <3>1
    <3>4. y[i].last = cut[i] - 1 /\ y[i + 1].first = cut[i] + 1
      BY <3>1, <3>2
    <3>5. y[i].last + 1 = cut[i] /\ y[i].last + 2 = cut[i] + 1
      BY <3>3, <3>4
    <3> QED
      BY <3>4, <3>5
  <2> HIDE DEF y, x
  <2>3. t \in Nat /\ cut[0] + 1 = t + 2 /\ y[n].last + 1 = cut[n]
    BY <1>4, <2>1 DEF TreeOK, Shaped, Inside
  <2> QED
    BY <1>3, <2>1, <2>2, <2>3, ArgumentsAre
<1>6. \E f \in [DOMAIN x -> UNION Range(x)] :
         (\A i \in DOMAIN x : f[i] \in x[i]) /\ IsArguments(f, t, cut[n])
  <2>1. y \in [DOMAIN x -> UNION Range(x)]
    <3> HIDE DEF y, x
    <3> QED
      BY <1>3
  <2>2. \A i \in DOMAIN x : y[i] \in x[i]
    BY <1>2, <1>3
  <2> HIDE DEF y, x
  <2> QED
    BY <1>5, <2>1, <2>2
<1> HIDE DEF x, y
<1>7. Phrase(t, cut[n], Alone, Alone) \in Says(k, x)
  BY <1>4, <1>6, SaysCases DEF CallPhrases
<1> QED
  BY <1>7, SaidIsRead DEF x, TreeOK

LEMMA EmptyCallReads ==
    ASSUME TokensEnd, TreeOK, NEW k \in DOMAIN nodes, Op(k) = "Identifier",
           OperandsOf(k) = << >>,
           Kind(nodes[k].token + 1) = "(", Kind(nodes[k].token + 2) = ")"
    PROVE  Phrase(nodes[k].token, nodes[k].token + 2, Alone, Alone) \in Phrases[k]
<1> DEFINE x == OfOperands(k, Phrases)
           t == nodes[k].token
           y == << >>
<1>1. t + 2 \in DOMAIN tokens
  BY Kinds DEF TreeOK, Shaped, Inside
<1>2. DOMAIN x = {}
  BY DEF OfOperands
<1>3. IsArguments(y, t, t + 2)
  BY DEF IsArguments
<1>4. y \in [DOMAIN x -> UNION Range(x)] /\ \A i \in DOMAIN x : y[i] \in x[i]
  <2> HIDE DEF x
  <2> QED
    BY <1>2
<1> HIDE DEF x, y
<1>5. Phrase(t, t + 2, Alone, Alone) \in Says(k, x)
  BY <1>1, <1>3, <1>4, SaysCases DEF CallPhrases
<1> QED
  BY <1>5, SaidIsRead DEF x, TreeOK

-----------------------------------------------------------------------------
\* A step that makes a node, or none, and leaves the tokens alone.
Grows ==
    /\ tokens' = tokens
    /\ TreeOK /\ TreeOK'
    /\ Len(nodes) <= Len(nodes') /\ \A k \in DOMAIN nodes : nodes'[k] = nodes[k]

LEMMA SameKinds == ASSUME tokens' = tokens PROVE \A p : Kind(p)' = Kind(p)
BY DEF Kind

LEMMA SameSayings ==
    ASSUME tokens' = tokens, NEW k, nodes'[k] = nodes[k]
    PROVE  \A x : Enclosed(Says(k, x))' = Enclosed(Says(k, x))
<1>1. \A S : Enclosed(S)' = Enclosed(S)
  BY SameKinds DEF Enclosed
<1>2. Op(k)' = Op(k) /\ IsUnary(k)' = IsUnary(k) /\ IsBinary(k)' = IsBinary(k)
  BY DEF Op, TokenOf, IsUnary, IsBinary, OperandsOf
<1>3. ASSUME NEW y, NEW t, NEW b PROVE IsArguments(y, t, b)' = IsArguments(y, t, b)
  <2>1. Kind(t + 1)' = Kind(t + 1) /\ Kind(b)' = Kind(b)
    BY SameKinds
  <2>2. \A i : Kind(y[i].last + 1)' = Kind(y[i].last + 1)
    BY SameKinds
  <2>3. IsArguments(y, t, b)' => IsArguments(y, t, b)
    BY <2>1, <2>2, Zenon DEF IsArguments
  <2>4. IsArguments(y, t, b) => IsArguments(y, t, b)'
    BY <2>1, <2>2, Zenon DEF IsArguments
  <2>5. IsArguments(y, t, b) \in BOOLEAN /\ IsArguments(y, t, b)' \in BOOLEAN
    BY Zenon DEF IsArguments
  <2> QED
    BY <2>3, <2>4, <2>5
<1>4. ASSUME NEW x PROVE Says(k, x)' = Says(k, x)
  <2>1. \A t : CallPhrases(t, x)' = CallPhrases(t, x)
    BY <1>3 DEF CallPhrases
  <2>2. \A t : ConditionalPhrases(t, x)' = ConditionalPhrases(t, x)
    BY SameKinds DEF ConditionalPhrases
  <2>3. \A t, op : PrefixPhrases(t, x)' = PrefixPhrases(t, x) /\ InfixPhrases(t, op, x)' = InfixPhrases(t, op, x)
    OBVIOUS
  <2> QED
    BY <1>2, <2>1, <2>2, <2>3 DEF Says
<1> QED
  BY <1>1, <1>4

LEMMA SamePhrases ==
    ASSUME Grows
    PROVE  \A k \in DOMAIN nodes : k \in DOMAIN nodes' /\ Phrases'[k] = Phrases[k]
<1> DEFINE n == Len(nodes)
           S == {k \in DOMAIN nodes : Phrases'[k] = Phrases[k]}
<1>1. /\ OperandsFirst /\ n \in Nat /\ DOMAIN nodes = 1 .. n
      /\ OperandsFirst' /\ DOMAIN nodes \subseteq DOMAIN nodes'
  BY DEF Grows, TreeOK, OperandsFirst
<1>2. ASSUME NEW k \in 1 .. n, \A j \in 1 .. k - 1 : j \in S PROVE k \in S
  <2>1. k \in DOMAIN nodes /\ k \in DOMAIN nodes' /\ nodes'[k] = nodes[k]
    BY <1>1 DEF Grows
  <2>2. Phrases[k] = Enclosed(Says(k, OfOperands(k, Phrases)))
    BY <1>1, <2>1, PhrasesOf
  <2>3. (k \in DOMAIN nodes => Phrases[k] = Enclosed(Says(k, OfOperands(k, Phrases))))'
    BY <1>1, PhrasesOf, PTL
  <2>4. \A f : OfOperands(k, f)' = OfOperands(k, f)
    BY <2>1 DEF OfOperands, OperandsOf
  <2>5. OfOperands(k, Phrases') = OfOperands(k, Phrases)
    BY <1>1, <1>2, <2>1, SameOfOperands
  <2>6. Phrases'[k] = Enclosed(Says(k, OfOperands(k, Phrases')))
    BY <2>1, <2>3, <2>4, SameSayings DEF Grows
  <2> QED
    BY <2>1, <2>2, <2>5, <2>6
<1>3. \A k \in 1 .. n : k \in S
  <2> HIDE DEF S, n
  <2> QED
    BY <1>1, <1>2, Upward
<1> QED
  BY <1>1, <1>3

-----------------------------------------------------------------------------
(***************************************************************************)
(* Calls are pushed and popped, and what has been read stays read when     *)
(* the tree grows.                                                         *)
(***************************************************************************)
LEMMA TopNeeds ==
    ASSUME NEW cs, NEW b, Stack(cs, b)
    PROVE  TopNeed(cs) \in 0 .. Alone
<1>1. CASE cs = << >>
  BY <1>1 DEF TopNeed, Alone
<1>2. CASE cs # << >>
  <2>1. cs \in Seq(Frames) /\ Len(cs) \in 1 .. Len(cs) /\ Last(cs) = cs[Len(cs)]
    BY <1>2 DEF Stack, Last
  <2>2. PICK need, p, q : FrameOK(Last(cs), need, p, q)
    BY <2>1 DEF Stack
  <2>3. Last(cs).role = "right" => tokens[Last(cs).token].kind \in BinaryOperator
    BY <2>2 DEF FrameOK
  <2>4. \A kind \in BinaryOperator : NeedsRight(kind) \in 0 .. Alone
    BY DEF NeedsRight, Strength, BinaryOperator, Arithmetic, Comparison, Alone
  <2>5. NeedOf(Last(cs)) \in 0 .. Alone
    BY <2>3, <2>4 DEF NeedOf, Prefix, Alone
  <2> QED
    BY <1>2, <2>5 DEF TopNeed
<1> QED
  BY <1>1, <1>2

LEMMA EmptyStack == ASSUME TokensEnd PROVE Stack(<< >>, 1)
<1> DEFINE start == [i \in 0 .. 0 |-> 1]
<1>1. << >> \in Seq(Frames) /\ Len(<< >>) = 0 /\ start \in [0 .. 0 -> 1 .. Len(tokens)] /\ start[0] = 1
  BY DEF TokensEnd
<1> HIDE DEF start
<1> QED
  BY <1>1 DEF Stack

LEMMA Push ==
    ASSUME NEW cs, NEW a, NEW c \in Frames, NEW b, Stack(cs, a), FrameOK(c, TopNeed(cs), a, b)
    PROVE  Stack(Append(cs, c), b)
<1> DEFINE n == Len(cs)
           need(s) == IF s = 1 THEN 0 ELSE NeedOf(cs[s - 1])
<1>1. cs \in Seq(Frames) /\ n \in Nat
  BY DEF Stack
<1>2. PICK start \in [0 .. n -> 1 .. Len(tokens)] :
         /\ start[0] = 1 /\ start[n] = a
         /\ \A s \in 1 .. n : FrameOK(cs[s], need(s), start[s - 1], start[s])
  BY DEF Stack
<1> DEFINE ds == Append(cs, c)
           end == [s \in 0 .. n + 1 |-> IF s <= n THEN start[s] ELSE b]
<1>3. /\ ds \in Seq(Frames) /\ Len(ds) = n + 1 /\ ds[n + 1] = c
      /\ \A s \in 1 .. n : ds[s] = cs[s]
  BY <1>1
<1>4. b \in 1 .. Len(tokens)
  BY DEF FrameOK
<1>5. /\ end \in [0 .. n + 1 -> 1 .. Len(tokens)] /\ end[0] = 1 /\ end[n + 1] = b /\ end[n] = a
      /\ \A s \in 0 .. n : end[s] = start[s]
  BY <1>1, <1>2, <1>4
<1>6. TopNeed(cs) = IF n + 1 = 1 THEN 0 ELSE NeedOf(cs[n])
  BY <1>1 DEF TopNeed, Last
<1> HIDE DEF ds, end
<1>7. ASSUME NEW s \in 1 .. n + 1
      PROVE  FrameOK(ds[s], IF s = 1 THEN 0 ELSE NeedOf(ds[s - 1]), end[s - 1], end[s])
  <2>1. CASE s \in 1 .. n
    <3>1. ds[s] = cs[s] /\ end[s - 1] = start[s - 1] /\ end[s] = start[s] /\ (s # 1 => ds[s - 1] = cs[s - 1])
      <4>1. s \in 0 .. n /\ s - 1 \in 0 .. n /\ (s # 1 => s - 1 \in 1 .. n)
        BY <1>1, <2>1
      <4> QED
        BY <1>3, <1>5, <2>1, <4>1
    <3> QED
      BY <1>2, <2>1, <3>1
  <2>2. CASE s = n + 1
    <3>1. s - 1 = n /\ (s # 1 => ds[n] = cs[n])
      BY <1>1, <1>3, <2>2
    <3> QED
      BY <1>3, <1>5, <1>6, <2>2, <3>1
  <2> QED
    BY <1>1, <2>1, <2>2
<1>8. Stack(ds, b)
  BY <1>3, <1>5, <1>7, Zenon DEF Stack
<1> QED
  BY <1>8 DEF ds

LEMMA Pop ==
    ASSUME NEW cs, NEW b, Stack(cs, b), Len(cs) > 0
    PROVE  \E a \in 1 .. Len(tokens) :
              Stack(Front(cs), a) /\ FrameOK(Last(cs), TopNeed(Front(cs)), a, b)
<1> DEFINE n == Len(cs)
           need(s) == IF s = 1 THEN 0 ELSE NeedOf(cs[s - 1])
           ds == Front(cs)
<1>1. cs \in Seq(Frames) /\ n \in Nat /\ n > 0
  BY DEF Stack
<1>2. PICK start \in [0 .. n -> 1 .. Len(tokens)] :
         /\ start[0] = 1 /\ start[n] = b
         /\ \A s \in 1 .. n : FrameOK(cs[s], need(s), start[s - 1], start[s])
  BY DEF Stack
<1> DEFINE begin == [s \in 0 .. n - 1 |-> start[s]]
           a == start[n - 1]
<1>3. /\ ds \in Seq(Frames) /\ Len(ds) = n - 1 /\ Last(cs) = cs[n]
      /\ \A s \in 1 .. n - 1 : ds[s] = cs[s]
  BY <1>1 DEF Front, Last
<1>4. a \in 1 .. Len(tokens) /\ begin \in [0 .. n - 1 -> 1 .. Len(tokens)] /\ begin[0] = 1 /\ begin[n - 1] = a
  BY <1>1, <1>2
<1>5. need(n) = TopNeed(ds)
  <2>1. ds = << >> <=> n = 1
    BY <1>1, <1>3
  <2>2. n # 1 => Last(ds) = cs[n - 1]
    BY <1>1, <1>3 DEF Last
  <2> HIDE DEF ds
  <2> QED
    BY <2>1, <2>2 DEF TopNeed
<1>6. FrameOK(Last(cs), TopNeed(ds), a, b)
  BY <1>1, <1>2, <1>3, <1>5
<1> HIDE DEF ds
<1>7. ASSUME NEW s \in 1 .. n - 1
      PROVE  FrameOK(ds[s], IF s = 1 THEN 0 ELSE NeedOf(ds[s - 1]), begin[s - 1], begin[s])
  <2>1. /\ s \in 1 .. n /\ ds[s] = cs[s] /\ begin[s - 1] = start[s - 1] /\ begin[s] = start[s]
        /\ (s # 1 => ds[s - 1] = cs[s - 1])
    BY <1>1, <1>3
  <2> QED
    BY <1>2, <2>1
<1>8. Stack(ds, a)
  <2> HIDE DEF begin
  <2> QED
    BY <1>3, <1>4, <1>7, Zenon DEF Stack
<1> QED
  BY <1>4, <1>6, <1>8 DEF ds

\* What has been read stays read.
LEMMA SameReads ==
    ASSUME Grows
    PROVE  /\ \A n \in DOMAIN nodes : \A a, b : Read(n, a, b)' = Read(n, a, b)
           /\ \A n \in DOMAIN nodes : \A a, b, kind : ReadBefore(n, a, b, kind)' = ReadBefore(n, a, b, kind)
           /\ \A ns \in Seq(DOMAIN nodes) : \A a, b : List(ns, a, b) => List(ns, a, b)'
<1>1. \A n \in DOMAIN nodes : Phrases'[n] = Phrases[n]
  BY SamePhrases
<1>2. ASSUME NEW n \in DOMAIN nodes PROVE \A a, b : Read(n, a, b)' = Read(n, a, b)
  BY <1>1 DEF Read
<1>3. ASSUME NEW n \in DOMAIN nodes
      PROVE \A a, b, kind : ReadBefore(n, a, b, kind)' = ReadBefore(n, a, b, kind)
  BY <1>1 DEF ReadBefore
<1>4. ASSUME NEW ns \in Seq(DOMAIN nodes), NEW a, NEW b, List(ns, a, b) PROVE List(ns, a, b)'
  <2>1. Inside' = Inside /\ \A p : IsComma(p)' = IsComma(p)
    BY SameKinds DEF Grows, Inside, IsComma
  <2>2. \A i \in 1 .. Len(ns) : ns[i] \in DOMAIN nodes
    OBVIOUS
  <2> QED
    BY <1>2, <1>4, <2>1, <2>2 DEF List
<1> QED
  BY <1>2, <1>3, <1>4

LEMMA SameFrame ==
    ASSUME Grows, NEW c, NEW need, NEW a, NEW b, FrameOK(c, need, a, b)
    PROVE  FrameOK(c, need, a, b)'
<1> DEFINE t == c.token
           ns == c.operands
           kind == tokens[t].kind
<1>1. tokens' = tokens /\ Inside' = Inside /\ \A p : Kind(p)' = Kind(p)
  BY SameKinds DEF Grows, Inside
<1>2. ns \in Seq(DOMAIN nodes) /\ ns \in Seq(DOMAIN nodes')
  <2>1. DOMAIN nodes \subseteq DOMAIN nodes'
    BY SamePhrases
  <2>2. ns \in Seq(DOMAIN nodes)
    BY DEF FrameOK
  <2> QED
    BY <2>1, <2>2
<1>3. /\ t \in Inside' /\ b \in 1 .. Len(tokens') /\ ns \in Seq(DOMAIN nodes')
  BY <1>1, <1>2 DEF FrameOK
<1>4. \A i \in 1 .. Len(ns) : ns[i] \in DOMAIN nodes
  BY <1>2
<1>5. CASE c.role \in {"unary", "group"}
  BY <1>1, <1>3, <1>5 DEF FrameOK
<1>6. CASE c.role \in {"right", "then"}
  <2>1. Len(ns) = 1 /\ ReadBefore(ns[1], a, t - 1, kind)
    BY <1>6 DEF FrameOK
  <2>2. ReadBefore(ns[1], a, t - 1, kind)'
    BY <1>4, <2>1, SameReads, <1>1
  <2> QED
    BY <1>1, <1>3, <1>6, <2>2 DEF FrameOK
<1>7. CASE c.role = "else"
  <2>1. Len(ns) = 2 /\ ReadBefore(ns[1], a, t - 1, kind) /\ Read(ns[2], t + 1, b - 2)
    BY <1>7 DEF FrameOK
  <2>2. ReadBefore(ns[1], a, t - 1, kind)' /\ Read(ns[2], t + 1, b - 2)'
    BY <1>1, <1>4, <2>1, SameReads
  <2> QED
    BY <1>1, <1>3, <1>7, <2>2 DEF FrameOK
<1>8. CASE c.role = "argument"
  <2>1. List(ns, a + 1, b - 1)
    BY <1>8 DEF FrameOK
  <2>2. List(ns, a + 1, b - 1)'
    BY <1>2, <2>1, SameReads
  <2> QED
    BY <1>1, <1>3, <1>8, <2>2 DEF FrameOK
<1>9. c.role \in {"unary", "group", "right", "then", "else", "argument"}
  BY DEF FrameOK
<1> QED
  BY <1>5, <1>6, <1>7, <1>8, <1>9

LEMMA SameStack ==
    ASSUME Grows, NEW cs, NEW b, Stack(cs, b)
    PROVE  Stack(cs, b)' /\ TopNeed(cs)' = TopNeed(cs)
<1>1. tokens' = tokens /\ \A c : NeedOf(c)' = NeedOf(c)
  BY DEF Grows, NeedOf
<1>2. TopNeed(cs)' = TopNeed(cs)
  BY <1>1 DEF TopNeed
<1>3. \A c, need, p, q : FrameOK(c, need, p, q) => FrameOK(c, need, p, q)'
  BY SameFrame
<1>4. Stack(cs, b)'
  BY <1>1, <1>3 DEF Stack
<1> QED
  BY <1>2, <1>4

-----------------------------------------------------------------------------
\* The node that Make adds.
LEMMA NewNode ==
    ASSUME TokensEnd, TreeOK, tokens' = tokens,
           NEW k, k = Len(nodes) + 1, NEW p \in Inside, NEW ops \in Seq(DOMAIN nodes),
           nodes' = Append(nodes, [token |-> p, operands |-> ops]),
           \/ tokens[p].kind \in {"Number", "NodeRef"} /\ Len(ops) = 0
           \/ tokens[p].kind \in UnaryOperator /\ Len(ops) = 1
           \/ tokens[p].kind \in BinaryOperator /\ Len(ops) = 2
           \/ tokens[p].kind = "?" /\ Len(ops) = 3
           \/ tokens[p].kind = "Identifier"
    PROVE  Grows /\ k \in DOMAIN nodes' /\ nodes'[k].token = p
           /\ Op(k)' = tokens[p].kind /\ OperandsOf(k)' = ops
<1> DEFINE n == Len(nodes)
           new == [token |-> p, operands |-> ops]
<1>1. /\ n \in Nat /\ DOMAIN nodes = 1 .. n /\ nodes \in Seq([token : Nat, operands : Seq(Nat)])
      /\ \A j \in DOMAIN nodes : OperandsOf(j) \in Seq(1 .. j - 1)
  BY DEF TreeOK, OperandsFirst
<1>2. p \in Nat /\ new \in [token : Nat, operands : Seq(Nat)]
  <2>1. p \in Nat
    BY DEF Inside
  <2>2. ops \in Seq(Nat)
    BY <1>1
  <2> QED
    BY <2>1, <2>2
<1>3. /\ nodes' \in Seq([token : Nat, operands : Seq(Nat)]) /\ Len(nodes') = n + 1
      /\ nodes'[n + 1] = new /\ \A j \in 1 .. n : nodes'[j] = nodes[j]
      /\ DOMAIN nodes' = 1 .. n + 1
  <2> HIDE DEF new
  <2> QED
    BY <1>1, <1>2 DEF new
<1>4. Inside' = Inside
  BY DEF Inside
<1>5. \A j \in 1 .. n : /\ Op(j)' = Op(j) /\ OperandsOf(j)' = OperandsOf(j)
                        /\ IsUnary(j)' = IsUnary(j) /\ IsBinary(j)' = IsBinary(j)
  BY <1>3 DEF Op, TokenOf, OperandsOf, IsUnary, IsBinary
<1>6. nodes'[k].token = p /\ Op(k)' = tokens[p].kind /\ OperandsOf(k)' = ops
  BY <1>3 DEF Op, TokenOf, OperandsOf
<1>7. ASSUME NEW j \in DOMAIN nodes' PROVE OperandsOf(j)' \in Seq(1 .. j - 1) /\ Shaped(j)'
  <2>1. CASE j \in 1 .. n
    <3>1. Shaped(j)
      BY <1>1, <2>1 DEF TreeOK
    <3> QED
      BY <1>1, <1>3, <1>4, <1>5, <2>1, <3>1 DEF Shaped
  <2>2. CASE j = k
    <3>1. OperandsOf(j)' \in Seq(1 .. j - 1)
      BY <1>1, <1>6, <2>2
    <3>2. Shaped(k)'
      BY <1>4, <1>6 DEF Shaped, IsUnary, IsBinary
    <3> QED
      BY <2>2, <3>1, <3>2
  <2> QED
    BY <1>1, <1>3, <2>1, <2>2
<1>8. TreeOK'
  BY <1>3, <1>7 DEF TreeOK, OperandsFirst
<1>9. Grows
  BY <1>1, <1>3, <1>8 DEF Grows
<1> QED
  BY <1>1, <1>3, <1>6, <1>9

\* One more operand, and the comma behind it.
LEMMA ListGrows ==
    ASSUME TokensEnd, NEW ns \in Seq(DOMAIN nodes), NEW a, NEW b, List(ns, a, b),
           NEW n \in DOMAIN nodes, NEW c \in Inside, Read(n, b + 1, c - 1), IsComma(c)
    PROVE  List(Append(ns, n), a, c)
<1> DEFINE m == Len(ns)
           ms == Append(ns, n)
<1>1. PICK cut \in [0 .. m -> Inside] :
         /\ cut[0] = a /\ cut[m] = b
         /\ \A i \in 1 .. m : Read(ns[i], cut[i - 1] + 1, cut[i] - 1) /\ IsComma(cut[i])
  BY DEF List
<1> DEFINE new == [i \in 0 .. m + 1 |-> IF i <= m THEN cut[i] ELSE c]
<1>2. m \in Nat /\ Len(ms) = m + 1 /\ ms[m + 1] = n /\ \A i \in 1 .. m : ms[i] = ns[i]
  OBVIOUS
<1>3. /\ new \in [0 .. m + 1 -> Inside] /\ new[0] = a /\ new[m] = b /\ new[m + 1] = c
      /\ \A i \in 0 .. m : new[i] = cut[i]
  BY <1>1, <1>2
<1> HIDE DEF new, ms
<1>4. ASSUME NEW i \in 1 .. m + 1
      PROVE Read(ms[i], new[i - 1] + 1, new[i] - 1) /\ IsComma(new[i])
  <2>1. CASE i = m + 1
    <3>1. new[i - 1] = b /\ new[i] = c /\ ms[i] = n
      BY <1>2, <1>3, <2>1
    <3> QED
      BY <3>1
  <2>2. CASE i \in 1 .. m
    <3>1. new[i - 1] = cut[i - 1] /\ new[i] = cut[i] /\ ms[i] = ns[i]
      <4>1. i - 1 \in 0 .. m /\ i \in 0 .. m
        BY <1>2, <2>2
      <4> QED
        BY <1>2, <1>3, <2>2, <4>1
    <3> QED
      BY <1>1, <2>2, <3>1
  <2> QED
    BY <1>2, <2>1, <2>2
<1>5. List(ms, a, c)
  BY <1>2, <1>3, <1>4 DEF List
<1> QED
  BY <1>5 DEF ms

\* The last operand of a call, and the parenthesis behind it.
LEMMA LastArgument ==
    ASSUME TokensEnd, TreeOK, NEW k \in DOMAIN nodes, Op(k) = "Identifier",
           NEW ns \in Seq(DOMAIN nodes), NEW n \in DOMAIN nodes, OperandsOf(k) = Append(ns, n),
           NEW b, NEW c \in Inside,
           List(ns, nodes[k].token + 1, b), Kind(nodes[k].token + 1) = "(",
           Read(n, b + 1, c - 1), Kind(c) = ")"
    PROVE  Phrase(nodes[k].token, c, Alone, Alone) \in Phrases[k]
<1> DEFINE m == Len(ns)
           a == nodes[k].token + 1
           ms == Append(ns, n)
<1>1. PICK cut \in [0 .. m -> Inside] :
         /\ cut[0] = a /\ cut[m] = b
         /\ \A i \in 1 .. m : Read(ns[i], cut[i - 1] + 1, cut[i] - 1) /\ IsComma(cut[i])
  BY DEF List
<1> DEFINE new == [i \in 0 .. m + 1 |-> IF i <= m THEN cut[i] ELSE c]
<1>2. m \in Nat /\ Len(ms) = m + 1 /\ ms[m + 1] = n /\ \A i \in 1 .. m : ms[i] = ns[i]
  OBVIOUS
<1>3. /\ new \in [0 .. m + 1 -> Inside] /\ new[0] = a /\ new[m] = b /\ new[m + 1] = c
      /\ \A i \in 0 .. m : new[i] = cut[i]
  BY <1>1, <1>2
<1> HIDE DEF new, ms
<1>4. ASSUME NEW i \in 1 .. m + 1
      PROVE Read(ms[i], new[i - 1] + 1, new[i] - 1) /\ (i # m + 1 => IsComma(new[i]))
  <2>1. CASE i = m + 1
    <3>1. new[i - 1] = b /\ new[i] = c /\ ms[i] = n
      BY <1>2, <1>3, <2>1
    <3> QED
      BY <2>1, <3>1
  <2>2. CASE i \in 1 .. m
    <3>1. new[i - 1] = cut[i - 1] /\ new[i] = cut[i] /\ ms[i] = ns[i]
      <4>1. i - 1 \in 0 .. m /\ i \in 0 .. m
        BY <1>2, <2>2
      <4> QED
        BY <1>2, <1>3, <2>2, <4>1
    <3> QED
      BY <1>1, <2>2, <3>1
  <2> QED
    BY <1>2, <2>1, <2>2
<1>5. OperandsOf(k) = ms /\ Len(OperandsOf(k)) = m + 1 /\ m + 1 > 0 /\ (m + 1) - 1 = m
  BY <1>2 DEF ms
<1>6. \A i \in 1 .. Len(OperandsOf(k)) : Read(OperandsOf(k)[i], new[i - 1] + 1, new[i] - 1)
  BY <1>4, <1>5
<1>7. \A i \in 1 .. Len(OperandsOf(k)) - 1 : IsComma(new[i])
  BY <1>2, <1>4, <1>5
<1>8. new \in [0 .. Len(OperandsOf(k)) -> Inside] /\ Kind(new[Len(OperandsOf(k))]) = ")"
  BY <1>3, <1>5
<1>9. Phrase(nodes[k].token, new[Len(OperandsOf(k))], Alone, Alone) \in Phrases[k]
  BY <1>3, <1>5, <1>6, <1>7, <1>8, CallReads
<1> QED
  BY <1>3, <1>5, <1>9

-----------------------------------------------------------------------------
(***************************************************************************)
(* Every step of parsePrimary keeps ParseInv.                              *)
(***************************************************************************)
LEMMA SameTree ==
    ASSUME TokensEnd, TreeOK, nodes' = nodes, tokens' = tokens
    PROVE  Grows /\ TokensEnd'
<1>1. TokensEnd'
  BY DEF TokensEnd
<1>2. \A k : /\ Op(k)' = Op(k) /\ OperandsOf(k)' = OperandsOf(k)
             /\ IsUnary(k)' = IsUnary(k) /\ IsBinary(k)' = IsBinary(k)
  BY DEF Op, TokenOf, OperandsOf, IsUnary, IsBinary
<1>3. Inside' = Inside
  BY DEF Inside
<1>4. \A k \in DOMAIN nodes : Shaped(k)'
  BY <1>2, <1>3 DEF TreeOK, Shaped
<1>5. OperandsFirst'
  BY <1>2 DEF TreeOK, OperandsFirst
<1>6. TreeOK'
  BY <1>4, <1>5 DEF TreeOK
<1>7. Len(nodes) \in Nat
  BY DEF TreeOK, OperandsFirst
<1> QED
  BY <1>1, <1>6, <1>7 DEF Grows

\* The two tables of the code order the operators as their strengths do.
LEMMA Binding ==
    /\ \A kind : LeftBindingPower(kind) \in Int
    /\ \A kind : LeftBindingPower(kind) >= 0 <=> kind \in BinaryOperator
    /\ \A kind \in BinaryOperator :
          /\ NeedsLeft(kind) \in Strengths /\ NeedsRight(kind) \in Strengths
          /\ Strength(kind) \in Strengths
          /\ LeftBindingPower(kind) >= 11 => Strength(kind) >= Prefix + 1
          /\ LeftBindingPower(kind) < 11 => NeedsLeft(kind) <= Prefix
    /\ \A kind \in BinaryOperator : \A op \in BinaryOperator :
          /\ LeftBindingPower(kind) >= RightBindingPower(op) => Strength(kind) >= NeedsRight(op)
          /\ LeftBindingPower(kind) < RightBindingPower(op) => NeedsLeft(kind) <= Strength(op)
<1>0. \A kind : LeftBindingPower(kind) \in Int
  BY DEF LeftBindingPower
<1>1. \A kind : LeftBindingPower(kind) >= 0 <=> kind \in BinaryOperator
  BY DEF LeftBindingPower, BinaryOperator, Arithmetic, Comparison
<1>2. \A kind \in BinaryOperator :
          /\ NeedsLeft(kind) \in Strengths /\ NeedsRight(kind) \in Strengths
          /\ Strength(kind) \in Strengths
          /\ LeftBindingPower(kind) >= 11 => Strength(kind) >= Prefix + 1
          /\ LeftBindingPower(kind) < 11 => NeedsLeft(kind) <= Prefix
  BY DEF LeftBindingPower, BinaryOperator, Arithmetic, Comparison, NeedsLeft, NeedsRight,
         Strength, Strengths, Alone, Prefix
<1>3. ASSUME NEW kind \in BinaryOperator, NEW op \in BinaryOperator
      PROVE  /\ LeftBindingPower(kind) >= RightBindingPower(op) => Strength(kind) >= NeedsRight(op)
             /\ LeftBindingPower(kind) < RightBindingPower(op) => NeedsLeft(kind) <= Strength(op)
  BY SMTT(60) DEF LeftBindingPower, RightBindingPower, BinaryOperator, Arithmetic, Comparison,
         NeedsLeft, NeedsRight, Strength, Alone
<1> QED
  BY <1>0, <1>1, <1>2, <1>3

\* Where the parser is, between two of its steps.
LEMMA Position ==
    ASSUME ParseInv
    PROVE  /\ at \in 1 .. Len(tokens) /\ Len(tokens) \in Nat /\ DOMAIN tokens = 1 .. Len(tokens)
           /\ Kind(at) = tokens[at].kind
           /\ Kind(at) # "EndOfFile" <=> at \in Inside
           /\ at \in Inside => at + 1 \in 1 .. Len(tokens)
           /\ Len(nodes) \in Nat /\ DOMAIN nodes = 1 .. Len(nodes)
<1>1. TokensEnd /\ at \in DOMAIN tokens
  BY DEF ParseInv
<1>2. Len(tokens) \in Nat /\ DOMAIN tokens = 1 .. Len(tokens)
  BY <1>1 DEF TokensEnd
<1>3. Len(nodes) \in Nat /\ DOMAIN nodes = 1 .. Len(nodes)
  BY DEF ParseInv, TreeOK, OperandsFirst
<1> QED
  BY <1>1, <1>2, <1>3, Kinds DEF Inside

\* A step that makes no node, and keeps ParseInv.
LEMMA Moves ==
    ASSUME ParseInv, tokens' = tokens, nodes' = nodes,
           at' \in DOMAIN tokens, NEW a \in DOMAIN tokens, Stack(calls', a), Running(calls, a)'
    PROVE  ParseInv'
<1>1. Grows /\ TokensEnd'
  BY SameTree DEF ParseInv
<1>2. \A cs : Stack(cs, a) => Stack(cs, a)'
  BY <1>1, SameStack
<1>3. Stack(calls, a)'
  BY <1>2
<1> QED
  BY <1>1, <1>3 DEF ParseInv, Grows

\* The running call waits, and a new one starts.
LEMMA Enters ==
    ASSUME ParseInv, tokens' = tokens, nodes' = nodes, lhs' = None,
           at' \in DOMAIN tokens, Stack(calls', at')
    PROVE  ParseInv'
<1> PICK a : a = at'
  OBVIOUS
<1>1. Running(calls, a)'
  BY DEF Running
<1> QED
  BY <1>1, Moves

\* A step that makes a node, and keeps ParseInv.
LEMMA Makes ==
    ASSUME ParseInv, Grows, at' \in DOMAIN tokens, NEW a \in DOMAIN tokens, Stack(calls', a),
           lhs' \in DOMAIN nodes', lhs' # None, NEW l \in Strengths, NEW r \in Strengths,
           Phrase(a, at' - 1, l, r) \in Phrases'[lhs'], l >= TopNeed(calls'),
           Kind(at') \in BinaryOperator \cup {"?"} => r >= NeedsLeft(Kind(at'))
    PROVE  ParseInv'
<1>1. \A cs : Stack(cs, a) => Stack(cs, a)' /\ TopNeed(cs)' = TopNeed(cs)
  BY SameStack
<1>2. Stack(calls, a)' /\ TopNeed(calls)' = TopNeed(calls')
  BY <1>1
<1>3. \A p : Kind(p)' = Kind(p)
  BY SameKinds DEF Grows
<1>4. Running(calls, a)'
  BY <1>2, <1>3 DEF Running
<1>5. TokensEnd' /\ TreeOK' /\ DOMAIN tokens' = DOMAIN tokens
  BY DEF TokensEnd, Grows, ParseInv
<1> QED
  BY <1>2, <1>4, <1>5 DEF ParseInv

LEMMA AloneSuffices == \A kind \in BinaryOperator \cup {"?"} : Alone >= NeedsLeft(kind)
BY Binding DEF Strengths, NeedsLeft, Alone

LEMMA ParseReadLeaf ==
    ASSUME ParseInv, tokens' = tokens, ReadLeaf
    PROVE  ParseInv'
<1>0. PICK k : k = Len(nodes) + 1
  OBVIOUS
<1>1. PICK a \in DOMAIN tokens : Stack(calls, a) /\ Running(calls, a)
  BY DEF ParseInv
<1>2. a = at /\ tokens[at].kind \in {"Number", "NodeRef"} /\ TokensEnd /\ TreeOK
  BY <1>1 DEF ReadLeaf, Starts, Running, ParseInv
<1>3. at \in Inside /\ at \in 1 .. Len(tokens) /\ at + 1 \in 1 .. Len(tokens) /\ Len(nodes) \in Nat
  BY <1>2, Position
<1>4. nodes' = Append(nodes, [token |-> at, operands |-> << >>]) /\ lhs' = k /\ calls' = calls /\ at' = at + 1
  BY <1>0 DEF ReadLeaf, Make
<1>5. Grows /\ k \in DOMAIN nodes' /\ nodes'[k].token = at /\ Op(k)' = tokens[at].kind
  <2>1. << >> \in Seq(DOMAIN nodes) /\ Len(<< >>) = 0
    OBVIOUS
  <2> QED
    BY <1>0, <1>2, <1>3, <1>4, <2>1, NewNode
<1>6. (k \in DOMAIN nodes /\ Op(k) \in {"Number", "NodeRef"} =>
           Phrase(nodes[k].token, nodes[k].token, Alone, Alone) \in Phrases[k])'
  <2>1. TreeOK'
    BY <1>5 DEF Grows
  <2> QED
    BY <2>1, LeafReads, PTL
<1>7. Phrase(at, at, Alone, Alone) \in Phrases'[k]
  BY <1>2, <1>5, <1>6
<1>8. Alone \in Strengths /\ Alone >= TopNeed(calls)
  BY <1>1, TopNeeds DEF Alone, Strengths
<1>9. Phrase(a, at' - 1, Alone, Alone) \in Phrases'[lhs'] /\ lhs' # None /\ lhs' \in DOMAIN nodes'
  BY <1>0, <1>2, <1>3, <1>4, <1>5, <1>7 DEF None
<1> QED
  BY <1>1, <1>3, <1>4, <1>5, <1>8, <1>9, Makes, AloneSuffices, Position

LEMMA ParseReadPrefix ==
    ASSUME ParseInv, tokens' = tokens, ReadPrefix \/ OpenGroup
    PROVE  ParseInv'
<1>1. PICK a \in DOMAIN tokens : Stack(calls, a) /\ Running(calls, a)
  BY DEF ParseInv
<1>2. a = at /\ tokens[at].kind \in UnaryOperator \cup {"("}
  BY <1>1 DEF ReadPrefix, OpenGroup, Starts, Running
<1>3. at \in Inside /\ at \in 1 .. Len(tokens) /\ at + 1 \in 1 .. Len(tokens)
  BY <1>2, Position DEF UnaryOperator
<1>4. PICK role \in {"unary", "group"} :
         /\ calls' = Append(calls, Waiting(role, at, << >>)) /\ lhs' = None /\ at' = at + 1
         /\ nodes' = nodes
         /\ role = "unary" => tokens[at].kind \in UnaryOperator
         /\ role = "group" => tokens[at].kind = "("
  BY DEF ReadPrefix, OpenGroup, Starts, Enter
<1> DEFINE c == Waiting(role, at, << >>)
<1>5. c \in Frames /\ c.role = role /\ c.token = at /\ c.operands = << >>
  BY <1>3 DEF Waiting, Frames, Roles
<1>6. << >> \in Seq(DOMAIN nodes)
  OBVIOUS
<1> HIDE DEF c
<1>7. FrameOK(c, TopNeed(calls), a, at + 1)
  BY <1>2, <1>3, <1>4, <1>5, <1>6 DEF FrameOK
<1>8. Stack(calls', at + 1)
  BY <1>1, <1>4, <1>5, <1>7, Push DEF c
<1> QED
  BY <1>3, <1>4, <1>8, Enters, Position

LEMMA ParseOpenCall ==
    ASSUME ParseInv, tokens' = tokens, OpenCall
    PROVE  ParseInv'
<1>0. PICK k : k = Len(nodes) + 1
  OBVIOUS
<1>1. PICK a \in DOMAIN tokens : Stack(calls, a) /\ Running(calls, a)
  BY DEF ParseInv
<1>2. a = at /\ tokens[at].kind = "Identifier" /\ Kind(at + 1) = "(" /\ TokensEnd /\ TreeOK /\ lhs = None
  BY <1>1 DEF OpenCall, Starts, Running, ParseInv
<1>3. /\ at \in Inside /\ at \in 1 .. Len(tokens) /\ at + 1 \in 1 .. Len(tokens) /\ Len(nodes) \in Nat
      /\ DOMAIN tokens = 1 .. Len(tokens) /\ Len(tokens) \in Nat
  BY <1>2, Position
<1>4. at + 1 \in Inside /\ at + 2 \in 1 .. Len(tokens)
  <2>1. at + 1 \in Nat \ {0}
    BY <1>3
  <2>2. at + 1 \in Inside
    BY <1>2, <2>1, Kinds
  <2> QED
    BY <1>3, <2>2 DEF Inside
<1>5. CASE Kind(at + 2) = ")"
  <2>1. nodes' = Append(nodes, [token |-> at, operands |-> << >>]) /\ lhs' = k /\ calls' = calls /\ at' = at + 3
    BY <1>0, <1>5 DEF OpenCall, Make
  <2>2. /\ Grows /\ k \in DOMAIN nodes' /\ nodes'[k].token = at /\ Op(k)' = tokens[at].kind
        /\ OperandsOf(k)' = << >>
    <3>1. << >> \in Seq(DOMAIN nodes)
      OBVIOUS
    <3> QED
      BY <1>0, <1>2, <1>3, <2>1, <3>1, NewNode
  <2>3. at + 2 \in Inside /\ at + 3 \in 1 .. Len(tokens)
    <3>1. at + 2 \in Nat \ {0}
      BY <1>3
    <3>2. at + 2 \in Inside
      BY <1>2, <1>5, <3>1, Kinds
    <3> QED
      BY <1>3, <3>2 DEF Inside
  <2>4. (k \in DOMAIN nodes /\ Op(k) = "Identifier" /\ OperandsOf(k) = << >>
             /\ Kind(nodes[k].token + 1) = "(" /\ Kind(nodes[k].token + 2) = ")" =>
             Phrase(nodes[k].token, nodes[k].token + 2, Alone, Alone) \in Phrases[k])'
    <3>1. TreeOK' /\ TokensEnd'
      BY <1>2, <2>2 DEF Grows, TokensEnd
    <3> QED
      BY <3>1, EmptyCallReads, PTL
  <2>5. Phrase(at, at + 2, Alone, Alone) \in Phrases'[k]
    <3>1. \A p : Kind(p)' = Kind(p)
      BY SameKinds
    <3>2. Kind(nodes[k].token + 1)' = "(" /\ Kind(nodes[k].token + 2)' = ")"
      BY <1>2, <1>5, <2>2, <3>1
    <3> QED
      BY <1>2, <2>2, <2>4, <3>2
  <2>6. Alone \in Strengths /\ Alone >= TopNeed(calls)
    BY <1>1, TopNeeds DEF Alone, Strengths
  <2>7. Phrase(a, at' - 1, Alone, Alone) \in Phrases'[lhs'] /\ lhs' # None /\ lhs' \in DOMAIN nodes'
    BY <1>0, <1>2, <1>3, <2>1, <2>2, <2>5 DEF None
  <2> QED
    BY <1>1, <1>3, <2>1, <2>2, <2>3, <2>6, <2>7, Makes, AloneSuffices
<1>6. CASE Kind(at + 2) # ")"
  <2> DEFINE c == Waiting("argument", at, << >>)
  <2>1. /\ calls' = Append(calls, c) /\ lhs' = None /\ at' = at + 2
        /\ nodes' = nodes
    BY <1>6 DEF OpenCall, Enter
  <2>2. c \in Frames /\ c.role = "argument" /\ c.token = at /\ c.operands = << >>
    BY <1>3 DEF Waiting, Frames, Roles
  <2>3. << >> \in Seq(DOMAIN nodes) /\ Len(<< >>) = 0
    OBVIOUS
  <2>4. List(<< >>, a + 1, at + 1)
    <3> DEFINE cut == [i \in 0 .. 0 |-> at + 1]
    <3>1. cut \in [0 .. 0 -> Inside] /\ cut[0] = at + 1
      BY <1>4
    <3> HIDE DEF cut
    <3> QED
      BY <1>2, <3>1 DEF List
  <2> HIDE DEF c
  <2>5. FrameOK(c, TopNeed(calls), a, at + 2)
    <3>1. (at + 2) - 1 = at + 1
      BY <1>3
    <3> QED
      BY <1>2, <1>3, <1>4, <2>2, <2>3, <2>4, <3>1 DEF FrameOK
  <2>6. Stack(calls', at + 2)
    BY <1>1, <2>1, <2>2, <2>5, Push
  <2> QED
    BY <1>3, <1>4, <2>1, <2>6, Enters
<1> QED
  BY <1>5, <1>6

-----------------------------------------------------------------------------
(***************************************************************************)
(* And so does every step of the loop of parseExpression. What the code    *)
(* asks of an operator before it takes it is what the waiting calls need   *)
(* of their operands.                                                      *)
(***************************************************************************)
\* What MinBindingPower asks for is what the waiting call needs.
LEMMA PowerIsNeed ==
    ASSUME NEW b, Stack(calls, b), NEW kind \in BinaryOperator,
           LeftBindingPower(kind) >= MinBindingPower
    PROVE  Strength(kind) >= TopNeed(calls)
<1>1. CASE calls = << >>
  BY <1>1, Binding DEF TopNeed, Strengths
<1>2. CASE calls # << >>
  <2> DEFINE c == Last(calls)
             op == tokens[c.token].kind
  <2>1. calls \in Seq(Frames) /\ Len(calls) \in 1 .. Len(calls) /\ Last(calls) = calls[Len(calls)]
    BY <1>2 DEF Stack, Last
  <2>2. PICK need, p, q : FrameOK(c, need, p, q)
    BY <2>1 DEF Stack
  <2> HIDE DEF c
  <2>3. CASE c.role = "unary"
    BY <1>2, <2>3, Binding DEF TopNeed, NeedOf, MinBindingPower, c
  <2>4. CASE c.role = "right"
    <3>1. op \in BinaryOperator
      BY <2>2, <2>4 DEF FrameOK
    <3>2. MinBindingPower = RightBindingPower(op) /\ TopNeed(calls) = NeedsRight(op)
      BY <1>2, <2>4 DEF TopNeed, NeedOf, MinBindingPower, c
    <3> QED
      BY <3>1, <3>2, Binding
  <2>5. CASE c.role \notin {"unary", "right"}
    BY <1>2, <2>5, Binding DEF TopNeed, NeedOf, Strengths, c
  <2> QED
    BY <2>3, <2>4, <2>5
<1> QED
  BY <1>1, <1>2

LEMMA MinIsNatural == ASSUME ParseInv PROVE MinBindingPower \in Nat
<1>1. PICK b : Stack(calls, b)
  BY DEF ParseInv
<1>2. CASE calls = << >>
  BY <1>2 DEF MinBindingPower
<1>3. CASE calls # << >>
  <2>1. calls \in Seq(Frames) /\ Len(calls) \in 1 .. Len(calls) /\ Last(calls) = calls[Len(calls)]
    BY <1>1, <1>3 DEF Stack, Last
  <2>2. PICK need, p, q : FrameOK(Last(calls), need, p, q)
    BY <1>1, <2>1 DEF Stack
  <2>3. Last(calls).role = "right" => tokens[Last(calls).token].kind \in BinaryOperator
    BY <2>2 DEF FrameOK
  <2>4. \A op \in BinaryOperator : RightBindingPower(op) \in Nat
    BY DEF RightBindingPower, LeftBindingPower, BinaryOperator, Arithmetic, Comparison
  <2> QED
    BY <1>3, <2>3, <2>4 DEF MinBindingPower
<1> QED
  BY <1>2, <1>3

LEMMA ParseReadQuestion ==
    ASSUME ParseInv, tokens' = tokens, ReadQuestion \/ ReadOperator
    PROVE  ParseInv'
<1>1. PICK a \in DOMAIN tokens : Stack(calls, a) /\ Running(calls, a)
  BY DEF ParseInv
<1>2. PICK role \in {"then", "right"} :
         /\ calls' = Append(calls, Waiting(role, at, <<lhs>>)) /\ lhs' = None /\ at' = at + 1
         /\ nodes' = nodes /\ lhs # None
         /\ role = "then" => Kind(at) = "?"
         /\ role = "right" => LeftBindingPower(Kind(at)) >= MinBindingPower
  BY DEF ReadQuestion, ReadOperator, Enter
<1>3. role = "right" => Kind(at) \in BinaryOperator /\ Strength(Kind(at)) >= TopNeed(calls)
  <2>3. role = "right" => Kind(at) \in BinaryOperator
    BY <1>2, MinIsNatural, Binding
  <2> QED
    BY <1>1, <1>2, <2>3, PowerIsNeed
<1>4. Kind(at) \in BinaryOperator \cup {"?"} /\ Kind(at) # "EndOfFile"
  BY <1>2, <1>3, OperatorKinds
<1>5. at \in Inside /\ at \in 1 .. Len(tokens) /\ at + 1 \in 1 .. Len(tokens) /\ Kind(at) = tokens[at].kind
  BY <1>4, Position
<1>6. /\ lhs \in DOMAIN nodes /\ lhs \in Nat
      /\ \E l, r \in Strengths : Phrase(a, at - 1, l, r) \in Phrases[lhs] /\ r >= NeedsLeft(Kind(at))
  BY <1>1, <1>2, <1>4, Position DEF Running
<1> DEFINE c == Waiting(role, at, <<lhs>>)
<1>7. c \in Frames /\ c.role = role /\ c.token = at /\ c.operands = <<lhs>>
  BY <1>5, <1>6 DEF Waiting, Frames, Roles
<1>8. <<lhs>> \in Seq(DOMAIN nodes) /\ Len(<<lhs>>) = 1 /\ <<lhs>>[1] = lhs
  BY <1>6
<1>9. ReadBefore(lhs, a, at - 1, Kind(at))
  BY <1>6 DEF ReadBefore
<1> HIDE DEF c
<1>10. FrameOK(c, TopNeed(calls), a, at + 1)
  BY <1>2, <1>3, <1>5, <1>7, <1>8, <1>9 DEF FrameOK
<1>11. Stack(calls', at + 1)
  BY <1>1, <1>2, <1>7, <1>10, Push DEF c
<1> QED
  BY <1>2, <1>5, <1>11, Enters, Position

\* Who gets what has been read.
LEMMA Returning ==
    ASSUME ParseInv, NEW roles, Returns(roles)
    PROVE  \E a \in DOMAIN tokens, b \in DOMAIN tokens :
              \E l, r \in Strengths :
              /\ Stack(Front(calls), a) /\ FrameOK(Last(calls), TopNeed(Front(calls)), a, b)
              /\ Last(calls) \in Frames /\ Last(calls).role \in roles /\ Front(calls) \in Seq(Frames)
              /\ lhs \in DOMAIN nodes /\ Phrase(b, at - 1, l, r) \in Phrases[lhs]
              /\ l >= NeedOf(Last(calls))
              /\ Kind(at) \in BinaryOperator \cup {"?"} => r >= NeedsLeft(Kind(at))
<1>1. PICK b \in DOMAIN tokens : Stack(calls, b) /\ Running(calls, b)
  BY DEF ParseInv
<1>2. lhs # None /\ calls # << >> /\ Last(calls).role \in roles
  BY DEF Returns
<1>3. calls \in Seq(Frames) /\ Len(calls) > 0
  BY <1>1, <1>2 DEF Stack
<1>4. Last(calls) \in Frames /\ Front(calls) \in Seq(Frames)
  BY <1>3 DEF Last, Front
<1>5. PICK a \in 1 .. Len(tokens) : Stack(Front(calls), a) /\ FrameOK(Last(calls), TopNeed(Front(calls)), a, b)
  BY <1>1, <1>3, Pop
<1>6. /\ lhs \in DOMAIN nodes
      /\ \E l, r \in Strengths :
               /\ Phrase(b, at - 1, l, r) \in Phrases[lhs]
               /\ l >= TopNeed(calls)
               /\ Kind(at) \in BinaryOperator \cup {"?"} => r >= NeedsLeft(Kind(at))
  BY <1>1, <1>2 DEF Running
<1>7. TopNeed(calls) = NeedOf(Last(calls))
  BY <1>2 DEF TopNeed
<1> QED
  BY <1>2, <1>4, <1>5, <1>6, <1>7, Position

LEMMA ParseFinishGroup ==
    ASSUME ParseInv, tokens' = tokens, FinishGroup
    PROVE  ParseInv'
<1> DEFINE c == Last(calls)
<1>1. calls' = Front(calls) /\ at' = at + 1 /\ lhs' = lhs /\ nodes' = nodes /\ Kind(at) = ")"
  BY DEF FinishGroup
<1>2. PICK a \in DOMAIN tokens, b \in DOMAIN tokens, l \in Strengths, r \in Strengths :
         /\ Stack(Front(calls), a) /\ FrameOK(c, TopNeed(Front(calls)), a, b)
         /\ c.role = "group"
         /\ lhs \in DOMAIN nodes /\ Phrase(b, at - 1, l, r) \in Phrases[lhs]
  <2>1. Returns({"group"})
    BY DEF FinishGroup
  <2> QED
    BY <2>1, Returning
<1> HIDE DEF c
<1>3. c.token = a /\ b = a + 1 /\ tokens[a].kind = "(" /\ a \in Inside
  BY <1>2 DEF FrameOK
<1>4. TokensEnd /\ TreeOK
  BY DEF ParseInv
<1>5. /\ at \in Inside /\ at \in 1 .. Len(tokens) /\ at + 1 \in 1 .. Len(tokens) /\ Len(tokens) \in Nat
      /\ DOMAIN tokens = 1 .. Len(tokens)
  BY <1>1, Position
<1>6. a \in Nat /\ a > 0 /\ Kind(a) = "(" /\ b - 1 = a /\ (at - 1) + 1 = at /\ at - 1 \in Nat
  BY <1>3, <1>4, <1>5, Kinds
<1>7. Phrase(b - 1, (at - 1) + 1, Alone, Alone) \in Phrases[lhs]
  <2>1. b \in Nat /\ b > 1 /\ Kind(b - 1) = "(" /\ Kind((at - 1) + 1) = ")"
    BY <1>1, <1>3, <1>6
  <2> QED
    BY <1>2, <1>4, <1>6, <2>1, GroupReads
<1>8. Grows
  BY <1>1, <1>4, SameTree
<1>9. Phrase(a, at' - 1, Alone, Alone) \in Phrases'[lhs'] /\ lhs' \in DOMAIN nodes'
  <2>1. at' - 1 = (at - 1) + 1
    BY <1>1, <1>5
  <2>2. Phrases'[lhs] = Phrases[lhs]
    BY <1>2, <1>8, SamePhrases
  <2> QED
    BY <1>1, <1>2, <1>6, <1>7, <2>1, <2>2
<1>10. Alone \in Strengths /\ Alone >= TopNeed(Front(calls))
  BY <1>2, TopNeeds DEF Alone, Strengths
<1>11. lhs' # None
  BY <1>1 DEF FinishGroup, Returns
<1> QED
  BY <1>1, <1>2, <1>5, <1>8, <1>9, <1>10, <1>11, Makes, AloneSuffices

LEMMA ParseFinishThen ==
    ASSUME ParseInv, tokens' = tokens, FinishThen
    PROVE  ParseInv'
<1> DEFINE c == Last(calls)
           t == c.token
           ns == c.operands
           d == Waiting("else", t, Append(ns, lhs))
<1>1. /\ calls' = Append(Front(calls), d) /\ at' = at + 1 /\ lhs' = None /\ nodes' = nodes
      /\ Kind(at) = ":"
  BY DEF FinishThen, Enter, Operands
<1>2. PICK a \in DOMAIN tokens, b \in DOMAIN tokens, l \in Strengths, r \in Strengths :
         /\ Stack(Front(calls), a) /\ FrameOK(c, TopNeed(Front(calls)), a, b)
         /\ c \in Frames /\ c.role = "then"
         /\ lhs \in DOMAIN nodes /\ Phrase(b, at - 1, l, r) \in Phrases[lhs]
  <2>1. Returns({"then"})
    BY DEF FinishThen
  <2> QED
    BY <2>1, Returning
<1> HIDE DEF c
<1>3. /\ t \in Inside /\ tokens[t].kind = "?" /\ b = t + 1
      /\ ns \in Seq(DOMAIN nodes) /\ Len(ns) = 1 /\ ReadBefore(ns[1], a, t - 1, "?")
  BY <1>2 DEF FrameOK
<1>4. /\ at \in Inside /\ at \in 1 .. Len(tokens) /\ at + 1 \in 1 .. Len(tokens) /\ Len(tokens) \in Nat
      /\ DOMAIN tokens = 1 .. Len(tokens) /\ DOMAIN nodes = 1 .. Len(nodes)
      /\ (at + 1) - 1 = at /\ (at + 1) - 2 = at - 1
  BY <1>1, Position
<1>5. d \in Frames /\ d.role = "else" /\ d.token = t /\ d.operands = Append(ns, lhs)
  <2>1. Append(ns, lhs) \in Seq(Nat)
    BY <1>2, <1>3, <1>4
  <2> QED
    BY <1>3, <2>1 DEF Waiting, Frames, Roles, Inside
<1>6. /\ Append(ns, lhs) \in Seq(DOMAIN nodes) /\ Len(Append(ns, lhs)) = 2
      /\ Append(ns, lhs)[1] = ns[1] /\ Append(ns, lhs)[2] = lhs
  <2>1. lhs \in DOMAIN nodes /\ ns \in Seq(DOMAIN nodes) /\ Len(ns) = 1
    BY <1>2, <1>3
  <2> HIDE DEF ns, t
  <2> PICK m, x : m = lhs /\ x = ns
    OBVIOUS
  <2>2. /\ Append(x, m) \in Seq(DOMAIN nodes) /\ Len(Append(x, m)) = Len(x) + 1
        /\ \A i \in 1 .. Len(x) : Append(x, m)[i] = x[i]
        /\ Append(x, m)[Len(x) + 1] = m
    <3>1. m \in DOMAIN nodes /\ x \in Seq(DOMAIN nodes)
      BY <2>1
    <3> QED
      BY <3>1, AppendProperties
  <2> QED
    BY <2>1, <2>2
<1>7. Read(lhs, t + 1, at - 1)
  BY <1>2, <1>3 DEF Read
<1> HIDE DEF d
<1>8. FrameOK(d, TopNeed(Front(calls)), a, at + 1)
  BY <1>1, <1>3, <1>4, <1>5, <1>6, <1>7 DEF FrameOK
<1>9. Stack(calls', at + 1)
  BY <1>1, <1>2, <1>5, <1>8, Push
<1> QED
  BY <1>1, <1>4, <1>9, Enters

LEMMA ParseNextArgument ==
    ASSUME ParseInv, tokens' = tokens, NextArgument
    PROVE  ParseInv'
<1> DEFINE c == Last(calls)
           t == c.token
           ns == c.operands
           d == Waiting("argument", t, Append(ns, lhs))
<1>1. /\ calls' = Append(Front(calls), d) /\ at' = at + 1 /\ lhs' = None /\ nodes' = nodes
      /\ IsComma(at) /\ Kind(at) # "EndOfFile"
  BY Zenon DEF NextArgument, Enter, Operands, IsComma
<1>2. PICK a \in DOMAIN tokens, b \in DOMAIN tokens, l \in Strengths, r \in Strengths :
         /\ Stack(Front(calls), a) /\ FrameOK(c, TopNeed(Front(calls)), a, b)
         /\ c \in Frames /\ c.role = "argument"
         /\ lhs \in DOMAIN nodes /\ Phrase(b, at - 1, l, r) \in Phrases[lhs]
  <2>1. Returns({"argument"})
    BY Zenon DEF NextArgument
  <2> QED
    BY <2>1, Returning
<1> HIDE DEF c
<1>3. /\ t \in Inside /\ tokens[t].kind = "Identifier" /\ t = a /\ Kind(a + 1) = "("
      /\ ns \in Seq(DOMAIN nodes) /\ List(ns, a + 1, b - 1)
  BY <1>2 DEF FrameOK
<1>4. /\ at \in Inside /\ at \in 1 .. Len(tokens) /\ at + 1 \in 1 .. Len(tokens) /\ Len(tokens) \in Nat
      /\ DOMAIN tokens = 1 .. Len(tokens) /\ DOMAIN nodes = 1 .. Len(nodes)
      /\ (at + 1) - 1 = at /\ (b - 1) + 1 = b
  BY <1>1, Position
<1>5. d \in Frames /\ d.role = "argument" /\ d.token = t /\ d.operands = Append(ns, lhs)
  <2>1. Append(ns, lhs) \in Seq(Nat)
    BY <1>2, <1>3, <1>4
  <2> QED
    BY <1>3, <2>1 DEF Waiting, Frames, Roles, Inside
<1>6. Append(ns, lhs) \in Seq(DOMAIN nodes)
  BY <1>2, <1>3
<1>7. List(Append(ns, lhs), a + 1, at)
  <2>1. Read(lhs, (b - 1) + 1, at - 1)
    BY <1>2, <1>4 DEF Read
  <2>2. TokensEnd
    BY DEF ParseInv
  <2> QED
    BY <1>1, <1>2, <1>3, <1>4, <2>1, <2>2, ListGrows
<1> HIDE DEF d
<1>8. FrameOK(d, TopNeed(Front(calls)), a, at + 1)
  BY <1>3, <1>4, <1>5, <1>6, <1>7 DEF FrameOK
<1>9. Stack(calls', at + 1)
  BY <1>1, <1>2, <1>5, <1>8, Push
<1> QED
  BY <1>1, <1>4, <1>9, Enters

LastArgumentIs(k) ==
    Op(k) = "Identifier" =>
        \A ns \in Seq(DOMAIN nodes) : \A n \in DOMAIN nodes : \A b : \A c \in Inside :
            /\ OperandsOf(k) = Append(ns, n)
            /\ List(ns, nodes[k].token + 1, b) /\ Kind(nodes[k].token + 1) = "("
            /\ Read(n, b + 1, c - 1) /\ Kind(c) = ")"
            => Phrase(nodes[k].token, c, Alone, Alone) \in Phrases[k]

LEMMA LastArguments ==
    ASSUME TokensEnd, TreeOK PROVE \A n \in DOMAIN nodes : LastArgumentIs(n)
BY LastArgument DEF LastArgumentIs

LEMMA ParseFinishCall ==
    ASSUME ParseInv, tokens' = tokens, FinishCall
    PROVE  ParseInv'
<1> DEFINE c == Last(calls)
           t == c.token
           ns == c.operands
<1>0. PICK k : k = Len(nodes) + 1
  OBVIOUS
<1>1. /\ calls' = Front(calls) /\ at' = at + 1 /\ lhs' = k
      /\ nodes' = Append(nodes, [token |-> t, operands |-> Append(ns, lhs)])
      /\ Kind(at) = ")"
  BY <1>0 DEF FinishCall, Make, Operands
<1>2. PICK a \in DOMAIN tokens, b \in DOMAIN tokens, l \in Strengths, r \in Strengths :
         /\ Stack(Front(calls), a) /\ FrameOK(c, TopNeed(Front(calls)), a, b)
         /\ c.role = "argument"
         /\ lhs \in DOMAIN nodes /\ Phrase(b, at - 1, l, r) \in Phrases[lhs]
  <2>1. Returns({"argument"})
    BY DEF FinishCall
  <2> QED
    BY <2>1, Returning
<1>c. PICK u : u = c.token
  OBVIOUS
<1>d. PICK ms : ms = ns
  OBVIOUS
<1>e. PICK m : m = lhs
  OBVIOUS
<1>f. PICK e : e = at
  OBVIOUS
<1> HIDE DEF c
<1>3. /\ u \in Inside /\ tokens[u].kind = "Identifier" /\ u = a /\ Kind(u + 1) = "("
      /\ ms \in Seq(DOMAIN nodes) /\ List(ms, u + 1, b - 1)
  BY <1>2, <1>c, <1>d DEF FrameOK
<1>4. /\ e \in Inside /\ e \in 1 .. Len(tokens) /\ e + 1 \in 1 .. Len(tokens) /\ Len(tokens) \in Nat
      /\ DOMAIN tokens = 1 .. Len(tokens) /\ DOMAIN nodes = 1 .. Len(nodes) /\ Len(nodes) \in Nat
      /\ (e + 1) - 1 = e /\ (b - 1) + 1 = b
  BY <1>1, <1>f, Position
<1>5. TokensEnd /\ TreeOK
  BY DEF ParseInv
<1>6. /\ Grows /\ k \in DOMAIN nodes' /\ nodes'[k].token = u /\ Op(k)' = "Identifier"
      /\ OperandsOf(k)' = Append(ms, m)
  <2>1. Append(ms, m) \in Seq(DOMAIN nodes)
    BY <1>2, <1>3, <1>e
  <2>2. nodes' = Append(nodes, [token |-> u, operands |-> Append(ms, m)])
    BY <1>1, <1>c, <1>d, <1>e
  <2> QED
    BY <1>0, <1>3, <1>5, <2>1, <2>2, NewNode
<1>7. (\A n \in DOMAIN nodes : LastArgumentIs(n))'
  <2>1. TreeOK' /\ TokensEnd'
    BY <1>5, <1>6 DEF Grows, TokensEnd
  <2> QED
    BY <2>1, LastArguments, PTL
<1>8. Phrase(u, e, Alone, Alone) \in Phrases'[k]
  <2>1. \A p : Kind(p)' = Kind(p)
    BY SameKinds
  <2>2. m \in DOMAIN nodes /\ Read(m, (b - 1) + 1, e - 1)
    BY <1>2, <1>4, <1>e, <1>f DEF Read
  <2>3. Read(m, (b - 1) + 1, e - 1)' /\ List(ms, u + 1, b - 1)'
    BY <1>3, <1>6, <2>2, SameReads
  <2>4. ms \in Seq(DOMAIN nodes') /\ m \in DOMAIN nodes'
    <3>1. DOMAIN nodes \subseteq DOMAIN nodes'
      BY <1>6, SamePhrases
    <3> QED
      BY <1>3, <2>2, <3>1
  <2>5. Inside' = Inside
    BY DEF Inside
  <2>6. Kind(nodes[k].token + 1)' = "(" /\ Kind(e)' = ")"
    BY <1>1, <1>3, <1>6, <1>f, <2>1
  <2>7. List(ms, nodes[k].token + 1, b - 1)'
    BY <1>6, <2>3
  <2>8. LastArgumentIs(k)'
    BY <1>6, <1>7
  <2>9. nodes[k].token' = u
    BY <1>6
  <2> HIDE DEF ns, t
  <2>10. PICK z : z = b - 1
    OBVIOUS
  <2>11. List(ms, nodes[k].token + 1, z)' /\ Read(m, z + 1, e - 1)'
    BY <2>3, <2>7, <2>10
  <2>12. Phrase(nodes[k].token, e, Alone, Alone)' \in Phrases'[k]
    BY <1>4, <1>6, <2>4, <2>5, <2>6, <2>8, <2>11 DEF LastArgumentIs
  <2> QED
    BY <2>9, <2>12
<1>9. Alone \in Strengths /\ Alone >= TopNeed(Front(calls))
  BY <1>2, TopNeeds DEF Alone, Strengths
<1>10. Phrase(a, at' - 1, Alone, Alone) \in Phrases'[lhs'] /\ lhs' # None /\ lhs' \in DOMAIN nodes'
  BY <1>0, <1>1, <1>3, <1>4, <1>6, <1>8, <1>f DEF None
<1> QED
  BY <1>1, <1>2, <1>4, <1>6, <1>9, <1>10, <1>f, Makes, AloneSuffices

UnaryReadsAs(k) ==
    IsUnary(k) =>
        \A b, l, r : l > Prefix /\ Phrase(nodes[k].token + 1, b, l, r) \in Phrases[OperandsOf(k)[1]]
            => Phrase(nodes[k].token, b, Alone, Weaker(Prefix, r)) \in Phrases[k]
BinaryReadsAs(k) ==
    IsBinary(k) =>
        \A a, b, l1, r1, l2, r2 :
            /\ Phrase(a, nodes[k].token - 1, l1, r1) \in Phrases[OperandsOf(k)[1]]
            /\ Phrase(nodes[k].token + 1, b, l2, r2) \in Phrases[OperandsOf(k)[2]]
            /\ r1 >= NeedsLeft(Op(k)) /\ l2 >= NeedsRight(Op(k))
            => Phrase(a, b, Strength(Op(k)), Weaker(Strength(Op(k)), r2)) \in Phrases[k]
ConditionalReadsAs(k) ==
    Op(k) = "?" /\ Len(OperandsOf(k)) = 3 =>
        \A a, c, b, l1, r1, l2, r2, l3, r3 :
            /\ Phrase(a, nodes[k].token - 1, l1, r1) \in Phrases[OperandsOf(k)[1]]
            /\ r1 >= NeedsLeft("?")
            /\ Phrase(nodes[k].token + 1, c, l2, r2) \in Phrases[OperandsOf(k)[2]]
            /\ Kind(c + 1) = ":"
            /\ Phrase(c + 2, b, l3, r3) \in Phrases[OperandsOf(k)[3]]
            => Phrase(a, b, Alone, 0) \in Phrases[k]

OperatorReads(n) == UnaryReadsAs(n) /\ BinaryReadsAs(n) /\ ConditionalReadsAs(n)

LEMMA OperatorsRead ==
    ASSUME TokensEnd, TreeOK PROVE \A n \in DOMAIN nodes : OperatorReads(n)
BY UnaryReads, BinaryReads, ConditionalReads
   DEF OperatorReads, UnaryReadsAs, BinaryReadsAs, ConditionalReadsAs

LEMMA ParseFinishNode ==
    ASSUME ParseInv, tokens' = tokens, FinishNode
    PROVE  ParseInv'
<1>0. PICK k, m, e, c : k = Len(nodes) + 1 /\ m = lhs /\ e = at /\ c = Last(calls)
  OBVIOUS
<1> DEFINE t == c.token
           ns == c.operands
           ms == Append(ns, m)
           kind == tokens[t].kind
<1>1. /\ calls' = Front(calls) /\ at' = e /\ lhs' = k
      /\ nodes' = Append(nodes, [token |-> t, operands |-> ms])
  BY <1>0 DEF FinishNode, Make, Operands
<1>2. PICK a \in DOMAIN tokens, b \in DOMAIN tokens, l \in Strengths, r \in Strengths :
         /\ Stack(Front(calls), a) /\ FrameOK(c, TopNeed(Front(calls)), a, b)
         /\ c.role \in {"unary", "right", "else"}
         /\ m \in DOMAIN nodes /\ Phrase(b, e - 1, l, r) \in Phrases[m]
         /\ l >= NeedOf(c)
         /\ Kind(e) \in BinaryOperator \cup {"?"} => r >= NeedsLeft(Kind(e))
  <2>1. Returns({"unary", "right", "else"})
    BY DEF FinishNode
  <2> QED
    BY <1>0, <2>1, Returning
<1>3. /\ Kind(e) # "?" /\ LeftBindingPower(Kind(e)) < MinBindingPower /\ calls # << >>
  BY <1>0 DEF FinishNode, Returns
<1>4. t \in Inside /\ ns \in Seq(DOMAIN nodes) /\ TokensEnd /\ TreeOK /\ t \in Int
  BY <1>2 DEF FrameOK, ParseInv, Inside
<1>5. /\ e \in 1 .. Len(tokens) /\ Len(tokens) \in Nat
      /\ DOMAIN tokens = 1 .. Len(tokens) /\ DOMAIN nodes = 1 .. Len(nodes) /\ Len(nodes) \in Nat
  BY <1>0, Position
<1>6. /\ ms \in Seq(DOMAIN nodes) /\ Len(ms) = Len(ns) + 1
      /\ \A i \in 1 .. Len(ns) : ms[i] = ns[i] /\ ns[i] \in DOMAIN nodes
      /\ ms[Len(ns) + 1] = m
  <2> HIDE DEF ns
  <2> QED
    BY <1>2, <1>4, AppendProperties
<1> HIDE DEF ms
<1>7. ASSUME \/ kind \in UnaryOperator /\ Len(ms) = 1
             \/ kind \in BinaryOperator /\ Len(ms) = 2
             \/ kind = "?" /\ Len(ms) = 3
      PROVE  /\ Grows /\ k \in DOMAIN nodes' /\ nodes'[k].token = t /\ Op(k)' = kind
             /\ OperandsOf(k)' = ms
             /\ UnaryReadsAs(k)' /\ BinaryReadsAs(k)' /\ ConditionalReadsAs(k)'
  <2>1. /\ Grows /\ k \in DOMAIN nodes' /\ nodes'[k].token = t /\ Op(k)' = kind
        /\ OperandsOf(k)' = ms
    <3> HIDE DEF ns, t
    <3> QED
      BY <1>0, <1>1, <1>4, <1>6, <1>7, NewNode
  <2>2. (\A n \in DOMAIN nodes : OperatorReads(n))'
    <3>1. TreeOK' /\ TokensEnd'
      BY <1>4, <2>1 DEF Grows, TokensEnd
    <3> QED
      BY <3>1, OperatorsRead, PTL
  <2> QED
    BY <2>1, <2>2 DEF OperatorReads
<1>8. ASSUME NEW l2 \in Strengths, NEW r2 \in Strengths, Grows, k \in DOMAIN nodes',
             Phrase(a, e - 1, l2, r2) \in Phrases'[k], l2 >= TopNeed(Front(calls)),
             Kind(e) \in BinaryOperator => r2 >= NeedsLeft(Kind(e))
      PROVE  ParseInv'
  <2>1. lhs' \in DOMAIN nodes' /\ lhs' # None /\ at' \in DOMAIN tokens
    BY <1>0, <1>1, <1>5, <1>8 DEF None
  <2>2. Phrase(a, at' - 1, l2, r2) \in Phrases'[lhs'] /\ Stack(calls', a) /\ l2 >= TopNeed(calls')
    BY <1>1, <1>2, <1>8
  <2>3. Kind(at') \in BinaryOperator \cup {"?"} => r2 >= NeedsLeft(Kind(at'))
    BY <1>1, <1>3, <1>8
  <2> QED
    BY <1>8, <2>1, <2>2, <2>3, Makes
<1>9. \A x, y \in Strengths : /\ Weaker(x, y) \in Strengths
                              /\ \A z : x >= z /\ y >= z => Weaker(x, y) >= z
  BY DEF Weaker, Strengths
<1>10. \A n \in DOMAIN nodes : Grows => Phrases'[n] = Phrases[n]
  BY SamePhrases
<1>11. Alone \in Strengths /\ Prefix \in Strengths /\ 0 \in Strengths
  BY DEF Alone, Prefix, Strengths
<1>12. Alone >= TopNeed(Front(calls))
  BY <1>2, TopNeeds DEF Alone
<1>13. CASE c.role = "unary"
  <2>1. kind \in UnaryOperator /\ ns = << >> /\ t = a /\ b = a + 1
    BY <1>2, <1>13 DEF FrameOK
  <2>2. Len(ms) = 1 /\ ms[1] = m
    BY <1>6, <2>1
  <2>3. l > Prefix
    BY <1>2, <1>13 DEF NeedOf, Prefix, Strengths
  <2>4. IsUnary(k)'
    BY <1>7, <2>1, <2>2 DEF IsUnary
  <2>5. Phrase(a, e - 1, Alone, Weaker(Prefix, r)) \in Phrases'[k]
    <3>1. Phrase(nodes'[k].token + 1, e - 1, l, r) \in Phrases'[OperandsOf(k)'[1]]
      BY <1>2, <1>7, <1>10, <2>1, <2>2
    <3>2. UnaryReadsAs(k)' /\ nodes'[k].token = a
      BY <1>7, <2>1, <2>2
    <3> QED
      BY <2>3, <2>4, <3>1, <3>2 DEF UnaryReadsAs
  <2>6. Kind(e) \in BinaryOperator => Weaker(Prefix, r) >= NeedsLeft(Kind(e))
    <3>1. MinBindingPower = 11
      BY <1>0, <1>3, <1>13 DEF MinBindingPower
    <3> QED
      BY <1>2, <1>3, <1>9, <1>11, <3>1, Binding
  <2> QED
    BY <1>7, <1>8, <1>9, <1>11, <1>12, <2>1, <2>2, <2>5, <2>6
<1>14. CASE c.role = "right"
  <2>1. /\ kind \in BinaryOperator /\ Strength(kind) >= TopNeed(Front(calls)) /\ Len(ns) = 1
        /\ ReadBefore(ns[1], a, t - 1, kind) /\ b = t + 1
    BY <1>2, <1>14 DEF FrameOK
  <2>2. Len(ms) = 2 /\ ms[1] = ns[1] /\ ms[2] = m /\ ns[1] \in DOMAIN nodes
    BY <1>6, <2>1
  <2>3. l >= NeedsRight(kind)
    BY <1>2, <1>14 DEF NeedOf
  <2>4. PICK l1 \in Strengths, r1 \in Strengths :
           Phrase(a, t - 1, l1, r1) \in Phrases[ns[1]] /\ r1 >= NeedsLeft(kind)
    BY <2>1 DEF ReadBefore
  <2>5. IsBinary(k)' /\ Op(k)' = kind
    BY <1>7, <2>1, <2>2 DEF IsBinary
  <2>6. Phrase(a, e - 1, Strength(kind), Weaker(Strength(kind), r)) \in Phrases'[k]
    <3>1. /\ Phrase(a, nodes'[k].token - 1, l1, r1) \in Phrases'[OperandsOf(k)'[1]]
          /\ Phrase(nodes'[k].token + 1, e - 1, l, r) \in Phrases'[OperandsOf(k)'[2]]
      BY <1>2, <1>7, <1>10, <2>1, <2>2, <2>4
    <3>2. BinaryReadsAs(k)'
      BY <1>7, <2>1, <2>2
    <3> QED
      BY <2>3, <2>4, <2>5, <3>1, <3>2 DEF BinaryReadsAs
  <2>7. Kind(e) \in BinaryOperator => Weaker(Strength(kind), r) >= NeedsLeft(Kind(e))
    <3>1. MinBindingPower = RightBindingPower(kind)
      BY <1>0, <1>3, <1>14 DEF MinBindingPower
    <3>2. Strength(kind) \in Strengths
      BY <2>1, Binding
    <3>3. Kind(e) \in BinaryOperator => NeedsLeft(Kind(e)) <= Strength(kind)
      BY <1>3, <2>1, <3>1, Binding
    <3>4. Kind(e) \in BinaryOperator => NeedsLeft(Kind(e)) \in Strengths
      BY Binding
    <3> QED
      BY <1>2, <1>9, <3>2, <3>3, <3>4 DEF Strengths
  <2> QED
    BY <1>7, <1>8, <1>9, <2>1, <2>2, <2>6, <2>7, Binding
<1>15. CASE c.role = "else"
  <2>1. /\ kind = "?" /\ Len(ns) = 2
        /\ ReadBefore(ns[1], a, t - 1, "?")
        /\ Kind(b - 1) = ":" /\ Read(ns[2], t + 1, b - 2)
    BY <1>2, <1>15 DEF FrameOK
  <2>2. Len(ms) = 3 /\ ms[1] = ns[1] /\ ms[2] = ns[2] /\ ms[3] = m /\ ns[1] \in DOMAIN nodes /\ ns[2] \in DOMAIN nodes
    BY <1>6, <2>1
  <2>3. PICK l1 \in Strengths, r1 \in Strengths :
           Phrase(a, t - 1, l1, r1) \in Phrases[ns[1]] /\ r1 >= NeedsLeft("?")
    BY <2>1 DEF ReadBefore
  <2>4. PICK l2 \in Strengths, r2 \in Strengths : Phrase(t + 1, b - 2, l2, r2) \in Phrases[ns[2]]
    BY <2>1 DEF Read
  <2>5. Phrase(a, e - 1, Alone, 0) \in Phrases'[k]
    <3> DEFINE v == b - 2
    <3>1. /\ Phrase(a, nodes'[k].token - 1, l1, r1) \in Phrases'[OperandsOf(k)'[1]]
          /\ Phrase(nodes'[k].token + 1, v, l2, r2) \in Phrases'[OperandsOf(k)'[2]]
          /\ Phrase(v + 2, e - 1, l, r) \in Phrases'[OperandsOf(k)'[3]]
      <4>1. v + 2 = b
        BY <1>5
      <4> QED
        BY <1>2, <1>7, <1>10, <2>1, <2>2, <2>3, <2>4, <4>1
    <3>2. Kind(v + 1)' = ":"
      <4>1. v + 1 = b - 1
        BY <1>5
      <4>2. Kind(v + 1) = ":"
        BY <2>1, <4>1
      <4> QED
        BY <4>2, SameKinds
    <3>3. ConditionalReadsAs(k)' /\ Op(k)' = "?" /\ Len(OperandsOf(k)') = 3
      BY <1>7, <2>1, <2>2
    <3> HIDE DEF v
    <3> QED
      BY <2>3, <3>1, <3>2, <3>3 DEF ConditionalReadsAs
  <2>6. Kind(e) \notin BinaryOperator
    <3>1. MinBindingPower = 0
      BY <1>0, <1>3, <1>15 DEF MinBindingPower
    <3> QED
      BY <1>3, <3>1, Binding
  <2> QED
    BY <1>7, <1>8, <1>11, <1>12, <2>1, <2>2, <2>5, <2>6
<1> QED
  BY <1>2, <1>13, <1>14, <1>15

-----------------------------------------------------------------------------
(***************************************************************************)
(* No wrong turn.  Reading a formula from left to right takes a stack of   *)
(* the brackets that are open, the '?' before its ':' among them, and no   *)
(* more: the precedences do not decide whether there is a way on.          *)
(***************************************************************************)
Brackets == {"group", "argument", "then"}
Positions == [wants : {"operand", "operator"}, open : Seq(Brackets), at : Nat \ {0}]
Place(wants, open, p) == [wants |-> wants, open |-> open, at |-> p]

\* The places the reader can go to from a place.
Goes(s, u) ==
    LET p == s.at
        o == s.open
    IN  \/ /\ s.wants = "operand"
           /\ \/ Kind(p) \in {"Number", "NodeRef"} /\ u = Place("operator", o, p + 1)
              \/ Kind(p) \in UnaryOperator /\ u = Place("operand", o, p + 1)
              \/ Kind(p) = "(" /\ u = Place("operand", Append(o, "group"), p + 1)
              \/ /\ Kind(p) = "Identifier" /\ Kind(p + 1) = "("
                 /\ \/ Kind(p + 2) = ")" /\ u = Place("operator", o, p + 3)
                    \/ u = Place("operand", Append(o, "argument"), p + 2)
        \/ /\ s.wants = "operator"
           /\ \/ Kind(p) \in BinaryOperator /\ u = Place("operand", o, p + 1)
              \/ Kind(p) = "?" /\ u = Place("operand", Append(o, "then"), p + 1)
              \/ \E i \in Seq(Brackets) :
                    \/ o = Append(i, "then") /\ Kind(p) = ":" /\ u = Place("operand", i, p + 1)
                    \/ o = Append(i, "group") /\ Kind(p) = ")" /\ u = Place("operator", i, p + 1)
                    \/ o = Append(i, "argument") /\ Kind(p) = ")" /\ u = Place("operator", i, p + 1)
                    \/ o = Append(i, "argument") /\ IsComma(p) /\ u = Place("operand", o, p + 1)

AtEnd(s) == s.wants = "operator" /\ s.open = << >> /\ Kind(s.at) = "EndOfFile"

\* The places from which the reader can get to the end.
Backward(S) == \A s \in Positions : AtEnd(s) \/ (\E u \in S : Goes(s, u)) => s \in S
EndsWell == {s \in Positions : \A S \in SUBSET Positions : Backward(S) => s \in S}

LEMMA GoesBack ==
    ASSUME NEW s \in Positions, AtEnd(s) \/ \E u \in EndsWell : Goes(s, u)
    PROVE  s \in EndsWell
<1> SUFFICES ASSUME NEW S \in SUBSET Positions, Backward(S) PROVE s \in S
  BY DEF EndsWell
<1>1. EndsWell \subseteq S
  BY DEF EndsWell
<1> QED
  BY <1>1 DEF Backward

LEMMA GoesOn ==
    ASSUME NEW s \in EndsWell
    PROVE  AtEnd(s) \/ \E u \in EndsWell : Goes(s, u)
<1> SUFFICES ASSUME ~AtEnd(s), \A u \in EndsWell : ~Goes(s, u) PROVE FALSE
  OBVIOUS
<1> DEFINE S == EndsWell \ {s}
<1>1. S \in SUBSET Positions
  BY DEF EndsWell
<1>2. Backward(S)
  <2> SUFFICES ASSUME NEW v \in Positions, AtEnd(v) \/ \E u \in S : Goes(v, u) PROVE v \in S
    BY DEF Backward
  <2>1. v \in EndsWell
    BY GoesBack
  <2>2. v # s
    OBVIOUS
  <2> QED
    BY <2>1, <2>2
<1>3. s \in S
  <2> HIDE DEF S
  <2> QED
    BY <1>1, <1>2 DEF EndsWell
<1> QED
  BY <1>3

LEMMA Places ==
    ASSUME NEW o \in Seq(Brackets), NEW p \in Nat \ {0}
    PROVE  /\ Place("operand", o, p) \in Positions /\ Place("operator", o, p) \in Positions
           /\ Place("operand", o, p).wants = "operand" /\ Place("operator", o, p).wants = "operator"
           /\ \A w : Place(w, o, p).open = o /\ Place(w, o, p).at = p
           /\ \A b \in Brackets : Append(o, b) \in Seq(Brackets)
BY DEF Place, Positions

\* What has been read so far is of no account to what comes.
ReadsOn(r) ==
    \A o \in Seq(Brackets) :
        \/ /\ r[1] = "formula"
           /\ Place("operator", o, r[3] + 1) \in EndsWell => Place("operand", o, r[2]) \in EndsWell
        \/ /\ r[1] = "list"
           /\ Kind(r[3] + 1) = ")" /\ Place("operator", o, r[3] + 2) \in EndsWell =>
                Place("operand", Append(o, "argument"), r[2]) \in EndsWell

LEMMA FormulaOn ==
    ASSUME TokensEnd, NEW known, \A r \in known : ReadsOn(r),
           NEW a \in DOMAIN tokens, NEW b \in DOMAIN tokens, ReadsFormula(known, a, b),
           NEW o \in Seq(Brackets), Place("operator", o, b + 1) \in EndsWell
    PROVE  Place("operand", o, a) \in EndsWell
<1>1. DOMAIN tokens = 1 .. Len(tokens) /\ Len(tokens) \in Nat /\ a \in Nat \ {0} /\ b \in Nat \ {0}
  BY DEF TokensEnd
<1>2. ASSUME NEW i, NEW j, <<"formula", i, j>> \in known,
             NEW x \in Seq(Brackets), Place("operator", x, j + 1) \in EndsWell
      PROVE  Place("operand", x, i) \in EndsWell
  BY <1>2, Zenon DEF ReadsOn
<1>3. ASSUME NEW i, NEW j, <<"list", i, j>> \in known, Kind(j + 1) = ")",
             NEW x \in Seq(Brackets), Place("operator", x, j + 2) \in EndsWell
      PROVE  Place("operand", Append(x, "argument"), i) \in EndsWell
  BY <1>3 DEF ReadsOn
<1> DEFINE s == Place("operand", o, a)
<1>4. s \in Positions /\ s.wants = "operand" /\ s.open = o /\ s.at = a
  BY <1>1, Places
<1>5. \/ a = b /\ Kind(a) \in {"Number", "NodeRef"}
      \/ Kind(a) \in UnaryOperator /\ <<"formula", a + 1, b>> \in known
      \/ Kind(a) = "(" /\ <<"formula", a + 1, b - 1>> \in known /\ Kind(b) = ")"
      \/ /\ Kind(a) = "Identifier" /\ Kind(a + 1) = "(" /\ Kind(b) = ")"
         /\ b = a + 2 \/ <<"list", a + 2, b - 1>> \in known
      \/ \E p \in a .. b :
            /\ <<"formula", a, p - 1>> \in known
            /\ \/ Kind(p) \in BinaryOperator /\ <<"formula", p + 1, b>> \in known
               \/ Kind(p) = "?" /\ \E q \in p .. b :
                     /\ <<"formula", p + 1, q - 1>> \in known /\ Kind(q) = ":"
                     /\ <<"formula", q + 1, b>> \in known
  BY Zenon DEF ReadsFormula
<1> HIDE DEF s
<1>6. CASE a = b /\ Kind(a) \in {"Number", "NodeRef"}
  BY <1>4, <1>6, GoesBack DEF Goes, s
<1>7. CASE Kind(a) \in UnaryOperator /\ <<"formula", a + 1, b>> \in known
  <2>1. Place("operand", o, a + 1) \in EndsWell
    BY <1>2, <1>7
  <2> QED
    BY <1>4, <1>7, <2>1, GoesBack DEF Goes, s
<1>8. CASE Kind(a) = "(" /\ <<"formula", a + 1, b - 1>> \in known /\ Kind(b) = ")"
  <2> DEFINE x == Append(o, "group")
             u == Place("operator", x, b)
  <2>1. x \in Seq(Brackets)
    BY Places DEF Brackets
  <2>2. u \in Positions /\ u.wants = "operator" /\ u.open = x /\ u.at = b
    <3> HIDE DEF x
    <3> QED
      BY <1>1, <2>1, Places
  <2>3. u \in EndsWell
    <3> HIDE DEF u
    <3> QED
      BY <1>8, <2>2, GoesBack DEF Goes
  <2>4. Place("operand", x, a + 1) \in EndsWell
    <3>1. (b - 1) + 1 = b
      BY <1>1
    <3> HIDE DEF x
    <3> QED
      BY <1>2, <1>8, <2>1, <2>3, <3>1
  <2> QED
    BY <1>4, <1>8, <2>4, GoesBack DEF Goes, s
<1>9. CASE /\ Kind(a) = "Identifier" /\ Kind(a + 1) = "(" /\ Kind(b) = ")"
           /\ b = a + 2 \/ <<"list", a + 2, b - 1>> \in known
  <2>1. CASE b = a + 2
    <3>1. b + 1 = a + 3
      BY <1>1, <2>1
    <3>2. Place("operator", o, a + 3) \in EndsWell /\ Kind(a + 2) = ")"
      BY <1>9, <2>1, <3>1
    <3> QED
      BY <1>4, <1>9, <3>2, GoesBack DEF Goes, s
  <2>2. CASE <<"list", a + 2, b - 1>> \in known
    <3>1. (b - 1) + 1 = b /\ (b - 1) + 2 = b + 1
      BY <1>1
    <3>2. Place("operand", Append(o, "argument"), a + 2) \in EndsWell
      BY <1>3, <1>9, <2>2, <3>1
    <3> QED
      BY <1>4, <1>9, <3>2, GoesBack DEF Goes, s
  <2> QED
    BY <1>9, <2>1, <2>2
<1>10. ASSUME NEW p \in a .. b, <<"formula", a, p - 1>> \in known, Place("operator", o, p) \in EndsWell
       PROVE  s \in EndsWell
  <2>1. (p - 1) + 1 = p
    BY <1>1
  <2> QED
    BY <1>2, <1>10, <2>1 DEF s
<1>11. ASSUME NEW p \in a .. b, <<"formula", a, p - 1>> \in known,
              Kind(p) \in BinaryOperator, <<"formula", p + 1, b>> \in known
       PROVE  s \in EndsWell
  <2> DEFINE u == Place("operator", o, p)
  <2>1. p \in Nat \ {0} /\ (p - 1) + 1 = p
    BY <1>1
  <2>2. u \in Positions /\ u.wants = "operator" /\ u.open = o /\ u.at = p
    BY <2>1, Places
  <2>3. Place("operand", o, p + 1) \in EndsWell
    BY <1>2, <1>11
  <2>4. u \in EndsWell
    <3> HIDE DEF u
    <3> QED
      BY <1>11, <2>2, <2>3, GoesBack DEF Goes
  <2> QED
    BY <1>10, <1>11, <2>4
<1>12. ASSUME NEW p \in a .. b, <<"formula", a, p - 1>> \in known, Kind(p) = "?",
              NEW q \in p .. b, <<"formula", p + 1, q - 1>> \in known, Kind(q) = ":",
              <<"formula", q + 1, b>> \in known
       PROVE  s \in EndsWell
  <2> DEFINE x == Append(o, "then")
             u == Place("operator", o, p)
             v == Place("operator", x, q)
  <2>1. p \in Nat \ {0} /\ q \in Nat \ {0} /\ (q - 1) + 1 = q
    BY <1>1
  <2>2. x \in Seq(Brackets)
    BY Places DEF Brackets
  <2>3. u \in Positions /\ u.wants = "operator" /\ u.open = o /\ u.at = p
    BY <2>1, Places
  <2>4. v \in Positions /\ v.wants = "operator" /\ v.open = x /\ v.at = q
    <3> HIDE DEF x
    <3> QED
      BY <2>1, <2>2, Places
  <2>5. Place("operand", o, q + 1) \in EndsWell
    BY <1>2, <1>12
  <2>6. v \in EndsWell
    <3> HIDE DEF v
    <3> QED
      BY <1>12, <2>4, <2>5, GoesBack DEF Goes
  <2>7. Place("operand", x, p + 1) \in EndsWell
    <3> HIDE DEF x
    <3> QED
      BY <1>2, <1>12, <2>1, <2>2, <2>6
  <2>8. u \in EndsWell
    <3> HIDE DEF u
    <3> QED
      BY <1>12, <2>3, <2>7, GoesBack DEF Goes
  <2> QED
    BY <1>10, <1>12, <2>8
<1> QED
  BY <1>5, <1>6, <1>7, <1>8, <1>9, <1>11, <1>12 DEF s

LEMMA ListOn ==
    ASSUME TokensEnd, NEW known, \A r \in known : ReadsOn(r),
           NEW a \in DOMAIN tokens, NEW b \in DOMAIN tokens, ReadsList(known, a, b),
           NEW o \in Seq(Brackets), Kind(b + 1) = ")", Place("operator", o, b + 2) \in EndsWell
    PROVE  Place("operand", Append(o, "argument"), a) \in EndsWell
<1> DEFINE x == Append(o, "argument")
<1>1. DOMAIN tokens = 1 .. Len(tokens) /\ Len(tokens) \in Nat /\ a \in Nat \ {0} /\ b \in Nat \ {0}
  BY DEF TokensEnd
<1>2. x \in Seq(Brackets)
  BY Places DEF Brackets
<1>3. ASSUME NEW i, NEW j, <<"formula", i, j>> \in known, Place("operator", x, j + 1) \in EndsWell
      PROVE  Place("operand", x, i) \in EndsWell
  <2> HIDE DEF x
  <2> QED
    BY <1>2, <1>3, Zenon DEF ReadsOn
<1>4. \/ <<"formula", a, b>> \in known
      \/ \E p \in a .. b :
           <<"formula", a, p - 1>> \in known /\ IsComma(p) /\ <<"list", p + 1, b>> \in known
  BY Zenon DEF ReadsList, IsComma
<1>5. CASE <<"formula", a, b>> \in known
  <2> DEFINE u == Place("operator", x, b + 1)
  <2>1. u \in Positions /\ u.wants = "operator" /\ u.open = x /\ u.at = b + 1
    <3>1. b + 1 \in Nat \ {0}
      BY <1>1
    <3> HIDE DEF x
    <3> QED
      BY <1>2, <3>1, Places
  <2>2. (b + 1) + 1 = b + 2
    BY <1>1
  <2>3. u \in EndsWell
    <3> HIDE DEF u
    <3> QED
      BY <2>1, <2>2, GoesBack DEF Goes
  <2> QED
    BY <1>3, <1>5, <2>3
<1>6. ASSUME NEW p \in a .. b, <<"formula", a, p - 1>> \in known, IsComma(p), <<"list", p + 1, b>> \in known
      PROVE  Place("operand", x, a) \in EndsWell
  <2> DEFINE u == Place("operator", x, p)
  <2>1. p \in Nat \ {0} /\ (p - 1) + 1 = p
    BY <1>1
  <2>2. u \in Positions /\ u.wants = "operator" /\ u.open = x /\ u.at = p
    <3> HIDE DEF x
    <3> QED
      BY <1>2, <2>1, Places
  <2>3. Place("operand", x, p + 1) \in EndsWell
    BY <1>6, Zenon DEF ReadsOn
  <2>4. u \in EndsWell
    <3> HIDE DEF u
    <3> QED
      BY <1>6, <2>2, <2>3, GoesBack DEF Goes
  <2> HIDE DEF x
  <2> QED
    BY <1>3, <1>6, <2>1, <2>4
<1> QED
  BY <1>4, <1>5, <1>6

LEMMA ReadingsAre ==
    ASSUME TokensEnd
    PROVE  \E f : /\ f = [n \in 0 .. Len(tokens) |-> IF n = 0 THEN {} ELSE MoreReadings(f[n - 1])]
                 /\ Readings = f[Len(tokens)]
<1> DEFINE n == Len(tokens)
           Step(m, f) == IF m = 0 THEN {} ELSE MoreReadings(f[m - 1])
           Has(m) == \E f : f = [i \in 0 .. m |-> Step(i, f)]
           S == {m \in 0 .. n : Has(m)}
<1>1. n \in Nat
  BY DEF TokensEnd
<1>2. Has(0)
  <2> DEFINE f == [i \in 0 .. 0 |-> {}]
  <2>1. f = [i \in 0 .. 0 |-> Step(i, f)]
    OBVIOUS
  <2> QED
    BY <2>1
<1>3. ASSUME NEW m \in 0 .. n - 1, Has(m) PROVE Has(m + 1)
  <2> PICK f : f = [i \in 0 .. m |-> Step(i, f)]
    BY <1>3
  <2> DEFINE g == [i \in 0 .. m + 1 |-> IF i <= m THEN f[i] ELSE Step(m + 1, f)]
  <2>1. \A i \in 0 .. m + 1 : Step(i, f) = Step(i, g)
    BY <1>1
  <2>2. \A i \in 0 .. m + 1 : g[i] = Step(i, f)
    <3> HIDE DEF Step
    <3>1. \A i \in 0 .. m + 1 : (i \in 0 .. m /\ i <= m) \/ (i = m + 1 /\ ~(i <= m))
      BY <1>1
    <3> QED
      BY <3>1
  <2>3. g = [i \in 0 .. m + 1 |-> Step(i, g)]
    <3>1. DOMAIN g = 0 .. m + 1 /\ g = [i \in 0 .. m + 1 |-> g[i]]
      OBVIOUS
    <3> HIDE DEF g, Step
    <3> QED
      BY <2>1, <2>2, <3>1
  <2> QED
    BY <2>3
<1>4. Has(n)
  <2> HIDE DEF Has
  <2>1. 0 \in S /\ \A m \in 0 .. n - 1 : m \in S => m + 1 \in S
    BY <1>1, <1>2, <1>3
  <2>2. n \in S
    <3> HIDE DEF S, n
    <3> QED
      BY <1>1, <2>1, Stepwise
  <2> QED
    BY <2>2
<1> DEFINE g == CHOOSE f : f = [i \in 0 .. n |-> Step(i, f)]
<1>5. g = [i \in 0 .. n |-> Step(i, g)]
  BY <1>4, Zenon
<1>6. Readings = g[n]
  BY Zenon DEF Readings
<1> QED
  BY <1>5, <1>6, Zenon

LEMMA EveryReadingOn ==
    ASSUME TokensEnd
    PROVE  \A r \in Readings : ReadsOn(r)
<1>1. PICK f : /\ f = [n \in 0 .. Len(tokens) |-> IF n = 0 THEN {} ELSE MoreReadings(f[n - 1])]
               /\ Readings = f[Len(tokens)]
  BY ReadingsAre
<1> DEFINE n == Len(tokens)
           S == {m \in 0 .. n : \A r \in f[m] : ReadsOn(r)}
<1>2. n \in Nat
  BY DEF TokensEnd
<1>3. 0 \in S
  BY <1>1, <1>2
<1>4. ASSUME NEW m \in 0 .. n - 1, m \in S PROVE m + 1 \in S
  <2>1. f[m + 1] = MoreReadings(f[m]) /\ m + 1 \in 0 .. n
    <3>1. m + 1 \in 0 .. n /\ m + 1 # 0 /\ (m + 1) - 1 = m
      BY <1>2
    <3> QED
      BY <1>1, <3>1
  <2>2. ASSUME NEW r \in MoreReadings(f[m]) PROVE ReadsOn(r)
    <3>1. /\ r[1] \in {"formula", "list"} /\ r[2] \in DOMAIN tokens /\ r[3] \in DOMAIN tokens
          /\ r[1] = "list" => ReadsList(f[m], r[2], r[3])
          /\ r[1] = "formula" => ReadsFormula(f[m], r[2], r[3])
      BY DEF MoreReadings
    <3>2. \A q \in f[m] : ReadsOn(q)
      BY <1>4
    <3>3. CASE r[1] = "formula"
      BY <3>1, <3>2, <3>3, FormulaOn DEF ReadsOn
    <3>4. CASE r[1] = "list"
      BY <3>1, <3>2, <3>4, ListOn DEF ReadsOn
    <3> QED
      BY <3>1, <3>3, <3>4
  <2> QED
    BY <2>1, <2>2
<1>5. n \in S
  <2> HIDE DEF S, n
  <2> QED
    BY <1>2, <1>3, <1>4, Stepwise
<1> QED
  BY <1>1, <1>5

\* Whoever has a formula before him can read it.
LEMMA FormulaEndsWell ==
    ASSUME TokensEnd, IsFormula
    PROVE  Place("operand", << >>, 1) \in EndsWell
<1>1. ReadsOn(<<"formula", 1, Len(tokens) - 1>>)
  BY EveryReadingOn DEF IsFormula
<1>2. << >> \in Seq(Brackets) /\ Len(tokens) \in Nat \ {0} /\ (Len(tokens) - 1) + 1 = Len(tokens)
  BY DEF TokensEnd
<1>3. Kind(Len(tokens)) = "EndOfFile"
  BY <1>2, Kinds DEF Inside
<1> DEFINE s == Place("operator", << >>, Len(tokens))
<1>4. s \in Positions /\ AtEnd(s)
  <2>1. PICK o : o = << >>
    OBVIOUS
  <2>2. PICK n : n = Len(tokens)
    OBVIOUS
  <2>3. Place("operator", o, n) \in Positions /\ Place("operator", o, n).wants = "operator"
        /\ Place("operator", o, n).open = o /\ Place("operator", o, n).at = n
    <3>1. o \in Seq(Brackets) /\ n \in Nat \ {0}
      BY <1>2, <2>1, <2>2
    <3> QED
      BY <3>1, Places
  <2>4. s = Place("operator", o, n)
    BY <2>1, <2>2
  <2> HIDE DEF s
  <2> QED
    BY <1>3, <2>1, <2>2, <2>3, <2>4 DEF AtEnd
<1>5. s \in EndsWell
  BY <1>4, GoesBack
<1> QED
  BY <1>1, <1>2, <1>5 DEF ReadsOn

-----------------------------------------------------------------------------
\* The brackets that are open while the calls cs wait.
Opened(cs, o) ==
    /\ cs \in Seq(Frames)
    /\ \E f \in [0 .. Len(cs) -> Seq(Brackets)] :
          /\ f[0] = << >> /\ f[Len(cs)] = o
          /\ \A i \in 1 .. Len(cs) :
                f[i] = IF cs[i].role \in Brackets THEN Append(f[i - 1], cs[i].role) ELSE f[i - 1]

LEMMA NothingOpened == Opened(<< >>, << >>)
<1> DEFINE f == [i \in 0 .. 0 |-> << >>]
<1>1. << >> \in Seq(Frames) /\ Len(<< >>) = 0 /\ f \in [0 .. 0 -> Seq(Brackets)] /\ f[0] = << >>
  OBVIOUS
<1> HIDE DEF f
<1> QED
  BY <1>1 DEF Opened

LEMMA OpenedType == ASSUME NEW cs, NEW o, Opened(cs, o) PROVE o \in Seq(Brackets)
BY DEF Opened

LEMMA PushOpened ==
    ASSUME NEW cs, NEW o, Opened(cs, o), NEW c \in Frames
    PROVE  Opened(Append(cs, c), IF c.role \in Brackets THEN Append(o, c.role) ELSE o)
<1> DEFINE n == Len(cs)
           ds == Append(cs, c)
           x == IF c.role \in Brackets THEN Append(o, c.role) ELSE o
<1>1. cs \in Seq(Frames) /\ n \in Nat
  BY DEF Opened
<1>2. PICK f \in [0 .. n -> Seq(Brackets)] :
          /\ f[0] = << >> /\ f[n] = o
          /\ \A i \in 1 .. n :
                f[i] = IF cs[i].role \in Brackets THEN Append(f[i - 1], cs[i].role) ELSE f[i - 1]
  BY DEF Opened
<1> DEFINE g == [i \in 0 .. n + 1 |-> IF i <= n THEN f[i] ELSE x]
<1>3. /\ ds \in Seq(Frames) /\ Len(ds) = n + 1 /\ ds[n + 1] = c
      /\ \A i \in 1 .. n : ds[i] = cs[i]
  BY <1>1
<1>4. x \in Seq(Brackets)
  <2>1. o \in Seq(Brackets)
    BY OpenedType
  <2> QED
    BY <2>1
<1> HIDE DEF x
<1>5. /\ g \in [0 .. n + 1 -> Seq(Brackets)] /\ g[0] = << >> /\ g[n + 1] = x /\ g[n] = o
      /\ \A i \in 0 .. n : g[i] = f[i]
  BY <1>1, <1>2, <1>4
<1> HIDE DEF ds, g
<1>6. ASSUME NEW i \in 1 .. n + 1
      PROVE  g[i] = IF ds[i].role \in Brackets THEN Append(g[i - 1], ds[i].role) ELSE g[i - 1]
  <2>1. CASE i \in 1 .. n
    <3>1. i \in 0 .. n /\ i - 1 \in 0 .. n
      BY <1>1, <2>1
    <3>2. g[i] = f[i] /\ g[i - 1] = f[i - 1] /\ ds[i] = cs[i]
      BY <1>3, <1>5, <2>1, <3>1
    <3> QED
      BY <1>2, <2>1, <3>2
  <2>2. CASE i = n + 1
    <3>1. g[i] = x /\ g[i - 1] = o /\ ds[i] = c
      BY <1>1, <1>3, <1>5, <2>2, SMTT(30)
    <3> QED
      BY <3>1 DEF x
  <2> QED
    BY <1>1, <2>1, <2>2
<1>7. Opened(ds, x)
  BY <1>3, <1>5, <1>6 DEF Opened
<1> QED
  BY <1>7 DEF ds, x

LEMMA Popped ==
    ASSUME NEW S, NEW s \in Seq(S), Len(s) > 0
    PROVE  /\ Front(s) \in Seq(S) /\ Len(Front(s)) = Len(s) - 1 /\ Last(s) = s[Len(s)]
           /\ \A i \in 1 .. Len(s) - 1 : Front(s)[i] = s[i]
<1> DEFINE n == Len(s) - 1
           t == SubSeq(s, 1, n)
<1>1. n \in Nat /\ Len(s) = n + 1 /\ 1 \in Int /\ n \in Int /\ \A i \in 1 .. n : s[i] \in S
  OBVIOUS
<1>2. Front(s) = t
  BY DEF Front
<1> HIDE DEF n, t
<1>3. /\ t \in Seq(S) /\ Len(t) = IF 1 <= n THEN n - 1 + 1 ELSE 0
      /\ \A i \in 1 .. n - 1 + 1 : t[i] = s[1 + i - 1]
  BY <1>1, SubSeqProperties DEF t
<1>4. Len(t) = n /\ \A i \in 1 .. n : t[i] = s[i]
  BY <1>1, <1>3
<1>5. Last(s) = s[n + 1]
  BY <1>1 DEF Last
<1> QED
  BY <1>1, <1>2, <1>3, <1>4, <1>5 DEF n

LEMMA PopOpened ==
    ASSUME NEW cs, NEW o, Opened(cs, o), Len(cs) > 0
    PROVE  \E x \in Seq(Brackets) :
              /\ Opened(Front(cs), x)
              /\ o = IF Last(cs).role \in Brackets THEN Append(x, Last(cs).role) ELSE x
<1> DEFINE n == Len(cs)
           ds == Front(cs)
<1>1. cs \in Seq(Frames) /\ n \in Nat /\ n > 0
  BY DEF Opened
<1>2. PICK f \in [0 .. n -> Seq(Brackets)] :
          /\ f[0] = << >> /\ f[n] = o
          /\ \A i \in 1 .. n :
                f[i] = IF cs[i].role \in Brackets THEN Append(f[i - 1], cs[i].role) ELSE f[i - 1]
  BY DEF Opened
<1> DEFINE g == [i \in 0 .. n - 1 |-> f[i]]
           x == f[n - 1]
<1>3. /\ ds \in Seq(Frames) /\ Len(ds) = n - 1 /\ Last(cs) = cs[n]
      /\ \A i \in 1 .. n - 1 : ds[i] = cs[i]
  <2> HIDE DEF g, x
  <2> QED
    BY <1>1, Popped
<1>4. x \in Seq(Brackets) /\ g \in [0 .. n - 1 -> Seq(Brackets)] /\ g[0] = << >> /\ g[n - 1] = x
  <2>1. 0 \in 0 .. n - 1 /\ n - 1 \in 0 .. n - 1 /\ \A i \in 0 .. n - 1 : i \in 0 .. n
    BY <1>1
  <2>2. \A i \in 0 .. n - 1 : f[i] \in Seq(Brackets)
    BY <1>2, <2>1
  <2>3. g \in [0 .. n - 1 -> Seq(Brackets)]
    BY <2>2
  <2> QED
    BY <1>2, <2>1, <2>2, <2>3
<1>5. o = IF Last(cs).role \in Brackets THEN Append(x, Last(cs).role) ELSE x
  <2>1. n \in 1 .. n
    BY <1>1
  <2>2. f[n] = IF cs[n].role \in Brackets THEN Append(f[n - 1], cs[n].role) ELSE f[n - 1]
    BY <1>2, <2>1
  <2>3. Last(cs) = cs[n]
    BY <1>3
  <2> QED
    BY <1>2, <2>2, <2>3
<1> HIDE DEF ds
<1>6. ASSUME NEW i \in 1 .. n - 1
      PROVE  g[i] = IF ds[i].role \in Brackets THEN Append(g[i - 1], ds[i].role) ELSE g[i - 1]
  <2>1. i \in 1 .. n /\ i \in 0 .. n - 1 /\ i - 1 \in 0 .. n - 1
    <3> HIDE DEF n, g, x
    <3> QED
      BY <1>1
  <2>2. ds[i] = cs[i]
    BY <1>3
  <2> QED
    BY <1>2, <2>1, <2>2
<1>7. Opened(ds, x)
  <2> HIDE DEF g, x
  <2> QED
    BY <1>3, <1>4, <1>6 DEF Opened
<1> QED
  BY <1>4, <1>5, <1>7 DEF ds

\* The parser is in a place from which the reader can get to the end.
OnTheWay ==
    \E o \in Seq(Brackets) :
        Opened(calls, o) /\ Place(IF lhs = None THEN "operand" ELSE "operator", o, at) \in EndsWell

-----------------------------------------------------------------------------
(***************************************************************************)
(* What the parser does, the reader may do; where the parser refuses,      *)
(* there is no way on.                                                     *)
(***************************************************************************)
LEMMA OperandWays ==
    ASSUME NEW o \in Seq(Brackets), NEW p \in Nat \ {0}, Place("operand", o, p) \in EndsWell
    PROVE  \/ Kind(p) \in {"Number", "NodeRef"} /\ Place("operator", o, p + 1) \in EndsWell
           \/ Kind(p) \in UnaryOperator /\ Place("operand", o, p + 1) \in EndsWell
           \/ Kind(p) = "(" /\ Place("operand", Append(o, "group"), p + 1) \in EndsWell
           \/ /\ Kind(p) = "Identifier" /\ Kind(p + 1) = "("
              /\ \/ Kind(p + 2) = ")" /\ Place("operator", o, p + 3) \in EndsWell
                 \/ /\ Kind(p + 2) # ")"
                    /\ Place("operand", Append(o, "argument"), p + 2) \in EndsWell
<1> DEFINE s == Place("operand", o, p)
<1>1. s.wants = "operand" /\ s.open = o /\ s.at = p /\ s \in EndsWell
  BY Places
<1>2. PICK u \in EndsWell : Goes(s, u)
  BY <1>1, GoesOn DEF AtEnd
<1> HIDE DEF s
<1>3. \/ Kind(p) \in {"Number", "NodeRef"} /\ u = Place("operator", o, p + 1)
      \/ Kind(p) \in UnaryOperator /\ u = Place("operand", o, p + 1)
      \/ Kind(p) = "(" /\ u = Place("operand", Append(o, "group"), p + 1)
      \/ /\ Kind(p) = "Identifier" /\ Kind(p + 1) = "("
         /\ \/ Kind(p + 2) = ")" /\ u = Place("operator", o, p + 3)
            \/ u = Place("operand", Append(o, "argument"), p + 2)
  BY <1>1, <1>2 DEF Goes
<1>4. ASSUME Kind(p + 2) = ")", u = Place("operand", Append(o, "argument"), p + 2)
      PROVE  FALSE
  <2>1. PICK x : x = Append(o, "argument") /\ x \in Seq(Brackets)
    BY Places DEF Brackets
  <2>2. u.wants = "operand" /\ u.open = x /\ u.at = p + 2
    <3>1. PICK q : q = p + 2 /\ q \in Nat \ {0}
      OBVIOUS
    <3>2. u = Place("operand", x, q)
      BY <1>4, <2>1, <3>1
    <3>3. Place("operand", x, q).wants = "operand" /\ Place("operand", x, q).open = x /\ Place("operand", x, q).at = q
      <4>1. x \in Seq(Brackets) /\ q \in Nat \ {0}
        BY <2>1, <3>1
      <4> QED
        BY <4>1, Places
    <3> QED
      BY <3>1, <3>2, <3>3
  <2>3. AtEnd(u) \/ \E v \in EndsWell : Goes(u, v)
    BY GoesOn
  <2> QED
    BY <1>4, <2>2, <2>3 DEF AtEnd, Goes, UnaryOperator
<1> QED
  BY <1>3, <1>4

LEMMA OperatorWays ==
    ASSUME NEW o \in Seq(Brackets), NEW p \in Nat \ {0}, Place("operator", o, p) \in EndsWell
    PROVE  \/ Kind(p) \in BinaryOperator /\ Place("operand", o, p + 1) \in EndsWell
           \/ Kind(p) = "?" /\ Place("operand", Append(o, "then"), p + 1) \in EndsWell
           \/ \E i \in Seq(Brackets) :
                 \/ o = Append(i, "then") /\ Kind(p) = ":" /\ Place("operand", i, p + 1) \in EndsWell
                 \/ o = Append(i, "group") /\ Kind(p) = ")" /\ Place("operator", i, p + 1) \in EndsWell
                 \/ o = Append(i, "argument") /\ Kind(p) = ")" /\ Place("operator", i, p + 1) \in EndsWell
                 \/ o = Append(i, "argument") /\ IsComma(p) /\ Place("operand", o, p + 1) \in EndsWell
           \/ o = << >> /\ Kind(p) = "EndOfFile"
<1> DEFINE s == Place("operator", o, p)
<1>1. s.wants = "operator" /\ s.open = o /\ s.at = p /\ s \in EndsWell
  BY Places
<1>2. AtEnd(s) \/ \E u \in EndsWell : Goes(s, u)
  BY <1>1, GoesOn
<1> HIDE DEF s
<1>3. CASE AtEnd(s)
  BY <1>1, <1>3 DEF AtEnd
<1>4. CASE \E u \in EndsWell : Goes(s, u)
  BY <1>1, <1>4 DEF Goes
<1> QED
  BY <1>2, <1>3, <1>4

LEMMA SameWays == ASSUME tokens' = tokens PROVE EndsWell' = EndsWell
<1>1. \A p : Kind(p)' = Kind(p) /\ IsComma(p)' = IsComma(p)
  BY SameKinds DEF IsComma
<1>2. ASSUME NEW s, NEW u PROVE Goes(s, u)' = Goes(s, u)
  BY <1>1 DEF Goes
<1>3. ASSUME NEW s PROVE AtEnd(s)' = AtEnd(s)
  BY <1>1 DEF AtEnd
<1>4. ASSUME NEW S PROVE Backward(S)' = Backward(S)
  BY <1>2, <1>3 DEF Backward
<1> QED
  BY <1>4 DEF EndsWell

LEMMA WayOfOperand ==
    ASSUME ParseInv, OnTheWay, tokens' = tokens, lhs = None,
           ReadLeaf \/ ReadPrefix \/ OpenGroup \/ OpenCall
    PROVE  OnTheWay'
<1>1. PICK o \in Seq(Brackets) : Opened(calls, o) /\ Place("operand", o, at) \in EndsWell
  BY DEF OnTheWay
<1>2. at \in Nat \ {0} /\ Kind(at) = tokens[at].kind
  BY Position
<1>3. \/ Kind(at) \in {"Number", "NodeRef"} /\ Place("operator", o, at + 1) \in EndsWell
      \/ Kind(at) \in UnaryOperator /\ Place("operand", o, at + 1) \in EndsWell
      \/ Kind(at) = "(" /\ Place("operand", Append(o, "group"), at + 1) \in EndsWell
      \/ /\ Kind(at) = "Identifier" /\ Kind(at + 1) = "("
         /\ \/ Kind(at + 2) = ")" /\ Place("operator", o, at + 3) \in EndsWell
            \/ /\ Kind(at + 2) # ")"
               /\ Place("operand", Append(o, "argument"), at + 2) \in EndsWell
  BY <1>1, <1>2, OperandWays
<1>4. EndsWell' = EndsWell /\ Len(nodes) \in Nat
  BY SameWays, Position
<1>5. ASSUME NEW role \in Roles
      PROVE  /\ role \in Brackets => Opened(Append(calls, Waiting(role, at, << >>)), Append(o, role))
             /\ role \notin Brackets => Opened(Append(calls, Waiting(role, at, << >>)), o)
  <2> DEFINE c == Waiting(role, at, << >>)
  <2>1. c \in Frames /\ c.role = role
    BY <1>2 DEF Waiting, Frames
  <2> HIDE DEF c
  <2>2. Opened(Append(calls, c), IF c.role \in Brackets THEN Append(o, c.role) ELSE o)
    BY <1>1, <2>1, PushOpened
  <2> QED
    BY <2>1, <2>2 DEF c
<1>6. ASSUME NEW x \in Seq(Brackets), Opened(calls', x),
             Place(IF lhs' = None THEN "operand" ELSE "operator", x, at') \in EndsWell
      PROVE  OnTheWay'
  BY <1>4, <1>6 DEF OnTheWay
<1>7. CASE ReadLeaf
  <2>1. calls' = calls /\ lhs' = Len(nodes) + 1 /\ at' = at + 1 /\ Kind(at) \in {"Number", "NodeRef"}
    BY <1>2, <1>7 DEF ReadLeaf, Starts, Make
  <2>2. lhs' # None /\ Place("operator", o, at') \in EndsWell
    BY <1>3, <1>4, <2>1 DEF None, UnaryOperator
  <2> QED
    BY <1>1, <1>6, <2>1, <2>2
<1>8. CASE ReadPrefix
  <2>1. /\ calls' = Append(calls, Waiting("unary", at, << >>)) /\ lhs' = None /\ at' = at + 1
        /\ Kind(at) \in UnaryOperator
    BY <1>2, <1>8 DEF ReadPrefix, Starts, Enter
  <2>2. Place("operand", o, at') \in EndsWell
    BY <1>3, <2>1 DEF UnaryOperator
  <2>3. Opened(calls', o)
    BY <1>5, <2>1 DEF Roles, Brackets
  <2> QED
    BY <1>6, <2>1, <2>2, <2>3
<1>9. CASE OpenGroup
  <2>1. /\ calls' = Append(calls, Waiting("group", at, << >>)) /\ lhs' = None /\ at' = at + 1
        /\ Kind(at) = "("
    BY <1>2, <1>9 DEF OpenGroup, Starts, Enter
  <2>2. Place("operand", Append(o, "group"), at') \in EndsWell
    BY <1>3, <2>1 DEF UnaryOperator
  <2>3. Opened(calls', Append(o, "group"))
    BY <1>5, <2>1 DEF Roles, Brackets
  <2>4. Append(o, "group") \in Seq(Brackets)
    BY <2>3, OpenedType
  <2> QED
    BY <1>6, <2>1, <2>2, <2>3, <2>4
<1>10. CASE OpenCall
  <2>1. /\ Kind(at) = "Identifier"
        /\ IF Kind(at + 2) = ")" THEN calls' = calls /\ lhs' = Len(nodes) + 1 /\ at' = at + 3
           ELSE calls' = Append(calls, Waiting("argument", at, << >>)) /\ lhs' = None /\ at' = at + 2
    BY <1>2, <1>10 DEF OpenCall, Starts, Enter, Make
  <2>2. CASE Kind(at + 2) = ")"
    <3>1. lhs' # None /\ Place("operator", o, at') \in EndsWell
      BY <1>3, <1>4, <2>1, <2>2 DEF None, UnaryOperator
    <3> QED
      BY <1>1, <1>6, <2>1, <2>2, <3>1
  <2>3. CASE Kind(at + 2) # ")"
    <3>1. Place("operand", Append(o, "argument"), at') \in EndsWell
      BY <1>3, <2>1, <2>3 DEF UnaryOperator
    <3>2. Opened(calls', Append(o, "argument"))
      BY <1>5, <2>1, <2>3 DEF Roles, Brackets
    <3>3. Append(o, "argument") \in Seq(Brackets)
      BY <3>2, OpenedType
    <3> QED
      BY <1>6, <2>1, <2>3, <3>1, <3>2, <3>3
  <2> QED
    BY <2>2, <2>3
<1> QED
  BY <1>7, <1>8, <1>9, <1>10

LEMMA NoWayOfOperand ==
    ASSUME ParseInv, OnTheWay, RefuseOperand PROVE FALSE
<1>1. PICK o \in Seq(Brackets) : Place("operand", o, at) \in EndsWell
  BY DEF OnTheWay, RefuseOperand, Starts
<1>2. at \in Nat \ {0} /\ Kind(at) = tokens[at].kind
  BY Position
<1>3. \/ Kind(at) \in {"Number", "NodeRef", "("} \cup UnaryOperator
      \/ Kind(at) = "Identifier" /\ Kind(at + 1) = "("
  BY <1>1, <1>2, OperandWays
<1> QED
  BY <1>2, <1>3 DEF RefuseOperand, Starts, UnaryOperator

LEMMA OpensNothing == ASSUME NEW o, Opened(<< >>, o) PROVE o = << >>
<1>1. Len(<< >>) = 0
  OBVIOUS
<1> QED
  BY <1>1 DEF Opened

LEMMA CommaKind ==
    ASSUME NEW p, IsComma(p)
    PROVE  Kind(p) \notin BinaryOperator \cup {")", "?", ":", "EndOfFile"}
<1>1. \A kind \in BinaryOperator \cup {")", "?", ":", "EndOfFile"} : kind # ","
  BY Zenon DEF BinaryOperator, Arithmetic, Comparison
<1> QED
  BY <1>1, Zenon DEF IsComma

LEMMA NewFrame ==
    ASSUME ParseInv, NEW roles, Returns(roles), NEW role \in Roles
    PROVE  Waiting(role, Last(calls).token, Operands) \in Frames
<1>1. Last(calls) \in Frames /\ lhs \in DOMAIN nodes
  BY Returning
<1>2. lhs \in Nat /\ Last(calls).operands \in Seq(Nat) /\ Last(calls).token \in Nat
  BY <1>1, Position DEF Frames
<1> QED
  BY <1>2 DEF Waiting, Frames, Operands

\* The ways on for the loop of parseExpression, by who waits for it to return.
LEMMA ReturningWays ==
    ASSUME ParseInv, OnTheWay, NEW roles, Returns(roles)
    PROVE  \E x \in Seq(Brackets) :
              /\ Opened(Front(calls), x)
              /\ LET role == Last(calls).role
                 IN  /\ role \in Roles /\ role \in roles
                     /\ role \notin Brackets => Place("operator", x, at) \in EndsWell
                     /\ role = "then" => Kind(at) = ":" /\ Place("operand", x, at + 1) \in EndsWell
                     /\ role = "group" => Kind(at) = ")" /\ Place("operator", x, at + 1) \in EndsWell
                     /\ role = "argument" =>
                          \/ Kind(at) = ")" /\ Place("operator", x, at + 1) \in EndsWell
                          \/ IsComma(at) /\ Place("operand", Append(x, "argument"), at + 1) \in EndsWell
<1> DEFINE role == Last(calls).role
<1>1. PICK o \in Seq(Brackets) : Opened(calls, o) /\ Place("operator", o, at) \in EndsWell
  BY DEF OnTheWay, Returns
<1>2. /\ Kind(at) # "?" /\ LeftBindingPower(Kind(at)) < MinBindingPower
      /\ calls # << >> /\ role \in roles
  BY DEF Returns
<1>3. calls \in Seq(Frames) /\ Len(calls) > 0
  BY <1>1, <1>2 DEF Opened
<1>4. role \in Roles
  <2>1. Last(calls) \in Frames
    BY Returning
  <2> QED
    BY <2>1 DEF Frames
<1>5. PICK x \in Seq(Brackets) :
         Opened(Front(calls), x) /\ o = IF role \in Brackets THEN Append(x, role) ELSE x
  BY <1>1, <1>3, PopOpened
<1>6. at \in Nat \ {0}
  BY Position
<1>7. CASE role \notin Brackets
  <2>1. Place("operator", x, at) \in EndsWell
    BY <1>1, <1>5, <1>7
  <2> QED
    BY <1>2, <1>4, <1>5, <1>7, <2>1 DEF Brackets
<1>8. CASE role \in Brackets
  <2>1. o = Append(x, role)
    BY <1>5, <1>8
  <2>2. Kind(at) \notin BinaryOperator
    <3>1. MinBindingPower = 0
      BY <1>2, <1>8 DEF MinBindingPower, Brackets
    <3> QED
      BY <1>2, <3>1, Binding
  <2>3. o # << >>
    BY <1>8, <2>1, AppendProperties
  <2>4. ASSUME NEW i \in Seq(Brackets), NEW b \in Brackets, o = Append(i, b)
        PROVE  i = x /\ b = role
    <3>1. PICK c : c = role /\ c \in Brackets
      BY <1>8
    <3>2. Append(x, c) = Append(i, b)
      BY <2>1, <2>4, <3>1
    <3> HIDE DEF role
    <3>3. x = i /\ c = b
      BY <3>1, <3>2, AppendInjective
    <3> QED
      BY <3>1, <3>3
  <2>5. PICK i \in Seq(Brackets) :
                 \/ o = Append(i, "then") /\ Kind(at) = ":" /\ Place("operand", i, at + 1) \in EndsWell
                 \/ o = Append(i, "group") /\ Kind(at) = ")" /\ Place("operator", i, at + 1) \in EndsWell
                 \/ o = Append(i, "argument") /\ Kind(at) = ")" /\ Place("operator", i, at + 1) \in EndsWell
                 \/ o = Append(i, "argument") /\ IsComma(at) /\ Place("operand", o, at + 1) \in EndsWell
    BY <1>1, <1>2, <1>6, <2>2, <2>3, OperatorWays
  <2>6. i = x /\ \/ role = "then" /\ Kind(at) = ":" /\ Place("operand", x, at + 1) \in EndsWell
                 \/ role = "group" /\ Kind(at) = ")" /\ Place("operator", x, at + 1) \in EndsWell
                 \/ role = "argument" /\ Kind(at) = ")" /\ Place("operator", x, at + 1) \in EndsWell
                 \/ role = "argument" /\ IsComma(at) /\ Place("operand", Append(x, "argument"), at + 1) \in EndsWell
    <3>1. "then" \in Brackets /\ "group" \in Brackets /\ "argument" \in Brackets
      BY DEF Brackets
    <3> HIDE DEF role
    <3> QED
      BY <2>1, <2>4, <2>5, <3>1
  <2> QED
    BY <1>2, <1>4, <1>5, <1>8, <2>6
<1> QED
  BY <1>7, <1>8

LEMMA WayOfOperator ==
    ASSUME ParseInv, OnTheWay, tokens' = tokens, lhs # None,
           \/ ReadQuestion \/ ReadOperator \/ FinishNode \/ FinishGroup \/ FinishThen
           \/ NextArgument \/ FinishCall
    PROVE  OnTheWay'
<1>1. PICK o \in Seq(Brackets) : Opened(calls, o) /\ Place("operator", o, at) \in EndsWell
  BY DEF OnTheWay
<1>2. at \in Nat \ {0} /\ EndsWell' = EndsWell /\ Len(nodes) \in Nat
  BY SameWays, Position
<1>3. ASSUME NEW x \in Seq(Brackets), Opened(calls', x),
             Place(IF lhs' = None THEN "operand" ELSE "operator", x, at') \in EndsWell
      PROVE  OnTheWay'
  BY <1>2, <1>3 DEF OnTheWay
<1>4. CASE ReadQuestion
  <2> DEFINE c == Waiting("then", at, <<lhs>>)
  <2>1. calls' = Append(calls, c) /\ lhs' = None /\ at' = at + 1 /\ Kind(at) = "?"
    BY <1>4 DEF ReadQuestion, Enter
  <2>2. c \in Frames /\ c.role = "then" /\ "then" \in Brackets
    <3>1. lhs \in Nat
      BY Position DEF ParseInv, Running
    <3> QED
      BY <1>2, <3>1 DEF Waiting, Frames, Roles, Brackets
  <2> HIDE DEF c
  <2>3. Opened(calls', Append(o, "then"))
    BY <1>1, <2>1, <2>2, PushOpened
  <2>4. Place("operand", Append(o, "then"), at') \in EndsWell
    BY <1>1, <1>2, <2>1, OperatorWays, OperatorKinds DEF IsComma
  <2>5. Append(o, "then") \in Seq(Brackets)
    BY <2>3, OpenedType
  <2> QED
    BY <1>3, <2>1, <2>3, <2>4, <2>5
<1>5. CASE ReadOperator
  <2> DEFINE c == Waiting("right", at, <<lhs>>)
  <2>1. calls' = Append(calls, c) /\ lhs' = None /\ at' = at + 1 /\ LeftBindingPower(Kind(at)) >= MinBindingPower
    BY <1>5 DEF ReadOperator, Enter
  <2>2. c \in Frames /\ c.role = "right" /\ "right" \notin Brackets
    <3>1. lhs \in Nat
      BY Position DEF ParseInv, Running
    <3> QED
      BY <1>2, <3>1 DEF Waiting, Frames, Roles, Brackets
  <2> HIDE DEF c
  <2>3. Opened(calls', o)
    BY <1>1, <2>1, <2>2, PushOpened
  <2>4. Kind(at) \in BinaryOperator
    BY <2>1, MinIsNatural, Binding
  <2>5. Place("operand", o, at') \in EndsWell
    BY <1>1, <1>2, <2>1, <2>4, OperatorWays, OperatorKinds, CommaKind
  <2> QED
    BY <1>3, <2>1, <2>3, <2>5
<1>6. CASE FinishNode
  <2>1. PICK x \in Seq(Brackets) : Opened(Front(calls), x) /\ Place("operator", x, at) \in EndsWell
    <3>1. Returns({"unary", "right", "else"})
      BY <1>6 DEF FinishNode
    <3>2. \A role \in {"unary", "right", "else"} : role \notin Brackets
      BY DEF Brackets
    <3> QED
      BY <3>1, <3>2, ReturningWays
  <2>2. calls' = Front(calls) /\ lhs' = Len(nodes) + 1 /\ at' = at
    BY <1>6 DEF FinishNode, Make
  <2>3. lhs' # None
    BY <1>2, <2>2 DEF None
  <2> QED
    BY <1>3, <2>1, <2>2, <2>3
<1>7. CASE FinishGroup
  <2>1. PICK x \in Seq(Brackets) : Opened(Front(calls), x) /\ Place("operator", x, at + 1) \in EndsWell
    <3>1. Returns({"group"})
      BY <1>7 DEF FinishGroup
    <3> QED
      BY <3>1, ReturningWays
  <2>2. calls' = Front(calls) /\ lhs' = lhs /\ at' = at + 1
    BY <1>7 DEF FinishGroup
  <2> QED
    BY <1>3, <2>1, <2>2
<1>8. CASE FinishThen
  <2>1. PICK x \in Seq(Brackets) : Opened(Front(calls), x) /\ Place("operand", x, at + 1) \in EndsWell
    <3>1. Returns({"then"})
      BY <1>8 DEF FinishThen
    <3> QED
      BY <3>1, ReturningWays
  <2> DEFINE c == Waiting("else", Last(calls).token, Operands)
  <2>2. calls' = Append(Front(calls), c) /\ lhs' = None /\ at' = at + 1
    BY <1>8 DEF FinishThen, Enter
  <2>3. c \in Frames /\ c.role = "else" /\ "else" \notin Brackets
    <3>1. Returns({"then"})
      BY <1>8 DEF FinishThen
    <3> QED
      BY <3>1, NewFrame DEF Brackets, Roles, Waiting
  <2> HIDE DEF c
  <2>4. Opened(calls', x)
    BY <2>1, <2>2, <2>3, PushOpened
  <2> QED
    BY <1>3, <2>1, <2>2, <2>4
<1>9. CASE NextArgument
  <2>1. PICK x \in Seq(Brackets) : Opened(Front(calls), x) /\ Place("operand", Append(x, "argument"), at + 1) \in EndsWell
    <3>1. Returns({"argument"}) /\ IsComma(at)
      BY <1>9, Zenon DEF NextArgument, IsComma
    <3> QED
      BY <3>1, ReturningWays, CommaKind
  <2> DEFINE c == Waiting("argument", Last(calls).token, Operands)
  <2>2. calls' = Append(Front(calls), c) /\ lhs' = None /\ at' = at + 1
    BY <1>9, Zenon DEF NextArgument, Enter
  <2>3. c \in Frames /\ c.role = "argument" /\ "argument" \in Brackets
    <3>1. Returns({"argument"})
      BY <1>9, Zenon DEF NextArgument
    <3> QED
      BY <3>1, NewFrame DEF Brackets, Roles, Waiting
  <2> HIDE DEF c
  <2>4. Opened(calls', Append(x, "argument"))
    BY <2>1, <2>2, <2>3, PushOpened
  <2>5. Append(x, "argument") \in Seq(Brackets)
    BY <2>4, OpenedType
  <2> QED
    BY <1>3, <2>1, <2>2, <2>4, <2>5
<1>10. CASE FinishCall
  <2>1. PICK x \in Seq(Brackets) : Opened(Front(calls), x) /\ Place("operator", x, at + 1) \in EndsWell
    <3>1. Returns({"argument"}) /\ Kind(at) = ")"
      BY <1>10 DEF FinishCall
    <3> QED
      BY <3>1, ReturningWays, CommaKind
  <2>2. calls' = Front(calls) /\ lhs' = Len(nodes) + 1 /\ at' = at + 1
    BY <1>10 DEF FinishCall, Make
  <2>3. lhs' # None
    BY <1>2, <2>2 DEF None
  <2> QED
    BY <1>3, <2>1, <2>2, <2>3
<1> QED
  BY <1>4, <1>5, <1>6, <1>7, <1>8, <1>9, <1>10

LEMMA NoWayOfOperator ==
    ASSUME ParseInv, OnTheWay, RefuseRest PROVE FALSE
<1>1. CASE Returns({"group"}) /\ Kind(at) # ")"
  BY <1>1, ReturningWays
<1>2. CASE Returns({"then"}) /\ Kind(at) # ":"
  BY <1>2, ReturningWays
<1>3. CASE Returns({"argument"}) /\ ~IsComma(at) /\ Kind(at) # ")"
  BY <1>3, ReturningWays
<1>4. CASE /\ lhs # None /\ calls = << >> /\ LeftBindingPower(Kind(at)) < 0
           /\ Kind(at) \notin {"?", "EndOfFile"}
  <2>1. PICK o \in Seq(Brackets) : Opened(calls, o) /\ Place("operator", o, at) \in EndsWell
    BY <1>4 DEF OnTheWay
  <2>2. o = << >>
    BY <1>4, <2>1, OpensNothing
  <2>3. \A i \in Seq(Brackets) : \A b \in Brackets : o # Append(i, b)
    BY <2>2, AppendProperties
  <2>4. "then" \in Brackets /\ "group" \in Brackets /\ "argument" \in Brackets
    BY DEF Brackets
  <2>5. Kind(at) \notin BinaryOperator /\ at \in Nat \ {0}
    BY <1>4, Binding, Position
  <2> HIDE DEF None
  <2> QED
    BY <1>4, <2>1, <2>3, <2>4, <2>5, OperatorWays
<1>5. \/ Returns({"group"}) /\ Kind(at) # ")"
      \/ Returns({"then"}) /\ Kind(at) # ":"
      \/ Returns({"argument"}) /\ ~IsComma(at) /\ Kind(at) # ")"
      \/ /\ lhs # None /\ calls = << >> /\ LeftBindingPower(Kind(at)) < 0
         /\ Kind(at) \notin {"?", "EndOfFile"}
  BY Zenon DEF RefuseRest, IsComma
<1> QED
  BY <1>1, <1>2, <1>3, <1>4, <1>5

-----------------------------------------------------------------------------
(***************************************************************************)
(* All of a compilation, by how far it has come.                           *)
(***************************************************************************)
NoEnd == \A i \in DOMAIN tokens : tokens[i].kind # "EndOfFile"

\* Whether the reader of `No wrong turn' can get to the end from the start.
WayThrough == Place("operand", << >>, 1) \in EndsWell

\* The tree says the text.
WholeTree ==
    /\ TokensEnd /\ TreeOK /\ lhs \in DOMAIN nodes
    /\ \E p \in Phrases[lhs] : p.first = 1 /\ p.last = Len(tokens) - 1

\* What is in place k of f is what folding leaves there.
FoldsAt(k, f) ==
    /\ f[k] = FoldNode(k, OfOperands(k, f))
    /\ ~DividesByZero(k, OfOperands(k, f))

\* No division of literals by zero has been met, and all before is folded.
FoldedSoFar ==
    /\ folded \in Seq(Range(folded)) /\ Len(folded) <= Len(nodes)
    /\ \A k \in 1 .. Len(folded) : FoldsAt(k, folded)

\* The next node divides a literal by a literal zero.
Blocked ==
    /\ Len(folded) < Len(nodes)
    /\ DividesByZero(Len(folded) + 1, OfOperands(Len(folded) + 1, folded))

Unparsed == at = 1 /\ calls = << >> /\ lhs = None /\ nodes = << >>

FormulaInv ==
    /\ TInv
    /\ outcome \in {"tokenizing", "tokenized", "INVALID_DSL", "no formula"} => folded = << >>
    /\ outcome = "tokenizing" => NoEnd /\ Unparsed
    /\ outcome = "tokenized" => ParseInv /\ (WayThrough => OnTheWay)
    /\ outcome = "no formula" => TokensEnd /\ ~WayThrough
    /\ Accepted => WholeTree /\ FoldedSoFar
    /\ outcome = "divides by zero" => Blocked
    /\ outcome = "compiled" =>
          Len(folded) = Len(nodes) /\ dependencies = ExtractDependencies(folded, lhs)

-----------------------------------------------------------------------------
LEMMA TakesNoEnd ==
    ASSUME TInv, NoEnd, NEW kind, kind # "EndOfFile", NEW lexeme, NEW number, NEW p,
           Take(kind, lexeme, number, p)
    PROVE  NoEnd' /\ outcome' = outcome
<1> DEFINE token == Token(kind, lexeme, number)
<1>1. tokens' = Append(tokens, token) /\ outcome' = outcome /\ tokens \in Seq(TokenType)
  BY DEF Take, TInv
<1>2. token.kind # "EndOfFile"
  BY DEF Token
<1> HIDE DEF token
<1>3. \A i \in DOMAIN tokens' : (i \in DOMAIN tokens /\ tokens'[i] = tokens[i]) \/ tokens'[i] = token
  BY <1>1
<1> QED
  BY <1>1, <1>2, <1>3 DEF NoEnd

LEMMA TokenizeKeepsEnd ==
    ASSUME TInv, NoEnd, Tokenize
    PROVE  \/ outcome' \in {"tokenizing", "INVALID_DSL"} /\ NoEnd'
           \/ outcome' = "tokenized" /\ tokens' = Append(tokens, EndOfFile)
<1>1. outcome = "tokenizing"
  BY DEF Tokenize
<1>2. CASE SkipSpace \/ RefuseCharacter
  BY <1>1, <1>2 DEF SkipSpace, RefuseCharacter, Refuse, NoEnd
<1>3. CASE TakeSymbol
  <2>1. Take(Peek(0), <<Peek(0)>>, 0, pos + 1) /\ Peek(0) # "EndOfFile"
    BY <1>3, Zenon DEF TakeSymbol, Symbol
  <2> QED
    BY <1>1, <2>1, TakesNoEnd
<1>4. CASE TakePair
  <2>1. PICK kind \in DOMAIN Pair : Take(kind, Pair[kind], 0, pos + 2)
    BY <1>4 DEF TakePair
  <2>2. kind # "EndOfFile"
    BY DEF Pair
  <2> QED
    BY <1>1, <2>1, <2>2, TakesNoEnd
<1>5. CASE TakeNodeReference
  <2>1. \/ \E lexeme, p : Take("NodeRef", lexeme, 0, p)
        \/ Refuse
    BY <1>5, Zenon DEF TakeNodeReference
  <2>2. CASE Refuse
    BY <2>2 DEF Refuse, NoEnd
  <2> QED
    BY <1>1, <2>1, <2>2, TakesNoEnd
<1>6. CASE TakeNumber
  <2>1. \E lexeme, number, p : Take("Number", lexeme, number, p)
    BY <1>6, Zenon DEF TakeNumber
  <2> QED
    BY <1>1, <2>1, TakesNoEnd
<1>7. CASE TakeWord
  <2>1. \E kind \in {"Number", "Identifier"} : \E lexeme, number, p : Take(kind, lexeme, number, p)
    BY <1>7, Zenon DEF TakeWord
  <2> QED
    BY <1>1, <2>1, TakesNoEnd
<1>8. CASE FinishTokens
  BY <1>8 DEF FinishTokens
<1> QED
  BY <1>2, <1>3, <1>4, <1>5, <1>6, <1>7, <1>8 DEF Tokenize

LEMMA StartsParsing ==
    ASSUME TInv, TInv', NoEnd, Unparsed, UNCHANGED treeVars, tokens' = Append(tokens, EndOfFile)
    PROVE  ParseInv' /\ (WayThrough' => OnTheWay')
<1>1. /\ tokens \in Seq(TokenType) /\ tokens' \in Seq(TokenType) /\ Len(tokens) \in Nat
      /\ Len(tokens') = Len(tokens) + 1 /\ DOMAIN tokens' = 1 .. Len(tokens) + 1
      /\ \A i \in 1 .. Len(tokens) : tokens'[i] = tokens[i] /\ tokens'[i].kind # "EndOfFile"
      /\ tokens'[Len(tokens) + 1] = EndOfFile
  BY DEF TInv, NoEnd
<1>2. EndOfFile.kind = "EndOfFile"
  BY DEF EndOfFile, Token
<1>3. TokensEnd'
  BY <1>1, <1>2 DEF TokensEnd
<1>4. at' = 1 /\ calls' = << >> /\ lhs' = None /\ nodes' = << >>
  BY DEF Unparsed, treeVars
<1>5. TreeOK'
  BY <1>4 DEF TreeOK, OperandsFirst
<1>6. Stack(<< >>, 1)'
  BY <1>3, EmptyStack, PTL
<1>7. Stack(calls, 1)' /\ Running(calls, 1)'
  <2>1. PICK none : none = << >>
    OBVIOUS
  <2>2. Stack(calls, 1)'
    BY <1>4, <1>6
  <2> QED
    BY <1>4, <2>2 DEF Running
<1>8. ParseInv'
  <2>1. 1 \in DOMAIN tokens'
    BY <1>1
  <2> QED
    BY <1>3, <1>4, <1>5, <1>7, <2>1 DEF ParseInv
<1>9. WayThrough' => OnTheWay'
  <2>1. Opened(calls', << >>) /\ << >> \in Seq(Brackets)
    BY <1>4, NothingOpened
  <2> QED
    BY <1>4, <2>1 DEF OnTheWay, WayThrough
<1> QED
  BY <1>8, <1>9

\* The parser moves on, refuses what has no way through, or has read it all.
LEMMA ParseKeeps ==
    ASSUME ParseInv, WayThrough => OnTheWay, Parse
    PROVE  /\ tokens' = tokens /\ folded' = folded /\ outcome' \in {"tokenized", "no formula", "parsed"}
           /\ outcome' = "tokenized" => ParseInv' /\ (WayThrough' => OnTheWay')
           /\ outcome' = "no formula" => ~WayThrough' /\ TokensEnd'
           /\ outcome' = "parsed" => WholeTree'
<1>1. outcome = "tokenized" /\ tokens' = tokens /\ folded' = folded
  BY DEF Parse
<1>2. WayThrough' = WayThrough
  BY <1>1, SameWays DEF WayThrough
<1>3. CASE ReadLeaf \/ ReadPrefix \/ OpenGroup \/ OpenCall
  <2>1. ParseInv'
    BY <1>1, <1>3, ParseReadLeaf, ParseReadPrefix, ParseOpenCall
  <2>2. lhs = None /\ outcome' = outcome
    BY <1>3 DEF ReadLeaf, ReadPrefix, OpenGroup, OpenCall, Starts, Make, Enter
  <2>3. OnTheWay => OnTheWay'
    BY <1>1, <1>3, <2>2, WayOfOperand
  <2> QED
    BY <1>1, <1>2, <2>1, <2>2, <2>3
<1>4. CASE ReadQuestion \/ ReadOperator \/ FinishNode \/ FinishGroup \/ FinishThen
           \/ NextArgument \/ FinishCall
  <2>1. ParseInv'
    BY <1>1, <1>4, ParseReadQuestion, ParseFinishNode, ParseFinishGroup, ParseFinishThen,
       ParseNextArgument, ParseFinishCall
  <2>2. lhs # None /\ outcome' = outcome
    BY <1>4, Zenon
       DEF ReadQuestion, ReadOperator, FinishNode, FinishGroup, FinishThen, NextArgument,
           FinishCall, Returns, Make, Enter
  <2>3. OnTheWay => OnTheWay'
    BY <1>1, <1>4, <2>2, WayOfOperator
  <2> QED
    BY <1>1, <1>2, <2>1, <2>2, <2>3
<1>5. CASE RefuseOperand \/ RefuseRest
  <2>1. ~WayThrough
    BY <1>5, NoWayOfOperand, NoWayOfOperator
  <2>2. outcome' = "no formula"
    BY <1>5, Zenon DEF RefuseOperand, RefuseRest, RefuseTokens
  <2>3. TokensEnd'
    BY <1>1 DEF ParseInv, TokensEnd
  <2> QED
    BY <1>1, <1>2, <2>1, <2>2, <2>3
<1>6. CASE FinishFormula
  <2>1. /\ outcome' = "parsed" /\ lhs # None /\ calls = << >> /\ Kind(at) = "EndOfFile"
        /\ lhs' = lhs /\ nodes' = nodes
    BY <1>6 DEF FinishFormula
  <2>2. at = Len(tokens)
    BY <2>1, Position DEF Inside
  <2>3. PICK a \in DOMAIN tokens : Stack(<< >>, a) /\ Running(calls, a)
    BY <2>1 DEF ParseInv
  <2>4. a = 1
    <3>1. Len(<< >>) = 0
      OBVIOUS
    <3> QED
      BY <2>3, <3>1 DEF Stack
  <2>5. lhs \in DOMAIN nodes /\ \E p \in Phrases[lhs] : p.first = 1 /\ p.last = Len(tokens) - 1
    <3>1. PICK l \in Strengths, r \in Strengths : Phrase(1, Len(tokens) - 1, l, r) \in Phrases[lhs]
      BY <2>1, <2>2, <2>3, <2>4 DEF Running
    <3> QED
      BY <2>1, <2>3, <3>1, PhraseFields DEF Running
  <2>6. TokensEnd /\ TreeOK
    BY DEF ParseInv
  <2>7. Grows /\ TokensEnd'
    BY <1>1, <2>1, <2>6, SameTree
  <2>8. lhs \in DOMAIN nodes' /\ Phrases'[lhs] = Phrases[lhs]
    BY <2>5, <2>7, SamePhrases
  <2>9. WholeTree'
    BY <1>1, <2>1, <2>5, <2>7, <2>8 DEF WholeTree, Grows
  <2> QED
    BY <1>1, <2>1, <2>9
<1> QED
  BY <1>3, <1>4, <1>5, <1>6 DEF Parse

LEMMA AppendOwn ==
    ASSUME NEW s, s \in Seq(Range(s)), NEW e
    PROVE  /\ Append(s, e) \in Seq(Range(Append(s, e))) /\ Len(Append(s, e)) = Len(s) + 1
           /\ Append(s, e)[Len(s) + 1] = e /\ Len(s) \in Nat
           /\ \A i \in 1 .. Len(s) : Append(s, e)[i] = s[i]
<1> DEFINE n == Len(s)
           t == Append(s, e)
           S == Range(s) \cup {e}
<1>1. s \in Seq(S) /\ e \in S /\ n \in Nat
  OBVIOUS
<1> HIDE DEF S
<1>2. t \in Seq(S) /\ Len(t) = n + 1 /\ t[n + 1] = e /\ \A i \in 1 .. n : t[i] = s[i]
  BY <1>1
<1> HIDE DEF t
<1>3. DOMAIN t = 1 .. n + 1 /\ \A i \in 1 .. n + 1 : t[i] \in Range(t)
  BY <1>1, <1>2 DEF Range
<1>4. t = [i \in 1 .. n + 1 |-> t[i]]
  BY <1>2, <1>3
<1>5. t \in [1 .. n + 1 -> Range(t)]
  BY <1>3, <1>4
<1>6. t \in Seq(Range(t))
  BY <1>1, <1>5
<1> QED
  BY <1>1, <1>2, <1>6 DEF t

LEMMA SameFold ==
    ASSUME tokens' = tokens, nodes' = nodes, NEW k, FoldsAt(k, folded')
    PROVE  FoldsAt(k, folded)'
<1>1. Op(k)' = Op(k) /\ OperandsOf(k)' = OperandsOf(k) /\ TokenOf(k)' = TokenOf(k)
  BY DEF Op, TokenOf, OperandsOf
<1>2. IsUnary(k)' = IsUnary(k) /\ IsBinary(k)' = IsBinary(k)
  BY <1>1 DEF IsUnary, IsBinary
<1>3. OfOperands(k, folded)' = OfOperands(k, folded')
  BY <1>1 DEF OfOperands
<1>4. PICK f : f = folded'
  OBVIOUS
<1>5. PICK x : x = OfOperands(k, f)
  OBVIOUS
<1>6. f[k] = FoldNode(k, x) /\ ~DividesByZero(k, x)
  BY <1>4, <1>5 DEF FoldsAt
<1>7. FoldNode(k, x)' = FoldNode(k, x) /\ DividesByZero(k, x)' = DividesByZero(k, x)
  BY <1>1, <1>2 DEF FoldNode, DividesByZero
<1>8. (x = OfOperands(k, folded))'
  BY <1>3, <1>4, <1>5
<1>9. (x = OfOperands(k, folded) /\ folded[k] = FoldNode(k, x) /\ ~DividesByZero(k, x) => FoldsAt(k, folded))'
  BY DEF FoldsAt
<1> QED
  BY <1>4, <1>6, <1>7, <1>8, <1>9

LEMMA SameBlocked ==
    ASSUME tokens' = tokens, nodes' = nodes, folded' = folded, Blocked
    PROVE  Blocked'
BY DEF Blocked, DividesByZero, OfOperands, Op, TokenOf, OperandsOf, IsBinary

\* What folding makes of a node, it makes of it for good.
LEMMA FoldingKeeps ==
    ASSUME WholeTree, FoldedSoFar, FoldConstants
    PROVE  /\ WholeTree' /\ FoldedSoFar' /\ outcome' \in {"parsed", "divides by zero"}
           /\ tokens' = tokens
           /\ outcome' = "divides by zero" => Blocked'
<1> DEFINE n == Len(folded)
           k == n + 1
           e == FoldNode(k, OfOperands(k, folded))
<1>1. outcome = "parsed" /\ n < Len(nodes)
  BY DEF FoldConstants
<1>2. tokens' = tokens /\ nodes' = nodes /\ lhs' = lhs
  BY DEF FoldConstants, treeVars
<1>3. /\ DividesByZero(k, OfOperands(k, folded)) => outcome' = "divides by zero" /\ folded' = folded
      /\ ~DividesByZero(k, OfOperands(k, folded)) => outcome' = outcome /\ folded' = Append(folded, e)
  BY Zenon DEF FoldConstants, OfOperands
<1>4. TokensEnd /\ TreeOK /\ OperandsFirst /\ lhs \in DOMAIN nodes
      /\ Len(nodes) \in Nat /\ DOMAIN nodes = 1 .. Len(nodes)
  BY DEF WholeTree, TreeOK, OperandsFirst
<1>5. WholeTree'
  <2>1. Grows /\ TokensEnd'
    BY <1>2, <1>4, SameTree
  <2>2. Phrases'[lhs] = Phrases[lhs] /\ TreeOK'
    BY <1>4, <2>1, SamePhrases DEF Grows
  <2> QED
    BY <1>2, <1>4, <2>1, <2>2 DEF WholeTree
<1>6. folded \in Seq(Range(folded)) /\ n \in Nat /\ k <= Len(nodes)
  BY <1>1, <1>4 DEF FoldedSoFar
<1> HIDE DEF n, k, e
<1>7. CASE DividesByZero(k, OfOperands(k, folded))
  <2>1. folded' = folded /\ outcome' = "divides by zero"
    BY <1>3, <1>7
  <2>2. ASSUME NEW j \in 1 .. Len(folded) PROVE FoldsAt(j, folded)'
    BY <1>2, <2>1, SameFold DEF FoldedSoFar
  <2>3. FoldedSoFar'
    BY <1>2, <2>1, <2>2 DEF FoldedSoFar
  <2>4. Blocked
    BY <1>1, <1>6, <1>7 DEF Blocked, k, n
  <2>5. Blocked'
    BY <1>2, <2>1, <2>4, SameBlocked
  <2> QED
    BY <1>2, <1>5, <2>1, <2>3, <2>5
<1>8. CASE ~DividesByZero(k, OfOperands(k, folded))
  <2>1. folded' = Append(folded, e) /\ outcome' = outcome
    BY <1>3, <1>8
  <2>2. /\ folded' \in Seq(Range(folded')) /\ Len(folded') = k /\ folded'[k] = e
        /\ \A i \in 1 .. n : folded'[i] = folded[i]
    BY <1>6, <2>1, AppendOwn DEF n, k
  <2>3. ASSUME NEW j \in 1 .. k
        PROVE  OfOperands(j, folded') = OfOperands(j, folded)
    <3>1. j \in DOMAIN nodes /\ \A i \in 1 .. j - 1 : i \in 1 .. n
      BY <1>4, <1>6 DEF k
    <3> QED
      BY <1>4, <2>2, <3>1, SameOfOperands
  <2>4. ASSUME NEW j \in 1 .. k PROVE FoldsAt(j, folded)'
    <3>1. FoldsAt(j, folded')
      <4>1. CASE j \in 1 .. n
        BY <2>2, <2>3, <4>1 DEF FoldedSoFar, FoldsAt, n
      <4>2. CASE j = k
        BY <1>8, <2>2, <2>3, <4>2 DEF FoldsAt, e
      <4> QED
        BY <1>6, <4>1, <4>2 DEF k
    <3> QED
      BY <1>2, <3>1, SameFold
  <2>5. FoldedSoFar'
    BY <1>2, <1>6, <2>2, <2>4 DEF FoldedSoFar
  <2> QED
    BY <1>1, <1>2, <1>5, <2>1, <2>5
<1> QED
  BY <1>7, <1>8

LEMMA NothingFolded == ASSUME folded = << >>, Len(nodes) \in Nat PROVE FoldedSoFar
BY DEF FoldedSoFar

LEMMA FormulaStarts == Init => FormulaInv
<1> SUFFICES ASSUME Init PROVE FormulaInv
  OBVIOUS
<1>1. text \in Seq(Character) /\ pos = 0 /\ tokens = << >> /\ outcome = "tokenizing" /\ folded = << >>
  BY TextsAreTexts DEF Init, TokenizerInit
<1>2. TInv /\ NoEnd
  BY <1>1 DEF TInv, NoEnd
<1>3. Unparsed
  BY DEF Init, Unparsed
<1> QED
  BY <1>1, <1>2, <1>3 DEF FormulaInv, Accepted

LEMMA SameDependencies ==
    ASSUME tokens' = tokens, nodes' = nodes, folded' = folded, lhs' = lhs
    PROVE  ExtractDependencies(folded, lhs)' = ExtractDependencies(folded, lhs)
<1>1. \A k : /\ Op(k)' = Op(k) /\ OperandsOf(k)' = OperandsOf(k) /\ TokenOf(k)' = TokenOf(k)
  BY DEF Op, TokenOf, OperandsOf
<1> DEFINE children(m) == Children(folded, m)
<1>2. \A m : Children(folded, m)' = Children(folded, m)
  BY <1>1 DEF Children
<1>3. \A S : (\A m \in S : Children(folded, m) \subseteq S)' <=> (\A m \in S : Children(folded, m) \subseteq S)
  BY <1>2
<1>4. Queue(folded, lhs)' = Queue(folded, lhs)
  BY <1>3 DEF Queue
<1>5. \A n : (TokenOf(folded[n].value).lexeme)' = TokenOf(folded[n].value).lexeme
             /\ Op(folded[n].value)' = Op(folded[n].value)
  BY <1>1
<1> QED
  BY <1>4, <1>5 DEF ExtractDependencies

\* When all that the parser has made stays as it is.
LEMMA SameTreeInv ==
    ASSUME WholeTree, FoldedSoFar, tokens' = tokens, nodes' = nodes, lhs' = lhs, folded' = folded
    PROVE  WholeTree' /\ FoldedSoFar'
<1>1. TokensEnd /\ TreeOK /\ lhs \in DOMAIN nodes
  BY DEF WholeTree
<1>2. Grows /\ TokensEnd'
  BY <1>1, SameTree
<1>3. Phrases'[lhs] = Phrases[lhs] /\ TreeOK'
  BY <1>1, <1>2, SamePhrases DEF Grows
<1>4. WholeTree'
  BY <1>1, <1>2, <1>3 DEF WholeTree
<1>5. ASSUME NEW j \in 1 .. Len(folded) PROVE FoldsAt(j, folded)'
  BY SameFold DEF FoldedSoFar
<1>6. FoldedSoFar'
  BY <1>5 DEF FoldedSoFar
<1> QED
  BY <1>4, <1>6

LEMMA FormulaSteps == FormulaInv /\ [Next]_vars => FormulaInv'
<1> SUFFICES ASSUME FormulaInv, [Next]_vars PROVE FormulaInv'
  OBVIOUS
<1> USE DEF Accepted
<1>1. CASE Tokenize /\ UNCHANGED <<parserVars, dependencies>>
  <2>1. outcome = "tokenizing" /\ TInv /\ NoEnd /\ Unparsed /\ folded = << >>
    BY <1>1 DEF Tokenize, FormulaInv
  <2>2. TInv'
    BY <1>1, <2>1, TokenizeReads
  <2>3. folded' = << >> /\ Unparsed' /\ UNCHANGED treeVars
    BY <1>1, <2>1 DEF parserVars, treeVars, Unparsed
  <2>4. CASE outcome' \in {"tokenizing", "INVALID_DSL"} /\ NoEnd'
    BY <2>2, <2>3, <2>4 DEF FormulaInv
  <2>5. CASE outcome' = "tokenized" /\ tokens' = Append(tokens, EndOfFile)
    <3>1. ParseInv' /\ (WayThrough' => OnTheWay')
      BY <2>1, <2>2, <2>3, <2>5, StartsParsing
    <3> QED
      BY <2>2, <2>3, <2>5, <3>1 DEF FormulaInv
  <2> QED
    BY <1>1, <2>1, <2>4, <2>5, TokenizeKeepsEnd
<1>2. CASE Parse /\ UNCHANGED dependencies
  <2>1. outcome = "tokenized" /\ UNCHANGED <<text, pos, tokens, folded>>
    BY <1>2 DEF Parse
  <2>2. TInv /\ ParseInv /\ (WayThrough => OnTheWay) /\ folded = << >>
    BY <2>1 DEF FormulaInv
  <2>3. TInv'
    BY <2>1, <2>2 DEF TInv
  <2>4. /\ outcome' \in {"tokenized", "no formula", "parsed"}
        /\ outcome' = "tokenized" => ParseInv' /\ (WayThrough' => OnTheWay')
        /\ outcome' = "no formula" => ~WayThrough' /\ TokensEnd'
        /\ outcome' = "parsed" => WholeTree'
    BY <1>2, <2>2, ParseKeeps
  <2>5. outcome' = "parsed" => FoldedSoFar'
    <3>1. WholeTree' => Len(nodes') \in Nat
      BY DEF WholeTree, TreeOK, OperandsFirst
    <3>2. folded' = << >>
      BY <2>1, <2>2
    <3>3. (folded = << >> /\ Len(nodes) \in Nat => FoldedSoFar)'
      BY NothingFolded, PTL
    <3> QED
      BY <2>4, <3>1, <3>2, <3>3
  <2>6. folded' = << >>
    BY <2>1, <2>2
  <2> QED
    BY <2>3, <2>4, <2>5, <2>6 DEF FormulaInv
<1>3. CASE FoldConstants /\ UNCHANGED dependencies
  <2>1. outcome = "parsed" /\ UNCHANGED <<text, pos, tokens>>
    BY <1>3 DEF FoldConstants
  <2>2. TInv /\ WholeTree /\ FoldedSoFar
    BY <2>1 DEF FormulaInv
  <2>3. TInv'
    BY <2>1, <2>2 DEF TInv
  <2>4. /\ WholeTree' /\ FoldedSoFar' /\ outcome' \in {"parsed", "divides by zero"}
        /\ outcome' = "divides by zero" => Blocked'
    BY <1>3, <2>2, FoldingKeeps
  <2> QED
    BY <2>3, <2>4 DEF FormulaInv
<1>4. CASE Compile
  <2>1. /\ outcome = "parsed" /\ Len(folded) = Len(nodes) /\ outcome' = "compiled"
        /\ dependencies' = ExtractDependencies(folded, lhs)
        /\ UNCHANGED <<text, pos, tokens>> /\ nodes' = nodes /\ lhs' = lhs /\ folded' = folded
    BY <1>4 DEF Compile, parserVars, treeVars
  <2>2. TInv /\ WholeTree /\ FoldedSoFar
    BY <2>1 DEF FormulaInv
  <2>3. TInv'
    BY <2>1, <2>2 DEF TInv
  <2>4. WholeTree' /\ FoldedSoFar'
    BY <2>1, <2>2, SameTreeInv
  <2>5. (Len(folded) = Len(nodes) /\ dependencies = ExtractDependencies(folded, lhs))'
    BY <2>1, SameDependencies
  <2> QED
    BY <2>1, <2>3, <2>4, <2>5 DEF FormulaInv
<1>5. CASE UNCHANGED vars
  <2>1. /\ UNCHANGED <<text, pos, tokens, outcome>> /\ UNCHANGED <<at, calls, lhs, nodes, folded>>
        /\ dependencies' = dependencies
    BY <1>5 DEF vars, tokenizerVars, parserVars, treeVars
  <2>2. TInv'
    BY <2>1 DEF FormulaInv, TInv
  <2>3. Accepted => WholeTree' /\ FoldedSoFar'
    BY <2>1, SameTreeInv DEF FormulaInv
  <2>4. WayThrough' = WayThrough
    BY <2>1, SameWays DEF WayThrough
  <2>5. ASSUME outcome = "tokenized" PROVE ParseInv' /\ (WayThrough' => OnTheWay')
    <3>1. ParseInv /\ (WayThrough => OnTheWay)
      BY <2>5 DEF FormulaInv
    <3>2. PICK a \in DOMAIN tokens : Stack(calls, a) /\ Running(calls, a)
      BY <3>1 DEF ParseInv
    <3>3. Grows /\ TokensEnd'
      BY <2>1, <3>1, SameTree DEF ParseInv
    <3>4. Stack(calls, a)' /\ TopNeed(calls)' = TopNeed(calls)
      <4>1. Stack(calls', a)
        BY <2>1, <3>2
      <4> QED
        BY <2>1, <3>2, <3>3, SameStack
    <3>5. OnTheWay => OnTheWay'
      <4>1. EndsWell' = EndsWell
        BY <2>1, SameWays
      <4> QED
        BY <2>1, <4>1 DEF OnTheWay
    <3>6. Running(calls, a)'
      <4>1. lhs # None => Phrases'[lhs] = Phrases[lhs] /\ lhs \in DOMAIN nodes
        BY <3>2, <3>3, SamePhrases DEF Running
      <4>2. Kind(at)' = Kind(at)
        BY <2>1, SameKinds
      <4> QED
        BY <2>1, <3>2, <3>4, <4>1, <4>2 DEF Running
    <3>7. ParseInv'
      BY <2>1, <3>1, <3>3, <3>4, <3>6 DEF ParseInv, Grows
    <3> QED
      BY <2>4, <3>1, <3>5, <3>7
  <2>6. outcome = "tokenizing" => NoEnd' /\ Unparsed'
    BY <2>1 DEF FormulaInv, NoEnd, Unparsed
  <2>7. outcome = "no formula" => TokensEnd' /\ ~WayThrough'
    BY <2>1, <2>4 DEF FormulaInv, TokensEnd
  <2>8. outcome = "divides by zero" => Blocked'
    BY <2>1, SameBlocked DEF FormulaInv
  <2>9. outcome = "compiled" =>
          (Len(folded) = Len(nodes) /\ dependencies = ExtractDependencies(folded, lhs))'
    BY <2>1, SameDependencies DEF FormulaInv
  <2>10. outcome \in {"tokenizing", "tokenized", "INVALID_DSL", "no formula"} => folded' = << >>
    BY <2>1 DEF FormulaInv
  <2> QED
    BY <2>1, <2>2, <2>3, <2>5, <2>6, <2>7, <2>8, <2>9, <2>10 DEF FormulaInv
<1> QED
  BY <1>1, <1>2, <1>3, <1>4, <1>5 DEF Next, Returned

-----------------------------------------------------------------------------
(***************************************************************************)
(* Folding.  What stands in a place of a tree is a literal, or a node made *)
(* no later.                                                               *)
(***************************************************************************)
StandsWell(stands) ==
    \A k \in DOMAIN nodes : IsLiteral(stands[k]) \/ stands[k].value \in 1 .. k

\* What a place comes to, by what the places before it come to.
ValueIn(stands, lookup, f, k) ==
    IF IsLiteral(stands[k]) THEN Result(stands[k].value)
    ELSE EvaluateNode(stands[k].value, OfOperands(stands[k].value, f), lookup)

LEMMA SameValueIn ==
    ASSUME OperandsFirst, NEW stands, StandsWell(stands), NEW lookup,
           NEW k \in DOMAIN nodes, NEW f, NEW g, \A j \in 1 .. k - 1 : f[j] = g[j]
    PROVE  ValueIn(stands, lookup, f, k) = ValueIn(stands, lookup, g, k)
<1>1. CASE ~IsLiteral(stands[k])
  <2> DEFINE n == stands[k].value
  <2>1. n \in 1 .. k /\ k \in 1 .. Len(nodes) /\ DOMAIN nodes = 1 .. Len(nodes) /\ Len(nodes) \in Nat
    BY <1>1 DEF StandsWell, OperandsFirst
  <2>2. n \in DOMAIN nodes /\ \A j \in 1 .. n - 1 : f[j] = g[j]
    BY <2>1
  <2> HIDE DEF n
  <2>3. OfOperands(n, f) = OfOperands(n, g)
    BY <2>2, SameOfOperands
  <2> QED
    BY <1>1, <2>3 DEF ValueIn, n
<1> QED
  BY <1>1 DEF ValueIn

\* A function that is defined place by place, each by those before it, exists.
LEMMA EvaluateIs ==
    ASSUME OperandsFirst, NEW stands, StandsWell(stands), NEW lookup
    PROVE  Evaluate(stands, lookup)
             = [k \in DOMAIN nodes |-> ValueIn(stands, lookup, Evaluate(stands, lookup), k)]
<1> DEFINE Step(k, f) == ValueIn(stands, lookup, f, k)
           Has(m) == \E f : f = [k \in 1 .. m |-> Step(k, f)]
           n == Len(nodes)
           S == {m \in 0 .. n : Has(m)}
<1>1. DOMAIN nodes = 1 .. n /\ n \in Nat
  BY DEF OperandsFirst
<1>2. \A k \in 1 .. n : \A f, g : (\A j \in 1 .. k - 1 : f[j] = g[j]) => Step(k, f) = Step(k, g)
  BY <1>1, SameValueIn, Zenon
<1> HIDE DEF Step
<1>3. Has(0)
  <2> DEFINE f == [k \in 1 .. 0 |-> 0]
  <2>1. f = [k \in 1 .. 0 |-> Step(k, f)]
    OBVIOUS
  <2> QED
    BY <2>1
<1>4. ASSUME NEW m \in 0 .. n - 1, Has(m) PROVE Has(m + 1)
  <2> PICK f : f = [k \in 1 .. m |-> Step(k, f)]
    BY <1>4
  <2> DEFINE g == [k \in 1 .. m + 1 |-> IF k <= m THEN f[k] ELSE Step(m + 1, f)]
  <2>1. \A k \in 1 .. m + 1 : k \in 1 .. n /\ \A j \in 1 .. k - 1 : f[j] = g[j]
    BY <1>1
  <2>2. \A k \in 1 .. m + 1 : Step(k, f) = Step(k, g)
    <3> HIDE DEF g, n
    <3> QED
      BY <1>2, <2>1, Zenon
  <2>3. \A k \in 1 .. m + 1 : g[k] = Step(k, f)
    OBVIOUS
  <2>4. g = [k \in 1 .. m + 1 |-> Step(k, g)]
    <3>1. DOMAIN g = 1 .. m + 1 /\ g = [k \in 1 .. m + 1 |-> g[k]]
      OBVIOUS
    <3> HIDE DEF g
    <3> QED
      BY <2>2, <2>3, <3>1
  <2> QED
    BY <2>4
<1>5. Has(n)
  <2> HIDE DEF Has
  <2>1. 0 \in S /\ \A m \in 0 .. n - 1 : m \in S => m + 1 \in S
    BY <1>1, <1>3, <1>4
  <2>2. n \in S
    <3> HIDE DEF S, n
    <3> QED
      BY <1>1, <2>1, Stepwise
  <2> QED
    BY <2>2
<1>6. \E f : f = [k \in DOMAIN nodes |-> Step(k, f)]
  BY <1>1, <1>5
<1>7. Evaluate(stands, lookup) = CHOOSE f : f = [k \in DOMAIN nodes |-> Step(k, f)]
  BY Zenon DEF Evaluate, Step, ValueIn, OfOperands
<1> HIDE DEF Has
<1>8. Evaluate(stands, lookup) = [k \in DOMAIN nodes |-> Step(k, Evaluate(stands, lookup))]
  BY <1>6, <1>7, Zenon
<1> QED
  BY <1>8, Zenon DEF Step

-----------------------------------------------------------------------------
\* The operands a node has.
LEMMA OperandPlaces ==
    ASSUME TreeOK, NEW k \in DOMAIN nodes
    PROVE  /\ \A i \in DOMAIN OperandsOf(k) : /\ OperandsOf(k)[i] \in 1 .. k - 1
                                              /\ OperandsOf(k)[i] \in DOMAIN nodes
           /\ IsUnary(k) => 1 \in DOMAIN OperandsOf(k) /\ DOMAIN OperandsOf(k) = {1}
           /\ IsBinary(k) => DOMAIN OperandsOf(k) = {1, 2}
           /\ Op(k) = "?" => DOMAIN OperandsOf(k) = {1, 2, 3}
           /\ Op(k) \in {"Number", "NodeRef"} => DOMAIN OperandsOf(k) = {}
<1>1. OperandsFirst /\ Shaped(k)
  BY DEF TreeOK
<1>2. DOMAIN OperandsOf(k) = 1 .. Len(OperandsOf(k))
      /\ \A i \in DOMAIN OperandsOf(k) : OperandsOf(k)[i] \in 1 .. k - 1 /\ OperandsOf(k)[i] \in DOMAIN nodes
  BY <1>1, OperandsBelow
<1>3. Op(k) \in {"Number", "NodeRef", "Identifier", "?"} => ~IsUnary(k) /\ ~IsBinary(k)
  BY OperatorKinds DEF IsUnary, IsBinary
<1>4. /\ IsUnary(k) => Len(OperandsOf(k)) = 1
      /\ IsBinary(k) => Len(OperandsOf(k)) = 2
      /\ Op(k) = "?" => Len(OperandsOf(k)) = 3
      /\ Op(k) \in {"Number", "NodeRef"} => Len(OperandsOf(k)) = 0
  BY <1>1, <1>3 DEF Shaped, IsUnary, IsBinary
<1> QED
  BY <1>2, <1>4

Taken(k) == IF IsTrue(Evaluate(Parsed, Zeros)[OperandsOf(k)[1]].value) THEN 2 ELSE 3

ConstantIn(f, k) ==
    \/ Op(k) = "Number"
    \/ IsUnary(k) /\ f[OperandsOf(k)[1]]
    \/ IsBinary(k) /\ Op(k) \in Arithmetic /\ f[OperandsOf(k)[1]] /\ f[OperandsOf(k)[2]]
    \/ Op(k) = "?" /\ f[OperandsOf(k)[1]] /\ f[OperandsOf(k)[Taken(k)]]

LEMMA SameConstantIn ==
    ASSUME TreeOK, NEW k \in DOMAIN nodes, NEW f, NEW g, \A j \in 1 .. k - 1 : f[j] = g[j]
    PROVE  ConstantIn(f, k) = ConstantIn(g, k)
<1>1. Taken(k) \in {2, 3}
  BY DEF Taken
<1>2. \A i \in DOMAIN OperandsOf(k) : f[OperandsOf(k)[i]] = g[OperandsOf(k)[i]]
  BY OperandPlaces
<1>3. /\ IsUnary(k) => f[OperandsOf(k)[1]] = g[OperandsOf(k)[1]]
      /\ IsBinary(k) => f[OperandsOf(k)[1]] = g[OperandsOf(k)[1]] /\ f[OperandsOf(k)[2]] = g[OperandsOf(k)[2]]
      /\ Op(k) = "?" => f[OperandsOf(k)[1]] = g[OperandsOf(k)[1]] /\ f[OperandsOf(k)[Taken(k)]] = g[OperandsOf(k)[Taken(k)]]
  BY <1>1, <1>2, OperandPlaces
<1>4. ConstantIn(f, k) \in BOOLEAN /\ ConstantIn(g, k) \in BOOLEAN
  BY Zenon DEF ConstantIn
<1>5. ConstantIn(f, k) => ConstantIn(g, k)
  BY <1>3, Zenon DEF ConstantIn
<1>6. ConstantIn(g, k) => ConstantIn(f, k)
  BY <1>3, Zenon DEF ConstantIn
<1> QED
  BY <1>4, <1>5, <1>6

LEMMA ConstantsAre ==
    ASSUME TreeOK
    PROVE  \A k \in DOMAIN nodes :
              k \in Constant <=>
                 \/ Op(k) = "Number"
                 \/ IsUnary(k) /\ OperandsOf(k)[1] \in Constant
                 \/ /\ IsBinary(k) /\ Op(k) \in Arithmetic
                    /\ OperandsOf(k)[1] \in Constant /\ OperandsOf(k)[2] \in Constant
                 \/ /\ Op(k) = "?" /\ OperandsOf(k)[1] \in Constant
                    /\ OperandsOf(k)[Taken(k)] \in Constant
<1> DEFINE Step(k, f) == ConstantIn(f, k)
           Has(m) == \E f : f = [k \in 1 .. m |-> Step(k, f)]
           n == Len(nodes)
           S == {m \in 0 .. n : Has(m)}
<1>1. DOMAIN nodes = 1 .. n /\ n \in Nat
  BY DEF TreeOK, OperandsFirst
<1>2. \A k \in 1 .. n : \A f, g : (\A j \in 1 .. k - 1 : f[j] = g[j]) => Step(k, f) = Step(k, g)
  BY <1>1, SameConstantIn, Zenon
<1> HIDE DEF Step
<1>3. Has(0)
  <2> DEFINE f == [k \in 1 .. 0 |-> 0]
  <2>1. f = [k \in 1 .. 0 |-> Step(k, f)]
    OBVIOUS
  <2> QED
    BY <2>1
<1>4. ASSUME NEW m \in 0 .. n - 1, Has(m) PROVE Has(m + 1)
  <2> PICK f : f = [k \in 1 .. m |-> Step(k, f)]
    BY <1>4
  <2> DEFINE g == [k \in 1 .. m + 1 |-> IF k <= m THEN f[k] ELSE Step(m + 1, f)]
  <2>1. \A k \in 1 .. m + 1 : k \in 1 .. n /\ \A j \in 1 .. k - 1 : f[j] = g[j]
    BY <1>1
  <2>2. \A k \in 1 .. m + 1 : Step(k, f) = Step(k, g)
    <3> HIDE DEF g, n
    <3> QED
      BY <1>2, <2>1, Zenon
  <2>3. \A k \in 1 .. m + 1 : g[k] = Step(k, f)
    OBVIOUS
  <2>4. g = [k \in 1 .. m + 1 |-> Step(k, g)]
    <3>1. DOMAIN g = 1 .. m + 1 /\ g = [k \in 1 .. m + 1 |-> g[k]]
      OBVIOUS
    <3> HIDE DEF g
    <3> QED
      BY <2>2, <2>3, <3>1
  <2> QED
    BY <2>4
<1>5. Has(n)
  <2> HIDE DEF Has
  <2>1. 0 \in S /\ \A m \in 0 .. n - 1 : m \in S => m + 1 \in S
    BY <1>1, <1>3, <1>4
  <2>2. n \in S
    <3> HIDE DEF S, n
    <3> QED
      BY <1>1, <2>1, Stepwise
  <2> QED
    BY <2>2
<1>6. \E f : f = [k \in DOMAIN nodes |-> Step(k, f)]
  BY <1>1, <1>5
<1> DEFINE c == CHOOSE f : f = [k \in DOMAIN nodes |-> Step(k, f)]
<1>7. Constant = {k \in DOMAIN nodes : c[k]}
  BY Zenon DEF Constant, Step, ConstantIn, Taken
<1> HIDE DEF Has
<1>8. c = [k \in DOMAIN nodes |-> Step(k, c)]
  BY <1>6, Zenon
<1> HIDE DEF c
<1>9. \A k \in DOMAIN nodes : c[k] = ConstantIn(c, k)
  BY <1>8, Zenon DEF Step
<1>10. \A k \in DOMAIN nodes : c[k] <=> k \in Constant
  BY <1>7, Zenon
<1>11. ASSUME NEW k \in DOMAIN nodes
       PROVE  /\ IsUnary(k) => OperandsOf(k)[1] \in DOMAIN nodes
              /\ IsBinary(k) => OperandsOf(k)[1] \in DOMAIN nodes /\ OperandsOf(k)[2] \in DOMAIN nodes
              /\ Op(k) = "?" => OperandsOf(k)[1] \in DOMAIN nodes /\ OperandsOf(k)[Taken(k)] \in DOMAIN nodes
  <2>1. Taken(k) \in {2, 3}
    BY DEF Taken
  <2> QED
    BY <2>1, OperandPlaces
<1> TAKE k \in DOMAIN nodes
<1>12. k \in Constant <=> ConstantIn(c, k)
  BY <1>9, <1>10, Zenon
<1> QED
  BY <1>10, <1>11, <1>12, Zenon DEF ConstantIn

LEMMA LiteralIs ==
    ASSUME NEW v, NEW n
    PROVE  /\ IsLiteral(Literal(v)) /\ Literal(v).value = v
           /\ ~IsLiteral(Node(n)) /\ Node(n).value = n
BY DEF IsLiteral, Literal, Node

LEMMA ParsedStands ==
    ASSUME OperandsFirst
    PROVE  /\ StandsWell(Parsed)
           /\ \A k \in DOMAIN nodes :
                 Parsed[k] = IF Op(k) = "Number" THEN Literal(TokenOf(k).number) ELSE Node(k)
<1>1. ASSUME NEW k \in DOMAIN nodes
      PROVE  Parsed[k] = IF Op(k) = "Number" THEN Literal(TokenOf(k).number) ELSE Node(k)
  BY DEF Parsed
<1>2. \A k \in DOMAIN nodes : k \in 1 .. k
  BY DEF OperandsFirst
<1> QED
  BY <1>1, <1>2, LiteralIs DEF StandsWell

\* What folding leaves in a place.
LEMMA FoldingLeaves ==
    ASSUME TreeOK, FoldedSoFar, NEW k \in 1 .. Len(folded)
    PROVE  /\ k \in DOMAIN nodes
           /\ \A j \in 1 .. k - 1 : j \in 1 .. Len(folded)
           /\ \/ Op(k) = "Number" /\ folded[k] = Literal(TokenOf(k).number)
              \/ /\ IsUnary(k) /\ IsLiteral(folded[OperandsOf(k)[1]])
                 /\ folded[k] = Literal(FoldUnary(Op(k), folded[OperandsOf(k)[1]].value))
              \/ /\ IsBinary(k) /\ Op(k) \in Arithmetic
                 /\ IsLiteral(folded[OperandsOf(k)[1]]) /\ IsLiteral(folded[OperandsOf(k)[2]])
                 /\ folded[k] = Literal(Calculate(Op(k), folded[OperandsOf(k)[1]].value,
                                                         folded[OperandsOf(k)[2]].value))
              \/ /\ Op(k) = "?" /\ IsLiteral(folded[OperandsOf(k)[1]])
                 /\ folded[k] = folded[OperandsOf(k)[IF folded[OperandsOf(k)[1]].value # 0 THEN 2 ELSE 3]]
              \/ /\ Op(k) # "Number"
                 /\ IsUnary(k) => ~IsLiteral(folded[OperandsOf(k)[1]])
                 /\ IsBinary(k) /\ Op(k) \in Arithmetic =>
                       ~IsLiteral(folded[OperandsOf(k)[1]]) \/ ~IsLiteral(folded[OperandsOf(k)[2]])
                 /\ Op(k) = "?" => ~IsLiteral(folded[OperandsOf(k)[1]])
                 /\ folded[k] = Node(k)
<1> DEFINE x == OfOperands(k, folded)
           y(i) == folded[OperandsOf(k)[i]]
<1>1. k \in DOMAIN nodes /\ \A j \in 1 .. k - 1 : j \in 1 .. Len(folded)
  BY DEF FoldedSoFar, TreeOK, OperandsFirst
<1>2. folded[k] = FoldNode(k, x)
  BY DEF FoldedSoFar, FoldsAt
<1>3. \A i \in DOMAIN OperandsOf(k) : x[i] = y(i)
  BY DEF OfOperands
<1> HIDE DEF x
<1>4. /\ IsUnary(k) => x[1] = y(1)
      /\ IsBinary(k) => x[1] = y(1) /\ x[2] = y(2)
      /\ Op(k) = "?" => x[1] = y(1) /\ x[2] = y(2) /\ x[3] = y(3)
  BY <1>1, <1>3, OperandPlaces
<1>5. Op(k) \in {"Number", "?"} => ~IsUnary(k) /\ ~IsBinary(k)
  BY OperatorKinds DEF IsUnary, IsBinary
<1>6. ~(IsUnary(k) /\ IsBinary(k))
  BY DEF IsUnary, IsBinary
<1> QED
  BY <1>1, <1>2, <1>4, <1>5, <1>6 DEF FoldNode

LEMMA FoldedStands ==
    ASSUME TreeOK, FoldedSoFar
    PROVE  \A k \in 1 .. Len(folded) :
              (\E v : folded[k] = Literal(v)) \/ \E n \in 1 .. k : folded[k] = Node(n)
<1> DEFINE m == Len(folded)
           S == {k \in 1 .. m : (\E v : folded[k] = Literal(v)) \/ \E n \in 1 .. k : folded[k] = Node(n)}
<1>1. m \in Nat
  BY DEF FoldedSoFar
<1>2. ASSUME NEW k \in 1 .. m, \A j \in 1 .. k - 1 : j \in S PROVE k \in S
  <2>1. k \in DOMAIN nodes
    BY FoldingLeaves
  <2>2. ASSUME NEW j \in 1 .. k - 1, folded[k] = folded[j] PROVE k \in S
    <3>1. 1 .. j \subseteq 1 .. k
      OBVIOUS
    <3> QED
      BY <1>2, <2>2, <3>1
  <2>3. \/ \E v : folded[k] = Literal(v)
        \/ folded[k] = Node(k)
        \/ Op(k) = "?" /\ \E i \in {2, 3} : folded[k] = folded[OperandsOf(k)[i]]
    BY FoldingLeaves
  <2>4. k \in 1 .. k
    BY <1>1
  <2>5. ASSUME Op(k) = "?", NEW i \in {2, 3} PROVE OperandsOf(k)[i] \in 1 .. k - 1
    BY <2>1, <2>5, OperandPlaces
  <2> QED
    BY <2>2, <2>3, <2>4, <2>5
<1>3. \A k \in 1 .. m : k \in S
  <2> HIDE DEF m, S
  <2> QED
    BY <1>1, <1>2, Upward
<1> QED
  BY <1>3

\* What a node of the parsed tree comes to.
LEMMA ParsedValue ==
    ASSUME TreeOK, NEW k \in DOMAIN nodes, NEW lookup
    PROVE  /\ Op(k) = "Number" => Evaluate(Parsed, lookup)[k] = Result(TokenOf(k).number)
           /\ Op(k) # "Number" =>
                Evaluate(Parsed, lookup)[k]
                   = EvaluateNode(k, OfOperands(k, Evaluate(Parsed, lookup)), lookup)
<1>1. Evaluate(Parsed, lookup)[k] = ValueIn(Parsed, lookup, Evaluate(Parsed, lookup), k)
  BY ParsedStands, EvaluateIs DEF TreeOK
<1>2. Parsed[k] = IF Op(k) = "Number" THEN Literal(TokenOf(k).number) ELSE Node(k)
  BY ParsedStands DEF TreeOK
<1> QED
  BY <1>1, <1>2, LiteralIs DEF ValueIn

LEMMA ResultIs == ASSUME NEW v PROVE ~Result(v).ends /\ Result(v).value = v
BY DEF Result

\* Evaluating numbers.
LEMMA EvaluateNumbers ==
    ASSUME TreeOK, NEW k \in DOMAIN nodes, NEW x, NEW lookup, DOMAIN x = DOMAIN OperandsOf(k)
    PROVE  /\ IsUnary(k) =>
                \A v : x[1] = Result(v) => EvaluateNode(k, x, lookup) = Result(EvaluateUnary(Op(k), v))
           /\ IsBinary(k) =>
                \A v, w : x[1] = Result(v) /\ x[2] = Result(w) =>
                   EvaluateNode(k, x, lookup) = Result(EvaluateBinary(Op(k), v, w))
           /\ Op(k) = "?" =>
                \A v : x[1] = Result(v) => EvaluateNode(k, x, lookup) = IF IsTrue(v) THEN x[2] ELSE x[3]
<1>1. Op(k) \in {"NodeRef", "?"} => ~IsUnary(k) /\ ~IsBinary(k)
  BY OperatorKinds DEF IsUnary, IsBinary
<1>2. ~(IsUnary(k) /\ IsBinary(k))
  BY DEF IsUnary, IsBinary
<1>3. ASSUME IsUnary(k), NEW v, x[1] = Result(v)
      PROVE  EvaluateNode(k, x, lookup) = Result(EvaluateUnary(Op(k), v))
  <2>1. ~ \E i \in DOMAIN x : x[i].ends
    BY <1>3, OperandPlaces, ResultIs
  <2> QED
    BY <1>1, <1>2, <1>3, <2>1, ResultIs DEF EvaluateNode
<1>4. ASSUME IsBinary(k), NEW v, NEW w, x[1] = Result(v), x[2] = Result(w)
      PROVE  EvaluateNode(k, x, lookup) = Result(EvaluateBinary(Op(k), v, w))
  <2>1. ~ \E i \in DOMAIN x : x[i].ends
    BY <1>4, OperandPlaces, ResultIs
  <2> QED
    BY <1>1, <1>2, <1>4, <2>1, ResultIs DEF EvaluateNode
<1>5. ASSUME Op(k) = "?", NEW v, x[1] = Result(v)
      PROVE  EvaluateNode(k, x, lookup) = IF IsTrue(v) THEN x[2] ELSE x[3]
  BY <1>5, ResultIs DEF EvaluateNode
<1> QED
  BY <1>3, <1>4, <1>5

\* The two evaluators compute alike, but for NaN.
LEMMA SameArithmetic ==
    /\ \A op \in Arithmetic : \A v, w : EvaluateBinary(op, v, w) = Calculate(op, v, w)
    /\ \A op \in UnaryOperator : \A v : op # "!" \/ v # NaN => EvaluateUnary(op, v) = FoldUnary(op, v)
<1>1. ASSUME NEW op \in Arithmetic, NEW v, NEW w PROVE EvaluateBinary(op, v, w) = Calculate(op, v, w)
  BY DEF Arithmetic, EvaluateBinary, Calculate
<1>2. ASSUME NEW op \in UnaryOperator, NEW v, op # "!" \/ v # NaN
      PROVE  EvaluateUnary(op, v) = FoldUnary(op, v)
  BY <1>2 DEF UnaryOperator, EvaluateUnary, FoldUnary, Truth, IsTrue
<1> QED
  BY <1>1, <1>2

\* A place is folded to a literal exactly if it is constant, and to the number it is.
LEMMA LiteralsAre ==
    ASSUME TreeOK, FoldedSoFar, ~TestsLiteralNaN
    PROVE  \A k \in 1 .. Len(folded) :
              /\ IsLiteral(folded[k]) <=> k \in Constant
              /\ \A lookup : IsLiteral(folded[k]) => Evaluate(Parsed, lookup)[k] = Result(folded[k].value)
<1> DEFINE m == Len(folded)
           E(lookup) == Evaluate(Parsed, lookup)
           Right(k) == /\ IsLiteral(folded[k]) <=> k \in Constant
                       /\ \A lookup : IsLiteral(folded[k]) => E(lookup)[k] = Result(folded[k].value)
           S == {k \in 1 .. m : Right(k)}
<1>1. m \in Nat
  BY DEF FoldedSoFar
<1>2. ASSUME NEW k \in 1 .. m, \A j \in 1 .. k - 1 : j \in S PROVE Right(k)
  <2> DEFINE j(i) == OperandsOf(k)[i]
             x(lookup) == OfOperands(k, E(lookup))
             v(i) == folded[j(i)].value
             lit(i) == IsLiteral(folded[j(i)])
  <2>1. k \in DOMAIN nodes
    BY FoldingLeaves
  <2>2. ASSUME NEW i \in DOMAIN OperandsOf(k)
        PROVE  /\ lit(i) <=> j(i) \in Constant
               /\ \A lookup : lit(i) => E(lookup)[j(i)] = Result(v(i))
    BY <1>2, <2>1, OperandPlaces
  <2>3. ASSUME NEW i \in DOMAIN OperandsOf(k), lit(i), NEW lookup
        PROVE  x(lookup)[i] = Result(v(i))
    BY <2>2, <2>3 DEF OfOperands
  <2>4. \A lookup : DOMAIN x(lookup) = DOMAIN OperandsOf(k)
    BY DEF OfOperands
  <2>5. Op(k) \in {"Number", "NodeRef", "Identifier", "?"} => ~IsUnary(k) /\ ~IsBinary(k)
    BY OperatorKinds DEF IsUnary, IsBinary
  <2>6. ~(IsUnary(k) /\ IsBinary(k))
    BY DEF IsUnary, IsBinary
  <2>7. ASSUME Op(k) = "?" \/ (IsUnary(k) /\ Op(k) = "!"), lit(1) PROVE v(1) # NaN
    <3>1. 1 \in DOMAIN OperandsOf(k)
      BY <2>1, <2>7, OperandPlaces
    <3>2. j(1) \in Constant /\ E(Zeros)[j(1)] = Result(v(1))
      BY <2>2, <2>7, <3>1
    <3> QED
      BY <2>1, <2>7, <3>2 DEF TestsLiteralNaN
  <2> HIDE DEF j, x, v, lit, E
  <2>8. CASE Op(k) = "Number" /\ folded[k] = Literal(TokenOf(k).number)
    <3>1. k \in Constant
      BY <2>1, <2>8, ConstantsAre
    <3>2. \A lookup : E(lookup)[k] = Result(TokenOf(k).number)
      BY <2>1, <2>8, ParsedValue DEF E
    <3> QED
      BY <2>8, <3>1, <3>2, LiteralIs
  <2>9. CASE IsUnary(k) /\ lit(1) /\ folded[k] = Literal(FoldUnary(Op(k), v(1)))
    <3>1. 1 \in DOMAIN OperandsOf(k) /\ Op(k) # "Number" /\ Op(k) \in UnaryOperator
      BY <2>1, <2>5, <2>9, OperandPlaces DEF IsUnary
    <3>2. k \in Constant
      BY <2>1, <2>2, <2>9, <3>1, ConstantsAre DEF j
    <3>3. ASSUME NEW lookup PROVE E(lookup)[k] = Result(FoldUnary(Op(k), v(1)))
      <4>1. E(lookup)[k] = EvaluateNode(k, x(lookup), lookup)
        BY <2>1, <3>1, ParsedValue DEF E, x
      <4>2. EvaluateNode(k, x(lookup), lookup) = Result(EvaluateUnary(Op(k), v(1)))
        BY <2>1, <2>3, <2>4, <2>9, <3>1, EvaluateNumbers
      <4>3. EvaluateUnary(Op(k), v(1)) = FoldUnary(Op(k), v(1))
        BY <2>7, <2>9, <3>1, SameArithmetic
      <4> QED
        BY <4>1, <4>2, <4>3
    <3> QED
      BY <2>9, <3>2, <3>3, LiteralIs
  <2>10. CASE /\ IsBinary(k) /\ Op(k) \in Arithmetic /\ lit(1) /\ lit(2)
              /\ folded[k] = Literal(Calculate(Op(k), v(1), v(2)))
    <3>1. 1 \in DOMAIN OperandsOf(k) /\ 2 \in DOMAIN OperandsOf(k) /\ Op(k) # "Number"
      BY <2>1, <2>5, <2>10, OperandPlaces
    <3>2. k \in Constant
      BY <2>1, <2>2, <2>10, <3>1, ConstantsAre DEF j
    <3>3. ASSUME NEW lookup PROVE E(lookup)[k] = Result(Calculate(Op(k), v(1), v(2)))
      <4>1. E(lookup)[k] = EvaluateNode(k, x(lookup), lookup)
        BY <2>1, <3>1, ParsedValue DEF E, x
      <4>2. EvaluateNode(k, x(lookup), lookup) = Result(EvaluateBinary(Op(k), v(1), v(2)))
        BY <2>1, <2>3, <2>4, <2>10, <3>1, EvaluateNumbers
      <4>3. EvaluateBinary(Op(k), v(1), v(2)) = Calculate(Op(k), v(1), v(2))
        BY <2>10, SameArithmetic
      <4> QED
        BY <4>1, <4>2, <4>3
    <3> QED
      BY <2>10, <3>2, <3>3, LiteralIs
  <2>11. CASE /\ Op(k) = "?" /\ lit(1)
              /\ folded[k] = folded[j(IF v(1) # 0 THEN 2 ELSE 3)]
    <3> DEFINE b == IF v(1) # 0 THEN 2 ELSE 3
    <3>1. /\ 1 \in DOMAIN OperandsOf(k) /\ 2 \in DOMAIN OperandsOf(k) /\ 3 \in DOMAIN OperandsOf(k)
          /\ b \in DOMAIN OperandsOf(k) /\ Op(k) # "Number"
      BY <2>1, <2>11, OperandPlaces
    <3>2. b = IF IsTrue(v(1)) THEN 2 ELSE 3
      BY <2>7, <2>11 DEF IsTrue
    <3>3. \A lookup : E(lookup)[j(1)] = Result(v(1))
      BY <2>2, <2>11, <3>1
    <3>4. Taken(k) = b
      BY <3>2, <3>3, ResultIs DEF Taken, E, j
    <3>5. k \in Constant <=> j(b) \in Constant
      <4>1. j(1) \in Constant
        BY <2>2, <2>11, <3>1
      <4> QED
        BY <2>1, <2>5, <2>11, <3>1, <3>4, <4>1, ConstantsAre DEF j
    <3>6. ASSUME NEW lookup PROVE E(lookup)[k] = E(lookup)[j(b)]
      <4>1. E(lookup)[k] = EvaluateNode(k, x(lookup), lookup)
        BY <2>1, <3>1, ParsedValue DEF E, x
      <4>2. x(lookup)[1] = Result(v(1))
        BY <2>3, <2>11, <3>1
      <4>3. EvaluateNode(k, x(lookup), lookup) = IF IsTrue(v(1)) THEN x(lookup)[2] ELSE x(lookup)[3]
        BY <2>1, <2>4, <2>11, <4>2, EvaluateNumbers
      <4>4. \A i \in DOMAIN OperandsOf(k) : x(lookup)[i] = E(lookup)[j(i)]
        BY DEF x, j, OfOperands
      <4> QED
        BY <3>1, <3>2, <4>1, <4>3, <4>4
    <3>7. lit(b) <=> j(b) \in Constant
      BY <2>2, <3>1
    <3>8. \A lookup : lit(b) => E(lookup)[j(b)] = Result(v(b))
      BY <2>2, <3>1
    <3>9. folded[k] = folded[j(b)]
      BY <2>11
    <3> HIDE DEF b
    <3> QED
      BY <3>5, <3>6, <3>7, <3>8, <3>9 DEF lit, v
  <2>12. CASE /\ Op(k) # "Number"
              /\ IsUnary(k) => ~lit(1)
              /\ IsBinary(k) /\ Op(k) \in Arithmetic => ~lit(1) \/ ~lit(2)
              /\ Op(k) = "?" => ~lit(1)
              /\ folded[k] = Node(k)
    <3>1. /\ IsUnary(k) => 1 \in DOMAIN OperandsOf(k)
          /\ IsBinary(k) => 1 \in DOMAIN OperandsOf(k) /\ 2 \in DOMAIN OperandsOf(k)
          /\ Op(k) = "?" => 1 \in DOMAIN OperandsOf(k)
      BY <2>1, OperandPlaces
    <3>2. k \notin Constant
      BY <2>1, <2>2, <2>12, <3>1, ConstantsAre DEF j
    <3> QED
      BY <2>12, <3>2, LiteralIs
  <2>13. \/ Op(k) = "Number" /\ folded[k] = Literal(TokenOf(k).number)
         \/ IsUnary(k) /\ lit(1) /\ folded[k] = Literal(FoldUnary(Op(k), v(1)))
         \/ /\ IsBinary(k) /\ Op(k) \in Arithmetic /\ lit(1) /\ lit(2)
            /\ folded[k] = Literal(Calculate(Op(k), v(1), v(2)))
         \/ Op(k) = "?" /\ lit(1) /\ folded[k] = folded[j(IF v(1) # 0 THEN 2 ELSE 3)]
         \/ /\ Op(k) # "Number"
            /\ IsUnary(k) => ~lit(1)
            /\ IsBinary(k) /\ Op(k) \in Arithmetic => ~lit(1) \/ ~lit(2)
            /\ Op(k) = "?" => ~lit(1)
            /\ folded[k] = Node(k)
    BY FoldingLeaves, Zenon DEF lit, v, j
  <2> HIDE DEF Right
  <2> QED
    BY <2>8, <2>9, <2>10, <2>11, <2>12, <2>13
<1>3. \A k \in 1 .. m : k \in S
  <2> HIDE DEF Right
  <2>1. \A k \in 1 .. m : (\A i \in 1 .. k - 1 : i \in S) => k \in S
    BY <1>2
  <2> HIDE DEF m, S
  <2> QED
    BY <1>1, <2>1, Upward
<1> QED
  BY <1>3

\* The whole tree is folded.
Folded == TreeOK /\ FoldedSoFar /\ Len(folded) = Len(nodes)

LEMMA FoldedIs ==
    ASSUME Folded
    PROVE  /\ OperandsFirst /\ DOMAIN nodes = 1 .. Len(folded) /\ StandsWell(folded)
           /\ \A lookup : \A k \in DOMAIN nodes :
                 Evaluate(folded, lookup)[k] = ValueIn(folded, lookup, Evaluate(folded, lookup), k)
<1>1. OperandsFirst /\ DOMAIN nodes = 1 .. Len(folded)
  BY DEF Folded, TreeOK, OperandsFirst
<1>2. StandsWell(folded)
  BY <1>1, FoldedStands, LiteralIs DEF Folded, StandsWell
<1> QED
  BY <1>1, <1>2, EvaluateIs

LEMMA FoldedComputesTheSame ==
    ASSUME Folded, ~TestsLiteralNaN, NEW lookup
    PROVE  \A k \in DOMAIN nodes : Evaluate(folded, lookup)[k] = Evaluate(Parsed, lookup)[k]
<1> DEFINE m == Len(folded)
           E == Evaluate(Parsed, lookup)
           F == Evaluate(folded, lookup)
           S == {k \in 1 .. m : F[k] = E[k]}
<1>1. m \in Nat /\ DOMAIN nodes = 1 .. m /\ TreeOK /\ FoldedSoFar /\ OperandsFirst
  BY FoldedIs DEF Folded, FoldedSoFar
<1>2. \A k \in 1 .. m : F[k] = ValueIn(folded, lookup, F, k)
  BY <1>1, FoldedIs
<1>3. ASSUME NEW k \in 1 .. m, \A j \in 1 .. k - 1 : j \in S PROVE k \in S
  <2>1. CASE IsLiteral(folded[k])
    <3>1. F[k] = Result(folded[k].value)
      BY <1>2, <2>1 DEF ValueIn
    <3>2. E[k] = Result(folded[k].value)
      BY <1>1, <2>1, LiteralsAre
    <3> QED
      BY <3>1, <3>2
  <2>2. CASE folded[k] = Node(k) /\ Op(k) # "Number"
    <3>1. F[k] = EvaluateNode(k, OfOperands(k, F), lookup)
      BY <1>2, <2>2, LiteralIs DEF ValueIn
    <3>2. E[k] = EvaluateNode(k, OfOperands(k, E), lookup)
      BY <1>1, <2>2, ParsedValue
    <3>3. OfOperands(k, F) = OfOperands(k, E)
      <4>1. \A j \in 1 .. k - 1 : F[j] = E[j]
        BY <1>3
      <4> HIDE DEF E, F
      <4> QED
        BY <1>1, <4>1, SameOfOperands
    <3> QED
      BY <3>1, <3>2, <3>3
  <2>3. CASE /\ Op(k) = "?" /\ IsLiteral(folded[OperandsOf(k)[1]]) /\ ~IsLiteral(folded[k])
             /\ folded[k] = folded[OperandsOf(k)[IF folded[OperandsOf(k)[1]].value # 0 THEN 2 ELSE 3]]
    <3> DEFINE v == folded[OperandsOf(k)[1]].value
               b == IF v # 0 THEN 2 ELSE 3
    <3>1. /\ OperandsOf(k)[1] \in 1 .. k - 1 /\ OperandsOf(k)[b] \in 1 .. k - 1
          /\ DOMAIN OperandsOf(k) = {1, 2, 3}
      BY <1>1, <2>3, OperandPlaces
    <3>2. OperandsOf(k)[1] \in 1 .. m /\ OperandsOf(k)[b] \in 1 .. m
      BY <1>1, <3>1
    <3>3. OperandsOf(k)[1] \in Constant /\ \A l : Evaluate(Parsed, l)[OperandsOf(k)[1]] = Result(v)
      BY <1>1, <2>3, <3>2, LiteralsAre
    <3>4. v # NaN
      BY <1>1, <2>3, <3>3 DEF TestsLiteralNaN
    <3>5. E[k] = E[OperandsOf(k)[b]]
      <4> DEFINE x == OfOperands(k, E)
      <4>1. DOMAIN x = DOMAIN OperandsOf(k) /\ \A i \in {1, 2, 3} : x[i] = E[OperandsOf(k)[i]]
        BY <3>1 DEF OfOperands
      <4>2. x[1] = Result(v)
        BY <3>3, <4>1
      <4>3. E[k] = EvaluateNode(k, x, lookup)
        BY <1>1, <2>3, ParsedValue
      <4>4. EvaluateNode(k, x, lookup) = IF IsTrue(v) THEN x[2] ELSE x[3]
        <5> HIDE DEF x, v
        <5> QED
          BY <1>1, <2>3, <4>1, <4>2, EvaluateNumbers
      <4> QED
        BY <3>4, <4>1, <4>3, <4>4 DEF IsTrue
    <3>6. F[k] = F[OperandsOf(k)[b]]
      <4>1. folded[k] = folded[OperandsOf(k)[b]]
        BY <2>3
      <4> HIDE DEF b, F
      <4> QED
        BY <1>2, <3>2, <4>1 DEF ValueIn
    <3> QED
      BY <1>3, <3>1, <3>5, <3>6
  <2> QED
    BY <1>1, <2>1, <2>2, <2>3, FoldingLeaves, LiteralIs
<1>4. \A k \in 1 .. m : k \in S
  <2> HIDE DEF S, m
  <2> QED
    BY <1>1, <1>3, Upward
<1> QED
  BY <1>1, <1>4

LEMMA BlockedDivides ==
    ASSUME TreeOK, FoldedSoFar, ~TestsLiteralNaN, Blocked
    PROVE  \E k \in DOMAIN nodes :
              /\ IsBinary(k) /\ Op(k) = "/" /\ Range(OperandsOf(k)) \subseteq Constant
              /\ Evaluate(Parsed, Zeros)[OperandsOf(k)[2]] = Result(0)
<1> DEFINE k == Len(folded) + 1
           y(i) == folded[OperandsOf(k)[i]]
<1>1. k \in DOMAIN nodes /\ \A j \in 1 .. k - 1 : j \in 1 .. Len(folded)
  BY DEF Blocked, TreeOK, OperandsFirst, FoldedSoFar
<1>2. DividesByZero(k, OfOperands(k, folded))
  BY DEF Blocked
<1> HIDE DEF k
<1>3. IsBinary(k) /\ Op(k) = "/" /\ DOMAIN OperandsOf(k) = {1, 2}
  BY <1>1, <1>2, OperandPlaces DEF DividesByZero
<1>4. IsLiteral(y(1)) /\ y(2) = Literal(0)
  BY <1>2, <1>3 DEF DividesByZero, OfOperands
<1>5. OperandsOf(k)[1] \in 1 .. Len(folded) /\ OperandsOf(k)[2] \in 1 .. Len(folded)
  BY <1>1, <1>3, OperandPlaces
<1>6. OperandsOf(k)[1] \in Constant /\ OperandsOf(k)[2] \in Constant
      /\ Evaluate(Parsed, Zeros)[OperandsOf(k)[2]] = Result(0)
  BY <1>4, <1>5, LiteralsAre, LiteralIs
<1>7. Range(OperandsOf(k)) \subseteq Constant
  BY <1>3, <1>6 DEF Range
<1> QED
  BY <1>1, <1>3, <1>6, <1>7

LEMMA NothingDivides ==
    ASSUME Folded, ~TestsLiteralNaN, NEW k \in DOMAIN nodes,
           IsBinary(k), Op(k) = "/", Range(OperandsOf(k)) \subseteq Constant,
           Evaluate(Parsed, Zeros)[OperandsOf(k)[2]] = Result(0)
    PROVE  FALSE
<1>1. TreeOK /\ FoldedSoFar /\ DOMAIN nodes = 1 .. Len(folded)
  BY FoldedIs DEF Folded
<1>2. DOMAIN OperandsOf(k) = {1, 2} /\ OperandsOf(k)[1] \in DOMAIN nodes /\ OperandsOf(k)[2] \in DOMAIN nodes
  BY <1>1, OperandPlaces
<1>3. OperandsOf(k)[1] \in Constant /\ OperandsOf(k)[2] \in Constant
  BY <1>2 DEF Range
<1>4. IsLiteral(folded[OperandsOf(k)[1]]) /\ IsLiteral(folded[OperandsOf(k)[2]])
      /\ Result(0) = Result(folded[OperandsOf(k)[2]].value)
  BY <1>1, <1>2, <1>3, LiteralsAre
<1>5. folded[OperandsOf(k)[2]].value = 0
  BY <1>4, ResultIs
<1>6. folded[OperandsOf(k)[2]] = Literal(0)
  <2>1. PICK v : folded[OperandsOf(k)[2]] = Literal(v)
    BY <1>1, <1>2, <1>4, FoldedStands, LiteralIs
  <2> QED
    BY <1>5, <2>1, LiteralIs
<1>7. DividesByZero(k, OfOperands(k, folded))
  BY <1>2, <1>4, <1>6 DEF DividesByZero, OfOperands
<1> QED
  BY <1>1, <1>7 DEF FoldedSoFar, FoldsAt

-----------------------------------------------------------------------------
LEMMA QueueCloses ==
    ASSUME Folded, NEW k \in DOMAIN nodes
    PROVE  /\ k \in Queue(folded, k) /\ Queue(folded, k) \subseteq DOMAIN nodes
           /\ \A m \in Queue(folded, k) : Children(folded, m) \subseteq Queue(folded, k)
<1>1. k \in Queue(folded, k) /\ Queue(folded, k) \subseteq DOMAIN nodes
  BY DEF Queue
<1>2. ASSUME NEW m \in Queue(folded, k), NEW c \in Children(folded, m) PROVE c \in Queue(folded, k)
  <2>1. c \in DOMAIN nodes
    <3>1. ~IsLiteral(folded[m]) /\ folded[m].value \in DOMAIN nodes
      <4>1. m \in DOMAIN nodes
        BY <1>1
      <4>2. ~IsLiteral(folded[m])
        BY <1>2 DEF Children
      <4>3. folded[m].value \in 1 .. m /\ m \in 1 .. Len(folded) /\ DOMAIN nodes = 1 .. Len(folded)
        BY <4>1, <4>2, FoldedIs DEF StandsWell
      <4>4. Len(folded) \in Nat
        BY DEF Folded, FoldedSoFar
      <4> QED
        BY <4>2, <4>3, <4>4
    <3>2. \E i \in DOMAIN OperandsOf(folded[m].value) : c = OperandsOf(folded[m].value)[i]
      BY <1>2, <3>1 DEF Children, Range
    <3> QED
      BY <3>1, <3>2, OperandPlaces DEF Folded
  <2>2. ASSUME NEW S \in SUBSET DOMAIN nodes, k \in S, \A n \in S : Children(folded, n) \subseteq S
        PROVE  c \in S
    <3>1. m \in S
      BY <2>2 DEF Queue
    <3> QED
      BY <2>2, <3>1, <1>2
  <2> QED
    BY <2>1, <2>2 DEF Queue
<1> QED
  BY <1>1, <1>2

LEMMA OthersDoNotMatter ==
    ASSUME Folded, TokensEnd, NEW k \in DOMAIN nodes, NEW lookup, NEW other,
           \A n \in ExtractDependencies(folded, k) : n \in Names => lookup[n] = other[n]
    PROVE  Evaluate(folded, lookup)[k] = Evaluate(folded, other)[k]
<1> DEFINE m == Len(folded)
           Q == Queue(folded, k)
           F == Evaluate(folded, lookup)
           G == Evaluate(folded, other)
           S == {j \in 1 .. m : j \in Q => F[j] = G[j]}
<1>1. m \in Nat /\ DOMAIN nodes = 1 .. m /\ TreeOK /\ OperandsFirst
  BY FoldedIs DEF Folded, FoldedSoFar
<1>2. \A j \in 1 .. m : F[j] = ValueIn(folded, lookup, F, j) /\ G[j] = ValueIn(folded, other, G, j)
  BY <1>1, FoldedIs
<1>3. k \in Q /\ Q \subseteq DOMAIN nodes /\ \A j \in Q : Children(folded, j) \subseteq Q
  BY QueueCloses
<1>4. ASSUME NEW j \in 1 .. m, \A i \in 1 .. j - 1 : i \in S, j \in Q PROVE F[j] = G[j]
  <2>1. CASE IsLiteral(folded[j])
    BY <1>2, <2>1 DEF ValueIn
  <2>2. CASE ~IsLiteral(folded[j])
    <3> DEFINE n == folded[j].value
    <3>1. n \in 1 .. j /\ n \in DOMAIN nodes
      <4>1. n \in 1 .. j
        BY <1>1, <2>2, FoldedIs DEF StandsWell
      <4> QED
        BY <1>1, <4>1
    <3>2. ASSUME NEW i \in DOMAIN OperandsOf(n) PROVE F[OperandsOf(n)[i]] = G[OperandsOf(n)[i]]
      <4>1. OperandsOf(n)[i] \in 1 .. n - 1 /\ OperandsOf(n)[i] \in 1 .. j - 1
        BY <1>1, <3>1, OperandPlaces
      <4>2. OperandsOf(n)[i] \in Q
        BY <1>3, <1>4, <2>2 DEF Children, Range
      <4> QED
        BY <1>4, <4>1, <4>2
    <3>3. OfOperands(n, F) = OfOperands(n, G)
      BY <3>2 DEF OfOperands
    <3>4. Op(n) = "NodeRef" => lookup[TokenOf(n).lexeme] = other[TokenOf(n).lexeme]
      <4>1. Op(n) = "NodeRef" => TokenOf(n).lexeme \in ExtractDependencies(folded, k)
        BY <1>4, <2>2 DEF ExtractDependencies
      <4>2. nodes[n].token \in DOMAIN tokens
        BY <1>1, <3>1 DEF TreeOK, Shaped, Inside, TokensEnd
      <4>3. Op(n) = "NodeRef" => TokenOf(n).lexeme \in Names
        BY <4>2 DEF Names, TokenOf, Op
      <4> QED
        BY <4>1, <4>3
    <3>5. F[j] = EvaluateNode(n, OfOperands(n, F), lookup) /\ G[j] = EvaluateNode(n, OfOperands(n, G), other)
      BY <1>2, <2>2 DEF ValueIn
    <3> HIDE DEF n, F, G
    <3> QED
      BY <3>3, <3>4, <3>5 DEF EvaluateNode
  <2> QED
    BY <2>1, <2>2
<1>5. \A j \in 1 .. m : j \in S
  <2>1. \A j \in 1 .. m : (\A i \in 1 .. j - 1 : i \in S) => j \in S
    BY <1>4
  <2> HIDE DEF S, m
  <2> QED
    BY <1>1, <2>1, Upward
<1> QED
  BY <1>1, <1>3, <1>5

-----------------------------------------------------------------------------
(***************************************************************************)
(* The theorems.                                                           *)
(***************************************************************************)

\* What holds at every stage of compileAst: the tokenizer has read nothing but what it
\* may, the waiting calls of the parser have read a row of phrases that fit, the tree
\* says the text, and what is folded is what foldConstants makes of it.
THEOREM FormulaInvariant == Spec => []FormulaInv
BY FormulaStarts, FormulaSteps, PTL DEF Spec

\* tokenize: every token is the longest lexeme that starts where the last one ended,
\* and nothing is refused that the lexical grammar can read, but for a letter right
\* after a '<'.
THEOREM TokensAreLongest == Spec => TakesLongestToken
<1>1. FormulaInv /\ [Next]_vars =>
        [outcome = "tokenizing" =>
            TakesLongest \/ SkipsSpace \/ ReachesEnd \/ RefusesRightly]_tokenizerVars
  <2> SUFFICES ASSUME FormulaInv, [Next]_vars, outcome = "tokenizing", ~UNCHANGED tokenizerVars
               PROVE  TakesLongest \/ SkipsSpace \/ ReachesEnd \/ RefusesRightly
    OBVIOUS
  <2>1. Tokenize
    BY DEF Next, Parse, FoldConstants, Compile, Returned, vars
  <2> QED
    BY <2>1, TokenizeReads DEF FormulaInv
<1> QED
  BY FormulaInvariant, <1>1, PTL
     DEF Spec, TakesLongestToken, TakesLongest, SkipsSpace, ReachesEnd, RefusesRightly

\* Parser::advance indexes the vector of tokens without a check; it never leaves it,
\* whatever the text.
THEOREM ParserStaysInside == Spec => []StaysWithinTokens
<1>1. FormulaInv => StaysWithinTokens
  BY DEF FormulaInv, ParseInv, StaysWithinTokens
<1> QED
  BY <1>1, FormulaInvariant, PTL

\* parseExpression: the tree of every text that is accepted says the text, from its
\* first token to its last, with the precedences and the associativity of the grammar.
THEOREM TreesSayTheirTexts == Spec => []ParsesByGrammar
<1>1. FormulaInv => ParsesByGrammar
  BY DEF FormulaInv, WholeTree, ParsesByGrammar
<1> QED
  BY <1>1, FormulaInvariant, PTL

\* parse: no text whose tokens are a formula is refused, though the parser reads it
\* once, from left to right, and never looks back.
THEOREM NoFormulaIsRefused == Spec => []RefusesNoFormula
<1>1. FormulaInv => RefusesNoFormula
  BY FormulaEndsWell DEF FormulaInv, WayThrough, RefusesNoFormula
<1> QED
  BY <1>1, FormulaInvariant, PTL

\* foldConstants: what is left computes what the whole tree computes, for all numbers
\* the names may stand for.
THEOREM FoldingIsSound == Spec => []FoldingAgrees
<1>1. FormulaInv => FoldingAgrees
  <2> SUFFICES ASSUME FormulaInv, outcome = "compiled", ~TestsLiteralNaN, NEW lookup \in Lookups
               PROVE  Evaluate(folded, lookup)[lhs] = Evaluate(Parsed, lookup)[lhs]
    BY DEF FoldingAgrees
  <2>1. Folded /\ lhs \in DOMAIN nodes
    BY DEF FormulaInv, Accepted, WholeTree, Folded
  <2> QED
    BY <2>1, FoldedComputesTheSame
<1> QED
  BY <1>1, FormulaInvariant, PTL

\* foldConstants: a formula that parses is refused exactly if somewhere in it a constant
\* is divided by a constant zero.
THEOREM ZeroDivisorsAreRefused == Spec => []RefusesConstantZeroDivisors
<1>1. FormulaInv => RefusesConstantZeroDivisors
  <2> SUFFICES ASSUME FormulaInv, outcome \in {"divides by zero", "compiled"}, ~TestsLiteralNaN
               PROVE  outcome = "divides by zero" <=>
                        \E k \in DOMAIN nodes :
                           /\ IsBinary(k) /\ Op(k) = "/" /\ Range(OperandsOf(k)) \subseteq Constant
                           /\ Evaluate(Parsed, Zeros)[OperandsOf(k)[2]] = Result(0)
    BY DEF RefusesConstantZeroDivisors
  <2>1. TreeOK /\ FoldedSoFar
    BY DEF FormulaInv, Accepted, WholeTree
  <2>2. CASE outcome = "divides by zero"
    BY <2>1, <2>2, BlockedDivides DEF FormulaInv
  <2>3. CASE outcome = "compiled"
    <3>1. Folded
      BY <2>1, <2>3 DEF FormulaInv, Folded
    <3> QED
      BY <2>3, <3>1, NothingDivides
  <2> QED
    BY <2>2, <2>3
<1> QED
  BY <1>1, FormulaInvariant, PTL

\* extractDependencies: what a formula computes depends on no name but those the kernel
\* links it to.
THEOREM DependenciesAreEnough == Spec => []DependenciesSuffice
<1>1. FormulaInv => DependenciesSuffice
  <2> SUFFICES ASSUME FormulaInv, outcome = "compiled", NEW lookup \in Lookups
               PROVE  Evaluate(folded, lookup)[lhs] =
                        Evaluate(folded, [n \in DOMAIN lookup |->
                                            IF n \in dependencies THEN lookup[n] ELSE 0])[lhs]
    BY DEF DependenciesSuffice
  <2>1. Folded /\ TokensEnd /\ lhs \in DOMAIN nodes /\ dependencies = ExtractDependencies(folded, lhs)
    BY DEF FormulaInv, Accepted, WholeTree, Folded
  <2> DEFINE other == [n \in DOMAIN lookup |-> IF n \in dependencies THEN lookup[n] ELSE 0]
  <2>2. \A n \in ExtractDependencies(folded, lhs) : n \in Names => lookup[n] = other[n]
    BY <2>1 DEF Lookups
  <2> HIDE DEF other
  <2>3. Evaluate(folded, lookup)[lhs] = Evaluate(folded, other)[lhs]
    BY <2>1, <2>2, OthersDoNotMatter
  <2> QED
    BY <2>3 DEF other
<1> QED
  BY <1>1, FormulaInvariant, PTL
=============================================================================
