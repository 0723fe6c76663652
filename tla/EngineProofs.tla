----------------------------- MODULE EngineProofs -----------------------------
(***************************************************************************)
(* Theorems about what surrounds the kernel of an engine.                  *)
(*                                                                         *)
(* The C interface, for every set of engines, sheets and kernel codes:     *)
(* engines that share one message buffer do not disturb each other's       *)
(* sheets, errors are told once, and failures hand out nothing.  The       *)
(* kernel is opaque here, so the proofs rest on nothing but the order in   *)
(* which c.cpp and error.c do things.                                      *)
(*                                                                         *)
(* parseDependencies, for texts of any length over any characters: the     *)
(* names it returns are those of the text.                                 *)
(***************************************************************************)
EXTENDS CApi, DependencyText, SequenceTheorems, FiniteSetTheorems, WellFoundedInduction, TLAPS

\* What a function that returns `code' may do: on success whatever it does to
\* the sheet of its own engine; on an error nothing but leave the message.
Outcome(engine, code) ==
    /\ UNCHANGED buffer
    /\ message' = IF code = "OK" THEN message ELSE About(engine, code)
    /\ returned'.engine = engine /\ returned'.code = code /\ code # "none"
    /\ code # "OK" => UNCHANGED <<sheets, out>> /\ returned'.value = 0
    /\ \A e \in Live \cap DOMAIN sheets' : e # engine => sheets'[e] = sheets[e]

LEMMA ReturnOutcome ==
    ASSUME NEW function, NEW engine, NEW code, NEW v, Return(function, engine, code, v),
           code # "none",
           code # "OK" => v = 0 /\ UNCHANGED <<sheets, out>>,
           \A e \in Live \cap DOMAIN sheets' : e # engine => sheets'[e] = sheets[e]
    PROVE  Outcome(engine, code)
BY DEF Return, Outcome

LEMMA ArgumentCodes ==
    ASSUME NEW engine, NEW nulls
    PROVE  ArgumentCode(engine, nulls) # "none"
BY DEF ArgumentCode

LEMMA EditOutcome ==
    ASSUME NEW function, NEW engine, NEW nulls, Edit(function, engine, nulls)
    PROVE  \E code : Outcome(engine, code)
<1>1. CASE ArgumentCode(engine, nulls) # "OK"
  <2>1. /\ Return(function, engine, ArgumentCode(engine, nulls), 0)
        /\ UNCHANGED <<sheets, out>>
    BY <1>1 DEF Edit
  <2> QED
    BY <2>1, ArgumentCodes, ReturnOutcome
<1>2. CASE ArgumentCode(engine, nulls) = "OK"
  <2>1. KernelEdits(function, engine) /\ UNCHANGED out
    BY <1>2 DEF Edit
  <2>2. CASE \E sheet \in Sheet : /\ sheets' = [sheets EXCEPT ![engine] = sheet]
                                  /\ Return(function, engine, "OK", 0)
    <3>1. \A e \in Live \cap DOMAIN sheets' : e # engine => sheets'[e] = sheets[e]
      BY <2>2 DEF Live
    <3> QED
      BY <2>2, <3>1, ReturnOutcome
  <2>3. CASE \E code \in KernelError : UNCHANGED sheets /\ Return(function, engine, code, 0)
    BY <2>1, <2>3, ApiConstants, ReturnOutcome
  <2> QED
    BY <2>1, <2>2, <2>3 DEF KernelEdits
<1> QED
  BY <1>1, <1>2

LEMMA ReadOutcome ==
    ASSUME NEW engine, NEW nulls,
           GetNodeValue(engine, nulls) \/ GetNodeValue2(engine, nulls)
    PROVE  \E code : Outcome(engine, code)
<1>1. CASE GetNodeValue(engine, nulls)
  <2>1. UNCHANGED sheets
    BY <1>1 DEF GetNodeValue
  <2>2. CASE Return("get_node_value", engine, "OK", 0)
    BY <2>1, <2>2, ReturnOutcome
  <2>3. CASE \E code : code # "none" /\ UNCHANGED out /\ Return("get_node_value", engine, code, 0)
    BY <2>1, <2>3, ReturnOutcome
  <2> QED
    BY <1>1, <2>2, <2>3, ArgumentCodes DEF GetNodeValue
<1>2. CASE GetNodeValue2(engine, nulls)
  <2>1. UNCHANGED <<sheets, out>>
    BY <1>2 DEF GetNodeValue2
  <2>2. CASE \E v \in Number : Return("get_node_value2", engine, "OK", v)
    BY <2>1, <2>2, ReturnOutcome
  <2>3. CASE \E code : code # "none" /\ Return("get_node_value2", engine, code, 0)
    BY <2>1, <2>3, ReturnOutcome
  <2> QED
    BY <1>2, <2>2, <2>3, ArgumentCodes DEF GetNodeValue2
<1> QED
  BY <1>1, <1>2

LEMMA EngineOutcome ==
    ASSUME NEW engine,
           \/ CreateEngine(engine) \/ DestroyEngine(engine)
           \/ ResetEngine(engine) \/ EvaluateEngine(engine)
    PROVE  \E code : Outcome(engine, code)
<1>1. CASE CreateEngine(engine)
  <2>1. \A e \in Live \cap DOMAIN sheets' : e # engine => sheets'[e] = sheets[e]
    BY <1>1 DEF CreateEngine
  <2> QED
    BY <1>1, <2>1, ReturnOutcome DEF CreateEngine
<1>2. CASE DestroyEngine(engine)
  <2>1. \A e \in Live \cap DOMAIN sheets' : e # engine => sheets'[e] = sheets[e]
    BY <1>2 DEF DestroyEngine
  <2> QED
    BY <1>2, <2>1, ReturnOutcome DEF DestroyEngine
<1>3. CASE ResetEngine(engine)
  <2>1. \A e \in Live \cap DOMAIN sheets' : e # engine => sheets'[e] = sheets[e]
    BY <1>3 DEF ResetEngine, Live
  <2>2. ArgumentCode(engine, {}) # "OK" => engine = Null
    BY DEF ArgumentCode
  <2> QED
    BY <1>3, <2>1, <2>2, ArgumentCodes, ReturnOutcome DEF ResetEngine
<1>4. CASE EvaluateEngine(engine)
  BY <1>4, ArgumentCodes, ReturnOutcome DEF EvaluateEngine
<1> QED
  BY <1>1, <1>2, <1>3, <1>4

\* Every step is a function that returns, or sf_last_error.
LEMMA NextOutcome ==
    ASSUME Next
    PROVE  (\E engine, code : Outcome(engine, code)) \/ LastError
BY EditOutcome, ReadOutcome, EngineOutcome DEF Next

-----------------------------------------------------------------------------
\* An error waits in the message until it is told or a later one replaces it,
\* whatever other engines do meanwhile, and telling it takes it away.
THEOREM ErrorsAreToldOnce == Spec => ErrorToldOnce
<1> DEFINE Told ==
      /\ message # NoMessage => message' # NoMessage \/ buffer' = message
      /\ buffer' # buffer /\ buffer' # NoMessage => message' = NoMessage
<1>1. ASSUME NEW engine, NEW code, Outcome(engine, code) PROVE Told
  <2>1. CASE code = "OK"
    BY <1>1, <2>1 DEF Outcome
  <2>2. CASE code # "OK"
    BY <1>1, <2>2 DEF Outcome, About, NoMessage
  <2> QED
    BY <2>1, <2>2
<1>2. ASSUME LastError PROVE Told
  BY <1>2 DEF LastError
<1>3. [Next]_vars => [Told]_vars
  BY <1>1, <1>2, NextOutcome
<1> QED
  BY <1>3, PTL DEF Spec, ErrorToldOnce

\* A failed read writes neither the caller's variable nor a value.
THEOREM FailedReadsGiveNothing == Spec => FailedReadGivesNothing
<1> DEFINE Nothing == returned'.code # "OK" => out' = out /\ returned'.value = 0
<1>1. ASSUME NEW engine, NEW code, Outcome(engine, code) PROVE Nothing
  BY <1>1 DEF Outcome
<1>2. ASSUME LastError PROVE Nothing
  BY <1>2 DEF LastError
<1>3. [Next]_vars => [Nothing]_vars
  BY <1>1, <1>2, NextOutcome
<1> QED
  BY <1>3, PTL DEF Spec, FailedReadGivesNothing

\* A call changes at most the sheet of its engine, and only when it succeeds.
THEOREM SheetsStayApart == Spec => SheetsApart
<1> DEFINE Apart ==
      \A e \in Live \cap DOMAIN sheets' :
          sheets'[e] # sheets[e] => returned'.engine = e /\ returned'.code = "OK"
<1>1. ASSUME NEW engine, NEW code, Outcome(engine, code) PROVE Apart
  BY <1>1 DEF Outcome
<1>2. ASSUME LastError PROVE Apart
  BY <1>2 DEF LastError
<1>3. [Next]_vars => [Apart]_vars
  BY <1>1, <1>2, NextOutcome
<1> QED
  BY <1>3, PTL DEF Spec, SheetsApart

-----------------------------------------------------------------------------
(***************************************************************************)
(* parseDependencies.  A name's place in the vector is its rank: how many  *)
(* names start before it.  The inductive invariant says that what has been *)
(* flushed are the names that end before the one being read, each in its   *)
(* place, and that what is being read is a stretch of characters with      *)
(* nothing but a separator or the start of the list before it.             *)
(***************************************************************************)

ListCharacter == NameCharacter \cup Separator

InName(i) == i \in DOMAIN dependencies /\ dependencies[i] \notin Separator

NamesUpTo(p) == {w \in Names : w[2] <= p}
NamesBefore(w) == {u \in Names : u[1] < w[1]}
Rank(w) == Cardinality(NamesBefore(w))

\* The vector ps holds the names that end at p or earlier, each in its place.
Listed(ps, p) ==
    /\ Len(ps) = Cardinality(NamesUpTo(p))
    /\ \A w \in NamesUpTo(p) : /\ Rank(w) + 1 \in 1 .. Len(ps)
                               /\ ps[Rank(w) + 1] = SubSeq(dependencies, w[1], w[2])
    /\ \A k \in 1 .. Len(ps) : \E w \in NamesUpTo(p) : Rank(w) = k - 1

\* The place before the name being read.
Before == next - Len(current)

Types ==
    /\ dependencies \in Seq(ListCharacter)
    /\ next \in 0 .. Len(dependencies)
    /\ current \in Seq(ListCharacter) /\ Len(current) <= next
    /\ parsed \in Seq(Seq(ListCharacter))
    /\ done \in BOOLEAN

Reading ==
    /\ current = SubSeq(dependencies, Before + 1, next)
    /\ \A i \in Before + 1 .. next : InName(i)
    /\ ~done => ~InName(Before)
    /\ done => next = Len(dependencies) /\ current = << >>

ParseInv == Types /\ Reading /\ Listed(parsed, Before)

-----------------------------------------------------------------------------
(***************************************************************************)
(* The names of a text.                                                    *)
(***************************************************************************)

LEMMA NameIs ==
    ASSUME dependencies \in Seq(ListCharacter)
    PROVE  /\ \A w \in Names : /\ w[1] \in 1 .. Len(dependencies) /\ w[2] \in 1 .. Len(dependencies)
                               /\ w = <<w[1], w[2]>> /\ w[1] <= w[2]
                               /\ \A i \in w[1] .. w[2] : InName(i)
                               /\ ~InName(w[1] - 1) /\ ~InName(w[2] + 1)
           /\ \A a, b \in 1 .. Len(dependencies) :
                 /\ a <= b /\ \A i \in a .. b : InName(i)
                 /\ ~InName(a - 1) /\ ~InName(b + 1)
                 => <<a, b>> \in Names
<1>1. DOMAIN dependencies = 1 .. Len(dependencies)
  OBVIOUS
<1> QED
  BY <1>1 DEF Names, InName

LEMMA NamesFinite ==
    ASSUME dependencies \in Seq(ListCharacter)
    PROVE  /\ IsFiniteSet(Names)
           /\ \A p : IsFiniteSet(NamesUpTo(p)) /\ Cardinality(NamesUpTo(p)) \in Nat
           /\ \A w : IsFiniteSet(NamesBefore(w)) /\ Rank(w) \in Nat
<1> DEFINE places == 1 .. Len(dependencies)
<1>1. Len(dependencies) \in Nat /\ DOMAIN dependencies = places
  OBVIOUS
<1>2. IsFiniteSet(places)
  BY <1>1, FS_Interval
<1>3. Names \subseteq places \X places
  BY <1>1 DEF Names
<1> HIDE DEF places
<1>4. IsFiniteSet(places \X places)
  BY <1>2, FS_Product
<1>5. IsFiniteSet(Names)
  BY <1>3, <1>4, FS_Subset
<1>6. ASSUME NEW p PROVE IsFiniteSet(NamesUpTo(p)) /\ Cardinality(NamesUpTo(p)) \in Nat
  <2>1. NamesUpTo(p) \subseteq Names
    BY DEF NamesUpTo
  <2>2. IsFiniteSet(NamesUpTo(p))
    BY <1>5, <2>1, FS_Subset
  <2> QED
    BY <2>2, FS_CardinalityType
<1>7. ASSUME NEW w PROVE IsFiniteSet(NamesBefore(w)) /\ Rank(w) \in Nat
  <2>1. NamesBefore(w) \subseteq Names
    BY DEF NamesBefore
  <2>2. IsFiniteSet(NamesBefore(w))
    BY <1>5, <2>1, FS_Subset
  <2> QED
    BY <2>2, FS_CardinalityType DEF Rank
<1> QED
  BY <1>5, <1>6, <1>7

\* Names do not overlap, and do not touch.
LEMMA NamesApart ==
    ASSUME dependencies \in Seq(ListCharacter), NEW u \in Names, NEW w \in Names
    PROVE  /\ u[1] < w[1] => u[2] < w[1]
           /\ u[1] = w[1] => u = w
<1>1. /\ u[1] \in Nat /\ u[2] \in Nat /\ w[1] \in Nat /\ w[2] \in Nat
      /\ u[1] <= u[2] /\ w[1] <= w[2] /\ u = <<u[1], u[2]>> /\ w = <<w[1], w[2]>>
      /\ \A i \in u[1] .. u[2] : InName(i)
      /\ \A i \in w[1] .. w[2] : InName(i)
      /\ ~InName(w[1] - 1) /\ ~InName(u[2] + 1) /\ ~InName(w[2] + 1)
  BY NameIs
<1>2. ASSUME u[1] < w[1], ~(u[2] < w[1]) PROVE FALSE
  <2>1. w[1] - 1 \in u[1] .. u[2]
    BY <1>1, <1>2
  <2> QED
    BY <1>1, <2>1
<1>3. ASSUME u[1] = w[1] PROVE u[2] = w[2]
  <2>1. u[2] < w[2] => u[2] + 1 \in w[1] .. w[2]
    BY <1>1, <1>3
  <2>2. w[2] < u[2] => w[2] + 1 \in u[1] .. u[2]
    BY <1>1, <1>3
  <2> QED
    BY <1>1, <2>1, <2>2
<1> QED
  BY <1>1, <1>2, <1>3

\* Names in order of rank are in order of place: no two have one rank.
LEMMA RanksDiffer ==
    ASSUME dependencies \in Seq(ListCharacter), NEW u \in Names, NEW w \in Names, Rank(u) = Rank(w)
    PROVE  u = w
<1>1. ASSUME NEW a \in Names, NEW b \in Names, a[1] < b[1] PROVE Rank(a) # Rank(b)
  <2>1. \A v \in Names : v[1] \in Nat
    <3>1. \A v \in Names : v[1] \in 1 .. Len(dependencies)
      BY NameIs
    <3> QED
      BY <3>1
  <2>2. NamesBefore(a) \subseteq NamesBefore(b) /\ a \in NamesBefore(b) /\ a \notin NamesBefore(a)
    BY <1>1, <2>1 DEF NamesBefore
  <2>3. IsFiniteSet(NamesBefore(b)) /\ NamesBefore(a) # NamesBefore(b)
    BY <2>2, NamesFinite
  <2>4. Cardinality(NamesBefore(a)) # Cardinality(NamesBefore(b))
    <3>1. NamesBefore(a) \in SUBSET NamesBefore(b)
      BY <2>2
    <3> QED
      BY <2>3, <3>1, FS_Subset
  <2> QED
    BY <2>4 DEF Rank
<1>2. ~(u[1] < w[1]) /\ ~(w[1] < u[1])
  BY <1>1
<1>3. u[1] = w[1]
  BY <1>2, NameIs
<1> QED
  BY <1>3, NamesApart

-----------------------------------------------------------------------------
(***************************************************************************)
(* flushCurrent, where no letter follows.                                  *)
(***************************************************************************)

\* What is being read has become a name, and it is the next one.
LEMMA NextName ==
    ASSUME Types, Reading, current # << >>, ~InName(next + 1)
    PROVE  LET name == <<Before + 1, next>>
           IN  /\ name \in Names /\ name \notin NamesUpTo(Before)
               /\ NamesUpTo(next) = NamesUpTo(Before) \cup {name}
               /\ NamesBefore(name) = NamesUpTo(Before)
<1> DEFINE name == <<Before + 1, next>>
<1>1. /\ dependencies \in Seq(ListCharacter) /\ next \in 0 .. Len(dependencies) /\ Len(dependencies) \in Nat
      /\ Len(current) \in Nat /\ Len(current) > 0 /\ Len(current) <= next
  BY DEF Types
<1>2. /\ Before \in Nat /\ Before + 1 \in 1 .. Len(dependencies) /\ next \in 1 .. Len(dependencies)
      /\ Before + 1 <= next /\ (Before + 1) - 1 = Before
  BY <1>1 DEF Before
<1>3. (\A i \in Before + 1 .. next : InName(i)) /\ ~InName(Before)
  BY DEF Reading, Types
<1> HIDE DEF Before
<1>4. name \in Names
  BY <1>1, <1>2, <1>3, NameIs
<1>5. name[1] = Before + 1 /\ name[2] = next
  OBVIOUS
<1>6. name \notin NamesUpTo(Before)
  BY <1>2, <1>5 DEF NamesUpTo
<1>7. ASSUME NEW w \in Names PROVE w[2] <= next <=> w[2] <= Before \/ w = name
  <2>1. /\ w[1] \in Nat /\ w[2] \in Nat /\ w[1] <= w[2] /\ w = <<w[1], w[2]>>
        /\ \A i \in w[1] .. w[2] : InName(i)
        /\ ~InName(w[1] - 1) /\ ~InName(w[2] + 1)
    BY <1>1, NameIs
  <2>2. ASSUME w[2] <= next, ~(w[2] <= Before) PROVE w = name
    <3>1. w[2] # next => w[2] + 1 \in Before + 1 .. next
      BY <1>2, <2>1, <2>2
    <3>2. w[1] <= Before => Before \in w[1] .. w[2]
      BY <1>2, <2>1, <2>2
    <3>3. w[1] > Before + 1 => w[1] - 1 \in Before + 1 .. next
      BY <1>2, <2>1, <2>2
    <3>4. w[2] = next
      BY <1>3, <2>1, <3>1
    <3>5. w[1] = Before + 1
      BY <1>2, <1>3, <2>1, <3>2, <3>3
    <3> QED
      BY <2>1, <3>4, <3>5
  <2>3. w[2] <= Before => w[2] <= next
    BY <1>2, <2>1
  <2>4. w = name => w[2] <= next
    BY <1>2, <1>5
  <2> QED
    BY <2>2, <2>3, <2>4
<1>8. NamesUpTo(next) = NamesUpTo(Before) \cup {name}
  BY <1>4, <1>7 DEF NamesUpTo
<1>9. ASSUME NEW u \in Names PROVE u[1] < name[1] <=> u[2] <= Before
  <2>1. u[1] \in Nat /\ u[2] \in Nat /\ u[1] <= u[2]
    BY <1>1, NameIs
  <2>2. u[1] < name[1] => u[2] < name[1]
    BY <1>1, <1>4, NamesApart
  <2> QED
    BY <1>2, <1>5, <2>1, <2>2
<1>10. NamesBefore(name) = NamesUpTo(Before)
  BY <1>9 DEF NamesBefore, NamesUpTo
<1> QED
  BY <1>4, <1>6, <1>8, <1>10

LEMMA FlushLists ==
    ASSUME ParseInv, ~InName(next + 1), FlushCurrent
    PROVE  Listed(parsed', next) /\ parsed' \in Seq(Seq(ListCharacter))
<1>1. Types /\ Reading /\ Listed(parsed, Before) /\ parsed \in Seq(Seq(ListCharacter))
      /\ current \in Seq(ListCharacter) /\ dependencies \in Seq(ListCharacter) /\ next \in Nat
  BY DEF ParseInv, Types
<1>2. CASE current = << >>
  <2>1. parsed' = parsed /\ Before = next
    BY <1>1, <1>2 DEF FlushCurrent, Before
  <2> QED
    BY <1>1, <2>1
<1>3. CASE current # << >>
  <2> DEFINE name == <<Before + 1, next>>
             count == Len(parsed)
  <2>1. /\ name \in Names /\ name \notin NamesUpTo(Before)
        /\ NamesUpTo(next) = NamesUpTo(Before) \cup {name}
        /\ NamesBefore(name) = NamesUpTo(Before)
    BY <1>1, <1>3, NextName
  <2>2. SubSeq(dependencies, name[1], name[2]) = current
    BY <1>1 DEF Reading
  <2> HIDE DEF name
  <2>3. parsed' = Append(parsed, current)
    BY <1>3 DEF FlushCurrent
  <2>4. /\ parsed' \in Seq(Seq(ListCharacter)) /\ Len(parsed') = count + 1 /\ count \in Nat
        /\ parsed'[count + 1] = current /\ \A k \in 1 .. count : parsed'[k] = parsed[k]
    BY <1>1, <2>3, AppendProperties
  <2>5. IsFiniteSet(NamesUpTo(Before)) /\ count = Cardinality(NamesUpTo(Before))
    BY <1>1, NamesFinite DEF Listed
  <2>6. Cardinality(NamesUpTo(Before) \cup {name}) = Cardinality(NamesUpTo(Before)) + 1
    BY <2>1, <2>5, FS_AddElement
  <2>7. Len(parsed') = Cardinality(NamesUpTo(next))
    BY <2>1, <2>4, <2>5, <2>6
  <2>8. Rank(name) = count
    BY <2>1, <2>5 DEF Rank
  <2> HIDE DEF count
  <2>9. ASSUME NEW w \in NamesUpTo(next)
        PROVE  /\ Rank(w) + 1 \in 1 .. Len(parsed')
               /\ parsed'[Rank(w) + 1] = SubSeq(dependencies, w[1], w[2])
    <3>1. CASE w = name
      <4>1. Rank(w) = count
        BY <2>8, <3>1
      <4>2. SubSeq(dependencies, w[1], w[2]) = current
        BY <2>2, <3>1
      <4>3. count + 1 \in 1 .. Len(parsed')
        BY <2>4
      <4> QED
        BY <2>4, <4>1, <4>2, <4>3
    <3>2. CASE w \in NamesUpTo(Before)
      <4>1. Rank(w) + 1 \in 1 .. count /\ parsed[Rank(w) + 1] = SubSeq(dependencies, w[1], w[2])
        BY <1>1, <3>2 DEF Listed, count
      <4> QED
        BY <2>4, <4>1
    <3> QED
      BY <2>1, <3>1, <3>2
  <2>10. ASSUME NEW k \in 1 .. Len(parsed') PROVE \E w \in NamesUpTo(next) : Rank(w) = k - 1
    <3>1. CASE k = count + 1
      BY <2>1, <2>4, <2>8, <3>1
    <3>2. CASE k # count + 1
      <4>1. k \in 1 .. count
        BY <2>4, <3>2
      <4>2. PICK w \in NamesUpTo(Before) : Rank(w) = k - 1
        BY <1>1, <4>1 DEF Listed, count
      <4> QED
        BY <2>1, <4>2
    <3> QED
      BY <3>1, <3>2
  <2> QED
    BY <2>4, <2>7, <2>9, <2>10 DEF Listed
<1> QED
  BY <1>2, <1>3

-----------------------------------------------------------------------------
(***************************************************************************)
(* The invariant.                                                          *)
(***************************************************************************)

LEMMA ParseStarts == TextInit => ParseInv
<1> SUFFICES ASSUME TextInit PROVE ParseInv
  OBVIOUS
<1>1. /\ dependencies \in Texts /\ next = 0 /\ current = << >> /\ parsed = << >> /\ done = FALSE
  BY DEF TextInit
<1>2. dependencies \in Seq(ListCharacter)
  <2>1. PICK n \in 0 .. MaxLength : dependencies \in [1 .. n -> NameCharacter \cup Separator]
    BY <1>1 DEF Texts
  <2> QED
    BY <2>1, TextConstants DEF ListCharacter
<1>3. Before = 0 /\ Len(current) = 0
  <2>1. Len(<< >>) = 0
    OBVIOUS
  <2>2. Len(current) = Len(<< >>)
    BY <1>1, Zenon
  <2>3. Len(current) = 0
    BY <2>1, <2>2
  <2>4. next = 0
    BY <1>1
  <2> QED
    BY <2>3, <2>4 DEF Before
<1>4. Types
  <2>1. << >> \in Seq(ListCharacter) /\ << >> \in Seq(Seq(ListCharacter)) /\ Len(dependencies) \in Nat
    BY <1>2
  <2>2. 0 \in 0 .. Len(dependencies) /\ 0 <= 0
    BY <2>1
  <2> QED
    BY <1>1, <1>2, <1>3, <2>1, <2>2 DEF Types
<1>5. Reading
  <2>1. current = SubSeq(dependencies, Before + 1, next)
    BY <1>1, <1>3, SubSeqEmpty
  <2>2. ~InName(Before)
    BY <1>2, <1>3 DEF InName
  <2> QED
    BY <1>1, <1>3, <2>1, <2>2 DEF Reading
<1>6. NamesUpTo(0) = {}
  BY <1>2, NameIs DEF NamesUpTo
<1>7. Listed(parsed, Before)
  BY <1>1, <1>3, <1>6, FS_EmptySet DEF Listed
<1> QED
  BY <1>4, <1>5, <1>7 DEF ParseInv

\* The names of a text are the same as long as the text is.
LEMMA SameText ==
    ASSUME dependencies' = dependencies, Listed(parsed', Before')
    PROVE  /\ \A i : InName(i)' <=> InName(i)
           /\ Listed(parsed, Before)'
<1>1. \A i : InName(i)' <=> InName(i)
  BY DEF InName
<1>2. Names' = Names
  BY DEF Names
<1>3. NamesUpTo(Before)' = NamesUpTo(Before')
  BY <1>2 DEF NamesUpTo
<1>4. \A w : NamesBefore(w)' = NamesBefore(w)
  BY <1>2 DEF NamesBefore
<1>5. \A w : Rank(w)' = Rank(w)
  BY <1>4 DEF Rank
<1>6. Listed(parsed, Before)'
  <2>1. /\ Len(parsed') = Cardinality(NamesUpTo(Before'))
        /\ \A w \in NamesUpTo(Before') : /\ Rank(w) + 1 \in 1 .. Len(parsed')
                                         /\ parsed'[Rank(w) + 1] = SubSeq(dependencies, w[1], w[2])
        /\ \A k \in 1 .. Len(parsed') : \E w \in NamesUpTo(Before') : Rank(w) = k - 1
    BY DEF Listed
  <2> QED
    BY <1>3, <1>5, <2>1 DEF Listed
<1> QED
  BY <1>1, <1>6

LEMMA ReadSeparatorKeeps ==
    ASSUME ParseInv, ReadSeparator
    PROVE  ParseInv'
<1>1. /\ Types /\ Reading /\ dependencies \in Seq(ListCharacter) /\ next \in Nat /\ Len(dependencies) \in Nat
  BY DEF ParseInv, Types
<1>2. /\ next < Len(dependencies) /\ dependencies[next + 1] \in Separator /\ FlushCurrent
      /\ next' = next + 1 /\ dependencies' = dependencies /\ done' = done /\ current' = << >>
  BY DEF ReadSeparator, FlushCurrent
<1>3. ~InName(next + 1) /\ Before' = next + 1 /\ Len(current') = 0
  BY <1>1, <1>2 DEF InName, Before
<1>4. Listed(parsed', next) /\ parsed' \in Seq(Seq(ListCharacter))
  BY <1>2, <1>3, FlushLists
<1>5. NamesUpTo(next + 1) = NamesUpTo(next)
  <2>1. ASSUME NEW w \in Names PROVE w[2] <= next + 1 <=> w[2] <= next
    <3>1. w[1] \in Nat /\ w[2] \in Nat /\ w[1] <= w[2] /\ \A i \in w[1] .. w[2] : InName(i)
      BY <1>1, NameIs
    <3>2. w[2] # next + 1
      BY <1>3, <3>1
    <3> QED
      BY <1>1, <3>1, <3>2
  <2> QED
    BY <2>1 DEF NamesUpTo
<1>6. Listed(parsed', Before')
  BY <1>3, <1>4, <1>5 DEF Listed
<1>7. Listed(parsed, Before)' /\ \A i : InName(i)' <=> InName(i)
  BY <1>2, <1>6, SameText
<1>8. Types'
  <2>1. << >> \in Seq(ListCharacter) /\ next + 1 \in 0 .. Len(dependencies)
    BY <1>1, <1>2
  <2> QED
    BY <1>1, <1>2, <1>3, <1>4, <2>1 DEF Types
<1>9. Reading'
  <2>1. current' = SubSeq(dependencies', Before' + 1, next')
    BY <1>1, <1>2, <1>3, SubSeqEmpty
  <2>2. \A i \in Before' + 1 .. next' : FALSE
    BY <1>1, <1>2, <1>3
  <2>3. ~InName(Before)'
    BY <1>3, <1>7
  <2>4. ~done'
    BY <1>1, <1>2 DEF Reading, Types
  <2> QED
    BY <2>1, <2>2, <2>3, <2>4 DEF Reading
<1> QED
  BY <1>7, <1>8, <1>9 DEF ParseInv

LEMMA ReadCharacterKeeps ==
    ASSUME ParseInv, ReadCharacter
    PROVE  ParseInv'
<1>1. /\ Types /\ Reading /\ dependencies \in Seq(ListCharacter) /\ current \in Seq(ListCharacter)
      /\ next \in Nat /\ Len(dependencies) \in Nat /\ Len(current) \in Nat /\ Len(current) <= next
      /\ Listed(parsed, Before)
  BY DEF ParseInv, Types
<1>2. /\ next < Len(dependencies) /\ dependencies[next + 1] \notin Separator
      /\ current' = Append(current, dependencies[next + 1])
      /\ next' = next + 1 /\ dependencies' = dependencies /\ parsed' = parsed /\ done' = done
  BY DEF ReadCharacter
<1>3. next + 1 \in 1 .. Len(dependencies) /\ dependencies[next + 1] \in ListCharacter /\ InName(next + 1)
  BY <1>1, <1>2 DEF InName
<1>4. current' \in Seq(ListCharacter) /\ Len(current') = Len(current) + 1
  BY <1>1, <1>2, <1>3, AppendProperties
<1>5. Before' = Before /\ Before \in Nat /\ Before <= next
  BY <1>1, <1>2, <1>4 DEF Before
<1>6. Listed(parsed', Before')
  BY <1>1, <1>2, <1>5
<1>7. Listed(parsed, Before)' /\ \A i : InName(i)' <=> InName(i)
  BY <1>2, <1>6, SameText
<1>8. Types'
  BY <1>1, <1>2, <1>3, <1>4 DEF Types
<1>9. Reading'
  <2>1. current' = SubSeq(dependencies, Before + 1, next + 1)
    <3>1. current = SubSeq(dependencies, Before + 1, next)
      BY <1>1 DEF Reading
    <3>2. Before + 1 \in 1 .. Len(dependencies) /\ next + 1 \in Before + 1 .. Len(dependencies) /\ (next + 1) - 1 = next
      BY <1>1, <1>3, <1>5
    <3>3. SubSeq(dependencies, Before + 1, next + 1) = SubSeq(dependencies, Before + 1, next) \o <<dependencies[next + 1]>>
      BY <1>1, <3>2, SubSeqRecursiveSecond
    <3>4. Append(current, dependencies[next + 1]) = current \o <<dependencies[next + 1]>>
      BY <1>1, <1>3, AppendIsConcat
    <3> QED
      BY <1>2, <3>1, <3>3, <3>4
  <2>2. \A i \in Before + 1 .. next + 1 : InName(i)
    <3>1. \A i \in Before + 1 .. next + 1 : i = next + 1 \/ i \in Before + 1 .. next
      BY <1>1, <1>5
    <3> QED
      BY <1>1, <1>3, <3>1 DEF Reading
  <2>3. ~InName(Before) /\ ~done
    BY <1>1, <1>2 DEF Reading
  <2> QED
    BY <1>2, <1>5, <1>7, <2>1, <2>2, <2>3 DEF Reading
<1> QED
  BY <1>7, <1>8, <1>9 DEF ParseInv

LEMMA FinishKeeps ==
    ASSUME ParseInv, Finish
    PROVE  ParseInv'
<1>1. /\ Types /\ Reading /\ dependencies \in Seq(ListCharacter) /\ next \in Nat /\ Len(dependencies) \in Nat
  BY DEF ParseInv, Types
<1>2. /\ next = Len(dependencies) /\ FlushCurrent
      /\ next' = next /\ dependencies' = dependencies /\ done' = TRUE /\ current' = << >>
  BY DEF Finish, FlushCurrent
<1>3. ~InName(next + 1) /\ Before' = next /\ Len(current') = 0
  BY <1>1, <1>2 DEF InName, Before
<1>4. Listed(parsed', next) /\ parsed' \in Seq(Seq(ListCharacter))
  BY <1>2, <1>3, FlushLists
<1>5. Listed(parsed', Before')
  BY <1>3, <1>4
<1>6. Listed(parsed, Before)' /\ \A i : InName(i)' <=> InName(i)
  BY <1>2, <1>5, SameText
<1>7. Types'
  <2>1. << >> \in Seq(ListCharacter) /\ next \in 0 .. Len(dependencies)
    BY <1>1, <1>2
  <2> QED
    BY <1>1, <1>2, <1>3, <1>4, <2>1 DEF Types
<1>8. Reading'
  <2>1. current' = SubSeq(dependencies', Before' + 1, next')
    BY <1>1, <1>2, <1>3, SubSeqEmpty
  <2>2. \A i \in Before' + 1 .. next' : FALSE
    BY <1>1, <1>2, <1>3
  <2> QED
    BY <1>2, <2>1, <2>2 DEF Reading
<1> QED
  BY <1>6, <1>7, <1>8 DEF ParseInv

LEMMA ParseKeeps ==
    ASSUME ParseInv, [TextNext]_textVars
    PROVE  ParseInv'
<1>1. CASE UNCHANGED textVars
  <2>1. UNCHANGED <<dependencies, next, current, parsed, done>>
    BY <1>1 DEF textVars
  <2>2. Before' = Before
    BY <2>1 DEF Before
  <2>3. Listed(parsed', Before')
    BY <2>1, <2>2 DEF ParseInv
  <2>4. Listed(parsed, Before)' /\ \A i : InName(i)' <=> InName(i)
    BY <2>1, <2>3, SameText
  <2>5. Types'
    BY <2>1 DEF ParseInv, Types
  <2>6. Reading'
    BY <2>1, <2>2, <2>4 DEF ParseInv, Reading
  <2> QED
    BY <2>4, <2>5, <2>6 DEF ParseInv
<1> QED
  BY <1>1, ReadSeparatorKeeps, ReadCharacterKeeps, FinishKeeps DEF TextNext

\* When everything has been read, each name is in its place and no other.
LEMMA ParsedIsNames ==
    ASSUME ParseInv
    PROVE  ParsesNames
<1> SUFFICES ASSUME done PROVE parsed = [k \in 1 .. Cardinality(Names) |->
                                           LET name == CHOOSE w \in Names :
                                                          Cardinality({u \in Names : u[1] < w[1]}) = k - 1
                                           IN  SubSeq(dependencies, name[1], name[2])]
  BY DEF ParsesNames
<1>1. dependencies \in Seq(ListCharacter) /\ parsed \in Seq(Seq(ListCharacter)) /\ Listed(parsed, Before)
      /\ next = Len(dependencies) /\ current = << >> /\ Len(dependencies) \in Nat
  BY DEF ParseInv, Types, Reading
<1>2. Before = Len(dependencies)
  BY <1>1 DEF Before
<1>3. NamesUpTo(Len(dependencies)) = Names
  <2>1. \A w \in Names : w[2] \in 1 .. Len(dependencies)
    BY <1>1, NameIs
  <2>2. \A w \in Names : w[2] <= Len(dependencies)
    BY <1>1, <2>1
  <2> QED
    BY <2>2 DEF NamesUpTo
<1>4. /\ Len(parsed) = Cardinality(Names)
      /\ \A w \in Names : parsed[Rank(w) + 1] = SubSeq(dependencies, w[1], w[2])
      /\ \A k \in 1 .. Len(parsed) : \E w \in Names : Rank(w) = k - 1
  BY <1>1, <1>2, <1>3 DEF Listed
<1>5. parsed = [k \in 1 .. Cardinality(Names) |-> parsed[k]]
  BY <1>1, <1>4
<1>6. ASSUME NEW k \in 1 .. Cardinality(Names)
      PROVE  parsed[k] = LET name == CHOOSE w \in Names : Rank(w) = k - 1
                         IN  SubSeq(dependencies, name[1], name[2])
  <2> DEFINE name == CHOOSE w \in Names : Rank(w) = k - 1
  <2>1. name \in Names /\ Rank(name) = k - 1
    BY <1>4
  <2>2. parsed[Rank(name) + 1] = SubSeq(dependencies, name[1], name[2])
    BY <1>4, <2>1
  <2>3. (k - 1) + 1 = k
    BY <1>1, <1>4
  <2> HIDE DEF name
  <2>4. parsed[k] = SubSeq(dependencies, name[1], name[2])
    BY <2>1, <2>2, <2>3
  <2> QED
    BY <2>4 DEF name
<1>7. [k \in 1 .. Cardinality(Names) |-> parsed[k]] =
      [k \in 1 .. Cardinality(Names) |->
          LET name == CHOOSE w \in Names : Rank(w) = k - 1
          IN  SubSeq(dependencies, name[1], name[2])]
  BY <1>6, Zenon
<1> QED
  BY <1>5, <1>7, Zenon DEF Rank, NamesBefore

\* What parseDependencies keeps at every character: the names that have been
\* read are in their places, and what is being read is the rest.
THEOREM ParsingKeepsOrder == TextSpec => []ParseInv
BY ParseStarts, ParseKeeps, PTL DEF TextSpec

\* The vector parseDependencies returns is the names of the text, in their
\* order: none is lost, split, merged, or empty, and none is dropped for being
\* there twice.
THEOREM NamesAreParsed == TextSpec => []ParsesNames
BY ParsingKeepsOrder, ParsedIsNames, PTL
=============================================================================
