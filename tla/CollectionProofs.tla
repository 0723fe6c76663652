--------------------------- MODULE CollectionProofs ---------------------------
(***************************************************************************)
(* What the collection operations return, for vectors of any length over   *)
(* any whole numbers and NaN.                                              *)
(*                                                                         *)
(* Each loop has an invariant about the operands it has seen; when it has  *)
(* seen them all, the invariant is what the answer promises.  The median   *)
(* goes through the places: sorting is a permutation of them, so as many   *)
(* operands are below the k-th in order as there are places before k.      *)
(***************************************************************************)
EXTENDS CollectionFormulas, SequenceTheorems, FunctionTheorems, FiniteSetTheorems, TLAPS

Operand == Number \cup {NaN}
Vector == Seq(Operand)
NoNaN(s) == NaN \notin Range(s)
AnswerType == [operation: Operation \cup {"none"}, num: Int \cup {NaN}, den: Nat \ {0}]

KthSmallest(s, x, k) ==
    /\ \E i \in DOMAIN s : s[i] = x
    /\ Cardinality({i \in DOMAIN s : s[i] < x}) < k
    /\ Cardinality({i \in DOMAIN s : s[i] <= x}) >= k

IsMedian(s, a) ==
    LET half == Len(s) \div 2
    IN  /\ a.num \in Int /\ a.den = IF Len(s) % 2 = 1 THEN 1 ELSE 2
        /\ \E x, y \in Number : /\ KthSmallest(s, x, IF Len(s) % 2 = 1 THEN half + 1 ELSE half)
                                /\ KthSmallest(s, y, half + 1)
                                /\ 2 * a.num = (x + y) * a.den

IsBetween(s, a) ==
    /\ a.num \in Int
    /\ \E i, j \in DOMAIN s : s[i] * a.den <= a.num /\ a.num <= s[j] * a.den

\* v is the extreme of the first n operands.
IsExtreme(operation, s, n, v) ==
    /\ \E i \in 1 .. n : s[i] = v
    /\ \A i \in 1 .. n : s[i] # NaN => IF operation = "MIN" THEN v <= s[i] ELSE s[i] <= v

\* What the answer a says about the operands s.
Exact(s, a) ==
    s # << >> =>
        /\ a.operation \in {"SUM", "PRODUCT", "AVERAGE"} /\ ~NoNaN(s) => a.num = NaN
        /\ a.operation \in {"MIN", "MAX"} =>
              /\ a.den = 1
              /\ a.num = NaN <=> s[1] = NaN
              /\ a.num # NaN => IsExtreme(a.operation, s, Len(s), a.num)
        /\ a.operation = "MEDIAN" /\ NoNaN(s) => IsMedian(s, a)
        /\ a.operation = "AVERAGE" /\ NoNaN(s) => IsBetween(s, a)

\* What remains true of it when the operands change places.
StillExact(s, a) ==
    s # << >> /\ NoNaN(s) =>
        /\ a.operation \in {"MIN", "MAX"} =>
              a.den = 1 /\ a.num # NaN /\ IsExtreme(a.operation, s, Len(s), a.num)
        /\ a.operation = "MEDIAN" => IsMedian(s, a)

\* What a loop has made of the operands it has seen.
InLoop(c, s, n, v) ==
    /\ c \in {"SUM", "PRODUCT", "AVERAGE"} /\ (\E i \in 1 .. n : s[i] = NaN) => v = NaN
    /\ c = "AVERAGE" /\ NoNaN(s) =>
          /\ v \in Int /\ (n = 0 => v = 0)
          /\ n > 0 => \E i, j \in 1 .. n : s[i] * n <= v /\ v <= s[j] * n
    /\ c \in {"MIN", "MAX"} =>
          /\ n > 0
          /\ v = NaN <=> s[1] = NaN
          /\ v # NaN => IsExtreme(c, s, n, v)

Types ==
    /\ operands \in Vector
    /\ call \in {"none", "SUM", "PRODUCT", "AVERAGE", "MIN", "MAX"}
    /\ seen \in 0 .. Len(operands)
    /\ value \in Int \cup {NaN}
    /\ answer \in AnswerType /\ earlier \in AnswerType
    /\ call = "none" => seen = 0
    /\ call = "AVERAGE" => operands # << >>

CollectionInv ==
    /\ Types
    /\ InLoop(call, operands, seen, value)
    /\ Exact(operands, answer)
    /\ StillExact(operands, earlier)

-----------------------------------------------------------------------------
(***************************************************************************)
(* The values.                                                             *)
(***************************************************************************)

LEMMA VectorElements ==
    ASSUME NEW s \in Vector
    PROVE  /\ Len(s) \in Nat /\ DOMAIN s = 1 .. Len(s)
           /\ s # << >> <=> Len(s) > 0
           /\ \A i \in 1 .. Len(s) : s[i] \in Operand /\ s[i] \in Int \cup {NaN}
           /\ \A i \in 1 .. Len(s) : NoNaN(s) => s[i] \in Number /\ s[i] \in Int
           /\ NoNaN(s) <=> \A i \in 1 .. Len(s) : s[i] # NaN
<1>1. Len(s) \in Nat /\ DOMAIN s = 1 .. Len(s) /\ \A i \in 1 .. Len(s) : s[i] \in Operand
  BY DEF Vector
<1>2. s # << >> <=> Len(s) > 0
  BY DEF Vector
<1>3. NoNaN(s) <=> \A i \in 1 .. Len(s) : s[i] # NaN
  BY <1>1 DEF NoNaN, Range
<1> QED
  BY <1>1, <1>2, <1>3, NumbersAreIntegers DEF Operand

LEMMA ArithmeticType ==
    ASSUME NEW a \in Int \cup {NaN}, NEW b \in Int \cup {NaN}
    PROVE  /\ Plus(a, b) \in Int \cup {NaN} /\ Times(a, b) \in Int \cup {NaN}
           /\ a = NaN \/ b = NaN <=> Plus(a, b) = NaN
           /\ a = NaN \/ b = NaN <=> Times(a, b) = NaN
           /\ a # NaN /\ b # NaN => a \in Int /\ b \in Int /\ Plus(a, b) = a + b
<1>1. CASE a = NaN \/ b = NaN
  BY <1>1 DEF Plus, Times
<1>2. CASE a # NaN /\ b # NaN
  <2>1. a \in Int /\ b \in Int /\ Plus(a, b) = a + b /\ Times(a, b) = a * b
    BY <1>2 DEF Plus, Times
  <2>2. a + b \in Int /\ a * b \in Int
    BY <2>1
  <2> QED
    BY <1>2, <2>1, <2>2, NumbersAreIntegers
<1> QED
  BY <1>1, <1>2

\* Multiples of a bound, one operand on.
LEMMA NextMultiple ==
    ASSUME NEW a \in Int, NEW x \in Int, NEW v \in Int, NEW n \in Nat
    PROVE  /\ a * n <= v /\ a <= x => a * (n + 1) <= v + x
           /\ a * n <= v /\ x <= a => x * (n + 1) <= v + x
           /\ v <= a * n /\ x <= a => v + x <= a * (n + 1)
           /\ v <= a * n /\ a <= x => v + x <= x * (n + 1)
<1>1. a * (n + 1) = a * n + a /\ x * (n + 1) = x * n + x /\ a * n \in Int /\ x * n \in Int
  OBVIOUS
<1>2. x <= a => x * n <= a * n
  OBVIOUS
<1>3. a <= x => a * n <= x * n
  OBVIOUS
<1> QED
  BY <1>1, <1>2, <1>3

-----------------------------------------------------------------------------
(***************************************************************************)
(* Places and order.                                                       *)
(***************************************************************************)

LEMMA PlacesFinite ==
    ASSUME NEW s \in Vector, NEW A, A \subseteq DOMAIN s
    PROVE  IsFiniteSet(A) /\ Cardinality(A) \in Nat
<1>1. IsFiniteSet(DOMAIN s)
  BY VectorElements, FS_Interval
<1>2. IsFiniteSet(A)
  BY <1>1, FS_Subset
<1> QED
  BY <1>2, FS_CardinalityType

\* Of whole numbers only one is the k-th smallest.
LEMMA OneKthSmallest ==
    ASSUME NEW s \in Vector, NoNaN(s), NEW x \in Int, NEW y \in Int, NEW k \in Nat,
           KthSmallest(s, x, k), KthSmallest(s, y, k)
    PROVE  x = y
<1>1. ASSUME NEW a \in Int, NEW b \in Int, a < b, KthSmallest(s, a, k), KthSmallest(s, b, k)
      PROVE  FALSE
  <2> DEFINE upTo == {i \in DOMAIN s : s[i] <= a}
             below == {i \in DOMAIN s : s[i] < b}
  <2>1. \A i \in DOMAIN s : s[i] \in Int
    BY VectorElements
  <2>2. upTo \in SUBSET below
    BY <1>1, <2>1
  <2>3. IsFiniteSet(below) /\ Cardinality(below) \in Nat /\ Cardinality(upTo) \in Nat
    <3>1. below \subseteq DOMAIN s /\ upTo \subseteq DOMAIN s
      OBVIOUS
    <3> HIDE DEF below, upTo
    <3> QED
      BY <3>1, PlacesFinite
  <2>4. Cardinality(upTo) >= k /\ Cardinality(below) < k
    BY <1>1 DEF KthSmallest
  <2> HIDE DEF below, upTo
  <2>5. Cardinality(upTo) <= Cardinality(below)
    BY <2>2, <2>3, FS_Subset
  <2> QED
    BY <2>3, <2>4, <2>5
<1>2. ~(x < y) /\ ~(y < x)
  BY <1>1
<1> QED
  BY <1>2

\* What stands in place k of the sorted copy is the k-th smallest.
LEMMA SortedKth ==
    ASSUME NEW s \in Vector, NoNaN(s), NEW places \in Bijection(DOMAIN s, DOMAIN s),
           \A i, j \in DOMAIN s : i < j => s[places[i]] <= s[places[j]],
           NEW k \in 1 .. Len(s)
    PROVE  s[places[k]] \in Number /\ KthSmallest(s, s[places[k]], k)
<1> DEFINE x == s[places[k]]
           below == {i \in DOMAIN s : s[i] < x}
           upTo == {i \in DOMAIN s : s[i] <= x}
           first == {places[j] : j \in 1 .. k - 1}
           f == [j \in 1 .. k - 1 |-> places[j]]
           g == [j \in 1 .. k |-> places[j]]
<1>1. /\ DOMAIN s = 1 .. Len(s) /\ Len(s) \in Nat /\ k \in Nat /\ k >= 1 /\ k <= Len(s)
      /\ \A i \in DOMAIN s : s[i] \in Number /\ s[i] \in Int
  BY VectorElements
<1>2. /\ places \in [DOMAIN s -> DOMAIN s]
      /\ \A a, b \in DOMAIN s : places[a] = places[b] => a = b
      /\ \A t \in DOMAIN s : \E a \in DOMAIN s : places[a] = t
  BY Fun_BijectionProperties
<1>3. x \in Number /\ x \in Int /\ places[k] \in DOMAIN s
  BY <1>1, <1>2
<1>4. \A j \in DOMAIN s : /\ j < k => s[places[j]] <= x
                          /\ k <= j => x <= s[places[j]]
  <2> SUFFICES ASSUME NEW j \in DOMAIN s
               PROVE  (j < k => s[places[j]] <= x) /\ (k <= j => x <= s[places[j]])
    OBVIOUS
  <2>1. k \in DOMAIN s /\ j \in Int /\ places[j] \in DOMAIN s /\ s[places[j]] \in Int
    BY <1>1, <1>2
  <2>2. (j < k => s[places[j]] <= x) /\ (k < j => x <= s[places[j]])
    BY <2>1
  <2>3. k = j => x = s[places[j]]
    OBVIOUS
  <2> HIDE DEF x
  <2> QED
    BY <1>1, <1>3, <2>1, <2>2, <2>3
<1> HIDE DEF x
<1>5. below \subseteq first
  <2> SUFFICES ASSUME NEW i \in DOMAIN s, s[i] < x PROVE i \in first
    OBVIOUS
  <2>1. PICK j \in DOMAIN s : places[j] = i
    BY <1>2
  <2>2. ~(k <= j)
    BY <1>1, <1>3, <1>4, <2>1
  <2>3. j \in 1 .. k - 1
    BY <1>1, <2>2
  <2> QED
    BY <2>1, <2>3
<1>6. Cardinality(below) < k
  <2>1. f \in Surjection(1 .. k - 1, first)
    BY Fun_IsSurj
  <2>2. IsFiniteSet(1 .. k - 1) /\ Cardinality(1 .. k - 1) = k - 1
    <3>1. k - 1 \in Int /\ 1 \in Int /\ (1 > k - 1 => k - 1 = 0) /\ (k - 1) - 1 + 1 = k - 1
      BY <1>1
    <3> QED
      BY <3>1, FS_Interval
  <2> HIDE DEF first, f, below
  <2>3. IsFiniteSet(first) /\ Cardinality(first) <= k - 1
    BY <2>1, <2>2, FS_Surjection
  <2>4. Cardinality(below) <= Cardinality(first)
    BY <1>5, <2>3, FS_Subset
  <2>5. Cardinality(first) \in Nat /\ Cardinality(below) \in Nat
    <3>1. below \subseteq DOMAIN s
      BY DEF below
    <3> QED
      BY <2>3, <3>1, PlacesFinite, FS_CardinalityType
  <2> QED
    BY <1>1, <2>3, <2>4, <2>5
<1>7. Cardinality(upTo) >= k
  <2>1. ASSUME NEW j \in 1 .. k PROVE j \in DOMAIN s /\ places[j] \in upTo
    <3>1. j \in DOMAIN s /\ (j < k \/ j = k)
      BY <1>1
    <3>2. s[places[j]] <= x
      BY <1>3, <1>4, <3>1 DEF x
    <3> QED
      BY <1>2, <3>1, <3>2
  <2>2. g \in [1 .. k -> upTo] /\ \A a, b \in 1 .. k : g[a] = g[b] => a = b
    BY <1>2, <2>1
  <2>3. upTo \subseteq DOMAIN s
    OBVIOUS
  <2> HIDE DEF upTo, g
  <2>4. g \in Injection(1 .. k, upTo)
    BY <2>2, Fun_IsInj
  <2>5. IsFiniteSet(upTo) /\ Cardinality(upTo) \in Nat
    BY <2>3, PlacesFinite
  <2>6. Cardinality(1 .. k) <= Cardinality(upTo)
    BY <2>4, <2>5, FS_Injection
  <2>7. Cardinality(1 .. k) = k
    <3>1. k \in Int /\ 1 \in Int /\ ~(1 > k) /\ k - 1 + 1 = k
      BY <1>1
    <3> QED
      BY <3>1, FS_Interval
  <2> QED
    BY <1>1, <2>5, <2>6, <2>7
<1>8. \E i \in DOMAIN s : s[i] = x
  BY <1>3 DEF x
<1> QED
  BY <1>3, <1>6, <1>7, <1>8 DEF KthSmallest, x

\* Changing places does not change which value is the k-th smallest.
LEMMA ReorderKth ==
    ASSUME NEW s \in Vector, NEW places \in Bijection(DOMAIN s, DOMAIN s), NEW x, NEW k,
           KthSmallest(s, x, k)
    PROVE  KthSmallest([i \in DOMAIN s |-> s[places[i]]], x, k)
<1> DEFINE t == [i \in DOMAIN s |-> s[places[i]]]
           below(u) == {i \in DOMAIN s : u[i] < x}
           upTo(u) == {i \in DOMAIN s : u[i] <= x}
<1>1. /\ places \in [DOMAIN s -> DOMAIN s]
      /\ \A a, b \in DOMAIN s : places[a] = places[b] => a = b
      /\ \A d \in DOMAIN s : \E a \in DOMAIN s : places[a] = d
  BY Fun_BijectionProperties
<1>2. DOMAIN t = DOMAIN s /\ \A i \in DOMAIN s : t[i] = s[places[i]]
  OBVIOUS
<1> HIDE DEF t
<1>3. Cardinality(below(t)) = Cardinality(below(s))
  <2> DEFINE f == [i \in below(t) |-> places[i]]
  <2>1. /\ f \in [below(t) -> below(s)]
        /\ \A a, b \in below(t) : f[a] = f[b] => a = b
        /\ \A d \in below(s) : \E a \in below(t) : f[a] = d
    BY <1>1, <1>2
  <2>2. below(t) \subseteq DOMAIN s
    OBVIOUS
  <2> HIDE DEF below, f
  <2>3. f \in Bijection(below(t), below(s))
    BY <2>1, Fun_IsBij
  <2>4. ExistsBijection(below(t), below(s))
    BY <2>3 DEF ExistsBijection
  <2> QED
    BY <2>2, <2>4, PlacesFinite, FS_Bijection
<1>4. Cardinality(upTo(t)) = Cardinality(upTo(s))
  <2> DEFINE f == [i \in upTo(t) |-> places[i]]
  <2>1. /\ f \in [upTo(t) -> upTo(s)]
        /\ \A a, b \in upTo(t) : f[a] = f[b] => a = b
        /\ \A d \in upTo(s) : \E a \in upTo(t) : f[a] = d
    BY <1>1, <1>2
  <2>2. upTo(t) \subseteq DOMAIN s
    OBVIOUS
  <2> HIDE DEF upTo, f
  <2>3. f \in Bijection(upTo(t), upTo(s))
    BY <2>1, Fun_IsBij
  <2>4. ExistsBijection(upTo(t), upTo(s))
    BY <2>3 DEF ExistsBijection
  <2> QED
    BY <2>2, <2>4, PlacesFinite, FS_Bijection
<1>5. \E i \in DOMAIN t : t[i] = x
  BY <1>1, <1>2 DEF KthSmallest
<1> QED
  BY <1>2, <1>3, <1>4, <1>5 DEF KthSmallest, t

-----------------------------------------------------------------------------
(***************************************************************************)
(* The steps.                                                              *)
(***************************************************************************)

LEMMA NothingAnswered ==
    ASSUME NEW s \in Vector
    PROVE  NoAnswer \in AnswerType /\ Exact(s, NoAnswer) /\ StillExact(s, NoAnswer)
<1>1. NoAnswer.operation = "none" /\ NoAnswer \in AnswerType
  BY DEF NoAnswer, AnswerType
<1> QED
  BY <1>1 DEF Exact, StillExact

LEMMA NoLoop ==
    ASSUME NEW s \in Vector, NEW n \in Nat, NEW v \in Int \cup {NaN}
    PROVE  InLoop("none", s, n, v)
BY DEF InLoop

LEMMA Initially == Init => CollectionInv
<1> SUFFICES ASSUME Init PROVE CollectionInv
  OBVIOUS
<1>1. operands \in Vector /\ Len(operands) = 0
  BY DEF Init, Vector
<1>2. Types
  BY <1>1, NothingAnswered, NumbersAreIntegers DEF Init, Types
<1>3. InLoop(call, operands, seen, value)
  BY <1>1, NoLoop DEF Init
<1> QED
  BY <1>1, <1>2, <1>3, NothingAnswered DEF Init, CollectionInv

LEMMA InsertKeeps ==
    ASSUME CollectionInv, NEW n \in Operand, Insert(n)
    PROVE  CollectionInv'
<1>1. operands' \in Vector
  BY DEF CollectionInv, Types, Insert, Vector
<1>2. Len(operands') \in Nat
  BY <1>1 DEF Vector
<1>3. call' = "none" /\ seen' = 0 /\ value' = value /\ answer' = NoAnswer /\ earlier' = NoAnswer
  BY DEF CollectionInv, Types, Insert, Edit, loopVars
<1>4. value' \in Int \cup {NaN}
  BY <1>3 DEF CollectionInv, Types
<1>5. Types'
  BY <1>1, <1>2, <1>3, <1>4, NothingAnswered DEF Types
<1>6. InLoop(call', operands', seen', value')
  BY <1>1, <1>3, <1>4, NoLoop
<1> QED
  BY <1>1, <1>3, <1>5, <1>6, NothingAnswered DEF CollectionInv

LEMMA RemoveAtType ==
    ASSUME NEW s \in Vector, NEW i \in DOMAIN s
    PROVE  RemoveAt(s, i) \in Vector
<1>1. Len(s) \in Nat /\ i \in 1 .. Len(s) /\ s \in Seq(Operand)
  BY VectorElements DEF Vector
<1>2. SubSeq(s, 1, i - 1) \in Seq(Operand) /\ SubSeq(s, i + 1, Len(s)) \in Seq(Operand)
  BY <1>1
<1>3. SubSeq(s, 1, i - 1) \o SubSeq(s, i + 1, Len(s)) \in Seq(Operand)
  BY <1>2
<1> QED
  BY <1>3 DEF RemoveAt, Vector

LEMMA EraseKeeps ==
    ASSUME CollectionInv, NEW i \in DOMAIN operands, Erase(i)
    PROVE  CollectionInv'
<1>1. operands' \in Vector
  BY RemoveAtType DEF CollectionInv, Types, Erase
<1>2. Len(operands') \in Nat
  BY <1>1 DEF Vector
<1>3. call' = "none" /\ seen' = 0 /\ value' = value /\ answer' = NoAnswer /\ earlier' = NoAnswer
  BY DEF CollectionInv, Types, Erase, Edit, loopVars
<1>4. value' \in Int \cup {NaN}
  BY <1>3 DEF CollectionInv, Types
<1>5. Types'
  BY <1>1, <1>2, <1>3, <1>4, NothingAnswered DEF Types
<1>6. InLoop(call', operands', seen', value')
  BY <1>1, <1>3, <1>4, NoLoop
<1> QED
  BY <1>1, <1>3, <1>5, <1>6, NothingAnswered DEF CollectionInv

\* What is exact of the operands in one order is still exact in another.
LEMMA ReorderedStillExact ==
    ASSUME NEW s \in Vector, NEW places \in Bijection(DOMAIN s, DOMAIN s),
           NEW a \in AnswerType, StillExact(s, a)
    PROVE  /\ [i \in DOMAIN s |-> s[places[i]]] \in Vector
           /\ Len([i \in DOMAIN s |-> s[places[i]]]) = Len(s)
           /\ StillExact([i \in DOMAIN s |-> s[places[i]]], a)
<1> DEFINE t == [i \in DOMAIN s |-> s[places[i]]]
<1>1. /\ places \in [DOMAIN s -> DOMAIN s]
      /\ \A d \in DOMAIN s : \E b \in DOMAIN s : places[b] = d
  BY Fun_BijectionProperties
<1>2. DOMAIN s = 1 .. Len(s) /\ Len(s) \in Nat /\ \A i \in DOMAIN s : s[i] \in Operand
  BY VectorElements
<1>3. DOMAIN t = 1 .. Len(s) /\ \A i \in 1 .. Len(s) : t[i] = s[places[i]] /\ places[i] \in 1 .. Len(s)
  BY <1>1, <1>2
<1>4. t \in Vector /\ Len(t) = Len(s)
  BY <1>2, <1>3 DEF Vector
<1>5. \A d \in 1 .. Len(s) : \E b \in 1 .. Len(t) : t[b] = s[d]
  BY <1>1, <1>2, <1>3, <1>4
<1>6. ASSUME NEW x, NEW k, KthSmallest(s, x, k) PROVE KthSmallest(t, x, k)
  BY <1>6, ReorderKth
<1> HIDE DEF t
<1>7. ASSUME t # << >>, NoNaN(t)
      PROVE  s # << >> /\ NoNaN(s)
  <2>1. s # << >> /\ \A b \in 1 .. Len(t) : t[b] # NaN
    BY <1>4, <1>7, VectorElements
  <2>2. \A d \in 1 .. Len(s) : s[d] # NaN
    BY <1>5, <2>1
  <2> QED
    BY <2>1, <2>2, VectorElements
<1>8. ASSUME t # << >>, NoNaN(t), a.operation \in {"MIN", "MAX"}
      PROVE  a.den = 1 /\ a.num # NaN /\ IsExtreme(a.operation, t, Len(t), a.num)
  <2>1. a.den = 1 /\ a.num # NaN /\ IsExtreme(a.operation, s, Len(s), a.num)
    BY <1>7, <1>8 DEF StillExact
  <2>2. \E i \in 1 .. Len(t) : t[i] = a.num
    <3>1. PICK d \in 1 .. Len(s) : s[d] = a.num
      BY <2>1 DEF IsExtreme
    <3> QED
      BY <1>5, <3>1
  <2>3. \A i \in 1 .. Len(t) : t[i] # NaN =>
            IF a.operation = "MIN" THEN a.num <= t[i] ELSE t[i] <= a.num
    BY <1>3, <1>4, <2>1 DEF IsExtreme
  <2> QED
    BY <2>1, <2>2, <2>3 DEF IsExtreme
<1>9. ASSUME t # << >>, NoNaN(t), a.operation = "MEDIAN"
      PROVE  IsMedian(t, a)
  <2>1. IsMedian(s, a)
    BY <1>7, <1>9 DEF StillExact
  <2> QED
    BY <1>4, <1>6, <2>1 DEF IsMedian
<1>10. StillExact(t, a)
  BY <1>8, <1>9 DEF StillExact
<1> QED
  BY <1>4, <1>10 DEF t

LEMMA ExactIsStillExact ==
    ASSUME NEW s \in Vector, NEW a \in AnswerType, Exact(s, a)
    PROVE  StillExact(s, a)
<1> SUFFICES ASSUME s # << >>, NoNaN(s)
             PROVE  /\ a.operation \in {"MIN", "MAX"} =>
                          a.den = 1 /\ a.num # NaN /\ IsExtreme(a.operation, s, Len(s), a.num)
                    /\ a.operation = "MEDIAN" => IsMedian(s, a)
  BY DEF StillExact
<1>1. s[1] # NaN
  BY VectorElements
<1> QED
  BY <1>1 DEF Exact

LEMMA ReorderKeeps ==
    ASSUME CollectionInv, NEW places \in Places, Reorder(places)
    PROVE  CollectionInv'
<1>1. operands \in Vector /\ answer \in AnswerType /\ Exact(operands, answer)
  BY DEF CollectionInv, Types
<1>2. places \in Bijection(DOMAIN operands, DOMAIN operands)
  BY DEF Places
<1>3. operands' = [i \in DOMAIN operands |-> operands[places[i]]]
  BY DEF Reorder
<1>4. operands' \in Vector /\ Len(operands') = Len(operands) /\ StillExact(operands', answer)
  BY <1>1, <1>2, <1>3, ExactIsStillExact, ReorderedStillExact
<1>5. Len(operands') \in Nat
  BY <1>4 DEF Vector
<1>6. call' = "none" /\ seen' = 0 /\ value' = value /\ answer' = NoAnswer /\ earlier' = answer
  BY DEF CollectionInv, Types, Reorder, Edit, loopVars
<1>7. value' \in Int \cup {NaN}
  BY <1>6 DEF CollectionInv, Types
<1>8. Types'
  BY <1>1, <1>4, <1>5, <1>6, <1>7, NothingAnswered DEF Types
<1>9. InLoop(call', operands', seen', value')
  BY <1>4, <1>6, <1>7, NoLoop
<1> QED
  BY <1>4, <1>6, <1>8, <1>9, NothingAnswered DEF CollectionInv

\* An answer that is exact of the operands ends the evaluation.
LEMMA AnswerKeeps ==
    ASSUME CollectionInv, NEW operation \in Operation, NEW num \in Int \cup {NaN},
           NEW den \in Nat \ {0}, Answer(operation, num, den),
           Exact(operands, [operation |-> operation, num |-> num, den |-> den])
    PROVE  CollectionInv'
<1>1. /\ operands \in Vector /\ operands' = operands /\ earlier' = earlier
      /\ call' = "none" /\ seen' = 0 /\ value' = 0
      /\ answer' = [operation |-> operation, num |-> num, den |-> den]
  BY DEF CollectionInv, Types, Answer
<1>2. answer' \in AnswerType /\ earlier' \in AnswerType
  BY <1>1 DEF AnswerType, CollectionInv, Types
<1>3. Len(operands') \in Nat
  BY <1>1 DEF Vector
<1>4. Types'
  BY <1>1, <1>2, <1>3 DEF Types
<1>5. InLoop(call', operands', seen', value')
  BY <1>1, NoLoop
<1>6. StillExact(operands', earlier')
  BY <1>1 DEF CollectionInv
<1> QED
  BY <1>1, <1>4, <1>5, <1>6 DEF CollectionInv

LEMMA AnswerEmptyKeeps ==
    ASSUME CollectionInv, NEW operation \in Operation, AnswerEmpty(operation)
    PROVE  CollectionInv'
<1>1. Exact(operands, [operation |-> operation, num |-> 0, den |-> 1])
  BY DEF AnswerEmpty, Exact
<1> QED
  BY <1>1, AnswerKeeps DEF AnswerEmpty

LEMMA AnswerCountKeeps ==
    ASSUME CollectionInv, AnswerCount
    PROVE  CollectionInv'
<1>1. Len(operands) \in Int /\ "COUNT" \in Operation
  BY DEF CollectionInv, Types, Vector, Operation
<1>2. Exact(operands, [operation |-> "COUNT", num |-> Len(operands), den |-> 1])
  BY DEF Exact
<1> QED
  BY <1>1, <1>2, AnswerKeeps DEF AnswerCount

\* A median of numbers splits them, whichever way equal ones are sorted.
LEMMA SortedMedian ==
    ASSUME NEW s \in Vector, s # << >>, NoNaN(s), NEW places \in Bijection(DOMAIN s, DOMAIN s),
           \A i, j \in DOMAIN s : i < j => s[places[i]] <= s[places[j]],
           NEW a \in AnswerType,
           a.num = IF Len(s) % 2 = 1 THEN s[places[Len(s) \div 2 + 1]]
                   ELSE Plus(s[places[Len(s) \div 2]], s[places[Len(s) \div 2 + 1]]),
           a.den = IF Len(s) % 2 = 1 THEN 1 ELSE 2
    PROVE  IsMedian(s, a)
<1> DEFINE half == Len(s) \div 2
           lower == IF Len(s) % 2 = 1 THEN half + 1 ELSE half
           x == s[places[lower]]
           y == s[places[half + 1]]
<1>1. Len(s) \in Nat /\ Len(s) > 0
  BY VectorElements
<1>2. half + 1 \in 1 .. Len(s) /\ lower \in 1 .. Len(s) /\ half \in Nat
  BY <1>1
<1>3. /\ x \in Number /\ KthSmallest(s, x, lower)
      /\ y \in Number /\ KthSmallest(s, y, half + 1)
  <2> HIDE DEF half, lower
  <2> QED
    BY <1>2, SortedKth
<1>4. x \in Int /\ y \in Int /\ x # NaN /\ y # NaN
  BY <1>3, NumbersAreIntegers
<1>5. a.num \in Int /\ 2 * a.num = (x + y) * a.den
  <2>1. CASE Len(s) % 2 = 1
    <3>1. a.num = y /\ x = y /\ a.den = 1
      BY <2>1
    <3> QED
      BY <1>4, <3>1
  <2>2. CASE Len(s) % 2 # 1
    <3>1. a.num = Plus(x, y) /\ a.den = 2
      BY <2>2
    <3>2. Plus(x, y) = x + y
      BY <1>4 DEF Plus
    <3> HIDE DEF x, y
    <3> QED
      BY <1>4, <3>1, <3>2
  <2> QED
    BY <2>1, <2>2
<1> HIDE DEF x, y
<1> QED
  BY <1>3, <1>5 DEF IsMedian

LEMMA AnswerMedianKeeps ==
    ASSUME CollectionInv, AnswerMedian
    PROVE  CollectionInv'
<1> DEFINE half == Len(operands) \div 2
           odd == Len(operands) % 2 = 1
<1>1. /\ operands \in Vector /\ Len(operands) \in Nat /\ Len(operands) > 0 /\ operands # << >>
      /\ DOMAIN operands = 1 .. Len(operands)
      /\ \A i \in DOMAIN operands : operands[i] \in Int \cup {NaN}
  BY VectorElements DEF AnswerMedian, CollectionInv, Types
<1>2. PICK places \in Sortings :
          IF odd THEN Answer("MEDIAN", operands[places[half + 1]], 1)
          ELSE Answer("MEDIAN", Plus(operands[places[half]], operands[places[half + 1]]), 2)
  BY DEF AnswerMedian
<1> DEFINE num == IF odd THEN operands[places[half + 1]]
                  ELSE Plus(operands[places[half]], operands[places[half + 1]])
           den == IF odd THEN 1 ELSE 2
           a == [operation |-> "MEDIAN", num |-> num, den |-> den]
<1>3. /\ places \in Bijection(DOMAIN operands, DOMAIN operands)
      /\ NoNaN(operands) => \A i, j \in DOMAIN operands :
                               i < j => operands[places[i]] <= operands[places[j]]
  BY DEF Sortings, Places, Numbers, NoNaN
<1>4. places \in [DOMAIN operands -> DOMAIN operands]
  BY <1>3, Fun_BijectionProperties
<1>5. num \in Int \cup {NaN} /\ den \in Nat \ {0}
  <2>1. half + 1 \in 1 .. Len(operands)
    BY <1>1
  <2>2. ~odd => half \in 1 .. Len(operands)
    BY <1>1
  <2> HIDE DEF half
  <2>3. operands[places[half + 1]] \in Int \cup {NaN}
    BY <1>1, <1>4, <2>1
  <2>4. ~odd => Plus(operands[places[half]], operands[places[half + 1]]) \in Int \cup {NaN}
    BY <1>1, <1>4, <2>2, <2>3, ArithmeticType
  <2> HIDE DEF odd
  <2> QED
    BY <2>3, <2>4
<1>6. Answer("MEDIAN", num, den)
  BY <1>2
<1>7. a \in AnswerType
  BY <1>5 DEF AnswerType, Operation
<1>8. NoNaN(operands) => IsMedian(operands, a)
  <2>1. a.num = num /\ a.den = den
    OBVIOUS
  <2> HIDE DEF a
  <2> QED
    BY <1>1, <1>3, <1>7, <2>1, SortedMedian
<1>9. Exact(operands, a)
  <2>1. a.operation = "MEDIAN"
    OBVIOUS
  <2> HIDE DEF a
  <2> QED
    BY <1>8, <2>1 DEF Exact
<1>10. "MEDIAN" \in Operation
  BY DEF Operation
<1> HIDE DEF num, den
<1> QED
  BY <1>5, <1>6, <1>9, <1>10, AnswerKeeps

LEMMA BeginKeeps ==
    ASSUME CollectionInv, NEW operation \in Operation,
           operation \in {"SUM", "PRODUCT", "AVERAGE", "MIN", "MAX"},
           operation = "AVERAGE" => operands # << >>,
           NEW from \in Int \cup {NaN}, NEW skip \in 0 .. Len(operands),
           Begin(operation, from, skip), InLoop(operation, operands, skip, from)
    PROVE  CollectionInv'
<1>1. /\ operands \in Vector /\ operands' = operands /\ earlier' = earlier
      /\ call' = operation /\ seen' = skip /\ value' = from /\ answer' = NoAnswer
  BY DEF CollectionInv, Types, Begin
<1>2. Types'
  BY <1>1, NothingAnswered DEF CollectionInv, Types
<1>3. StillExact(operands', earlier') /\ InLoop(call', operands', seen', value')
  BY <1>1 DEF CollectionInv
<1> QED
  BY <1>1, <1>2, <1>3, NothingAnswered DEF CollectionInv

LEMMA BeginSumKeeps ==
    ASSUME CollectionInv, NEW operation \in Operation, BeginSum(operation)
    PROVE  CollectionInv'
<1>1. operation \in {"SUM", "AVERAGE"} /\ (operation = "AVERAGE" => operands # << >>)
  BY DEF BeginSum
<1>2. Len(operands) \in Nat
  BY DEF CollectionInv, Types, Vector
<1>3. InLoop(operation, operands, 0, 0)
  BY <1>1 DEF InLoop
<1>4. 0 \in 0 .. Len(operands) /\ 0 \in Int \cup {NaN} /\ Begin(operation, 0, 0)
  BY <1>2 DEF BeginSum
<1>5. operation \in {"SUM", "PRODUCT", "AVERAGE", "MIN", "MAX"}
  BY <1>1
<1> QED
  BY <1>1, <1>3, <1>4, <1>5, BeginKeeps

LEMMA BeginProductKeeps ==
    ASSUME CollectionInv, BeginProduct
    PROVE  CollectionInv'
<1>1. Len(operands) \in Nat /\ "PRODUCT" \in Operation
  BY DEF CollectionInv, Types, Vector, Operation
<1>2. InLoop("PRODUCT", operands, 0, 1)
  BY DEF InLoop
<1> QED
  BY <1>1, <1>2, BeginKeeps DEF BeginProduct

LEMMA BeginExtremeKeeps ==
    ASSUME CollectionInv, NEW operation \in Operation, BeginExtreme(operation)
    PROVE  CollectionInv'
<1>1. operands \in Vector /\ operands # << >>
  BY DEF BeginExtreme, CollectionInv, Types
<1>2. Len(operands) \in Nat /\ Len(operands) > 0 /\ operands[1] \in Int \cup {NaN}
  BY <1>1, VectorElements
<1>3. operation \in {"MIN", "MAX"} /\ Begin(operation, operands[1], 1)
  BY DEF BeginExtreme
<1>4. IsExtreme(operation, operands, 1, operands[1]) \/ operands[1] = NaN
  <2>1. CASE operands[1] \in Int
    <3>1. \A i \in 1 .. 1 : operands[i] = operands[1]
      OBVIOUS
    <3> QED
      BY <2>1, <3>1 DEF IsExtreme
  <2> QED
    BY <1>2, <2>1
<1>5. InLoop(operation, operands, 1, operands[1])
  BY <1>3, <1>4 DEF InLoop
<1>6. 1 \in 0 .. Len(operands) /\ operation \in {"SUM", "PRODUCT", "AVERAGE", "MIN", "MAX"}
  BY <1>2, <1>3
<1> QED
  BY <1>1, <1>2, <1>3, <1>5, <1>6, BeginKeeps

\* One more value: what the loop has made of n operands becomes what it makes
\* of n + 1.
LEMMA SumsGrow ==
    ASSUME NEW s \in Vector, NEW n \in Nat, n < Len(s), NEW v \in Int \cup {NaN},
           InLoop("AVERAGE", s, n, v)
    PROVE  InLoop("AVERAGE", s, n + 1, Plus(v, s[n + 1]))
<1> DEFINE x == s[n + 1]
           w == Plus(v, x)
<1>1. /\ Len(s) \in Nat /\ n + 1 \in 1 .. Len(s)
      /\ \A i \in 1 .. Len(s) : s[i] \in Int \cup {NaN} /\ (NoNaN(s) => s[i] \in Int /\ s[i] # NaN)
  BY VectorElements
<1>2. x \in Int \cup {NaN} /\ (NoNaN(s) => x \in Int /\ x # NaN)
  BY <1>1
<1>3. \A i \in 1 .. n + 1 : i \in 1 .. n \/ s[i] = x
  OBVIOUS
<1> HIDE DEF x
<1>4. ASSUME NEW i \in 1 .. n + 1, s[i] = NaN PROVE w = NaN
  <2>1. v = NaN \/ x = NaN
    BY <1>3, <1>4 DEF InLoop
  <2> QED
    BY <1>2, <2>1, ArithmeticType
<1>5. ASSUME NoNaN(s)
      PROVE  w \in Int /\ \E i, j \in 1 .. n + 1 : s[i] * (n + 1) <= w /\ w <= s[j] * (n + 1)
  <2>1. v \in Int /\ x \in Int /\ v # NaN /\ x # NaN /\ w = v + x
    <3>1. v \in Int
      BY <1>5 DEF InLoop
    <3>2. x \in Int /\ x # NaN /\ v # NaN
      BY <1>2, <1>5, <3>1, NumbersAreIntegers
    <3> QED
      BY <3>1, <3>2 DEF Plus
  <2>2. n + 1 \in 1 .. n + 1 /\ s[n + 1] = x
    BY DEF x
  <2>3. CASE n = 0
    <3>1. v = 0
      BY <1>5, <2>3 DEF InLoop
    <3>2. x * (n + 1) <= w /\ w <= x * (n + 1) /\ w \in Int
      BY <2>1, <2>3, <3>1
    <3> HIDE DEF w
    <3> QED
      BY <2>2, <3>2
  <2>4. CASE n > 0
    <3>1. PICK i, j \in 1 .. n : s[i] * n <= v /\ v <= s[j] * n
      BY <1>5, <2>4 DEF InLoop
    <3>2. /\ s[i] \in Int /\ s[j] \in Int
          /\ i \in 1 .. n + 1 /\ j \in 1 .. n + 1
      BY <1>1, <1>5
    <3>3. \/ s[i] * (n + 1) <= v + x
          \/ x * (n + 1) <= v + x
      <4>1. s[i] <= x \/ x <= s[i]
        BY <2>1, <3>2
      <4> QED
        BY <2>1, <3>1, <3>2, <4>1, NextMultiple
    <3>4. \/ v + x <= s[j] * (n + 1)
          \/ v + x <= x * (n + 1)
      <4>1. s[j] <= x \/ x <= s[j]
        BY <2>1, <3>2
      <4> QED
        BY <2>1, <3>1, <3>2, <4>1, NextMultiple
    <3>5. \E a \in 1 .. n + 1 : s[a] * (n + 1) <= w
      <4> HIDE DEF w
      <4> QED
        BY <2>1, <2>2, <3>2, <3>3
    <3>6. \E b \in 1 .. n + 1 : w <= s[b] * (n + 1)
      <4> HIDE DEF w
      <4> QED
        BY <2>1, <2>2, <3>2, <3>4
    <3>7. w \in Int
      BY <2>1
    <3> QED
      BY <3>5, <3>6, <3>7
  <2> QED
    BY <2>3, <2>4
<1>6. InLoop("AVERAGE", s, n + 1, w)
  BY <1>4, <1>5 DEF InLoop
<1> QED
  BY <1>6 DEF x

LEMMA NaNPersists ==
    ASSUME NEW s \in Vector, NEW n \in Nat, n < Len(s), NEW v \in Int \cup {NaN},
           NEW c \in {"SUM", "PRODUCT"}, InLoop(c, s, n, v),
           NEW w \in Int \cup {NaN}, v = NaN \/ s[n + 1] = NaN => w = NaN
    PROVE  InLoop(c, s, n + 1, w)
<1>1. \A i \in 1 .. n + 1 : i \in 1 .. n \/ s[i] = s[n + 1]
  OBVIOUS
<1>2. ASSUME NEW i \in 1 .. n + 1, s[i] = NaN PROVE w = NaN
  BY <1>1, <1>2 DEF InLoop
<1> QED
  BY <1>2 DEF InLoop

LEMMA ExtremesGrow ==
    ASSUME NEW s \in Vector, NEW n \in Nat, n < Len(s), NEW v \in Int \cup {NaN},
           NEW c \in {"MIN", "MAX"}, InLoop(c, s, n, v)
    PROVE  LET w == IF c = "MIN" THEN Smaller(v, s[n + 1]) ELSE Larger(v, s[n + 1])
           IN  w \in Int \cup {NaN} /\ InLoop(c, s, n + 1, w)
<1> DEFINE x == s[n + 1]
           w == IF c = "MIN" THEN Smaller(v, x) ELSE Larger(v, x)
<1>1. /\ Len(s) \in Nat /\ n + 1 \in 1 .. Len(s)
      /\ \A i \in 1 .. Len(s) : s[i] \in Int \cup {NaN}
  BY VectorElements
<1>2. x \in Int \cup {NaN} /\ NaN \notin Int
  BY <1>1, NumbersAreIntegers
<1>3. \A i \in 1 .. n + 1 : i \in 1 .. n \/ s[i] = x
  OBVIOUS
<1>4. n + 1 \in 1 .. n + 1 /\ s[n + 1] = x
  BY DEF x
<1> HIDE DEF x
<1>5. n > 0 /\ (v = NaN <=> s[1] = NaN) /\ (v # NaN => IsExtreme(c, s, n, v))
  BY DEF InLoop
<1>6. /\ w \in {v, x} /\ (v = NaN => w = NaN) /\ (v # NaN => w \in Int)
      /\ v # NaN /\ x # NaN => IF c = "MIN" THEN w <= v /\ w <= x ELSE v <= w /\ x <= w
      /\ v # NaN /\ x = NaN => w = v
  BY <1>2 DEF Smaller, Larger, Less
<1> HIDE DEF w
<1>7. w \in Int \cup {NaN} /\ (w = NaN <=> s[1] = NaN)
  BY <1>2, <1>5, <1>6
<1>8. ASSUME w # NaN PROVE IsExtreme(c, s, n + 1, w)
  <2>1. v # NaN /\ v \in Int /\ w \in Int /\ IsExtreme(c, s, n, v)
    BY <1>5, <1>6, <1>8
  <2>2. \E i \in 1 .. n + 1 : s[i] = w
    <3>1. PICK i \in 1 .. n : s[i] = v
      BY <2>1 DEF IsExtreme
    <3>2. i \in 1 .. n + 1
      OBVIOUS
    <3> QED
      BY <1>4, <1>6, <3>1, <3>2
  <2>3. ASSUME NEW i \in 1 .. n + 1, s[i] # NaN
        PROVE  IF c = "MIN" THEN w <= s[i] ELSE s[i] <= w
    <3>1. s[i] \in Int
      BY <1>1, <2>3
    <3>2. CASE s[i] = x
      BY <1>2, <1>6, <2>1, <2>3, <3>2
    <3>3. CASE i \in 1 .. n
      <4>1. IF c = "MIN" THEN v <= s[i] ELSE s[i] <= v
        BY <2>1, <2>3, <3>3 DEF IsExtreme
      <4>2. IF c = "MIN" THEN w <= v ELSE v <= w
        BY <1>2, <1>6, <2>1
      <4> QED
        BY <2>1, <3>1, <4>1, <4>2
    <3> QED
      BY <1>3, <3>2, <3>3
  <2> QED
    BY <2>2, <2>3 DEF IsExtreme
<1>9. InLoop(c, s, n + 1, w)
  BY <1>5, <1>7, <1>8 DEF InLoop
<1> QED
  BY <1>7, <1>9 DEF w, x

LEMMA AccumulateKeeps ==
    ASSUME CollectionInv, Accumulate
    PROVE  CollectionInv'
<1> DEFINE x == operands[seen + 1]
<1>1. /\ operands \in Vector /\ seen \in Nat /\ seen < Len(operands) /\ Len(operands) \in Nat
      /\ value \in Int \cup {NaN} /\ InLoop(call, operands, seen, value)
      /\ call \in {"SUM", "PRODUCT", "AVERAGE", "MIN", "MAX"}
  BY VectorElements DEF CollectionInv, Types, Accumulate
<1>2. /\ operands' = operands /\ call' = call /\ answer' = answer /\ earlier' = earlier
      /\ seen' = seen + 1 /\ value' = Combined(x)
  BY DEF Accumulate
<1>3. x \in Int \cup {NaN}
  BY <1>1, VectorElements
<1>4. Combined(x) \in Int \cup {NaN} /\ InLoop(call, operands, seen + 1, Combined(x))
  <2>1. CASE call = "SUM"
    <3>1. Combined(x) = Plus(value, x)
      BY <2>1 DEF Combined
    <3>2. Plus(value, x) \in Int \cup {NaN} /\ (value = NaN \/ x = NaN => Plus(value, x) = NaN)
      BY <1>1, <1>3, ArithmeticType
    <3> QED
      BY <1>1, <2>1, <3>1, <3>2, NaNPersists
  <2>2. CASE call = "PRODUCT"
    <3>1. Combined(x) = Times(value, x)
      BY <2>2 DEF Combined
    <3>2. Times(value, x) \in Int \cup {NaN} /\ (value = NaN \/ x = NaN => Times(value, x) = NaN)
      BY <1>1, <1>3, ArithmeticType
    <3> QED
      BY <1>1, <2>2, <3>1, <3>2, NaNPersists
  <2>3. CASE call = "AVERAGE"
    <3>1. Combined(x) = Plus(value, x)
      BY <2>3 DEF Combined
    <3>2. Plus(value, x) \in Int \cup {NaN}
      BY <1>1, <1>3, ArithmeticType
    <3> QED
      BY <1>1, <2>3, <3>1, <3>2, SumsGrow
  <2>4. CASE call \in {"MIN", "MAX"}
    <3>1. Combined(x) = IF call = "MIN" THEN Smaller(value, x) ELSE Larger(value, x)
      BY <2>4 DEF Combined
    <3> QED
      BY <1>1, <2>4, <3>1, ExtremesGrow
  <2> QED
    BY <1>1, <2>1, <2>2, <2>3, <2>4
<1>5. seen' \in 0 .. Len(operands') /\ call' # "none"
  BY <1>1, <1>2
<1>6. Types'
  BY <1>2, <1>4, <1>5 DEF CollectionInv, Types
<1>7. InLoop(call', operands', seen', value')
  BY <1>2, <1>4
<1> QED
  BY <1>2, <1>6, <1>7 DEF CollectionInv

\* When the loop has seen every operand, its invariant is the promise.
LEMMA ReturnKeeps ==
    ASSUME CollectionInv, Return
    PROVE  CollectionInv'
<1> DEFINE den == IF call = "AVERAGE" THEN Len(operands) ELSE 1
           a == [operation |-> call, num |-> value, den |-> den]
<1>1. /\ operands \in Vector /\ Len(operands) \in Nat /\ DOMAIN operands = 1 .. Len(operands)
      /\ operands # << >> <=> Len(operands) > 0
      /\ NoNaN(operands) <=> \A i \in 1 .. Len(operands) : operands[i] # NaN
  BY VectorElements DEF CollectionInv, Types
<1>2. /\ value \in Int \cup {NaN} /\ InLoop(call, operands, Len(operands), value)
      /\ call \in {"SUM", "PRODUCT", "AVERAGE", "MIN", "MAX"}
      /\ Answer(call, value, den) /\ (call = "AVERAGE" => operands # << >>)
  BY DEF CollectionInv, Types, Return
<1>3. den \in Nat \ {0} /\ call \in Operation
  BY <1>1, <1>2 DEF Operation
<1>4. a.operation = call /\ a.num = value /\ a.den = den
  OBVIOUS
<1> HIDE DEF a
<1>5. call \in {"SUM", "PRODUCT", "AVERAGE"} /\ ~NoNaN(operands) => value = NaN
  BY <1>1, <1>2 DEF InLoop
<1>6. call \in {"MIN", "MAX"} =>
          /\ den = 1
          /\ value = NaN <=> operands[1] = NaN
          /\ value # NaN => IsExtreme(call, operands, Len(operands), value)
  BY <1>2 DEF InLoop
<1>7. call = "AVERAGE" /\ operands # << >> /\ NoNaN(operands) => IsBetween(operands, a)
  <2> SUFFICES ASSUME call = "AVERAGE", operands # << >>, NoNaN(operands)
               PROVE  IsBetween(operands, a)
    OBVIOUS
  <2>1. den = Len(operands) /\ Len(operands) > 0
    BY <1>1
  <2>2. value \in Int
    BY <1>2 DEF InLoop
  <2>3. PICK i, j \in 1 .. Len(operands) :
            operands[i] * Len(operands) <= value /\ value <= operands[j] * Len(operands)
    BY <1>2, <2>1 DEF InLoop
  <2> QED
    BY <1>1, <1>4, <2>1, <2>2, <2>3 DEF IsBetween
<1>8. Exact(operands, a)
  BY <1>2, <1>4, <1>5, <1>6, <1>7 DEF Exact
<1> HIDE DEF den
<1> QED
  BY <1>2, <1>3, <1>8, AnswerKeeps DEF a

LEMMA StutterKeeps ==
    ASSUME CollectionInv, UNCHANGED vars
    PROVE  CollectionInv'
BY DEF CollectionInv, Types, vars, loopVars

LEMMA StepKeeps ==
    ASSUME CollectionInv, [Next]_vars
    PROVE  CollectionInv'
<1>1. CASE \E n \in Number \cup {NaN} : Insert(n)
  BY <1>1, InsertKeeps DEF Operand
<1>2. CASE \E i \in DOMAIN operands : Erase(i)
  BY <1>2, EraseKeeps
<1>3. CASE \E places \in Places : Reorder(places)
  BY <1>3, ReorderKeeps
<1>4. CASE \E operation \in Operation :
              AnswerEmpty(operation) \/ BeginSum(operation) \/ BeginExtreme(operation)
  BY <1>4, AnswerEmptyKeeps, BeginSumKeeps, BeginExtremeKeeps
<1>5. CASE AnswerCount \/ AnswerMedian \/ BeginProduct \/ Accumulate \/ Return
  BY <1>5, AnswerCountKeeps, AnswerMedianKeeps, BeginProductKeeps, AccumulateKeeps, ReturnKeeps
<1>6. CASE UNCHANGED vars
  BY <1>6, StutterKeeps
<1> QED
  BY <1>1, <1>2, <1>3, <1>4, <1>5, <1>6 DEF Next

\* At every moment the answer says of the operands what Exact says, and the
\* answer before they last changed places says what is left of that.
THEOREM AnswersAreExact == Spec => []CollectionInv
<1>1. Init => CollectionInv
  BY Initially
<1>2. CollectionInv /\ [Next]_vars => CollectionInv'
  BY StepKeeps
<1> QED
  BY <1>1, <1>2, PTL DEF Spec

-----------------------------------------------------------------------------
(***************************************************************************)
(* The promises.                                                           *)
(***************************************************************************)

LEMMA MedianKeepsPromise == CollectionInv => MedianSplits
<1> SUFFICES ASSUME CollectionInv, Of({"MEDIAN"}), Numbers
             PROVE  LET half == Len(operands) \div 2
                    IN  \E x, y \in Number :
                          /\ IsKthSmallest(x, IF Len(operands) % 2 = 1 THEN half + 1 ELSE half)
                          /\ IsKthSmallest(y, half + 1)
                          /\ 2 * answer.num = (x + y) * answer.den
  BY DEF MedianSplits
<1>1. IsMedian(operands, answer)
  BY DEF CollectionInv, Exact, Of, Numbers, NoNaN
<1>2. \A x, k : KthSmallest(operands, x, k) = IsKthSmallest(x, k)
  BY DEF KthSmallest, IsKthSmallest
<1> QED
  BY <1>1, <1>2 DEF IsMedian

\* What the code finds by sorting a copy is the median of the operands, for
\* every vector of numbers.
THEOREM MediansSplit == Spec => []MedianSplits
BY AnswersAreExact, MedianKeepsPromise, PTL

\* With NaN among the operands, sums and products are NaN, and the extremes
\* are exactly when it comes first, for every vector.
THEOREM NaNShows == Spec => []NaNInExtremes
<1>1. CollectionInv => NaNInExtremes
  BY DEF CollectionInv, Exact, NaNInExtremes, Of, Numbers, NoNaN
<1> QED
  BY <1>1, AnswersAreExact, PTL

\* The smallest and the largest are operands, and bound every other.
THEOREM ExtremesAreBounds == Spec => []ExtremesBound
<1>1. ASSUME CollectionInv, Of({"MIN", "MAX"}), answer.num # NaN
      PROVE  /\ answer.num \in Range(operands)
             /\ \A x \in Range(operands) \ {NaN} :
                   IF answer.operation = "MIN" THEN AtLeast(x) ELSE AtMost(x)
  <2>1. /\ operands \in Vector /\ DOMAIN operands = 1 .. Len(operands)
        /\ \A i \in DOMAIN operands : operands[i] \in Int \cup {NaN}
    BY <1>1, VectorElements DEF CollectionInv, Types
  <2>2. /\ answer.den = 1 /\ answer.num \in Int
        /\ IsExtreme(answer.operation, operands, Len(operands), answer.num)
    BY <1>1 DEF CollectionInv, Types, Exact, Of, AnswerType
  <2>3. answer.num \in Range(operands)
    BY <2>1, <2>2 DEF IsExtreme, Range
  <2>4. ASSUME NEW x \in Range(operands) \ {NaN}
        PROVE  IF answer.operation = "MIN" THEN AtLeast(x) ELSE AtMost(x)
    <3>1. PICK i \in 1 .. Len(operands) : operands[i] = x
      BY <2>1 DEF Range
    <3>2. x \in Int
      BY <2>1, <3>1
    <3>3. IF answer.operation = "MIN" THEN answer.num <= x ELSE x <= answer.num
      BY <2>2, <3>1 DEF IsExtreme
    <3>4. x * answer.den = x
      BY <2>2, <3>2
    <3> QED
      BY <3>3, <3>4 DEF AtLeast, AtMost
  <2> QED
    BY <2>3, <2>4
<1>2. CollectionInv => ExtremesBound
  BY <1>1 DEF ExtremesBound
<1> QED
  BY <1>2, AnswersAreExact, PTL

\* The value half-way between two operands lies between them.
LEMMA MedianIsBetween ==
    ASSUME NEW s \in Vector, s # << >>, NoNaN(s), NEW a \in AnswerType, IsMedian(s, a)
    PROVE  IsBetween(s, a)
<1>1. DOMAIN s = 1 .. Len(s) /\ \A i \in DOMAIN s : s[i] \in Int
  BY VectorElements
<1>2. PICK x, y \in Number : /\ \E i \in DOMAIN s : s[i] = x
                             /\ \E i \in DOMAIN s : s[i] = y
                             /\ 2 * a.num = (x + y) * a.den
  BY DEF IsMedian, KthSmallest
<1>3. PICK i, j \in DOMAIN s : s[i] = x /\ s[j] = y
  BY <1>2
<1>4. a.num \in Int /\ a.den \in {1, 2} /\ x \in Int /\ y \in Int
  BY <1>1, <1>3 DEF IsMedian
<1>5. ASSUME NEW u \in Int, NEW v \in Int, u <= v, NEW n \in Int, NEW d \in {1, 2},
             2 * n = (u + v) * d
      PROVE  u * d <= n /\ n <= v * d
  <2>1. CASE d = 1
    BY <1>5, <2>1
  <2>2. CASE d = 2
    BY <1>5, <2>2
  <2> QED
    BY <2>1, <2>2
<1>6. CASE x <= y
  <2>1. x * a.den <= a.num /\ a.num <= y * a.den
    BY <1>2, <1>4, <1>5, <1>6
  <2> QED
    BY <1>3, <1>4, <2>1 DEF IsBetween
<1>7. CASE y <= x
  <2>1. 2 * a.num = (y + x) * a.den
    BY <1>2, <1>4
  <2>2. y * a.den <= a.num /\ a.num <= x * a.den
    BY <1>4, <1>5, <1>7, <2>1
  <2> QED
    BY <1>3, <1>4, <2>2 DEF IsBetween
<1> QED
  BY <1>4, <1>6, <1>7

\* The median and the average lie between two of the operands, for every
\* vector of numbers, whatever their signs.
THEOREM MeansAreWithin == Spec => []MeansWithinOperands
<1>1. ASSUME CollectionInv, Of({"MEDIAN", "AVERAGE"}), Numbers
      PROVE  \E i, j \in DOMAIN operands : AtMost(operands[i]) /\ AtLeast(operands[j])
  <2>1. operands \in Vector /\ operands # << >> /\ NoNaN(operands) /\ answer \in AnswerType
    BY <1>1 DEF CollectionInv, Types, Of, Numbers, NoNaN
  <2>2. IsBetween(operands, answer)
    <3>1. CASE answer.operation = "MEDIAN"
      BY <1>1, <2>1, <3>1, MedianIsBetween DEF CollectionInv, Exact
    <3>2. CASE answer.operation = "AVERAGE"
      BY <1>1, <2>1, <3>2 DEF CollectionInv, Exact
    <3> QED
      BY <1>1, <3>1, <3>2 DEF Of
  <2> QED
    BY <2>2 DEF IsBetween, AtMost, AtLeast
<1>2. CollectionInv => MeansWithinOperands
  BY <1>1 DEF MeansWithinOperands
<1> QED
  BY <1>2, AnswersAreExact, PTL

\* There is only one median, and one extreme.
LEMMA OneMedian ==
    ASSUME NEW s \in Vector, NoNaN(s), NEW a \in AnswerType, NEW b \in AnswerType,
           IsMedian(s, a), IsMedian(s, b)
    PROVE  a.num = b.num /\ a.den = b.den
<1> DEFINE half == Len(s) \div 2
           lower == IF Len(s) % 2 = 1 THEN half + 1 ELSE half
<1>1. Len(s) \in Nat /\ half \in Nat /\ half + 1 \in Nat /\ lower \in Nat
  BY VectorElements
<1>2. PICK x, y \in Number : /\ KthSmallest(s, x, lower) /\ KthSmallest(s, y, half + 1)
                             /\ 2 * a.num = (x + y) * a.den
  BY DEF IsMedian
<1>3. PICK u, v \in Number : /\ KthSmallest(s, u, lower) /\ KthSmallest(s, v, half + 1)
                             /\ 2 * b.num = (u + v) * b.den
  BY DEF IsMedian
<1>4. x \in Int /\ y \in Int /\ u \in Int /\ v \in Int
  BY NumbersAreIntegers
<1>5. a.num \in Int /\ b.num \in Int /\ a.den = b.den
  BY DEF IsMedian
<1> HIDE DEF lower, half
<1>6. x = u
  BY <1>1, <1>2, <1>3, <1>4, OneKthSmallest
<1>7. y = v
  BY <1>1, <1>2, <1>3, <1>4, OneKthSmallest
<1>8. 2 * a.num = 2 * b.num
  BY <1>2, <1>3, <1>5, <1>6, <1>7
<1> QED
  BY <1>5, <1>8

LEMMA OneExtreme ==
    ASSUME NEW s \in Vector, NoNaN(s), NEW c \in {"MIN", "MAX"}, NEW v \in Int, NEW w \in Int,
           IsExtreme(c, s, Len(s), v), IsExtreme(c, s, Len(s), w)
    PROVE  v = w
<1>1. \A i \in 1 .. Len(s) : s[i] # NaN
  BY VectorElements
<1>2. PICK i, j \in 1 .. Len(s) : s[i] = v /\ s[j] = w
  BY DEF IsExtreme
<1>3. CASE c = "MIN"
  <2>1. v <= w /\ w <= v
    BY <1>1, <1>2, <1>3 DEF IsExtreme
  <2> QED
    BY <2>1
<1>4. CASE c = "MAX"
  <2>1. v <= w /\ w <= v
    BY <1>1, <1>2, <1>4 DEF IsExtreme
  <2> QED
    BY <2>1
<1> QED
  BY <1>3, <1>4

\* As long as every operand is a number, listing the dependencies in another
\* order does not change the median or an extreme, for every vector and every
\* permutation of it.
THEOREM OrderDoesNotShow == Spec => []OrderInvisible
<1>1. ASSUME CollectionInv, Of({"MEDIAN", "MIN", "MAX"}), Numbers,
             earlier.operation = answer.operation
      PROVE  earlier = answer
  <2>1. /\ operands \in Vector /\ operands # << >> /\ NoNaN(operands)
        /\ answer \in AnswerType /\ earlier \in AnswerType
        /\ Exact(operands, answer) /\ StillExact(operands, answer) /\ StillExact(operands, earlier)
    BY <1>1, ExactIsStillExact DEF CollectionInv, Types, Of, Numbers, NoNaN
  <2>2. earlier.num = answer.num /\ earlier.den = answer.den
    <3>1. CASE answer.operation = "MEDIAN"
      BY <1>1, <2>1, <3>1, OneMedian DEF StillExact
    <3>2. CASE answer.operation \in {"MIN", "MAX"}
      <4>1. /\ answer.den = 1 /\ answer.num \in Int
            /\ IsExtreme(answer.operation, operands, Len(operands), answer.num)
        BY <2>1, <3>2 DEF StillExact, AnswerType
      <4>2. /\ earlier.den = 1 /\ earlier.num \in Int
            /\ IsExtreme(answer.operation, operands, Len(operands), earlier.num)
        BY <1>1, <2>1, <3>2 DEF StillExact, AnswerType
      <4> QED
        BY <2>1, <3>2, <4>1, <4>2, OneExtreme
    <3> QED
      BY <1>1, <3>1, <3>2 DEF Of
  <2> QED
    BY <1>1, <2>1, <2>2 DEF AnswerType
<1>2. CollectionInv => OrderInvisible
  BY <1>1 DEF OrderInvisible
<1> QED
  BY <1>2, AnswersAreExact, PTL
=============================================================================
