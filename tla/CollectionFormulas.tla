------------------------- MODULE CollectionFormulas -------------------------
(***************************************************************************)
(* What a collection node computes from the values of its dependencies     *)
(* (Compiler::compileCollectionFormula), one iteration of its loops at a   *)
(* time, over the values in the order of the dependency vector.  An answer *)
(* is a fraction: the averages of the code divide.  NaN is a value of its  *)
(* own that compares false with everything.                                *)
(*                                                                         *)
(* Between evaluations the vector changes as setNodeDependencies and       *)
(* removeNode change it: operands come, go, and change places.             *)
(***************************************************************************)
EXTENDS Integers, SequencesExt

CONSTANTS Number,     \* the numbers operands hold
          NaN,        \* and the value that is none
          MaxOperands \* the longest vector explored (a bound)

ASSUME NumbersAreIntegers == Number \subseteq Int /\ NaN \notin Int /\ MaxOperands \in Nat

VARIABLES
    operands,    \* the values of the dependencies
    call,        \* the operation whose loop is running, or "none"
    seen,        \* how many operands the loop has seen
    value,       \* what it has made of them
    answer,      \* what the last evaluation has returned
    earlier      \* and the one before the operands last changed places

loopVars == <<call, seen, value>>
vars == <<operands, loopVars, answer, earlier>>

Operation == {"SUM", "PRODUCT", "MEDIAN", "AVERAGE", "MIN", "MAX", "COUNT"}
NoAnswer == [operation |-> "none", num |-> 0, den |-> 1]

\* operator< of double.
Less(a, b) == a # NaN /\ b # NaN /\ a < b

\* The arithmetic of double, as far as NaN goes.
Plus(a, b) == IF NaN \in {a, b} THEN NaN ELSE a + b
Times(a, b) == IF NaN \in {a, b} THEN NaN ELSE a * b

\* Wrong variant: the arguments of std::min change places.
Smaller_Swapped(a, b) == IF Less(a, b) THEN a ELSE b

\* std::min(value, x) and std::max(value, x) keep `value' unless x compares
\* below it, or above it.
Smaller(a, b) == IF Less(b, a) THEN b ELSE a
Larger(a, b) == IF Less(a, b) THEN b ELSE a

Init ==
    /\ operands = << >>
    /\ call = "none" /\ seen = 0 /\ value = 0
    /\ answer = NoAnswer /\ earlier = NoAnswer

-----------------------------------------------------------------------------
(***************************************************************************)
(* The dependency vector.                                                  *)
(***************************************************************************)

Edit ==
    /\ call = "none"
    /\ answer' = NoAnswer
    /\ UNCHANGED loopVars

Insert(n) ==
    /\ Edit /\ Len(operands) < MaxOperands
    /\ operands' = Append(operands, n)
    /\ earlier' = NoAnswer

Erase(i) ==
    /\ Edit
    /\ operands' = RemoveAt(operands, i)
    /\ earlier' = NoAnswer

\* The same names are given in another order.
Reorder(places) ==
    /\ Edit /\ answer # NoAnswer
    /\ operands' = [i \in DOMAIN operands |-> operands[places[i]]]
    /\ earlier' = answer

-----------------------------------------------------------------------------
(***************************************************************************)
(* The formulas.                                                           *)
(***************************************************************************)

Answer(operation, num, den) ==
    /\ answer' = [operation |-> operation, num |-> num, den |-> den]
    /\ call' = "none" /\ seen' = 0 /\ value' = 0
    /\ UNCHANGED <<operands, earlier>>

AnswerEmpty(operation) ==
    /\ call = "none" /\ operands = << >>
    /\ operation \in {"MEDIAN", "AVERAGE", "MIN", "MAX"}
    /\ Answer(operation, 0, 1)

AnswerCount == call = "none" /\ Answer("COUNT", Len(operands), 1)

Places == Bijection(DOMAIN operands, DOMAIN operands)
Numbers == NaN \notin Range(operands)

\* Wrong variant: the copy is not sorted.
Sortings_Any == Places

\* What std::ranges::sort may make of a copy of the operands: with NaN among
\* them the order of double is no ordering, and any outcome is possible.
Sortings ==
    {places \in Places :
        Numbers => \A i, j \in DOMAIN operands :
                      i < j => operands[places[i]] <= operands[places[j]]}

AnswerMedian ==
    /\ call = "none" /\ operands # << >>
    /\ \E places \in Sortings :
          LET middle == Len(operands) \div 2
          IN  IF Len(operands) % 2 = 1
              THEN Answer("MEDIAN", operands[places[middle + 1]], 1)
              ELSE Answer("MEDIAN", Plus(operands[places[middle]], operands[places[middle + 1]]), 2)

Begin(operation, from, skip) ==
    /\ call = "none"
    /\ call' = operation /\ seen' = skip /\ value' = from
    /\ answer' = NoAnswer
    /\ UNCHANGED <<operands, earlier>>

BeginSum(operation) ==
    /\ operation = "SUM" \/ (operation = "AVERAGE" /\ operands # << >>)
    /\ Begin(operation, 0, 0)

BeginProduct == Begin("PRODUCT", 1, 0)

\* Wrong variant: the loop starts from zero, not from the first value.
BeginExtreme_FromZero(operation) ==
    /\ operation \in {"MIN", "MAX"} /\ operands # << >>
    /\ Begin(operation, 0, 0)

BeginExtreme(operation) ==
    /\ operation \in {"MIN", "MAX"} /\ operands # << >>
    /\ Begin(operation, operands[1], 1)

Combined(x) ==
    CASE call \in {"SUM", "AVERAGE"} -> Plus(value, x)
      [] call = "PRODUCT" -> Times(value, x)
      [] call = "MIN" -> Smaller(value, x)
      [] call = "MAX" -> Larger(value, x)

Accumulate ==
    /\ call # "none" /\ seen < Len(operands)
    /\ value' = Combined(operands[seen + 1])
    /\ seen' = seen + 1
    /\ UNCHANGED <<operands, call, answer, earlier>>

\* Wrong variant: the sum is divided by the number of values but one.
Return_Unbiased ==
    /\ call # "none" /\ seen = Len(operands)
    /\ Answer(call, value, IF call = "AVERAGE" /\ seen > 1 THEN seen - 1 ELSE 1)

Return ==
    /\ call # "none" /\ seen = Len(operands)
    /\ Answer(call, value, IF call = "AVERAGE" THEN Len(operands) ELSE 1)

Next ==
    \/ \E n \in Number \cup {NaN} : Insert(n)
    \/ \E i \in DOMAIN operands : Erase(i)
    \/ \E places \in Places : Reorder(places)
    \/ \E operation \in Operation :
          AnswerEmpty(operation) \/ BeginSum(operation) \/ BeginExtreme(operation)
    \/ AnswerCount \/ AnswerMedian \/ BeginProduct \/ Accumulate \/ Return

Spec == Init /\ [][Next]_vars

-----------------------------------------------------------------------------
Of(operations) == answer.operation \in operations /\ operands # << >>
AtMost(x) == x * answer.den <= answer.num
AtLeast(x) == answer.num <= x * answer.den

\* x is the k-th smallest of the operands.
IsKthSmallest(x, k) ==
    /\ \E i \in DOMAIN operands : operands[i] = x
    /\ Cardinality({i \in DOMAIN operands : operands[i] < x}) < k
    /\ Cardinality({i \in DOMAIN operands : operands[i] <= x}) >= k

\* MEDIAN, which the code finds by sorting a copy and indexing into it, is the
\* value with half of the others on either side, or half-way between the two
\* values in the middle; ties and vectors of one value included.
MedianSplits ==
    Of({"MEDIAN"}) /\ Numbers =>
        LET half == Len(operands) \div 2
        IN  \E x, y \in Number :
                /\ IsKthSmallest(x, IF Len(operands) % 2 = 1 THEN half + 1 ELSE half)
                /\ IsKthSmallest(y, half + 1)
                /\ 2 * answer.num = (x + y) * answer.den

\* The two means lie between operands, whatever the signs.
MeansWithinOperands ==
    Of({"MEDIAN", "AVERAGE"}) /\ Numbers =>
        \E i, j \in DOMAIN operands : AtMost(operands[i]) /\ AtLeast(operands[j])

\* With NaN among the operands, sum, product and average are NaN, but the
\* extremes notice it only in first place: a later NaN is skipped.
NaNInExtremes ==
    /\ Of({"SUM", "PRODUCT", "AVERAGE"}) /\ ~Numbers => answer.num = NaN
    /\ Of({"MIN", "MAX"}) => (answer.num = NaN <=> operands[1] = NaN)

\* An extreme that is a number is an operand, and no other is beyond it.
ExtremesBound ==
    Of({"MIN", "MAX"}) /\ answer.num # NaN =>
        /\ answer.num \in Range(operands)
        /\ \A x \in Range(operands) \ {NaN} :
              IF answer.operation = "MIN" THEN AtLeast(x) ELSE AtMost(x)

\* As long as every operand is a number, the order in which the vector lists
\* the dependencies, which depends on the history of edits, does not show in
\* the median and the extremes.  (In the sums it may: doubles are rounded.)
OrderInvisible ==
    Of({"MEDIAN", "MIN", "MAX"}) /\ Numbers /\ earlier.operation = answer.operation =>
        earlier = answer
=============================================================================
