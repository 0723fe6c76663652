----------------------------- MODULE SmallDouble -----------------------------
(***************************************************************************)
(* A number format small enough for TLC, standing for double: multiples of *)
(* one half up to Largest, rounding towards zero, overflow to infinity,    *)
(* and NaN.  A finite number is written as its count of halves.  What the  *)
(* formula language does with numbers depends on which of the special      *)
(* values it meets and on both of its evaluators using the same operator,  *)
(* not on how fine the format is.  The sign of zero is left out.           *)
(***************************************************************************)
EXTENDS Integers

CONSTANTS NaN, PlusInfinity, MinusInfinity,
          Largest               \* of the finite numbers, in halves (TLC: up to 8)

ASSUME FormatConstants == Largest \in Nat /\ Largest >= 2

Finite == -Largest .. Largest
Infinite == {PlusInfinity, MinusInfinity}
Number == Finite \cup Infinite \cup {NaN}
One == 2

Sign(x) == IF x = PlusInfinity THEN 1 ELSE IF x = MinusInfinity THEN -1
           ELSE IF x > 0 THEN 1 ELSE IF x < 0 THEN -1 ELSE 0
Magnitude(x) == IF x < 0 THEN -x ELSE x
Infinity(sign) == IF sign < 0 THEN MinusInfinity ELSE PlusInfinity

\* An exact count of halves, or a quotient of two, in the format.
Rounded(halves) ==
    IF Magnitude(halves) <= Largest THEN halves ELSE Infinity(Sign(halves))
RoundedQuotient(a, b) ==
    Rounded(Sign(a) * Sign(b) * (Magnitude(a) \div Magnitude(b)))

Negate(x) == IF x = NaN THEN NaN
             ELSE IF x \in Infinite THEN Infinity(-Sign(x)) ELSE -x

Plus(x, y) ==
    IF x = NaN \/ y = NaN THEN NaN
    ELSE IF {x, y} = Infinite THEN NaN
    ELSE IF x \in Infinite THEN x
    ELSE IF y \in Infinite THEN y
    ELSE Rounded(x + y)

Minus(x, y) == Plus(x, Negate(y))

Times(x, y) ==
    IF x = NaN \/ y = NaN THEN NaN
    ELSE IF x \in Infinite \/ y \in Infinite
         THEN IF Sign(x) * Sign(y) = 0 THEN NaN ELSE Infinity(Sign(x) * Sign(y))
    ELSE RoundedQuotient(x * y, 2)

DividedBy(x, y) ==
    IF x = NaN \/ y = NaN \/ (x \in Infinite /\ y \in Infinite) THEN NaN
    ELSE IF x \in Infinite THEN Infinity(IF Sign(y) < 0 THEN -Sign(x) ELSE Sign(x))
    ELSE IF y \in Infinite THEN 0
    ELSE IF y # 0 THEN RoundedQuotient(2 * x, y)
    ELSE IF x = 0 THEN NaN ELSE Infinity(Sign(x))

\* The k-th power of the square root of n halves, in halves, rounded.
HalfPower(n, k) ==
    LET fits(r) == IF k >= 0 THEN r ^ 2 * 2 ^ k <= 4 * n ^ k
                   ELSE r ^ 2 * n ^ (-k) <= 4 * 2 ^ (-k)
    IN  Rounded(CHOOSE r \in 0 .. Largest + 1 :
                    fits(r) /\ (r = Largest + 1 \/ ~fits(r + 1)))

\* std::pow.
Power(x, y) ==
    LET whole == y % 2 = 0
        odd == y % 4 = 2
    IN  IF y = 0 \/ x = One THEN One
        ELSE IF x = NaN \/ y = NaN THEN NaN
        ELSE IF y \in Infinite
             THEN IF x = -One THEN One
                  ELSE IF (x \in Infinite \/ Magnitude(x) > One) <=> (y = PlusInfinity)
                  THEN PlusInfinity ELSE 0
        ELSE IF x \in Infinite
             THEN IF y < 0 THEN 0 ELSE IF odd THEN x ELSE PlusInfinity
        ELSE IF x = 0 THEN IF y < 0 THEN PlusInfinity ELSE 0
        ELSE IF x < 0 /\ ~whole THEN NaN
        ELSE IF x < 0 /\ odd THEN Negate(HalfPower(-x, y))
        ELSE HalfPower(Magnitude(x), y)

\* The comparisons of doubles: NaN is neither equal to nor below anything.
Equal(x, y) == x # NaN /\ x = y
Below(x, y) ==
    /\ x # NaN /\ y # NaN /\ x # y
    /\ \/ x = MinusInfinity \/ y = PlusInfinity
       \/ x \in Finite /\ y \in Finite /\ x < y
=============================================================================
