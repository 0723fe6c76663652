---------------------------- MODULE MCStatKernel ----------------------------
(***************************************************************************)
(* Small sheets for TLC.  Numbers are 0 .. 2 and every formula and         *)
(* operation is a sum modulo 3, so a cached value that misses a change of  *)
(* one of its inputs is a wrong number.                                    *)
(***************************************************************************)
EXTENDS StatKernel

CONSTANTS NaN,         \* not a number: it equals nothing, and spoils every sum
          MinusZero    \* -0.0: it equals 0, and formulas (1/x) tell the two apart

\* A sum, with what distinguishes a formula from a plain sum of its operands.
Bias == [f \in Formula \cup Operation |-> IF f \in Formula THEN 1 ELSE 0]

MCApply(f, args) ==
    IF f = "COUNT" THEN Cardinality(DOMAIN args) % 3
    ELSE IF NaN \in Range(args) THEN NaN
    ELSE (SumFunction([n \in DOMAIN args |-> IF args[n] = MinusZero THEN 1 ELSE args[n]]) + Bias[f]) % 3

MCSameValue(a, b) == a # NaN /\ (a = b \/ {a, b} = {0, MinusZero})

MCNodeValue == 0 .. 2
MCNodeValueNaN == MCNodeValue \cup {NaN}
SpoiltInputs == {1, NaN}
MCNodeValueSigned == MCNodeValue \cup {MinusZero}
SignedInputs == {0, 1, MinusZero}

\* Three names, one of each type.  The texts read other nodes, none, each
\* other's nodes (cycles), the node itself, and a name nobody created.
ThreeNodes == {"v", "f", "c"}
ThreeNaming == [v |-> {"Value"}, f |-> {"Formula"}, c |-> {"Collection"}]
ThreeRefs == [f \in {"v", "v+c", "f"} |->
                 CASE f = "v" -> <<"v">> [] f = "v+c" -> <<"c", "v">> [] f = "f" -> <<"f">>]
ThreeLists == {<< >>, <<"f">>, <<"v", "f">>, <<"v", "v">>}

\* Four names: a diamond (v read by f and g, both read by h or c), chains, and
\* formulas that move between them.  One text is accepted and cannot be
\* evaluated.
FourNodes == {"v", "f", "g", "c"}
FourNaming == [v |-> {"Value"}, f |-> {"Formula"}, g |-> {"Formula"}, c |-> {"Collection"}]
FourRefs == [t \in {"v", "f+v", "foo(v)"} |->
                CASE t = "v" -> <<"v">> [] t = "f+v" -> <<"f", "v">> [] t = "foo(v)" -> <<"v">>]
FourLists == {<<"g">>, <<"f", "g">>}
=============================================================================
