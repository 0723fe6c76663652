------------------------------ MODULE MCWorkLists ------------------------------
(* All settled graphs over a value, two formulas and a collection, and over   *)
(* three of these when the fourth name is free.                               *)
EXTENDS WorkLists

FourNames == {"v", "f", "g", "c"}
FullTyping == [v |-> "Value", f |-> "Formula", g |-> "Formula", c |-> "Collection"]
FourTypings == {FullTyping, [FullTyping EXCEPT !["c"] = Absent]}
=============================================================================
