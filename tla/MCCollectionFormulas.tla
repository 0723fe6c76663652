------------------------ MODULE MCCollectionFormulas ------------------------
(* Vectors of up to four of two negative numbers, zero, a positive, and NaN. *)
EXTENDS CollectionFormulas

MCNumber == {-3, -1, 0, 2}
=============================================================================
