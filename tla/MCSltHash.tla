------------------------------ MODULE MCSltHash ------------------------------
(* Columns 2 and 10 order differently as numbers and as strings ("10" <  *)
(* "2"); two columns let rows differ in their last column only; weight   *)
(* -1 makes retractions and negative totals, weight 2 duplicates.  The   *)
(* vectors include the empty one and one whose tuples are out of order. *)
EXTENDS SltHash

MCWeights == {-1, 1, 2}

MCVecKeys == {<<>>, << <<10, 2>> >>, << <<10, 2>>, <<2, 10>> >>, << <<2, 2>>, <<2, 2>> >>}
====
