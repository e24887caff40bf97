----------------------------- MODULE MCDistinct -----------------------------
(***************************************************************************)
(* Small instance of Distinct for TLC: two keys that collide under the    *)
(* hash (so hash_distinct must tell them apart inside one bucket), one     *)
(* value, and batch weights that include retractions and multiplicities.  *)
(***************************************************************************)
EXTENDS Distinct

CONSTANTS k1, k2, v1

MCKeys == {k1, k2}
MCVals == {v1}
MCInWeights == -2..2
MCHashRange == {0, 1}
\* Both keys fall into bucket 0.
MCHash == [k \in MCKeys |-> 0]
MCMaxSteps == 3
=============================================================================
