--------------------------- MODULE DistinctAbstract ---------------------------
(***************************************************************************)
(* What the incremental distinct operator promises, with no trace and no  *)
(* circuit: a relation `acc` grows by one batch at a time, and the view a  *)
(* consumer maintains from the operator's output is at every moment the   *)
(* set of elements of `acc` with positive weight, each with weight 1.      *)
(***************************************************************************)
EXTENDS Integers

CONSTANTS Elements, InWeights

VARIABLES acc, view

AbsZSet == [Elements -> Int]
AbsZero == [e \in Elements |-> 0]
Indicator(z) == [e \in Elements |-> IF z[e] > 0 THEN 1 ELSE 0]

AbsInit ==
    /\ acc = AbsZero
    /\ view = AbsZero

\* A batch is added to the relation and the view becomes its indicator.
AbsUpdate(b) ==
    /\ acc' = [e \in Elements |-> acc[e] + b[e]]
    /\ view' = Indicator(acc')

AbsNext == \E b \in [Elements -> InWeights] : AbsUpdate(b)

AbsSpec == AbsInit /\ [][AbsNext]_<<acc, view>>
=============================================================================
