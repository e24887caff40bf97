---------------------------- MODULE DistinctProofs ----------------------------
(***************************************************************************)
(* Proofs about the circuit of Distinct, for every set of keys, values,   *)
(* weights and hash functions and every step bound:                       *)
(*                                                                         *)
(*   TypeCorrect        Spec => []TypeOK                                   *)
(*   InvariantHolds     Spec => []IInv, the inductive invariant            *)
(*   IncrementalCorrect Spec => []IncrementalEqualsFromScratch             *)
(*   Refinement         Spec => DistinctRefinement                         *)
(*   HashInvariantHolds Spec => []HIInv, used by PipelineProofs           *)
(*                                                                         *)
(* The argument: distinct's trace is the sum of the input of the steps it  *)
(* has run in (TraceInStepOrder), and the view built from its output is   *)
(* the indicator of that trace (ViewIsIndicator).  Its invocation keeps    *)
(* the second because sign(t) + (sign(t + b) - sign(t)) = sign(t + b).     *)
(* HIInv adds that each operator, once it has run in a step, has          *)
(* published the delta of the step's input against the earlier input     *)
(* (OutputIsStepDelta), which the pipeline proofs use for distinct.       *)
(***************************************************************************)
EXTENDS Distinct, TLAPS

USE WeightsAssumption, StepsAssumption

\* A consolidated batch is a Z-set.
LEMMA BatchIsZSet == ASSUME NEW b \in Batches PROVE b \in ZSet
BY DEF Batches, ZSet

\* Adding a batch's delta of distinct to the indicator of the old trace
\* gives the indicator of the new trace.
LEMMA DeltaAddsUp ==
    ASSUME NEW t \in ZSet, NEW b \in ZSet
    PROVE  Plus(StreamDistinct(t), DistinctDelta(t, b)) = StreamDistinct(Plus(t, b))
BY DEF Plus, StreamDistinct, DistinctDelta, Sign, ZSet

LEMMA PlusType ==
    ASSUME NEW a \in ZSet, NEW b \in ZSet
    PROVE  Plus(a, b) \in ZSet
BY DEF Plus, ZSet

-----------------------------------------------------------------------------
\* Init establishes the inductive invariant.
LEMMA InitIInv == Init => IInv
<1> SUFFICES ASSUME Init PROVE IInv
  OBVIOUS
<1>1. Zero \in Batches
  BY DEF Zero, Batches
<1>2. TypeOK
  BY <1>1, BatchIsZSet DEF Init, TypeOK, HashTrace, ZSet, Zero, Ops
<1>3. TraceInStepOrder
  BY DEF Init, TraceInStepOrder, Plus, Zero
<1>4. ViewIsIndicator
  BY DEF Init, ViewIsIndicator, DistinctView, StreamDistinct, Sign, Zero, Ops
<1>5. IdleQuiet /\ StepOpen
  BY DEF Init, IdleQuiet, StepOpen
<1> QED  BY <1>2, <1>3, <1>4, <1>5 DEF IInv

\* Every step of Next, and every stuttering step, preserves IInv.
LEMMA NextIInv == IInv /\ [Next]_vars => IInv'
<1> SUFFICES ASSUME IInv, [Next]_vars PROVE IInv'
  OBVIOUS
<1> USE DEF IInv, Ops
<1>1. ASSUME NEW b \in Batches, Push(b) PROVE IInv'
  <2>1. pending = {} /\ trace = inputSum /\ outInt["distinct"] = StreamDistinct(trace)
    BY <1>1 DEF Push, IdleQuiet, TraceInStepOrder, ViewIsIndicator, DistinctView
  <2>2. TypeOK'
    BY <1>1, BatchIsZSet, PlusType DEF Push, TypeOK
  <2>3. TraceInStepOrder'
    BY <1>1, <2>1, BatchIsZSet DEF Push, TraceInStepOrder, Plus, TypeOK, ZSet
  <2>4. ViewIsIndicator'
    BY <1>1, <2>1 DEF Push, ViewIsIndicator, DistinctView
  <2>5. IdleQuiet' /\ StepOpen'
    BY <1>1 DEF Push, IdleQuiet, StepOpen
  <2> QED  BY <2>2, <2>3, <2>4, <2>5
<1>2. CASE EvalStreamDistinct
  <2>1. TypeOK'
    BY <1>2 DEF EvalStreamDistinct, TypeOK, StreamDistinct, ZSet, Sign
  <2>2. ("distinct" \in pending') = ("distinct" \in pending)
    BY <1>2 DEF EvalStreamDistinct
  <2>3. TraceInStepOrder'
    BY <1>2, <2>2 DEF EvalStreamDistinct, TraceInStepOrder
  <2>4. ViewIsIndicator'
    BY <1>2, <2>2 DEF EvalStreamDistinct, ViewIsIndicator, DistinctView
  <2>5. IdleQuiet' /\ StepOpen'
    BY <1>2 DEF EvalStreamDistinct, IdleQuiet, StepOpen
  <2> QED  BY <2>1, <2>3, <2>4, <2>5
<1>3. CASE EvalDistinct
  <2>1. trace \in ZSet /\ input \in ZSet /\ outInt["distinct"] \in ZSet
    BY BatchIsZSet DEF TypeOK
  <2>2. TypeOK'
    <3>1. DistinctDelta(trace, input) \in ZSet
      BY <2>1 DEF DistinctDelta, ZSet, Sign
    <3> QED  BY <1>3, <2>1, <3>1, PlusType DEF EvalDistinct, TypeOK
  <2>3. trace = Plus(inputSum, [e \in Elems |-> -input[e]])
    BY <1>3 DEF EvalDistinct, TraceInStepOrder
  <2>4. TraceInStepOrder'
    BY <1>3, <2>1, <2>3 DEF EvalDistinct, TraceInStepOrder, Plus, TypeOK, ZSet
  <2>5. outInt["distinct"] = StreamDistinct(trace)
    BY <1>3 DEF EvalDistinct, ViewIsIndicator, DistinctView
  <2>6. DistinctView' = Plus(outInt["distinct"], DistinctDelta(trace, input))
    BY <1>3 DEF EvalDistinct, DistinctView, TypeOK
  <2>7. ViewIsIndicator'
    BY <1>3, <2>1, <2>5, <2>6, DeltaAddsUp DEF EvalDistinct, ViewIsIndicator
  <2>8. IdleQuiet' /\ StepOpen'
    BY <1>3 DEF EvalDistinct, IdleQuiet, StepOpen
  <2> QED  BY <2>2, <2>4, <2>7, <2>8
<1>4. CASE EvalHashDistinct
  <2>1. TypeOK'
    <3>1. HashDistinctDelta(htrace, input) \in ZSet
      BY HashAssumption DEF HashDistinctDelta, ZSet, Sign, TypeOK, HashTrace, Bucket, Elems
    <3>2. HashInsert(htrace, input) \in HashTrace
      BY BatchIsZSet DEF HashInsert, HashTrace, ZSet, TypeOK
    <3> QED  BY <1>4, <3>1, <3>2 DEF EvalHashDistinct, TypeOK
  <2>2. ("distinct" \in pending') = ("distinct" \in pending)
    BY <1>4 DEF EvalHashDistinct
  <2>3. TraceInStepOrder'
    BY <1>4, <2>2 DEF EvalHashDistinct, TraceInStepOrder
  <2>4. ViewIsIndicator'
    BY <1>4, <2>2 DEF EvalHashDistinct, ViewIsIndicator, DistinctView
  <2>5. IdleQuiet' /\ StepOpen'
    BY <1>4 DEF EvalHashDistinct, IdleQuiet, StepOpen
  <2> QED  BY <2>1, <2>3, <2>4, <2>5
<1>5. CASE EndStep
  <2>1. TypeOK'
    BY <1>5, PlusType DEF EndStep, TypeOK, StepOpen
  <2>2. TraceInStepOrder'
    BY <1>5 DEF EndStep, TraceInStepOrder
  <2>3. DistinctView' = DistinctView
    BY <1>5 DEF EndStep, DistinctView, TypeOK
  <2>4. ViewIsIndicator'
    BY <1>5, <2>3 DEF EndStep, ViewIsIndicator
  <2>5. IdleQuiet' /\ StepOpen'
    BY <1>5 DEF EndStep, IdleQuiet, StepOpen
  <2> QED  BY <2>1, <2>2, <2>4, <2>5
<1>6. CASE UNCHANGED vars
  BY <1>6 DEF vars, TypeOK, TraceInStepOrder, ViewIsIndicator, DistinctView, IdleQuiet,
         StepOpen
<1> QED  BY <1>1, <1>2, <1>3, <1>4, <1>5, <1>6 DEF Next

\* The inductive invariant holds in every reachable state of the circuit.
THEOREM InvariantHolds == Spec => []IInv
BY InitIInv, NextIInv, PTL DEF Spec

\* Every reachable state has the types of TypeOK.
THEOREM TypeCorrect == Spec => []TypeOK
BY InvariantHolds, PTL DEF IInv

\* The core correctness of incremental distinct, for every instance: at
\* every step boundary the accumulated output of distinct equals
\* stream_distinct of the accumulated input.
THEOREM IncrementalCorrect == Spec => []IncrementalEqualsFromScratch
<1>1. IInv => IncrementalEqualsFromScratch
  BY DEF IInv, IdleQuiet, TraceInStepOrder, ViewIsIndicator, DistinctView,
         IncrementalEqualsFromScratch
<1> QED  BY <1>1, InvariantHolds, PTL

\* The circuit implements the abstract distinct operator: its initial
\* state maps to the abstract initial state, the invocation of distinct
\* maps to the abstract update with the step's input, and every other
\* step leaves the trace and the view unchanged.
THEOREM Refinement == Spec => DistinctRefinement
<1>1. Init => Abs!AbsInit
  BY DEF Init, Abs!AbsInit, Abs!AbsZero, DistinctView, Zero, Ops
<1>2. ASSUME IInv, IInv', [Next]_vars
      PROVE  [Abs!AbsNext]_<<trace, DistinctView>>
  <2>1. CASE EvalDistinct
    <3>1. input \in [Elems -> InWeights]
      BY <1>2 DEF IInv, TypeOK, Batches
    <3>2. trace' = [e \in Elems |-> trace[e] + input[e]]
      BY <2>1 DEF EvalDistinct, Plus
    <3>3. DistinctView' = Abs!Indicator(trace')
      BY <1>2 DEF IInv, ViewIsIndicator, StreamDistinct, Sign, Abs!Indicator
    <3> QED  BY <3>1, <3>2, <3>3 DEF Abs!AbsNext, Abs!AbsUpdate
  <2>2. CASE ~EvalDistinct
    <3>1. UNCHANGED trace
      BY <1>2, <2>2 DEF Next, Push, EvalStreamDistinct, EvalHashDistinct, EndStep, vars
    <3>2. UNCHANGED DistinctView
      <4>1. CASE \E b \in Batches : Push(b)
        BY <1>2, <4>1 DEF Push, DistinctView, IInv, IdleQuiet, Ops
      <4>2. CASE EvalStreamDistinct \/ EvalHashDistinct
        <5>1. out'["distinct"] = out["distinct"]
          BY <1>2, <4>2 DEF EvalStreamDistinct, EvalHashDistinct, IInv, TypeOK, Ops
        <5>2. ("distinct" \in pending') = ("distinct" \in pending)
          BY <4>2 DEF EvalStreamDistinct, EvalHashDistinct
        <5> QED  BY <4>2, <5>1, <5>2 DEF EvalStreamDistinct, EvalHashDistinct, DistinctView
      <4>3. CASE EndStep
        BY <1>2, <4>3 DEF EndStep, DistinctView, IInv, TypeOK, Ops
      <4>4. CASE UNCHANGED vars
        BY <4>4 DEF vars, DistinctView
      <4> QED  BY <1>2, <2>2, <4>1, <4>2, <4>3, <4>4 DEF Next
    <3> QED  BY <3>1, <3>2
  <2> QED  BY <2>1, <2>2
<1> QED  BY <1>1, <1>2, InvariantHolds, PTL DEF Spec, DistinctRefinement, Abs!AbsSpec

-----------------------------------------------------------------------------
\* Every element's key hashes into the range of hash_distinct's trace.
LEMMA BucketInRange == ASSUME NEW e \in Elems PROVE Bucket(e) \in HashRange
BY HashAssumption DEF Bucket, Elems

\* Init establishes the strengthened invariant.
LEMMA InitHIInv == Init => HIInv
<1> SUFFICES ASSUME Init PROVE HIInv
  OBVIOUS
<1>1. IInv
  BY InitIInv
<1>2. HashTraceInStepOrder
  BY BucketInRange DEF Init, HashTraceInStepOrder, Zero
<1>3. OutputIsStepDelta
  BY DEF Init, OutputIsStepDelta, DistinctDelta, Zero, Ops
<1> QED  BY <1>1, <1>2, <1>3 DEF HIInv

\* Every step of Next, and every stuttering step, preserves HIInv.
LEMMA NextHIInv == HIInv /\ [Next]_vars => HIInv'
<1> SUFFICES ASSUME HIInv, [Next]_vars PROVE HIInv'
  OBVIOUS
<1>0. IInv /\ TypeOK /\ IInv'
  BY NextIInv DEF HIInv, IInv
<1> USE DEF HIInv
<1>1. ASSUME NEW b \in Batches, Push(b) PROVE HIInv'
  <2>1. pending = {}
    BY <1>0, <1>1 DEF Push, IInv, IdleQuiet
  <2>2. \A e \in Elems : EarlierInput'[e] = inputSum[e]
    <3>1. EarlierInput' = Plus(Plus(inputSum, b), [e \in Elems |-> -b[e]])
      BY <1>1 DEF Push, EarlierInput
    <3>2. inputSum \in ZSet /\ b \in ZSet
      BY <1>0, BatchIsZSet DEF TypeOK
    <3> QED  BY <3>1, <3>2 DEF Plus, ZSet
  <2>3. HashTraceInStepOrder'
    BY <1>1, <2>1, <2>2 DEF Push, HashTraceInStepOrder, Ops
  <2>4. OutputIsStepDelta'
    BY <1>1 DEF Push, OutputIsStepDelta, Ops
  <2> QED  BY <1>0, <2>3, <2>4
<1>2. CASE EvalStreamDistinct
  <2>1. \A op \in {"distinct", "hash_distinct"} :
           /\ (op \in pending') = (op \in pending)
           /\ out'[op] = out[op]
    BY <1>0, <1>2 DEF EvalStreamDistinct, TypeOK, Ops
  <2> QED  BY <1>0, <1>2, <2>1 DEF EvalStreamDistinct, HashTraceInStepOrder,
                                   OutputIsStepDelta, EarlierInput
<1>3. CASE EvalDistinct
  <2>1. trace = EarlierInput
    BY <1>0, <1>3 DEF EvalDistinct, IInv, TraceInStepOrder, EarlierInput
  <2>2. /\ ("hash_distinct" \in pending') = ("hash_distinct" \in pending)
        /\ out'["hash_distinct"] = out["hash_distinct"]
        /\ out'["distinct"] = DistinctDelta(EarlierInput, input)
    BY <1>0, <1>3, <2>1 DEF EvalDistinct, TypeOK, Ops
  <2>3. HashTraceInStepOrder'
    BY <1>3, <2>2 DEF EvalDistinct, HashTraceInStepOrder, EarlierInput
  <2>4. OutputIsStepDelta'
    BY <1>3, <2>2 DEF EvalDistinct, OutputIsStepDelta, EarlierInput
  <2> QED  BY <1>0, <2>3, <2>4
<1>4. CASE EvalHashDistinct
  <2>1. \A e \in Elems : htrace[Bucket(e)][e] = EarlierInput[e]
    BY <1>4 DEF EvalHashDistinct, HashTraceInStepOrder
  <2>2. HashDistinctDelta(htrace, input) = DistinctDelta(EarlierInput, input)
    BY <2>1 DEF HashDistinctDelta, DistinctDelta
  <2>3. /\ ("distinct" \in pending') = ("distinct" \in pending)
        /\ out'["distinct"] = out["distinct"]
        /\ out'["hash_distinct"] = DistinctDelta(EarlierInput, input)
    BY <1>0, <1>4, <2>2 DEF EvalHashDistinct, TypeOK, Ops
  <2>4. OutputIsStepDelta'
    BY <1>4, <2>3 DEF EvalHashDistinct, OutputIsStepDelta, EarlierInput
  <2>5. ASSUME NEW e \in Elems PROVE htrace'[Bucket(e)][e] = inputSum'[e]
    <3>1. Bucket(e) \in HashRange
      BY BucketInRange
    <3>2. htrace'[Bucket(e)][e] = htrace[Bucket(e)][e] + input[e]
      BY <1>4, <3>1 DEF EvalHashDistinct, HashInsert
    <3>3. EarlierInput[e] = inputSum[e] - input[e]
      BY DEF EarlierInput, Plus
    <3>4. inputSum[e] \in Int /\ input[e] \in Int
      BY <1>0 DEF TypeOK, ZSet, Batches, WeightsAssumption
    <3> QED  BY <1>4, <2>1, <3>2, <3>3, <3>4 DEF EvalHashDistinct
  <2>6. HashTraceInStepOrder'
    BY <1>4, <2>5 DEF EvalHashDistinct, HashTraceInStepOrder
  <2> QED  BY <1>0, <2>4, <2>6
<1>5. CASE EndStep
  BY <1>0, <1>5 DEF EndStep, HashTraceInStepOrder, OutputIsStepDelta, EarlierInput
<1>6. CASE UNCHANGED vars
  BY <1>0, <1>6 DEF vars, HashTraceInStepOrder, OutputIsStepDelta, EarlierInput
<1> QED  BY <1>1, <1>2, <1>3, <1>4, <1>5, <1>6 DEF Next

\* The strengthened invariant holds in every reachable state.
THEOREM HashInvariantHolds == Spec => []HIInv
BY InitHIInv, NextHIInv, PTL DEF Spec
=============================================================================
