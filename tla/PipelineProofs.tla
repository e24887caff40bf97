---------------------------- MODULE PipelineProofs ----------------------------
(***************************************************************************)
(* Proofs about Pipeline, the DISTINCT view written by the Parquet        *)
(* encoder, for every set of keys, values, input weights, hash function,  *)
(* cursor order, step bound and encoder setting:                          *)
(*                                                                         *)
(*   PipelineInvariantHolds  Spec => []PIInv                               *)
(*   PipelineTypeCorrect     Spec => []TypeOK                              *)
(*   NoPanicWithoutDeletion  Spec => []PanicsOnlyOnDeletion                *)
(*                                                                         *)
(* The argument: the two components' own inductive invariants, proved in  *)
(* DistinctProofs and ParquetEncoderProofs, carry over because every step *)
(* of the pipeline is a step or a stutter of each component.  Until a row *)
(* is deleted, distinct publishes the delta of the step's input against   *)
(* the earlier input, which has no -1 since no row's cumulative weight    *)
(* went from positive to non-positive; so the queue, and the cursor built *)
(* from its head, only carry weight 1, and Retraction is never enabled.   *)
(***************************************************************************)
EXTENDS Pipeline, TLAPS

DP == INSTANCE DistinctProofs
EP == INSTANCE ParquetEncoderProofs WITH KeyOrder <- ElemOrder, Weights <- {-1, 1},
                                         MaxCalls <- MaxSteps



-----------------------------------------------------------------------------
\* The rows of the view are the keys the encoder's cursor order lists.
LEMMA ElemKeys == E!Keys = D!Elems
BY ElemOrderAssumption DEF E!Keys, D!Elems

\* Pipeline's assumptions give the encoder's, under the substitution of E.
LEMMA EncoderConstants ==
    /\ DOMAIN ElemOrder = 1..Len(ElemOrder)
    /\ Len(ElemOrder) > 0
    /\ \A i, j \in 1..Len(ElemOrder) : ElemOrder[i] = ElemOrder[j] => i = j
    /\ {-1, 1} \subseteq Int \ {0}
    /\ MaxDuplicates \in Nat
    /\ BufferSizeRecords \in Nat
    /\ MaxSteps \in Nat
    /\ MaxBufferSize \in Nat
    /\ RecordBytes \in [E!Keys -> Nat \ {0}]
<1>1. DOMAIN ElemOrder = 1..Len(ElemOrder)
  BY ElemOrderAssumption, EP!SeqDef
<1>2. MaxSteps \in Nat
  BY PipelineCircuitAssumption
<1> QED  BY <1>1, <1>2, ElemKeys, ElemOrderAssumption, PipelineEncoderAssumption DEF D!Elems

\* The assumptions DistinctProofs rests on hold for DP.
LEMMA CircuitAssumptionsHold ==
    DP!HashAssumption /\ DP!WeightsAssumption /\ DP!StepsAssumption
BY PipelineCircuitAssumption

\* The circuit's definitions seen through Pipeline's instance D are those
\* of DistinctProofs' instance DP: the two expand to the same formulas.
LEMMA DistinctBridge ==
    /\ D!Init <=> DP!Init
    /\ D!HIInv <=> DP!HIInv
    /\ D!HIInv' <=> DP!HIInv'
    /\ [D!Next]_(D!vars) <=> [DP!Next]_(DP!vars)
BY DEF D!Elems, D!Ops, D!ZSet, D!Batches, D!Zero, D!Plus, D!Sign,
       D!StreamDistinct, D!DistinctDelta, D!HashTrace, D!Bucket,
       D!HashDistinctDelta, D!HashInsert, D!vars, D!TypeOK, D!Init, D!Push,
       D!EvalStreamDistinct, D!EvalDistinct, D!EvalHashDistinct, D!EndStep,
       D!Next, D!TraceInStepOrder, D!DistinctView, D!ViewIsIndicator,
       D!IdleQuiet, D!StepOpen, D!IInv, D!EarlierInput,
       D!HashTraceInStepOrder, D!OutputIsStepDelta, D!HIInv,
       DP!Elems, DP!Ops, DP!ZSet, DP!Batches, DP!Zero, DP!Plus, DP!Sign,
       DP!StreamDistinct, DP!DistinctDelta, DP!HashTrace, DP!Bucket,
       DP!HashDistinctDelta, DP!HashInsert, DP!vars, DP!TypeOK, DP!Init,
       DP!Push, DP!EvalStreamDistinct, DP!EvalDistinct, DP!EvalHashDistinct,
       DP!EndStep, DP!Next, DP!TraceInStepOrder, DP!DistinctView,
       DP!ViewIsIndicator, DP!IdleQuiet, DP!StepOpen, DP!IInv,
       DP!EarlierInput, DP!HashTraceInStepOrder, DP!OutputIsStepDelta,
       DP!HIInv

\* The same for the encoder's instance E and ParquetEncoderProofs' EP.
LEMMA EncoderBridge ==
    /\ E!Init <=> EP!Init
    /\ E!IInv <=> EP!IInv
    /\ E!IInv' <=> EP!IInv'
    /\ [E!Next]_(E!vars) <=> [EP!Next]_(EP!vars)
BY DEF E!Keys, E!Entry, E!KeyPos, E!Batches, E!Buffer, E!vars, E!TypeOK,
       E!Init, E!Start, E!KeyValid, E!Cur, E!SkipKey, E!InRange,
       E!WeightTooLarge, E!Retraction, E!LoadWeight, E!BufferLen,
       E!BufferFull, E!EmitRecord, E!EmitAndFlush, E!EmitFails, E!NextKey,
       E!FinishFlush, E!FinishFails, E!FinishEmpty, E!Next,
       E!PushedBuffersCounted, E!IInv,
       EP!Keys, EP!Entry, EP!KeyPos, EP!Batches, EP!Buffer, EP!vars,
       EP!TypeOK, EP!Init, EP!Start, EP!KeyValid, EP!Cur, EP!SkipKey,
       EP!InRange, EP!WeightTooLarge, EP!Retraction, EP!LoadWeight,
       EP!BufferLen, EP!BufferFull, EP!EmitRecord, EP!EmitAndFlush,
       EP!EmitFails, EP!NextKey, EP!FinishFlush, EP!FinishFails,
       EP!FinishEmpty, EP!Next,
       EP!PushedBuffersCounted, EP!IInv

\* So the assumptions ParquetEncoderProofs rests on hold for EP.
LEMMA EncoderAssumptionsHold ==
    /\ EP!KeyOrderAssumption /\ EP!WeightsAssumption /\ EP!MaxDuplicatesAssumption
    /\ EP!BufferSizeAssumption /\ EP!CallsAssumption /\ EP!BufferBytesAssumption
    /\ EP!RecordBytesAssumption
BY EncoderConstants DEF EP!Keys, E!Keys

\* Each step of the pipeline is a step or a stutter of the circuit, which
\* preserves the circuit's inductive invariant (DistinctProofs).
LEMMA DistinctStep == D!HIInv /\ [D!Next]_(D!vars) => D!HIInv'
BY CircuitAssumptionsHold, DistinctBridge, DP!NextHIInv

\* The same for the encoder (ParquetEncoderProofs).
LEMMA EncoderStep == E!IInv /\ [E!Next]_(E!vars) => E!IInv'
BY EncoderAssumptionsHold, EncoderBridge, EP!EncoderNextIInv

\* Until a row is deleted, the delta distinct publishes for a step has
\* weights 0 and 1 only.
LEMMA UnitDelta ==
    ASSUME D!TypeOK, NoRowDeletedYet
    PROVE  UnitBatch(D!DistinctDelta(D!EarlierInput, input))
<1> SUFFICES ASSUME NEW e \in D!Elems
             PROVE  D!DistinctDelta(D!EarlierInput, input)[e] \in {0, 1}
  BY DEF UnitBatch
<1>1. input[e] \in Int /\ inputSum[e] \in Int
  BY PipelineCircuitAssumption DEF D!TypeOK, D!Batches, D!ZSet
<1>2. D!EarlierInput[e] = inputSum[e] - input[e]
  BY DEF D!EarlierInput, D!Plus
<1>3. D!EarlierInput[e] > 0 => inputSum[e] > 0
  BY DEF NoRowDeletedYet
<1> QED  BY <1>1, <1>2, <1>3 DEF D!DistinctDelta, D!Sign

-----------------------------------------------------------------------------
\* Init establishes the inductive invariant.
LEMMA PipelineInitIInv == Init => PIInv
<1> SUFFICES ASSUME Init PROVE PIInv
  OBVIOUS
<1>1. D!HIInv
  BY CircuitAssumptionsHold, DistinctBridge, DP!InitHIInv DEF Init
<1>2. E!IInv
  BY EncoderAssumptionsHold, EncoderBridge, EP!EncoderInitIInv DEF Init
<1>3. TypeOK
  <2>1. queue \in Seq(D!ZSet)
    BY EP!EmptySeq DEF Init
  <2> QED  BY <1>1, <1>2, <2>1 DEF TypeOK, D!HIInv, D!IInv, E!IInv, Init
<1>4. NoRowDeletedYet
  BY DEF Init, D!Init, NoRowDeletedYet, D!EarlierInput, D!Plus, D!Zero
<1> QED  BY <1>1, <1>2, <1>3, <1>4
         DEF PIInv, InsertOnly, PanicsOnlyOnDeletion, Init, E!Init

\* Every step of Next, and every stuttering step, preserves PIInv.
LEMMA PipelineNextIInv == PIInv /\ [Next]_vars => PIInv'
<1> SUFFICES ASSUME PIInv, [Next]_vars PROVE PIInv'
  OBVIOUS
<1>0. /\ D!HIInv /\ E!IInv /\ InsertOnly /\ PanicsOnlyOnDeletion
      /\ D!TypeOK /\ E!TypeOK /\ queue \in Seq(D!ZSet) /\ deleted \in BOOLEAN
      /\ failed \in BOOLEAN
  BY DEF PIInv, TypeOK
<1>1. D!HIInv'
  <2>1. [D!Next]_(D!vars)
    BY DEF Next, InputStep, OperatorStep, CommitStep, EncodeStart, EncodeStep,
           EncodeFails, D!Next, D!vars, dvars, vars
  <2> QED  BY <1>0, <2>1, DistinctStep
<1>2. E!IInv'
  <2>1. [E!Next]_(E!vars)
    BY DEF Next, InputStep, OperatorStep, CommitStep, EncodeStart, EncodeStep,
           EncodeFails, E!Next, E!vars, evars, vars
  <2> QED  BY <1>0, <2>1, EncoderStep
<1>3. queue' \in Seq(D!ZSet) /\ deleted' \in BOOLEAN /\ failed' \in BOOLEAN
  <2>1. CASE CommitStep
    <3>1. out["distinct"] \in D!ZSet
      BY <1>0 DEF D!TypeOK, D!Ops
    <3> QED  BY <1>0, <2>1, <3>1, EP!AppendProperties DEF CommitStep
  <2>2. CASE EncodeStart
    BY <1>0, <2>2, EP!HeadTailProperties DEF EncodeStart
  <2>3. CASE ~CommitStep /\ ~EncodeStart
    BY <1>0, <2>3 DEF Next, InputStep, OperatorStep, EncodeStep, EncodeFails, vars
  <2> QED  BY <2>1, <2>2, <2>3
<1>4. TypeOK'
  BY <1>1, <1>2, <1>3 DEF TypeOK, D!HIInv, D!IInv, E!IInv
<1>5. ~deleted' => ~deleted
  BY DEF Next, InputStep, OperatorStep, CommitStep, EncodeStart, EncodeStep, EncodeFails,
         vars
<1>6. InsertOnly'
  <2> SUFFICES ASSUME ~deleted'
               PROVE  /\ NoRowDeletedYet'
                      /\ \A i \in 1..Len(queue') : UnitBatch(queue'[i])
                      /\ \A i \in 1..Len(batch') : batch'[i].w = 1
    BY DEF InsertOnly
  <2>0. /\ NoRowDeletedYet
        /\ \A i \in 1..Len(queue) : UnitBatch(queue[i])
        /\ \A i \in 1..Len(batch) : batch[i].w = 1
    BY <1>0, <1>5 DEF InsertOnly
  <2>1. ASSUME NEW b \in D!Batches, InputStep(b) PROVE InsertOnly'
    <3>1. ~DeletesRow(b)
      BY <2>1 DEF InputStep
    <3>2. b \in D!ZSet /\ inputSum \in D!ZSet
      BY <1>0, PipelineCircuitAssumption DEF D!TypeOK, D!Batches, D!ZSet
    <3>3. \A e \in D!Elems : D!EarlierInput'[e] = inputSum[e]
                             /\ inputSum'[e] = inputSum[e] + b[e]
      BY <2>1, <3>2 DEF InputStep, D!Push, D!EarlierInput, D!Plus, D!ZSet
    <3>4. NoRowDeletedYet'
      BY <3>1, <3>2, <3>3 DEF NoRowDeletedYet, DeletesRow, D!ZSet
    <3> QED  BY <2>0, <2>1, <3>4 DEF InputStep, evars, InsertOnly
  <2>2. CASE OperatorStep
    <3>1. UNCHANGED <<input, inputSum>>
      BY <2>2 DEF OperatorStep, D!EvalStreamDistinct, D!EvalDistinct, D!EvalHashDistinct
    <3> QED  BY <2>0, <2>2, <3>1 DEF OperatorStep, evars, InsertOnly, NoRowDeletedYet,
                                     D!EarlierInput
  <2>3. CASE CommitStep
    <3>1. out["distinct"] = D!DistinctDelta(D!EarlierInput, input)
      BY <1>0, <2>3 DEF CommitStep, D!EndStep, D!HIInv, D!OutputIsStepDelta
    <3>2. UnitBatch(out["distinct"])
      BY <1>0, <2>0, <3>1, UnitDelta
    <3>3. \A i \in 1..Len(queue') : UnitBatch(queue'[i])
      BY <1>0, <2>0, <2>3, <3>2, EP!AppendProperties DEF CommitStep
    <3>4. UNCHANGED <<input, inputSum>>
      BY <2>3 DEF CommitStep, D!EndStep
    <3> QED  BY <2>0, <2>3, <3>3, <3>4 DEF CommitStep, evars, InsertOnly,
                                           NoRowDeletedYet, D!EarlierInput
  <2>4. CASE EncodeStart
    <3>1. PICK c \in E!Batches : IsCursorOf(c, Head(queue)) /\ E!Start(c)
      BY <2>4 DEF EncodeStart
    <3>2. queue # <<>> /\ queue' = Tail(queue)
      BY <2>4 DEF EncodeStart
    <3>3. \A i \in 1..Len(queue') : UnitBatch(queue'[i])
      BY <1>0, <2>0, <3>2, EP!HeadTailProperties
    <3>4. UnitBatch(Head(queue))
      <4>1. Head(queue) = queue[1] /\ Len(queue) >= 1
        BY <1>0, <3>2, EP!LenProperties, EP!EmptySeq
      <4> QED  BY <2>0, <4>1
    <3>5. PICK n \in 0..Len(ElemOrder) : c \in [1..n -> E!Entry]
      BY <3>1 DEF E!Batches
    <3>6. batch' = c /\ Len(c) = n
      BY <3>1, <3>5 DEF E!Start
    <3>7. ASSUME NEW i \in 1..Len(c) PROVE c[i].w = 1
      <4>1. c[i].key \in {e \in D!Elems : Head(queue)[e] # 0}
        BY <3>1, <3>5, <3>6 DEF IsCursorOf
      <4>2. Head(queue)[c[i].key] \in {0, 1}
        BY <3>4, <4>1 DEF UnitBatch
      <4> QED  BY <3>1, <3>5, <3>6, <4>1, <4>2 DEF IsCursorOf
    <3> QED  BY <2>0, <2>4, <3>3, <3>6, <3>7 DEF EncodeStart, dvars, InsertOnly,
                                                 NoRowDeletedYet, D!EarlierInput
  <2>5. CASE EncodeStep
    <3>1. UNCHANGED batch
      BY <2>5 DEF EncodeStep, E!Retraction, E!LoadWeight, E!EmitRecord, E!EmitAndFlush,
                  E!NextKey, E!FinishFlush, E!FinishEmpty
    <3> QED  BY <2>0, <2>5, <3>1 DEF EncodeStep, dvars, InsertOnly, NoRowDeletedYet,
                                     D!EarlierInput
  <2>6. CASE UNCHANGED vars
    BY <2>0, <2>6 DEF vars, dvars, evars, InsertOnly, NoRowDeletedYet, D!EarlierInput
  <2>7. CASE EncodeFails
    <3>1. UNCHANGED batch
      BY <2>7 DEF EncodeFails, E!EmitFails, E!FinishFails
    <3> QED  BY <2>0, <2>7, <3>1 DEF EncodeFails, dvars, InsertOnly, NoRowDeletedYet,
                                     D!EarlierInput
  <2> QED  BY <2>1, <2>2, <2>3, <2>4, <2>5, <2>6, <2>7 DEF Next, InsertOnly
<1>7. PanicsOnlyOnDeletion'
  <2> SUFFICES ASSUME pc' = "panic", ~deleted' PROVE FALSE
    BY <1>0 DEF PanicsOnlyOnDeletion
  <2>1. ~deleted /\ pc # "panic"
    BY <1>0, <1>5 DEF PanicsOnlyOnDeletion
  <2>2. E!Retraction
    BY <2>1 DEF Next, InputStep, OperatorStep, CommitStep, EncodeStart, E!Start,
                EncodeStep, E!LoadWeight, E!EmitRecord, E!EmitAndFlush, E!NextKey,
                E!FinishFlush, E!FinishEmpty, EncodeFails, E!EmitFails, E!FinishFails,
                vars, evars
  <2>3. pos \in 1..Len(batch) /\ batch[pos].w < 0
    BY <1>0, <2>2 DEF E!Retraction, E!KeyValid, E!Cur, E!TypeOK
  <2> QED  BY <1>0, <2>1, <2>3 DEF InsertOnly
<1> QED  BY <1>1, <1>2, <1>4, <1>6, <1>7 DEF PIInv


\* The inductive invariant holds in every reachable state of the pipeline.
THEOREM PipelineInvariantHolds == Spec => []PIInv
BY PipelineInitIInv, PipelineNextIInv, PTL DEF Spec

\* Every reachable state of the composed circuit, queue and encoder has
\* the types of TypeOK.
THEOREM PipelineTypeCorrect == Spec => []TypeOK
BY PipelineInvariantHolds, PTL DEF PIInv

\* The Parquet endpoint of a DISTINCT view reaches the retraction panic of
\* encode (mod.rs line 407) only after the input deleted every copy of
\* some row, for every input, chunking into steps, interleaving of circuit
\* steps with encode calls, hash function and encoder setting: an
\* insert-only input never makes it panic.
THEOREM NoPanicWithoutDeletion == Spec => []PanicsOnlyOnDeletion
BY PipelineInvariantHolds, PTL DEF PIInv

=============================================================================
