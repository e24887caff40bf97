------------------------------ MODULE Pipeline ------------------------------
(***************************************************************************)
(* A view behind SELECT DISTINCT written out by the Parquet output         *)
(* connector: the circuit of Distinct, whose distinct operator feeds the  *)
(* ParquetEncoder.  The controller (outside src/) queues the output batch *)
(* of every committed step for the output endpoint and the endpoint's     *)
(* thread calls encode on the queued batches in order, concurrently with  *)
(* later steps of the circuit.                                             *)
(*                                                                         *)
(* Both components are the modules of this project, INSTANCEd with their  *)
(* own variables; the only glue is the queue.  A row of the view is an    *)
(* element of Distinct, and the cursor walks the batch's elements in      *)
(* ElemOrder, every one of them with a valid value.  An encode call that  *)
(* returns an error leaves its batch partly written; the endpoint goes on *)
(* with the next queued batch.                                            *)
(***************************************************************************)
EXTENDS Integers, Sequences, FiniteSets

CONSTANTS
    Keys, Vals, InWeights, HashRange, Hash, MaxSteps,   \* of Distinct
    ElemOrder,          \* the elements of Keys \X Vals, in cursor order
    MaxDuplicates, BufferSizeRecords, MaxBufferSize, RecordBytes

VARIABLES
    phase, step, input, pending, trace, htrace, out, outInt, inputSum,
    pc, calls, batch, pos, w, numRecords, builder, pushed, callStart,
    queue,      \* the committed output batches not yet encoded, in order
    deleted,    \* history: some input batch deleted the last copy of a row
    failed      \* history: some encode call returned an error

dvars == <<phase, step, input, pending, trace, htrace, out, outInt, inputSum>>
evars == <<pc, calls, batch, pos, w, numRecords, builder, pushed, callStart>>
vars == <<dvars, evars, queue, deleted, failed>>

D == INSTANCE Distinct
E == INSTANCE ParquetEncoder WITH KeyOrder <- ElemOrder, Weights <- {-1, 1},
                                  MaxCalls <- MaxSteps

\* The circuit's constants are those of Distinct; ElemOrder lists every
\* row of the view once; the encoder's settings are those of
\* ParquetEncoder, with MAX_DUPLICATES at least 1.
ASSUME PipelineCircuitAssumption ==
    /\ Hash \in [Keys -> HashRange]
    /\ InWeights \subseteq Int /\ 0 \in InWeights
    /\ MaxSteps \in Nat
ASSUME ElemOrderAssumption ==
    /\ ElemOrder \in Seq(Keys \X Vals)
    /\ Len(ElemOrder) > 0
    /\ \A i, j \in 1..Len(ElemOrder) : ElemOrder[i] = ElemOrder[j] => i = j
    /\ \A e \in Keys \X Vals : \E i \in 1..Len(ElemOrder) : ElemOrder[i] = e
ASSUME PipelineEncoderAssumption ==
    /\ MaxDuplicates \in Nat \ {0}
    /\ BufferSizeRecords \in Nat
    /\ MaxBufferSize \in Nat
    /\ RecordBytes \in [Keys \X Vals -> Nat \ {0}]

\* c is the cursor of the output batch z: the batch's elements with a
\* non-zero weight, each with its weight and a valid (unit) value.  Among
\* the sequences in cursor order (E!Batches) exactly one is.
IsCursorOf(c, z) ==
    /\ {c[i].key : i \in DOMAIN c} = {e \in D!Elems : z[e] # 0}
    /\ \A i \in DOMAIN c : c[i].hasVal /\ c[i].w = z[c[i].key]

TypeOK ==
    /\ D!TypeOK
    /\ E!TypeOK
    /\ queue \in Seq(D!ZSet)
    /\ deleted \in BOOLEAN
    /\ failed \in BOOLEAN

Init == D!Init /\ E!Init /\ queue = <<>> /\ deleted = FALSE /\ failed = FALSE

\* The batch b takes every remaining copy of some row out of the input.
DeletesRow(b) == \E e \in D!Elems : inputSum[e] > 0 /\ inputSum[e] + b[e] <= 0

\* The input connector supplies the next step's batch.
InputStep(b) ==
    /\ D!Push(b)
    /\ deleted' = (deleted \/ DeletesRow(b))
    /\ UNCHANGED <<evars, queue, failed>>

\* An operator of the running step is invoked.
OperatorStep ==
    /\ \/ D!EvalStreamDistinct
       \/ D!EvalDistinct
       \/ D!EvalHashDistinct
    /\ UNCHANGED <<evars, queue, deleted, failed>>

\* The step is committed and distinct's output batch is queued for the
\* output endpoint.
CommitStep ==
    /\ D!EndStep
    /\ queue' = Append(queue, out["distinct"])
    /\ UNCHANGED <<evars, deleted, failed>>

\* The endpoint calls encode on the oldest queued batch.
EncodeStart ==
    /\ queue # <<>>
    /\ \E c \in E!Batches : IsCursorOf(c, Head(queue)) /\ E!Start(c)
    /\ queue' = Tail(queue)
    /\ UNCHANGED <<dvars, deleted, failed>>

\* One step of a running encode call.  SkipKey and WeightTooLarge cannot
\* happen here: a row of a Z-set has the unit value, always valid, and
\* distinct's output weights are within -1..1, inside MAX_DUPLICATES.
EncodeStep ==
    /\ \/ E!Retraction
       \/ E!LoadWeight
       \/ E!EmitRecord
       \/ E!EmitAndFlush
       \/ E!NextKey
       \/ E!FinishFlush
       \/ E!FinishEmpty
    /\ UNCHANGED <<dvars, queue, deleted, failed>>

\* Serializing a record, or writing a buffer (inside the loop or at the
\* final flush), returns an error from encode.
EncodeFails ==
    /\ E!EmitFails \/ E!FinishFails
    /\ failed' = TRUE
    /\ UNCHANGED <<dvars, queue, deleted>>

Next ==
    \/ \E b \in D!Batches : InputStep(b)
    \/ OperatorStep
    \/ CommitStep
    \/ EncodeStart
    \/ EncodeStep
    \/ EncodeFails

\* The circuit's steps complete (Distinct's fairness), and the endpoint's
\* thread keeps encoding while batches are queued.
Fairness ==
    /\ WF_vars(OperatorStep)
    /\ WF_vars(CommitStep)
    /\ WF_vars(EncodeStart)
    /\ WF_vars(EncodeStep)

Spec == Init /\ [][Next]_vars /\ Fairness

-----------------------------------------------------------------------------
(***************************************************************************)
(* Properties.                                                             *)
(***************************************************************************)

\* How many times the consumer has received the record of element e.
Received(e) ==
    Cardinality({ij \in UNION {{i} \X (1..Len(pushed[i].recs)) : i \in 1..Len(pushed)} :
                    pushed[ij[1]].recs[ij[2]] = e})

\* Nothing is in flight: no step open, nothing queued, encode not running.
Quiescent == phase = "idle" /\ queue = <<>> /\ pc = "idle"

\* The retraction panic of encode (mod.rs line 407) is reached only once
\* the input has deleted every copy of some row: distinct emits a -1 for
\* a row only when its cumulative weight drops from positive to
\* non-positive, however the input was split into steps and however the
\* circuit's steps and the encoder's calls interleave.  Inputs that only
\* insert (as the Parquet parser's do) never make the endpoint panic.
PanicsOnlyOnDeletion == pc = "panic" => deleted

\* The Parquet output of a DISTINCT view: until a row has been deleted or
\* an encode call has failed, the consumer, whenever everything committed
\* has been encoded, has received every row present in the input exactly
\* once: distinct's per-step deltas, each written out by its own encode
\* call, add up to the set of rows.
DeliversDistinctRows ==
    Quiescent /\ ~deleted /\ ~failed =>
        \A e \in D!Elems : Received(e) = D!Sign(inputSum[e])

-----------------------------------------------------------------------------
(***************************************************************************)
(* The inductive invariant behind PanicsOnlyOnDeletion (PipelineProofs).  *)
(* Until a row is deleted, every row's cumulative weight that was positive *)
(* before the current step is still positive, so distinct's output, every  *)
(* queued batch and the batch encode walks carry only weight 1.           *)
(***************************************************************************)
NoRowDeletedYet == \A e \in D!Elems : D!EarlierInput[e] > 0 => inputSum[e] > 0

UnitBatch(z) == \A e \in D!Elems : z[e] \in {0, 1}

InsertOnly ==
    ~deleted =>
        /\ NoRowDeletedYet
        /\ \A i \in 1..Len(queue) : UnitBatch(queue[i])
        /\ \A i \in 1..Len(batch) : batch[i].w = 1

PIInv == TypeOK /\ D!HIInv /\ E!IInv /\ InsertOnly /\ PanicsOnlyOnDeletion

=============================================================================
