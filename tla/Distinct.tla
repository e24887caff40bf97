------------------------------ MODULE Distinct ------------------------------
(***************************************************************************)
(* One circuit of the incremental dataflow engine: an input stream fed by  *)
(* an external producer and the three distinct operators of               *)
(* crates/dbsp/src/operator/distinct.rs reading it:                        *)
(*                                                                         *)
(*   stream_distinct  the non-incremental reduction of each batch to a set *)
(*   distinct         the incremental operator, backed by a trace of the   *)
(*                    cumulative input                                     *)
(*   hash_distinct    the same algorithm over a trace indexed by the hash  *)
(*                    of the key                                           *)
(*                                                                         *)
(* A Z-set is a function from Elems (key, value pairs) to its integer     *)
(* weight; weight 0 is "absent".  A batch is consolidated: one weight per  *)
(* element.  The circuit runs steps: the producer supplies one batch, the  *)
(* scheduler invokes every operator once (in any order, the three only     *)
(* depend on the input stream) and the step is committed, the sink adding  *)
(* each output batch to what it has received.                              *)
(***************************************************************************)
EXTENDS Integers

CONSTANTS
    Keys,       \* the keys of the relation
    Vals,       \* the values stored under a key
    InWeights,  \* the weights a producer may put in a batch
    HashRange,  \* the codomain of the key hash
    Hash,       \* the key hash used by hash_distinct, possibly colliding
    MaxSteps    \* bound on the number of circuit steps

ASSUME HashAssumption == Hash \in [Keys -> HashRange]
ASSUME WeightsAssumption == InWeights \subseteq Int /\ 0 \in InWeights
ASSUME StepsAssumption == MaxSteps \in Nat

Elems == Keys \X Vals

Ops == {"stream_distinct", "distinct", "hash_distinct"}

\* The Z-sets over Elems, and the consolidated batches a producer can supply.
ZSet == [Elems -> Int]
Batches == [Elems -> InWeights]

\* The empty Z-set, and the algebraic sum of two Z-sets (the merge of two
\* batches: weights of a shared element add up, a zero sum means absent).
Zero == [e \in Elems |-> 0]
Plus(a, b) == [e \in Elems |-> a[e] + b[e]]

\* sign(w) = 1 if w > 0 else 0: the indicator of presence in a set.
Sign(w) == IF w > 0 THEN 1 ELSE 0

\* stream_distinct: every element of the batch with weight > 0 gets weight
\* 1, every element with weight <= 0 is dropped.
StreamDistinct(b) == [e \in Elems |-> Sign(b[e])]

\* Mutant: distinct ignoring its trace (the non-incremental reduction).
DistinctDeltaStateless(tr, b) == StreamDistinct(b)

\* distinct: for each element touched by the batch, the difference of the
\* indicator after and before adding the batch to the cumulative weight in
\* the trace; untouched elements produce nothing.
DistinctDelta(tr, b) ==
    [e \in Elems |-> IF b[e] = 0 THEN 0 ELSE Sign(tr[e] + b[e]) - Sign(tr[e])]

\* The trace of hash_distinct holds the input indexed by the hash of the
\* key: the bucket of hash h holds the weights of the elements whose key
\* hashes to h.  The old weight of an element is looked up in its bucket.
HashTrace == [HashRange -> ZSet]
Bucket(e) == Hash[e[1]]

HashDistinctDelta(ht, b) ==
    [e \in Elems |->
        IF b[e] = 0 THEN 0
        ELSE Sign(ht[Bucket(e)][e] + b[e]) - Sign(ht[Bucket(e)][e])]

HashInsert(ht, b) ==
    [h \in HashRange |->
        [e \in Elems |-> IF Bucket(e) = h THEN ht[h][e] + b[e] ELSE ht[h][e]]]

VARIABLES
    phase,     \* "idle" between steps, "running" inside a step
    step,      \* number of committed steps
    input,     \* the batch on the input stream in the current step
    pending,   \* the operators not yet invoked in the current step
    trace,     \* the trace owned by distinct: cumulative input weights
    htrace,    \* the hash-indexed trace owned by hash_distinct
    out,       \* out[op]: the batch op published on its output stream
    outInt,    \* outInt[op]: the sum of every batch the sink received from op
    inputSum   \* the sum of every batch the producer supplied (history)

vars == <<phase, step, input, pending, trace, htrace, out, outInt, inputSum>>

TypeOK ==
    /\ phase \in {"idle", "running"}
    /\ step \in 0..MaxSteps
    /\ input \in Batches
    /\ pending \subseteq Ops
    /\ trace \in ZSet
    /\ htrace \in HashTrace
    /\ out \in [Ops -> ZSet]
    /\ outInt \in [Ops -> ZSet]
    /\ inputSum \in ZSet

Init ==
    /\ phase = "idle"
    /\ step = 0
    /\ input = Zero
    /\ pending = {}
    /\ trace = Zero
    /\ htrace = [h \in HashRange |-> Zero]
    /\ out = [op \in Ops |-> Zero]
    /\ outInt = [op \in Ops |-> Zero]
    /\ inputSum = Zero

(***************************************************************************)
(* The ingestion boundary: the producer hands one batch to the input      *)
(* stream and the scheduler starts the step.                               *)
(***************************************************************************)
Push(b) ==
    /\ phase = "idle"
    /\ step < MaxSteps
    /\ phase' = "running"
    /\ input' = b
    /\ pending' = Ops
    /\ inputSum' = Plus(inputSum, b)
    /\ UNCHANGED <<step, trace, htrace, out, outInt>>

(***************************************************************************)
(* One invocation of each operator: it reads the input stream of the      *)
(* current step (and its own trace) and publishes its output batch.  The  *)
(* trace of a trace-backed operator is read before the batch is folded    *)
(* into it, and the fold is part of the same invocation.                  *)
(***************************************************************************)
EvalStreamDistinct ==
    /\ phase = "running"
    /\ "stream_distinct" \in pending
    /\ out' = [out EXCEPT !["stream_distinct"] = StreamDistinct(input)]
    /\ pending' = pending \ {"stream_distinct"}
    /\ UNCHANGED <<phase, step, input, trace, htrace, outInt, inputSum>>

\* Mutant: the batch is folded into the trace before the old weights are read.
EvalDistinctFoldFirst ==
    /\ phase = "running"
    /\ "distinct" \in pending
    /\ out' = [out EXCEPT !["distinct"] = DistinctDelta(Plus(trace, input), input)]
    /\ trace' = Plus(trace, input)
    /\ pending' = pending \ {"distinct"}
    /\ UNCHANGED <<phase, step, input, htrace, outInt, inputSum>>

EvalDistinct ==
    /\ phase = "running"
    /\ "distinct" \in pending
    /\ out' = [out EXCEPT !["distinct"] = DistinctDelta(trace, input)]
    /\ trace' = Plus(trace, input)
    /\ pending' = pending \ {"distinct"}
    /\ UNCHANGED <<phase, step, input, htrace, outInt, inputSum>>

EvalHashDistinct ==
    /\ phase = "running"
    /\ "hash_distinct" \in pending
    /\ out' = [out EXCEPT !["hash_distinct"] = HashDistinctDelta(htrace, input)]
    /\ htrace' = HashInsert(htrace, input)
    /\ pending' = pending \ {"hash_distinct"}
    /\ UNCHANGED <<phase, step, input, trace, outInt, inputSum>>

(***************************************************************************)
(* The step is committed once every operator has run: the sink consumes   *)
(* each output batch.  Streams do not buffer across steps.                *)
(***************************************************************************)
EndStep ==
    /\ phase = "running"
    /\ pending = {}
    /\ outInt' = [op \in Ops |-> Plus(outInt[op], out[op])]
    /\ step' = step + 1
    /\ phase' = "idle"
    /\ UNCHANGED <<input, pending, trace, htrace, out, inputSum>>

Next ==
    \/ \E b \in Batches : Push(b)
    \/ EvalStreamDistinct
    \/ EvalDistinct
    \/ EvalHashDistinct
    \/ EndStep

\* Within a step the scheduler never blocks: once the input is supplied,
\* every operator is invoked and the step is committed.
Fairness ==
    /\ WF_vars(EvalStreamDistinct)
    /\ WF_vars(EvalDistinct)
    /\ WF_vars(EvalHashDistinct)
    /\ WF_vars(EndStep)

Spec == Init /\ [][Next]_vars /\ Fairness

-----------------------------------------------------------------------------
(***************************************************************************)
(* Properties.                                                             *)
(***************************************************************************)

\* The core correctness of incremental distinct: at every step boundary,
\* what the sink accumulated from distinct equals stream_distinct applied
\* once to the sum of every batch fed so far, however the input was
\* split into steps and whatever retractions it held.
IncrementalEqualsFromScratch ==
    phase = "idle" => outInt["distinct"] = StreamDistinct(inputSum)

-----------------------------------------------------------------------------
(***************************************************************************)
(* Refinement: the circuit implements DistinctAbstract.  The abstract     *)
(* relation is distinct's trace; the abstract view is what the sink has   *)
(* accumulated from distinct, plus the batch distinct has published in    *)
(* the current step and the sink has not consumed yet.                    *)
(***************************************************************************)
DistinctView ==
    IF phase = "running" /\ "distinct" \notin pending
    THEN Plus(outInt["distinct"], out["distinct"])
    ELSE outInt["distinct"]

Abs == INSTANCE DistinctAbstract
        WITH Elements <- Elems, acc <- trace, view <- DistinctView

\* Every behaviour of the circuit, seen through distinct's trace and the
\* view built from its output, is a behaviour of the abstract operator.
DistinctRefinement == Abs!AbsSpec


-----------------------------------------------------------------------------
(***************************************************************************)
(* The inductive invariant the proofs rest on (DistinctProofs).  The view *)
(* of distinct's output is the indicator of its trace at every state, and *)
(* a step is only open between Push and EndStep.                          *)
(***************************************************************************)
\* Each step's input is folded into distinct's trace exactly once: before
\* distinct runs the trace holds the previous steps' input, after it the
\* current one too.
TraceInStepOrder ==
    trace = IF "distinct" \in pending
            THEN Plus(inputSum, [e \in Elems |-> -input[e]])
            ELSE inputSum

ViewIsIndicator == DistinctView = StreamDistinct(trace)

IdleQuiet == phase = "idle" => pending = {}

StepOpen == phase = "running" => step < MaxSteps

IInv ==
    /\ TypeOK
    /\ TraceInStepOrder
    /\ ViewIsIndicator
    /\ IdleQuiet
    /\ StepOpen

(***************************************************************************)
(* The strengthening for hash_distinct (DistinctProofs, PipelineProofs).  *)
(* hash_distinct's trace holds, for each element in the bucket of its key,*)
(* the same cumulative weight as distinct's trace, and each of the two    *)
(* operators, once it has run in a step, has published the delta of the   *)
(* step's input against the input of the earlier steps.                   *)
(***************************************************************************)
EarlierInput == Plus(inputSum, [e \in Elems |-> -input[e]])

HashTraceInStepOrder ==
    \A e \in Elems :
        htrace[Bucket(e)][e] = IF "hash_distinct" \in pending
                               THEN EarlierInput[e]
                               ELSE inputSum[e]

OutputIsStepDelta ==
    \A op \in {"distinct", "hash_distinct"} :
        op \notin pending => out[op] = DistinctDelta(EarlierInput, input)

HIInv == IInv /\ HashTraceInStepOrder /\ OutputIsStepDelta

=============================================================================
