# Formal models of the DBSP incremental engine (distinct, Parquet boundary)

This directory holds TLA+ models of the parts of the repository whose
behaviour a model checker can say something about. It also holds TLC
configurations that check them on small instances, and TLAPS proofs of
the main safety properties for every instance.

## 1. Inventory

The repository's source under `src/` has five files. `spec.md` describes
the engine they belong to.

| Component | Source | State | Operations | Hard part |
|---|---|---|---|---|
| Z-set algebra | spec §3 (outside `src/`) | a map (key, value) -> weight | sum, negation, sign | overflow of the weight type is an abort |
| Batch / cursor / trace | spec §3-4 (outside `src/`) | immutable sorted batches; an operator's trace of cumulative weights | merge, cursor walk (`key_valid`, `val_valid`, `step_key`, `weight`), trace insert | batches must go into the trace in step order, exactly once |
| Circuit scheduler, streams | spec §4.4 (outside `src/`) | the current step's batch on each stream; which operators ran | push input, invoke each operator once per step, commit | no operator sees a partial step or a different step |
| distinct operators | `crates/dbsp/src/operator/distinct.rs` | the trace owned by `distinct`, or by `hash_distinct` (indexed by key hash) | `stream_distinct`, `distinct`, `hash_distinct` | the incremental result must match the from-scratch result for any chunking of the input; keys with colliding hashes |
| Parquet encoder (emission boundary) | `crates/adapters/src/format/parquet/mod.rs` `encode` | builder, `num_records`, buffers pushed to the consumer | the cursor walk with a weight check, serialize, flush | partial output before an error; record counts; retractions panic |
| Parquet parser (ingestion boundary) | same file, `parse`, `fork` | `last_chunk_number`, the input handle's buffer | parse a file chunk by chunk, `take_all`, fork | errors in some chunks while others are delivered |
| Arrow schema mapping | same file, `relation_to_arrow_fields` | none (pure function) | SQL type -> Arrow type | nullable rule for Delta Lake |
| SqlLogicTest hashing | `sql-to-dbsp-compiler/lib/hashing/src/lib.rs` | none (pure functions) | `zset_to_rows`, `DataRows`, `compare`, `hash`, `weighted_vector_count` | order independence of the hash; `isize` overflow |
| FixedByteArray | `crates/sqllib/src/fixed_binary.rs` | a 32-byte value | `from_bytes`, `zero`, `from_vec`, `zip`, serde | `chunks_exact` drops trailing bytes; panics on size mismatch |
| Crypto provider setup | `crates/pipeline-manager/src/lib.rs` | process-wide rustls default | `ensure_default_crypto_provider` | idempotent one-time install |

How the parts interact. The producer (for example the Parquet parser)
inserts records into an input handle and hands the batch to the circuit.
At each step the circuit invokes every operator once. `distinct` reads
the step's batch and its own trace, emits a delta, and folds the batch
into the trace. The sink, for example the Parquet encoder, walks the
committed output batch with a cursor. Every call is synchronous. The
only concurrency is the order in which the scheduler invokes the
operators of one step. Replicas that run in parallel own disjoint keys,
so they share no state.

The properties that make each part correct:

- **distinct**: the sum of its outputs equals `stream_distinct` of the
  sum of its inputs (spec §8), for any split of the input into steps.
- **The encoder**: every record with a positive weight reaches the
  consumer as many times as its weight, once and in cursor order. Each
  buffer's record count is right. Boundary violations are errors, not
  aborts (spec §7).

## 2. Modules

| Module | Models | Notes |
|---|---|---|
| `Distinct` | the circuit: the input stream, the three distinct operators, the commit to the sink | one action per operation: `Push`, `EvalStreamDistinct`, `EvalDistinct`, `EvalHashDistinct`, `EndStep` |
| `DistinctAbstract` | what distinct promises: the view is the indicator of the accumulated relation | the refinement target |
| `DistinctProofs` | TLAPS proofs about `Distinct` | |
| `ParquetParserProofs` | TLAPS proofs about `ParquetParser` | |
| `MCDistinct` | TLC instance of `Distinct` | |
| `ParquetEncoder` | `ParquetEncoder::encode`, one action per branch of its loop | |
| `MCParquetEncoder` | TLC instance of `ParquetEncoder` | |
| `ParquetEncoderProofs` | TLAPS proofs about `ParquetEncoder` | |
| `EncoderExactlyOnceProofs` | the TLAPS proof of `EncodedExactlyOnce` | extends `ParquetEncoderProofs` |
| `Pipeline` | a DISTINCT view written by the Parquet output connector: `Distinct` and `ParquetEncoder` composed through the endpoint's queue | both modules are INSTANCEd on their own variables |
| `MCPipeline` | TLC instance of `Pipeline` | |
| `PipelineProofs` | TLAPS proofs about `Pipeline` | reuses the component proofs through INSTANCE |
| `ParquetParserAbstract` | what `parse` promises: one call returns, in one step, a result that accounts for every chunk of its file | the refinement target; holds the file, data and result types |
| `ParquetParser` | `ParquetParser::new`, `parse`, `fork`, for several parser instances | extends `ParquetParserAbstract`; one action per branch of `parse` |
| `MCParquetParser` | TLC instance of `ParquetParser` | |
| `SltHash` | the hashing library: `compare`, `zset_to_rows`, `DataRows`, `zset_to_strings`, `hash`, `zset_of_vectors_to_strings`, `hash_vectors`, `weighted_vector_count` | one call action per public function |
| `MCSltHash` | TLC instance of `SltHash` | |
| `FixedBinary` | `FixedByteArray`: `from_bytes`, deserialization, `zero`/`Default`, `from_vec`, `zip` with `and`/`or`/`xor`, the derived `Ord`, serialization | one call action per public function |
| `MCFixedBinary` | TLC instance of `FixedBinary` | |

### Distinct

The state is as follows:

- `trace` is `distinct`'s trace, as a Z-set.
- `htrace` is `hash_distinct`'s trace, one Z-set per hash bucket.
- `out[op]` is the batch each operator published in the current step.
- `outInt[op]` is what the sink has accumulated.
- `pending` is the set of operators not yet invoked in this step.
- `inputSum` is a history variable: the sum of every batch supplied so far.

The actions are as follows:

- `Push(b)` is the ingestion boundary: the producer supplies a batch.
- `EvalDistinct` computes `sign(t + b) - sign(t)` for every element the
  batch touches. It then folds the batch into the trace, in the same
  invocation.
- `EvalHashDistinct` does the same over the bucket of the key's hash.
  The `Hash` constant may map different keys to the same bucket.
- `EndStep` commits the step once every operator has run.

The operators' wrappers are in `distinct.rs`. The algorithms behind
`dyn_distinct` and `dyn_has_distinct`, and the scheduler, are not under
`src/`. They are modelled from spec §4.3-4.4 and marked `spec_modelled`
in PROJECT.json.

### ParquetEncoder

The batch is the sequence of cursor positions: a key, whether
`val_valid()` holds there, and a weight. `pc` marks where `encode` is:

- `loop` is the head of `while cursor.key_valid()`;
- `emit` is the head of `while w != 0`;
- `error` means a `bail!` or a `?` returned an error;
- `panic` is the panic at line 407.

The actions are `SkipKey`, `WeightTooLarge`, `Retraction`, `LoadWeight`,
`EmitRecord`, `EmitAndFlush`, `EmitFails`, `NextKey`, `FinishFlush`,
`FinishFails` and `FinishEmpty`. `EmitFails` is a `?` inside the loop
(serializing a record, or writing a full buffer); `FinishFails` is a `?`
at the final flush (lines 450-456), after which the builder's records are
never pushed. The `?` errors before the cursor walk (lines 387, 390, 395)
push nothing and are left out. `pushed` is every `(buffer, num_records)` handed to
`push_buffer`. Serialization is abstracted to the key it writes.
`callStart` is a history variable: the length of `pushed` when the
current call started.

`EncodedExactlyOnce` is stated over the places the consumer reads the
current call's records from: `<<b, j>>` is record `j` of the `b`-th
buffer pushed since the call started, or of the builder. It says that
the records at those places are in key order, are keys of the batch,
and that each entry's key occurs `Written(i)` times. That is its weight
for an entry before the cursor (0 without a value), `Cur.w - w` for the
entry in the emit loop, and 0 after. With the batch's keys distinct and
in order, this says exactly that the records form a prefix of the
batch's expansion (each key as many times as its positive weight), and
the whole expansion once `encode` returns Ok. A form with a recursive
`Expand` over the batch and the concatenation of the pushed buffers
says the same. On the `parquet_encode` instance and on one with three
keys and `MAX_DUPLICATES = 3` (159,111 states), TLC found the two forms
equivalent in every reachable state. The counting form needs no
recursion, so TLAPS can prove it.

`buffer_full` (lines 414-416) is modelled as the code computes it:
`buffer.len()` of the output buffer, which is always empty at that
point (`BufferLen == 0`, see the TODO at line 414), compared with
`max_buffer_size_bytes()` (`MaxBufferSize`). So the guard `~BufferFull`
on the emitting actions always holds, and the flush on a full buffer
(lines 416-423) is never taken. `RecordBytes` gives each key's
serialized size, so `PushedBufferFits` can state what the flush was
meant to ensure. The negative branch `w += 1` is kept in the actions
but cannot be reached, because negative weights panic first.

### Pipeline

The controller that connects a view to an output endpoint is not under
`src/`; it is modelled from the spec. `Pipeline` INSTANCEs `Distinct`
(`D`) and `ParquetEncoder` (`E`) with their own variables. The only
glue is `queue`, the committed output batches of `distinct` not yet
encoded, in order:

- `InputStep(b)` is `D!Push(b)`;
- `OperatorStep` is one of the three operator evaluations;
- `CommitStep` is `D!EndStep`, and it appends `out["distinct"]` to the
  queue;
- `EncodeStart` is `E!Start` on the cursor of the oldest queued batch
  (``IsCursorOf`: its non-zero elements in cursor order), and dequeues it;
- `EncodeStep` is one step of the running `encode` call.

The circuit's next steps interleave freely with a running `encode`.
- `EncodeFails` is an `encode` call returning an error through `?`
  (`E!EmitFails` or `E!FinishFails`); the endpoint goes on with the next
  queued batch.

`SkipKey` and `WeightTooLarge` cannot happen here (a Z-set row always
has a valid value and distinct's weights are in -1..1). Two history
variables serve the properties: `deleted` records that some input batch
deleted the last copy of a row (that is when distinct emits a -1, and
`encode` panics), and `failed` that some `encode` call returned an
error.

`Pipeline` states the assumptions the composition needs, so that the
instances' own assumptions follow from them: the circuit's constants
are those of `Distinct`, `ElemOrder` lists every row of the view exactly
once (the cursor order), and the encoder's settings are those of
`ParquetEncoder` with `MAX_DUPLICATES` at least 1.

### ParquetParser

Each parser instance `p` has these fields:

- `chunkNo[p]` is its `last_chunk_number`.
- `staged[p]` is what its input handle buffers.
- `pc[p]`, `file[p]` and `idx[p]` record where `parse` is in the file.
- `errs[p]` holds the errors of the current call.

A file is abstracted to the outcome of each record batch ("chunk"):

- `ok`: the chunk is inserted;
- `bad_insert`: `insert` returns Err;
- `bad_read`: the reader yields Err.

A file the reader cannot open is `Corrupt`. The data of chunk `i` of
call `c` is the pair `<<c, i>>`, so a result shows which call and which
chunk each record came from.

The actions are:

- `ReaderFails`: the early return at line 111;
- `ParseStart`: the reader opens;
- `ChunkInserted` and `ChunkFails`: one iteration of the loop, each
  ending with `last_chunk_number += 1`;
- `ParseEnd`: `take_all`;
- `Fork`: a new parser over a forked handle, with its counter at 0.

The input handle is outside `src/`. Its `insert` is taken to be atomic,
and each fork has a buffer of its own.

`ParquetParser` extends `ParquetParserAbstract`. That module holds the
file, data and result types, what a result must satisfy (`Accounted`),
and an abstract specification `AbsSpec` over `results` alone. There, a
call returns in one step (`Return`): one result is appended, earlier
results are unchanged, the new result accounts for its file, and its
call number has not returned before. `ParserRefinement == AbsSpec`
states that the detailed parser implements it (proved, section 4). The refinement mapping
is the identity on `results`. `ReaderFails` and `ParseEnd` are
`Return` steps, and every other action leaves `results` alone.

### SltHash

Each public function is one action, `Invoke`d once with a Z-set and a
`SortOrder` chosen from small sets. Its result is `Result(panic, val)`.

- A key is a tuple of integer columns.
- `to_slt_strings` (outside `src/`) is modelled for the integer format:
  a string is the number's decimal digits. This matters, because the
  lines are sorted as strings, and "10" sorts before "2".
- The cursor visits keys in key order (`Cursor`).
- `hash` is modelled up to the `md5::compute` call: its value is the
  string that is digested.

The properties compare the model with reference definitions written
without `compare`, `DataRows` or the loops:

- `LexLess` is lexicographic order defined by a common prefix.
- `Ascending` is a sort by rank.
- `LineCount` is the multiplicity of each line under rowsort or
  valuesort.

### FixedBinary

A value is a sequence of `SizeInU64` words. A word is the
little-endian number of its `WordBytes` bytes. The code has 4 words of
8 bytes. TLC uses 2 words of 2 bytes, which keeps every byte value
(0..255) and the conversions exact, while letting TLC enumerate every
input of 3 to 6 bytes.

- `FromBytes` translates `chunks_exact`, `from_le_bytes` and the
  `slice_to_array(..).unwrap()` size check, in that order.
- `Deserialize` reduces the serde and base64 layers (outside `src/`) to
  whether the input is well formed. PgHex is always an error.
- `WordsCmp` is the derived `Ord`: the words compared as numbers.

## 3. Runs

| Run | Config | Shows |
|---|---|---|
| `distinct_circuit` | `MCDistinct.cfg` | see below |
| `parquet_encode` | `MCParquetEncoder.cfg` | see below |
| `parquet_buffer_size` | `MCParquetEncoderBufferSize.cfg` | expected violation, see below |
| `pipeline` | `MCPipeline.cfg` | see below |
| `parquet_parse` | `MCParquetParser.cfg` | see below |
| `slt_hash` | `MCSltHash.cfg` | see below |
| `fixed_binary` | `MCFixedBinary.cfg` | see below |
| `fixed_binary_size` | `MCFixedBinarySize.cfg` | expected violation, see below |
| `fixed_binary_order` | `MCFixedBinaryOrder.cfg` | expected violation, see below |

`distinct_circuit` checks the distinct circuit for 3 steps, over 2 keys
× 1 value, with weights -2..2. Both keys fall into the same hash bucket,
which exercises `hash_distinct`'s bucketed trace. Weights -2..2 over three steps reach every case of the sign
algorithm:

- insertion and retraction;
- a multiplicity above 1;
- a weight that stays non-positive, so nothing is emitted;
- a return from a negative weight.

The run checks these properties:

- `IncrementalEqualsFromScratch`: at every step boundary, the sum of
  distinct's outputs equals `stream_distinct` of the sum of the inputs.
- `DistinctRefinement`: the circuit implements `DistinctAbstract`.

`parquet_encode` makes two calls of `encode` over batches of up to 2
keys. Weights {-3, -1, 1, 2, 3} with `MAX_DUPLICATES = 2` and
`buffer_size_records = 2` reach every branch of the loop: a flush inside
the loop, the final flush and its failure, a too-large weight on either
side of the range (3 and -3), the retraction, and a key without a
value. It checks these properties:

- `EncodedExactlyOnce`: what the consumer received during a call,
  followed by what the builder holds, is always a prefix of the
  expansion: it is in key order, and each key occurs as many times as
  the loop has written it. When `encode` returns Ok, it is the whole
  expansion.
- `PushedBuffersCounted`: every pushed buffer's count equals its number
  of records, which is between 1 and `buffer_size_records`.
- `EncodeTerminates`: every call of `encode` returns or panics.

`parquet_buffer_size` is an expected violation of `PushedBufferFits`:
every pushed buffer's bytes are within `max_buffer_size_bytes()`. The
`buffer_full` check at line 415 reads the output buffer's length, which
is always 0 there, instead of the builder's size, so nothing bounds a
buffer's bytes except `buffer_size_records`. With 2 records per buffer
and a 4-byte limit, a buffer of two 3-byte records is pushed. The TODO
at line 414 shows the code's authors know; the spec says nothing of the
limit, so this is recorded as a spec gap.

`pipeline` runs the composition for 3 circuit steps over one key with
two values, input weights -1..2, `MAX_DUPLICATES = 1` and 2 records per
buffer. It checks these properties:

- `PanicsOnlyOnDeletion`: `encode` panics only after the input deleted
  every copy of some row.
- `DeliversDistinctRows`: until such a deletion, and as long as no
  `encode` call has returned an error, whenever everything committed
  has been encoded, the consumer has received every row present in the
  input exactly once, whatever the interleaving of circuit steps and
  `encode` calls.

`parquet_parse` runs a parser and one fork (`p0`, `p1`) for three
`parse` calls, over every file of up to two chunks and the corrupt
file. That covers a file with a good chunk after a bad one, a second
call on the same parser, and a call on the fork. It checks these
properties:

- `ParseAccountsEveryChunk`: each call returns the data of exactly its
  file's good chunks, in file order and from no other call, and one
  error per bad chunk.

`slt_hash` makes every call over every Z-set of two-column tuples with
column values {2, 10} and weights {-1, 1, 2}. It also uses four vectors
for the ORDER BY functions, including the empty vector and one whose
tuples are out of order. Values 2 and 10 order differently as numbers
and as strings. Two columns let rows differ only in their last column.
It checks these properties:

- `SltLinesMatchReference`: `zset_to_strings` and `hash` give
  SqlLogicTest's lines. That is each row as many times as its weight,
  sorted by row (ROW), value by value (VALUE), or in key order (NONE).
- `VectorLinesMatchReference`: the same for the ORDER BY functions.
  `hash_vectors` is checked for the single vector its comment expects.
  It sorts each vector on its own, so with two vectors it differs from
  `zset_of_vectors_to_strings`.

`fixed_binary` makes every call on values of bytes {0, 1, 2}, and on
inputs of 3 to 6 bytes. It checks these properties:

- `RoundTrip`: a value survives `to_byte_array` and `from_bytes`, in
  both directions.
- `BitwiseIsBytewise`: `and`, `or` and `xor` give the bytewise results
  their comments promise, although `zip` works on words.

There are two expected violations:

- `fixed_binary_size` (`FromBytesRejectsWrongSize`), a code bug.
  `chunks_exact` drops a partial trailing chunk before the size is
  checked. So 33 to 39 bytes (5 bytes in the model) are accepted, with
  the extra bytes silently discarded. Every other wrong size panics.
- `fixed_binary_order` (`OrderIsBytewise`), a spec gap. The derived
  `Ord` compares little-endian words as numbers. TLC's trace compares
  the words `<<0, 256>>` and `<<0, 1>>` (bytes 0,0,0,1 and 0,0,1,0):
  `cmp` returns Greater, byte-by-byte comparison gives Less.

In `FixedBinary`'s `Next` the `cmp` and `from_bytes` calls come first:
TLC then meets the violating calls early, and its traces show the
violating state.

Fairness. The one liveness property checked is `EncodeTerminates`. It
rests on weak fairness on the steps of `encode` that the code always
takes: `encode` is sequential code on one thread that never waits once
called (spec §5). The failing branches (`EmitFails`, `FinishFails`) are
not fair, because nothing forces the code to fail. The specifications
of the circuit (operator invocations and the commit), the pipeline and
the parser carry the same kind of weak fairness for the same reason.
The producer is not subject to fairness: it may stop supplying batches.
Deadlock checking is off in
every run, because each model really stops:

- The circuit may be torn down between steps (spec §5).
- The encoder stops after `MaxCalls` calls or a panic.
- The pipeline stops after `MaxSteps` circuit steps, once its queue is
  drained or `encode` panicked.
- The parsers stop after `MaxParses` calls.
- `slt_hash` and `fixed_binary` stop after their one call.

## 4. Proofs

`DistinctProofs` proves these theorems for every choice of keys,
values, weights, hash function and step bound:

- `TypeCorrect`;
- `InvariantHolds`;
- `IncrementalCorrect`, which states `Spec => []IncrementalEqualsFromScratch`;
- `Refinement`, which states `Spec => DistinctRefinement`;

The inductive invariant `IInv` is the conjunction of:

- `TypeOK`;
- `TraceInStepOrder`: the trace is the input sum, minus the current
  step's batch while distinct has not run;
- `ViewIsIndicator`: the sink's view of distinct's output, plus the
  batch not yet committed, is the indicator of the trace;
- `IdleQuiet` and `StepOpen`: two facts about where a step is.

`IncrementalEqualsFromScratch` alone is not inductive: it says nothing
about the state inside a step. `ViewIsIndicator` extends it to every
state. The key step is lemma `DeltaAddsUp`:
`sign(t) + (sign(t+b) - sign(t)) = sign(t+b)` pointwise. The refinement
proof maps `EvalDistinct` to `AbsUpdate(input)`. Every other action
leaves the trace and the view unchanged.

`PipelineProofs` needs a stronger invariant, `HIInv`, proved here as
`HashInvariantHolds`. It adds to
`IInv` two facts stated with `EarlierInput`, the input of the steps
before the current one:

- `HashTraceInStepOrder`: every key's entry in its hash bucket is its
  weight in `EarlierInput` until `hash_distinct` has run in the step,
  and in the input sum after;
- `OutputIsStepDelta`: once `distinct` or `hash_distinct` has run in the
  step, its output is the distinct delta of `EarlierInput` and the
  step's batch.

Lemma `BucketInRange` gives that every key's bucket is in the hash
range, where the bucketed trace is defined.

`ParquetParserProofs` proves these theorems for every set of parsers
and every bound on chunks and parse calls. The only assumptions are that
`MaxChunks` and `MaxParses` are naturals and that `First` is a parser:

- `ParserInvariantHolds`;
- `ParserTypeCorrect`, which states `Spec => []TypeOK`;
- `OwnDataOnly`, which states `Spec => []ParseReturnsOwnData`. Every
  record a parse call returns is tagged with that call and comes from a
  good chunk of that call's own file.
- `EveryChunkAccounted`, which states `Spec => []ParseAccountsEveryChunk`.
  Each call returns the data of exactly its file's good chunks, in file
  order, and as many errors as its file has failing chunks.

Its inductive invariant `IInv` adds three facts to `TypeOK`:

- an idle parser's handle buffer is empty, because `take_all` drained
  it;
- a parsing parser holds a file that is not `Corrupt`, and a call number
  in range;
- every record staged in a parser's buffer belongs to its current call
  and to a good chunk of its current file (`StagedOwnChunks`).

`ParseReturnsOwnData` alone is not inductive. It says nothing about the
buffer that `ParseEnd` hands over. `StagedOwnChunks` carries it through
the chunk loop, and the empty-buffer fact carries it across calls. Each
action has its own step, and each conjunct has a sub-step. The case
split on the appended index uses `AppendProperties`.

`ParseAccountsEveryChunk` is stated without `SelectSeq`, so that no
induction over the file is needed: the set of chunks in the data
(`ChunksIn`) is the set of good chunks (`GoodChunks`), the data is in
strictly increasing chunk order (`InChunkOrder`), and the number of
errors is the cardinality of the set of failing chunks (`BadChunks`).
Its inductive invariant `AInv` adds `ChunkLoopAccounted` to `IInv`:
inside the chunk loop the buffer holds the good chunks before the
cursor, in order, and the errors count the failing chunks before it.
Each loop step adds the chunk under the cursor to one of the two sets
(lemma `ChunkStep`). The count of failing chunks grows by one through
`FS_AddElement`, because that set is finite and does not yet hold the
chunk (lemma `BadFinite`). At `ParseEnd` the cursor is just past the
last chunk, so the result accounts for the whole file.

It also proves that the parser implements `ParquetParserAbstract`:

- `RefinementInvariantHolds`, which states `Spec => []RInv`;
- `Refinement`, which states `Spec => ParserRefinement`.

The proof follows the usual three steps. `Init` gives `AbsInit`.
`RInv` is an invariant. Every step between two `RInv` states is a
`Return` step or leaves `results` unchanged (lemma `RefineNext`).
`AInv` already shows that an appended result accounts for its file.
What `Return` adds is that no call returns twice. That needs
`CallsFresh`, the other conjunct of `RInv`:

- every returned call number is at most `calls`;
- the call number of a running parse is at most `calls`, and no result
  carries it yet;
- two running parses have different call numbers.

`ParseStart` takes the number `calls + 1`, above every number in use.
`ReaderFails` and `ParseEnd` append the result of the call that ends,
so its number joins the returned ones only as it leaves the running
ones. Lemma `CallsAppend` gives what appending does to the set of
returned call numbers.

`ParquetEncoderProofs` proves these theorems for every key order, set
of weights, `MAX_DUPLICATES`, `buffer_size_records` and bound on calls:

- `EncoderInvariantHolds`;
- `EncoderTypeCorrect`, which states `Spec => []TypeOK`;
- `BuffersCounted`, which states `Spec => []PushedBuffersCounted`.
  Every buffer pushed to the consumer carries the number of records it
  holds, between 1 and `buffer_size_records`.

Its inductive invariant `IInv` adds two facts to `TypeOK` and
`PushedBuffersCounted`:

- in the inner loop the cursor is on a valid key, so the record
  serialized exists;
- while `encode` runs, `num_records` is the builder's length and stays
  below `buffer_size_records` (or is 0).

`PushedBuffersCounted` alone is not inductive: a flush pushes
`num_records` as the count, and only the second fact says that this is
the builder's length and within the bound. To make typing provable
without induction, the set of batches is a set of functions on
`1..n` whose keys are in cursor order, not a `SelectSeq`.

`EncoderExactlyOnceProofs` proves the encoder's main property for the
same range of constants:

- `ExactlyOnceInvariantHolds`, which states `Spec => []EInv`;
- `ExactlyOnce`, which states `Spec => []EncodedExactlyOnce`.

`EInv` (defined in `ParquetEncoder`; TLC checked it as an invariant on
both instances above before it was proved) adds these facts to `IInv`
(`Shape`, `RecordsInv` and `CountsInv` in the proof):

- the batch is one a cursor can walk;
- `w` is 0 at the head of the key loop, and counts down from the current
  key's weight once `LoadWeight` has run (`Loaded`);
- the builder is empty and the cursor is past the batch when `encode`
  is idle;
- the reading places are finitely many;
- every record written is the key of an entry at or before the cursor;
- the records are in key order;
- each entry's key occurs `Written(i)` times.

`EncodedExactlyOnce` is not inductive without the fact about entries
at or before the cursor. That fact shows that writing the current key
after every earlier record keeps them in key order. The distinctness of
the batch's keys (lemma `BatchOrdered`) shows that the new record counts
for the current entry only. The proof then rests on three lemmas about
the reading places:

- `PlacesSame`: a step that leaves `pushed`, the builder and
  `callStart` alone leaves the places and their records alone.
- `PlacesGrow`: a step of the emit loop, with or without a flush, adds
  exactly one place. That place holds the current key, every other
  place is read before it, and the records at the other places stay.
- `PlacesFlush`: the final flush moves the builder's records to a new
  buffer at the same places.

Counts then change through `FS_AddElement` (lemma `CountGrow`). `Start`
empties the places, and `NextKey` turns the emit loop's partial count
into the entry's full weight. `EmitFails` keeps the partial count, and
`FinishFails` leaves the places alone, so after an error the consumer
holds a prefix.

`PipelineProofs` proves these theorems for every set of rows, hash,
cursor order and bound on steps, from the assumptions of `Pipeline`:

- `PipelineInvariantHolds`;
- `PipelineTypeCorrect`, which states `Spec => []TypeOK`;
- `NoPanicWithoutDeletion`, which states
  `Spec => []PanicsOnlyOnDeletion`. The retraction panic of `encode`
  (line 407) is reached only after some input step deleted the last
  copy of a row, so insert-only inputs never make it panic.

It does not prove the components again. It INSTANCEs `DistinctProofs`
and `ParquetEncoderProofs`, and cites their step lemmas for the
circuit's and the encoder's actions. Two kinds of lemma connect the
instances:

- The assumption lemmas (`CircuitAssumptionsHold`,
  `EncoderAssumptionsHold`) prove the instances' assumptions from those
  of `Pipeline`.
- The bridge lemmas (`DistinctBridge`, `EncoderBridge`) identify the
  definitions seen through `Pipeline`'s instances with those seen
  through the proof modules' instances.

The inductive invariant `PIInv` is the conjunction of:

- `TypeOK`;
- distinct's `HIInv` and the encoder's `IInv`;
- `InsertOnly`: until a deletion, no row's weight has dropped to 0
  (`NoRowDeletedYet`), every queued batch has weights 1, and so does
  the batch being encoded;
- `PanicsOnlyOnDeletion` itself.

The argument runs as follows:

1. Before a deletion every step's input only adds copies. With
   `OutputIsStepDelta`, distinct's delta is then 0 or 1 on each row
   (lemma `UnitDelta`).
2. So every committed batch, and every cursor over it (`IsCursorOf`
   replaces the `SelectSeq` that built the cursor), has weight 1
   everywhere.
3. So `Retraction`, the only way to reach the panic, is never enabled.

These stay with TLC only:

- liveness (`EncodeTerminates`): TLAPS cannot reason about fairness
  and `ENABLED`;
- `DeliversDistinctRows`. It compares the rows the consumer received
  (a count over the pushed buffers) with the sign of the input sum. Its
  inductive form must hold outside quiescent states too. There the
  distinct outputs still queued for the endpoint count as well, and
  they are a sum over the queue's batches: an induction over a
  sequence, which the provers cannot do. The equivalence of `EncodedExactlyOnce`
  with the recursive prefix-of-expansion form is also checked by TLC
  only, for the same reason;
- the `SltHash` and `FixedBinary` properties. Those modules use
  RECURSIVE operators and `Bitwise`, which a module with theorems may
  not reach.

## 5. Plan

Done: `Distinct`, `ParquetParser` (with its refinement of
`ParquetParserAbstract`) and `ParquetEncoder` (with `EncodedExactlyOnce`)
with their proofs, `SltHash`, `FixedBinary`, and the `Pipeline` from a DISTINCT
view to the Parquet encoder, with the `buffer_full` check.

Next:

1. The width of the weight type, with overflow as an abort state, in
   `Distinct` (`distinct.rs:45`) and in `weighted_vector_count`.
2. The parser's side of the pipeline: the Parquet parser feeding the
   circuit's input handle.
3. Proofs: `DeliversDistinctRows` for the pipeline, once the queued
   batches' sum can be carried without induction (for instance with a
   history variable that accumulates what was enqueued).

## 6. Not modelled

- Configuration parsing: `new_parser`, `new_encoder`,
  `config_from_http_request`.
- `md5` itself, and the 64-bit width of `isize` in
  `weighted_vector_count`: no value TLC enumerates comes near it.
- The rustls provider setup: a single idempotent library call.
- The Arrow schema mapping `relation_to_arrow_fields`: a pure table from
  SQL types to Arrow types with no state. Its only failure, a decimal
  precision above what Arrow allows, needs a type the SQL compiler does
  not produce.
- Trace compaction and the physical batch spine: not under `src/`.
  Compaction does not change the (key, value) -> weight view the
  operators read.
