---------------------------- MODULE ParquetEncoder ----------------------------
(***************************************************************************)
(* The emission boundary as the Parquet connector implements it:          *)
(* ParquetEncoder::encode (crates/adapters/src/format/parquet/mod.rs)      *)
(* walks a committed output batch with a cursor and writes every key as   *)
(* many times as its weight, flushing a Parquet buffer to the output      *)
(* consumer every buffer_size_records records and once more at the end.   *)
(*                                                                         *)
(* The batch is the sequence of cursor positions: one record per key, in  *)
(* key order, telling whether the key has a valid value and its weight.   *)
(* A serialized record is its key; a pushed buffer is the sequence of     *)
(* records it holds with the record count passed to push_buffer.          *)
(*                                                                         *)
(* The byte buffer is not a variable: serialize_key_to_arrow writes into  *)
(* the arrow builder, never into `buffer`, so buffer.len() is 0 when      *)
(* buffer_full is computed (the TODO at line 414) and the buffer_full     *)
(* branches (lines 416-423) cannot be taken.  A record's size in bytes    *)
(* is RecordBytes[key]; a written buffer holds the bytes of its records.  *)
(***************************************************************************)
EXTENDS Integers, Sequences, FiniteSets

CONSTANTS
    KeyOrder,           \* the keys, in cursor order
    Weights,            \* the non-zero weights a batch entry may carry
    MaxDuplicates,      \* MAX_DUPLICATES of crate::format
    BufferSizeRecords,  \* config.buffer_size_records
    MaxCalls,           \* bound on the number of calls of encode
    MaxBufferSize,      \* output_consumer.max_buffer_size_bytes()
    RecordBytes         \* RecordBytes[k]: the bytes of key k's record

ASSUME KeyOrderAssumption ==
    /\ DOMAIN KeyOrder = 1..Len(KeyOrder)
    /\ Len(KeyOrder) > 0
    /\ \A i, j \in 1..Len(KeyOrder) : KeyOrder[i] = KeyOrder[j] => i = j
ASSUME WeightsAssumption == Weights \subseteq Int \ {0}
ASSUME MaxDuplicatesAssumption == MaxDuplicates \in Nat
ASSUME BufferSizeAssumption == BufferSizeRecords \in Nat
ASSUME CallsAssumption == MaxCalls \in Nat
ASSUME BufferBytesAssumption == MaxBufferSize \in Nat

Keys == {KeyOrder[i] : i \in 1..Len(KeyOrder)}

ASSUME RecordBytesAssumption == RecordBytes \in [Keys -> Nat \ {0}]

\* One cursor position: the key, whether val_valid() holds there, and the
\* weight of the (key, value) pair.
Entry == [key : Keys, hasVal : BOOLEAN, w : Weights]

\* The position of a key in cursor order.
KeyPos(k) == CHOOSE i \in 1..Len(KeyOrder) : KeyOrder[i] = k

\* The batches a cursor can walk: entries of distinct keys, in key order.
Batches ==
    {b \in UNION {[1..n -> Entry] : n \in 0..Len(KeyOrder)} :
        \A i, j \in DOMAIN b : i < j => KeyPos(b[i].key) < KeyPos(b[j].key)}

\* The bytes of a written buffer holding the records recs.
BufferBytes(recs) ==
    LET f[i \in 0..Len(recs)] == IF i = 0 THEN 0 ELSE f[i - 1] + RecordBytes[recs[i]]
    IN  f[Len(recs)]

\* A buffer handed to OutputConsumer::push_buffer.
Buffer == [recs : Seq(Keys), n : Nat]

VARIABLES
    pc,          \* "idle" between calls, "loop" at `while cursor.key_valid()`,
                 \* "emit" at `while w != 0`, "error" after a bail!, "panic"
    calls,       \* number of calls of encode so far
    batch,       \* the batch of the current call
    pos,         \* the cursor position in batch (Len(batch) + 1: key invalid)
    w,           \* the weight still to be written for the current key
    numRecords,  \* num_records: records in the builder not yet flushed
    builder,     \* the records serialized into the ArrayBuilder
    pushed,      \* every buffer pushed to the output consumer, in order
    callStart    \* Len(pushed) when the current call started (history)

vars == <<pc, calls, batch, pos, w, numRecords, builder, pushed, callStart>>

TypeOK ==
    /\ pc \in {"idle", "loop", "emit", "error", "panic"}
    /\ calls \in 0..MaxCalls
    /\ batch \in Seq(Entry)
    /\ pos \in 1..Len(batch) + 1
    /\ w \in Int
    /\ numRecords \in Nat
    /\ builder \in Seq(Keys)
    /\ pushed \in Seq(Buffer)
    /\ callStart \in 0..Len(pushed)

Init ==
    /\ pc = "idle"
    /\ calls = 0
    /\ batch = <<>>
    /\ pos = 1
    /\ w = 0
    /\ numRecords = 0
    /\ builder = <<>>
    /\ pushed = <<>>
    /\ callStart = 0

\* The controller calls encode with the next committed batch; a call that
\* returned an error does not stop later calls.  A fresh builder and
\* cursor are created and num_records starts at 0.
Start(b) ==
    /\ pc \in {"idle", "error"}
    /\ calls < MaxCalls
    /\ pc' = "loop"
    /\ calls' = calls + 1
    /\ batch' = b
    /\ pos' = 1
    /\ w' = 0
    /\ numRecords' = 0
    /\ builder' = <<>>
    /\ callStart' = Len(pushed)
    /\ UNCHANGED pushed

KeyValid == pos <= Len(batch)
Cur == batch[pos]

\* Mutant: `continue` without cursor.step_key().
SkipKeyNoStep ==
    /\ pc = "loop"
    /\ pos <= Len(batch)
    /\ ~batch[pos].hasVal
    /\ UNCHANGED <<pc, calls, batch, pos, w, numRecords, builder, pushed, callStart>>

\* A key without a valid value is stepped over.
SkipKey ==
    /\ pc = "loop"
    /\ KeyValid
    /\ ~Cur.hasVal
    /\ pos' = pos + 1
    /\ UNCHANGED <<pc, calls, batch, w, numRecords, builder, pushed, callStart>>

InRange(x) == -MaxDuplicates <= x /\ x <= MaxDuplicates

\* A weight outside -MAX_DUPLICATES..=MAX_DUPLICATES: bail! with an error.
WeightTooLarge ==
    /\ pc = "loop"
    /\ KeyValid
    /\ Cur.hasVal
    /\ ~InRange(Cur.w)
    /\ pc' = "error"
    /\ UNCHANGED <<calls, batch, pos, w, numRecords, builder, pushed, callStart>>

\* A negative weight within range: panic!, deletes are not supported.
Retraction ==
    /\ pc = "loop"
    /\ KeyValid
    /\ Cur.hasVal
    /\ InRange(Cur.w)
    /\ Cur.w < 0
    /\ pc' = "panic"
    /\ UNCHANGED <<calls, batch, pos, w, numRecords, builder, pushed, callStart>>

\* A positive weight within range: start writing the key w times.
LoadWeight ==
    /\ pc = "loop"
    /\ KeyValid
    /\ Cur.hasVal
    /\ InRange(Cur.w)
    /\ Cur.w >= 0
    /\ pc' = "emit"
    /\ w' = Cur.w
    /\ UNCHANGED <<calls, batch, pos, numRecords, builder, pushed, callStart>>

\* buffer.len() where buffer_full is computed: nothing has been written to
\* the buffer since the last flush cleared it.
BufferLen == 0

BufferFull == BufferLen > MaxBufferSize

\* One iteration of `while w != 0`: the key is serialized, w moves one
\* towards 0 and num_records grows.  When num_records reaches
\* buffer_size_records the builder is written out and pushed with
\* num_records, and num_records is reset.
EmitRecord ==
    /\ pc = "emit"
    /\ w # 0
    /\ ~BufferFull
    /\ numRecords + 1 < BufferSizeRecords
    /\ builder' = Append(builder, Cur.key)
    /\ w' = IF w > 0 THEN w - 1 ELSE w + 1
    /\ numRecords' = numRecords + 1
    /\ UNCHANGED <<pc, calls, batch, pos, pushed, callStart>>

\* Mutant: num_records is not reset after the push.
EmitAndFlushNoReset ==
    /\ pc = "emit"
    /\ w # 0
    /\ ~BufferFull
    /\ numRecords + 1 >= BufferSizeRecords
    /\ w' = IF w > 0 THEN w - 1 ELSE w + 1
    /\ pushed' = Append(pushed, [recs |-> Append(builder, Cur.key),
                                  n |-> numRecords + 1])
    /\ builder' = <<>>
    /\ numRecords' = numRecords + 1
    /\ UNCHANGED <<pc, calls, batch, pos, callStart>>

EmitAndFlush ==
    /\ pc = "emit"
    /\ w # 0
    /\ ~BufferFull
    /\ numRecords + 1 >= BufferSizeRecords
    /\ w' = IF w > 0 THEN w - 1 ELSE w + 1
    /\ pushed' = Append(pushed, [recs |-> Append(builder, Cur.key),
                                  n |-> numRecords + 1])
    /\ builder' = <<>>
    /\ numRecords' = 0
    /\ UNCHANGED <<pc, calls, batch, pos, callStart>>

\* serialize_key_to_arrow, or writing the Parquet buffer, returns an
\* error: the `?` returns it from encode.
EmitFails ==
    /\ pc = "emit"
    /\ w # 0
    /\ pc' = "error"
    /\ UNCHANGED <<calls, batch, pos, w, numRecords, builder, pushed, callStart>>

\* All copies of the key are written: cursor.step_key().
NextKey ==
    /\ pc = "emit"
    /\ w = 0
    /\ pc' = "loop"
    /\ pos' = pos + 1
    /\ UNCHANGED <<calls, batch, w, numRecords, builder, pushed, callStart>>

\* Mutant: the final `if num_records > 0` flush is skipped.
FinishNoFlush ==
    /\ pc = "loop"
    /\ ~KeyValid
    /\ pc' = "idle"
    /\ UNCHANGED <<calls, batch, pos, w, numRecords, builder, pushed, callStart>>

\* The cursor is exhausted: the records left in the builder are pushed,
\* if there are any, and encode returns Ok.
FinishFlush ==
    /\ pc = "loop"
    /\ ~KeyValid
    /\ numRecords > 0
    /\ pc' = "idle"
    /\ pushed' = Append(pushed, [recs |-> builder, n |-> numRecords])
    /\ builder' = <<>>
    /\ UNCHANGED <<calls, batch, pos, w, numRecords, callStart>>

\* Creating the ArrowWriter, building the record batch, or writing or
\* closing the final buffer returns an error: the `?` returns it from
\* encode before push_buffer, and the records left in the builder are not
\* pushed.
FinishFails ==
    /\ pc = "loop"
    /\ ~KeyValid
    /\ numRecords > 0
    /\ pc' = "error"
    /\ UNCHANGED <<calls, batch, pos, w, numRecords, builder, pushed, callStart>>

FinishEmpty ==
    /\ pc = "loop"
    /\ ~KeyValid
    /\ numRecords = 0
    /\ pc' = "idle"
    /\ UNCHANGED <<calls, batch, pos, w, numRecords, builder, pushed, callStart>>

Next ==
    \/ \E b \in Batches : Start(b)
    \/ SkipKey
    \/ WeightTooLarge
    \/ Retraction
    \/ LoadWeight
    \/ EmitRecord
    \/ EmitAndFlush
    \/ EmitFails
    \/ NextKey
    \/ FinishFlush
    \/ FinishFails
    \/ FinishEmpty

\* encode is straight-line code on one thread: once called it keeps
\* running until it returns or panics.
Fairness == WF_vars(SkipKey \/ WeightTooLarge \/ Retraction \/ LoadWeight
                    \/ EmitRecord \/ EmitAndFlush \/ NextKey
                    \/ FinishFlush \/ FinishEmpty)

Spec == Init /\ [][Next]_vars /\ Fairness

-----------------------------------------------------------------------------
(***************************************************************************)
(* Properties.                                                             *)
(***************************************************************************)

\* The records the current call has serialized, at the places the consumer
\* reads them from: <<b, j>> is record j of the b-th pushed buffer, or of
\* the builder for b = Len(pushed) + 1.
BufRecs(b) == IF b <= Len(pushed) THEN pushed[b].recs ELSE builder
Places == UNION {{<<b, j>> : j \in 1..Len(BufRecs(b))} :
                    b \in callStart + 1..Len(pushed) + 1}
RecAt(q) == BufRecs(q[1])[q[2]]
ReadBefore(q, r) == q[1] < r[1] \/ (q[1] = r[1] /\ q[2] < r[2])

\* How many of those records are the key k.
Occurrences(k) == Cardinality({q \in Places : RecAt(q) = k})

\* How many times a correct encoding writes the entry r.
CopyCount(r) == IF r.hasVal /\ r.w > 0 THEN r.w ELSE 0

\* The weight of the current key was loaded into w: encode is in the
\* `while w != 0` loop, or returned an error from inside it.
Loaded ==
    /\ pc \in {"emit", "error"}
    /\ KeyValid
    /\ Cur.hasVal /\ InRange(Cur.w) /\ Cur.w >= 0

\* How many copies of entry i the call has written so far.
Written(i) ==
    IF i < pos THEN CopyCount(batch[i])
    ELSE IF i = pos /\ Loaded THEN Cur.w - w ELSE 0

\* The consumer receives the records of the batch in cursor order, each
\* key exactly as many times as its weight, with no record lost in the
\* builder or pushed twice: what it has received during a call, followed
\* by what the builder holds, is in key order, holds only keys of the
\* batch, every key before the cursor as many times as its weight and the
\* current key as many times as the emit loop has run: a prefix of the
\* batch's expansion.  When encode returns Ok the cursor is past the last
\* key and the builder is empty: the consumer holds the whole expansion.
\* After an error the consumer keeps the prefix already pushed.
EncodedExactlyOnce ==
    pc # "panic" =>
        /\ \A q, r \in Places :
              ReadBefore(q, r) => KeyPos(RecAt(q)) <= KeyPos(RecAt(r))
        /\ \A q \in Places : \E i \in 1..Len(batch) : RecAt(q) = batch[i].key
        /\ \A i \in 1..Len(batch) : Occurrences(batch[i].key) = Written(i)
        /\ pc = "idle" => pos = Len(batch) + 1 /\ builder = <<>>

\* Every buffer pushed to the consumer carries the record count of the
\* records it holds, at least one and at most buffer_size_records (one
\* when buffer_size_records is 0).
PushedBuffersCounted ==
    \A i \in 1..Len(pushed) :
        /\ pushed[i].n = Len(pushed[i].recs)
        /\ 1 <= pushed[i].n
        /\ pushed[i].n <= IF BufferSizeRecords = 0 THEN 1 ELSE BufferSizeRecords

\* Every call of encode returns or panics: the cursor walk terminates.
EncodeTerminates == pc \in {"loop", "emit"} ~> pc \in {"idle", "error", "panic"}

\* The buffer_full check (lines 415-423) means to keep every buffer pushed
\* to the consumer within the transport's max_buffer_size_bytes: a batch
\* of records that does not fit is cut before the record that overflows
\* it, and a single record that does not fit fails encode with an error.
PushedBufferFits == \A i \in 1..Len(pushed) : BufferBytes(pushed[i].recs) <= MaxBufferSize

\* The inductive invariant behind PushedBuffersCounted: while encode runs
\* (or after it stopped with an error or a panic), num_records counts the
\* records in the builder, which stay below buffer_size_records unless
\* there are none, and the emit loop is on a valid key.
IInv ==
    /\ TypeOK
    /\ pc = "emit" => KeyValid
    /\ pc # "idle" => /\ numRecords = Len(builder)
                      /\ numRecords < BufferSizeRecords \/ numRecords = 0
    /\ PushedBuffersCounted


\* The inductive invariant behind EncodedExactlyOnce: the batch is one a
\* cursor can walk; w is 0 at the top of the key loop and counts down
\* from the current key's weight in the emit loop; every record written
\* so far is the key of an entry at or before the cursor; and the places
\* are finitely many, so that counting them is meaningful.
EInv ==
    /\ IInv
    /\ batch \in Batches
    /\ pc = "loop" => w = 0
    /\ pc = "emit" => Loaded
    /\ Loaded => 0 <= w /\ w <= Cur.w
    /\ pc = "idle" => pos = Len(batch) + 1 /\ builder = <<>>
    /\ IsFiniteSet(Places)
    /\ \A q \in Places : \E i \in 1..Len(batch) : i <= pos /\ RecAt(q) = batch[i].key
    /\ \A q, r \in Places :
          ReadBefore(q, r) => KeyPos(RecAt(q)) <= KeyPos(RecAt(r))
    /\ \A i \in 1..Len(batch) : Occurrences(batch[i].key) = Written(i)

=============================================================================
