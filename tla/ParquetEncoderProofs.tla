------------------------- MODULE ParquetEncoderProofs -------------------------
(***************************************************************************)
(* Proofs about ParquetEncoder, for every key order, set of weights,      *)
(* MAX_DUPLICATES, buffer_size_records and bound on calls:                *)
(*                                                                         *)
(*   EncoderInvariantHolds  Spec => []IInv                                 *)
(*   EncoderTypeCorrect     Spec => []TypeOK                               *)
(*   BuffersCounted         Spec => []PushedBuffersCounted                 *)
(*                                                                         *)
(* The argument: num_records is the length of the builder while encode    *)
(* runs, and it stays below buffer_size_records (or at 0), because the    *)
(* loop flushes and resets it as soon as it would reach the bound; each   *)
(* flush therefore pushes the builder with its own length as the count.   *)
(***************************************************************************)
EXTENDS ParquetEncoder, SequenceTheorems, TLAPS

USE KeyOrderAssumption, WeightsAssumption, MaxDuplicatesAssumption,
    BufferSizeAssumption, CallsAssumption

\* What PushedBuffersCounted requires of one pushed buffer.
CountedBuf(buf) ==
    /\ buf.n = Len(buf.recs)
    /\ 1 <= buf.n
    /\ buf.n <= IF BufferSizeRecords = 0 THEN 1 ELSE BufferSizeRecords

\* Appending an element of S to a sequence over S.
LEMMA AppendSeq ==
    ASSUME NEW S, NEW s \in Seq(S), NEW e \in S
    PROVE  /\ Append(s, e) \in Seq(S)
           /\ Len(Append(s, e)) = Len(s) + 1
           /\ \A i \in 1..Len(s) : Append(s, e)[i] = s[i]
           /\ Append(s, e)[Len(s) + 1] = e
BY AppendProperties

\* Pushing a counted buffer keeps every pushed buffer counted.
LEMMA AppendCounted ==
    ASSUME NEW s \in Seq(Buffer), NEW e \in Buffer,
           \A i \in 1..Len(s) : CountedBuf(s[i]),
           CountedBuf(e)
    PROVE  \A i \in 1..Len(Append(s, e)) : CountedBuf(Append(s, e)[i])
<1>1. Len(s) \in Nat
  BY LenProperties
<1>2. /\ Len(Append(s, e)) = Len(s) + 1
      /\ \A i \in 1..Len(s) : Append(s, e)[i] = s[i]
      /\ Append(s, e)[Len(s) + 1] = e
  BY AppendSeq
<1> QED  BY <1>1, <1>2

\* Every batch Start can be given is a sequence of entries.
LEMMA BatchesAreSeqs == Batches \subseteq Seq(Entry)
<1> SUFFICES ASSUME NEW b \in Batches PROVE b \in Seq(Entry)
  OBVIOUS
<1>1. PICK n \in 0..Len(KeyOrder) : b \in [1..n -> Entry]
  BY DEF Batches
<1> QED  BY <1>1, SeqDef

\* The cursor's current entry, on a valid key.
LEMMA CurEntry ==
    ASSUME TypeOK, KeyValid
    PROVE  /\ Cur \in Entry
           /\ Cur.key \in Keys
           /\ Cur.w \in Int \ {0}
<1>1. pos \in 1..Len(batch)
  BY DEF TypeOK, KeyValid
<1>2. Cur \in Entry
  BY <1>1 DEF TypeOK, Cur
<1> QED  BY <1>2 DEF Entry

-----------------------------------------------------------------------------
\* Init establishes the inductive invariant.
LEMMA EncoderInitIInv == Init => IInv
<1> SUFFICES ASSUME Init PROVE IInv
  OBVIOUS
<1>1. TypeOK
  BY DEF Init, TypeOK
<1> QED  BY <1>1 DEF Init, IInv, PushedBuffersCounted

\* Every step of Next, and every stuttering step, preserves IInv.
LEMMA EncoderNextIInv == IInv /\ [Next]_vars => IInv'
<1> SUFFICES ASSUME IInv, [Next]_vars PROVE IInv'
  OBVIOUS
<1>0. TypeOK /\ PushedBuffersCounted
  BY DEF IInv
<1>1. ASSUME NEW b \in Batches, Start(b) PROVE IInv'
  <2>1. b \in Seq(Entry)
    BY BatchesAreSeqs
  <2>2. TypeOK'
    BY <1>0, <1>1, <2>1 DEF Start, TypeOK
  <2> QED  BY <1>0, <1>1, <2>2 DEF Start, IInv, PushedBuffersCounted
<1>2. CASE SkipKey
  BY <1>0, <1>2 DEF SkipKey, KeyValid, IInv, TypeOK, PushedBuffersCounted
<1>3. CASE WeightTooLarge
  BY <1>0, <1>3 DEF WeightTooLarge, KeyValid, IInv, TypeOK, PushedBuffersCounted
<1>4. CASE Retraction
  BY <1>0, <1>4 DEF Retraction, KeyValid, IInv, TypeOK, PushedBuffersCounted
<1>5. CASE LoadWeight
  <2>1. Cur.w \in Int
    BY <1>0, <1>5, CurEntry DEF LoadWeight
  <2> QED  BY <1>0, <1>5, <2>1 DEF LoadWeight, KeyValid, IInv, TypeOK, PushedBuffersCounted
<1>6. CASE EmitRecord
  <2>1. KeyValid /\ numRecords = Len(builder)
    BY <1>6 DEF EmitRecord, IInv
  <2>2. Cur.key \in Keys
    BY <1>0, <2>1, CurEntry
  <2>3. builder' \in Seq(Keys) /\ Len(builder') = Len(builder) + 1
    BY <1>0, <1>6, <2>2, AppendSeq DEF EmitRecord, TypeOK
  <2>4. TypeOK'
    BY <1>0, <1>6, <2>1, <2>3 DEF EmitRecord, TypeOK
  <2> QED  BY <1>0, <1>6, <2>1, <2>3, <2>4 DEF EmitRecord, KeyValid, IInv, PushedBuffersCounted
<1>7. CASE EmitAndFlush
  <2> DEFINE buf == [recs |-> Append(builder, Cur.key), n |-> numRecords + 1]
  <2>1. /\ KeyValid /\ numRecords = Len(builder)
        /\ numRecords < BufferSizeRecords \/ numRecords = 0
    BY <1>7 DEF EmitAndFlush, IInv
  <2>2. Cur.key \in Keys
    BY <1>0, <2>1, CurEntry
  <2>3. Append(builder, Cur.key) \in Seq(Keys)
        /\ Len(Append(builder, Cur.key)) = Len(builder) + 1
    BY <1>0, <2>2, AppendSeq DEF TypeOK
  <2>4. buf \in Buffer /\ CountedBuf(buf)
    BY <1>0, <2>1, <2>3 DEF TypeOK, Buffer, CountedBuf
  <2>5. pushed' = Append(pushed, buf)
    BY <1>7 DEF EmitAndFlush
  <2>6. pushed' \in Seq(Buffer) /\ Len(pushed') = Len(pushed) + 1
    BY <1>0, <2>4, <2>5, AppendSeq DEF TypeOK
  <2>7. PushedBuffersCounted'
    BY <1>0, <2>4, <2>5, AppendCounted DEF TypeOK, PushedBuffersCounted, CountedBuf
  <2>8. TypeOK'
    BY <1>0, <1>7, <2>6 DEF EmitAndFlush, TypeOK
  <2> QED  BY <1>7, <2>1, <2>7, <2>8 DEF EmitAndFlush, KeyValid, IInv
<1>8. CASE EmitFails
  BY <1>0, <1>8 DEF EmitFails, KeyValid, IInv, TypeOK, PushedBuffersCounted
<1>9. CASE NextKey
  BY <1>0, <1>9 DEF NextKey, KeyValid, IInv, TypeOK, PushedBuffersCounted
<1>10. CASE FinishFlush
  <2> DEFINE buf == [recs |-> builder, n |-> numRecords]
  <2>1. numRecords = Len(builder) /\ numRecords > 0
        /\ numRecords < BufferSizeRecords
    BY <1>10 DEF FinishFlush, IInv
  <2>2. buf \in Buffer /\ CountedBuf(buf)
    BY <1>0, <2>1 DEF TypeOK, Buffer, CountedBuf
  <2>3. pushed' = Append(pushed, buf)
    BY <1>10 DEF FinishFlush
  <2>4. pushed' \in Seq(Buffer) /\ Len(pushed') = Len(pushed) + 1
    BY <1>0, <2>2, <2>3, AppendSeq DEF TypeOK
  <2>5. PushedBuffersCounted'
    BY <1>0, <2>2, <2>3, AppendCounted DEF TypeOK, PushedBuffersCounted, CountedBuf
  <2>6. TypeOK'
    BY <1>0, <1>10, <2>4 DEF FinishFlush, TypeOK
  <2> QED  BY <1>10, <2>5, <2>6 DEF FinishFlush, IInv
<1>11. CASE FinishEmpty
  BY <1>0, <1>11 DEF FinishEmpty, KeyValid, IInv, TypeOK, PushedBuffersCounted
<1>12. CASE UNCHANGED vars
  BY <1>12 DEF vars, IInv, TypeOK, KeyValid, PushedBuffersCounted
<1>13. CASE FinishFails
  BY <1>0, <1>13 DEF FinishFails, KeyValid, IInv, TypeOK, PushedBuffersCounted
<1> QED  BY <1>1, <1>2, <1>3, <1>4, <1>5, <1>6, <1>7, <1>8, <1>9, <1>10, <1>11, <1>12,
            <1>13 DEF Next

\* The inductive invariant holds in every reachable state.
THEOREM EncoderInvariantHolds == Spec => []IInv
BY EncoderInitIInv, EncoderNextIInv, PTL DEF Spec

\* Every reachable state of encode has the types of TypeOK.
THEOREM EncoderTypeCorrect == Spec => []TypeOK
BY EncoderInvariantHolds, PTL DEF IInv

\* Every buffer encode pushes to the output consumer carries the count of
\* the records it holds, at least one and at most buffer_size_records,
\* for every buffer_size_records, batch and number of calls.
THEOREM BuffersCounted == Spec => []PushedBuffersCounted
BY EncoderInvariantHolds, PTL DEF IInv

=============================================================================
