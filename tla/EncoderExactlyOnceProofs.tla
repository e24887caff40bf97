----------------------- MODULE EncoderExactlyOnceProofs -----------------------
(***************************************************************************)
(* EncodedExactlyOnce for every key order, set of weights, MAX_DUPLICATES, *)
(* buffer_size_records and bound on calls:                                 *)
(*                                                                         *)
(*   ExactlyOnceInvariantHolds  Spec => []EInv                             *)
(*   ExactlyOnce                Spec => []EncodedExactlyOnce               *)
(*                                                                         *)
(* The argument follows the consumer's reading places.  A step of encode  *)
(* either leaves the places and their records alone, or adds one place,   *)
(* read after every other, holding the current key (the emit loop, with   *)
(* or without a flush), or moves the builder's records to a new buffer   *)
(* at the same places (the final flush).  Adding the current key keeps    *)
(* the records in key order because every earlier record is the key of   *)
(* an entry at or before the cursor and the batch is in strict key        *)
(* order; it adds one occurrence of the current key and of no other,     *)
(* because the batch's keys are distinct; and it matches the one step w   *)
(* takes towards 0.                                                        *)
(***************************************************************************)
EXTENDS ParquetEncoderProofs, FiniteSetTheorems

\* The place the next serialized record takes: after the last record of
\* the builder.
NewPlace == <<Len(pushed) + 1, Len(builder) + 1>>

\* Membership of the reading places, without the UNION.
LEMMA PlacesMember ==
    ASSUME NEW q
    PROVE  q \in Places <=>
              \E b \in callStart + 1..Len(pushed) + 1 :
                 \E j \in 1..Len(BufRecs(b)) : q = <<b, j>>
BY DEF Places

\* Every key has a position in cursor order.
LEMMA KeyPosType ==
    ASSUME NEW k \in Keys
    PROVE  KeyPos(k) \in 1..Len(KeyOrder) /\ KeyOrder[KeyPos(k)] = k
BY DEF Keys, KeyPos

\* The entries of a batch are in strictly increasing key order, hence of
\* distinct keys.
LEMMA BatchOrdered ==
    ASSUME NEW b \in Batches
    PROVE  /\ b \in Seq(Entry)
           /\ \A i, j \in 1..Len(b) : i < j => KeyPos(b[i].key) < KeyPos(b[j].key)
           /\ \A i, j \in 1..Len(b) : i # j => b[i].key # b[j].key
<1>1. b \in Seq(Entry)
  BY BatchesAreSeqs
<1>2. DOMAIN b = 1..Len(b)
  BY <1>1
<1>3. \A i, j \in 1..Len(b) : i < j => KeyPos(b[i].key) < KeyPos(b[j].key)
  BY <1>2 DEF Batches
<1>4. \A i, j \in 1..Len(b) : i # j => b[i].key # b[j].key
  <2> SUFFICES ASSUME NEW i \in 1..Len(b), NEW j \in 1..Len(b), i # j,
                      b[i].key = b[j].key
               PROVE  FALSE
    OBVIOUS
  <2>1. i < j \/ j < i
    OBVIOUS
  <2>2. b[i] \in Entry
    BY <1>1, ElementOfSeq
  <2>3. b[i].key \in Keys
    BY <2>2 DEF Entry
  <2>4. KeyPos(b[i].key) \in Int
    BY <2>3, KeyPosType
  <2> QED  BY <1>3, <2>1, <2>4
<1> QED  BY <1>1, <1>3, <1>4

\* The empty batch of Init is a batch.
LEMMA EmptyBatch == <<>> \in Batches
<1>1. <<>> \in [1..0 -> Entry]
  OBVIOUS
<1> QED  BY <1>1 DEF Batches

\* A step that leaves the pushed buffers, the builder and the start of
\* the call alone leaves the places, their records and the counts alone.
LEMMA PlacesSame ==
    ASSUME pushed' = pushed, builder' = builder, callStart' = callStart
    PROVE  /\ Places' = Places
           /\ \A q : RecAt(q)' = RecAt(q)
           /\ \A k : Occurrences(k)' = Occurrences(k)
BY DEF Places, RecAt, BufRecs, Occurrences


\* What a reading place is: a buffer pushed since the call started, or
\* the builder, and an index into its records.
LEMMA PlaceParts ==
    ASSUME TypeOK, NEW q \in Places
    PROVE  /\ q = <<q[1], q[2]>>
           /\ q[1] \in callStart + 1..Len(pushed) + 1
           /\ q[2] \in 1..Len(BufRecs(q[1]))
           /\ q[1] = Len(pushed) + 1 => q[2] \in 1..Len(builder)
<1>1. PICK b \in callStart + 1..Len(pushed) + 1 :
         \E j \in 1..Len(BufRecs(b)) : q = <<b, j>>
  BY PlacesMember
<1>2. PICK j \in 1..Len(BufRecs(b)) : q = <<b, j>>
  BY <1>1
<1> QED  BY <1>1, <1>2 DEF BufRecs, TypeOK

\* A step of the emit loop serializes the current key k, and either keeps
\* it in the builder or flushes the builder with it: either way the
\* places grow by one, read after every other, that holds k, and the
\* records at the other places stay as they are.
LEMMA PlacesGrow ==
    ASSUME TypeOK, NEW k \in Keys, NEW m \in Nat, callStart' = callStart,
           \/ pushed' = pushed /\ builder' = Append(builder, k)
           \/ /\ pushed' = Append(pushed, [recs |-> Append(builder, k), n |-> m])
              /\ builder' = <<>>
    PROVE  /\ Places' = Places \cup {NewPlace}
           /\ NewPlace \notin Places
           /\ \A q \in Places : RecAt(q)' = RecAt(q)
           /\ \A q \in {NewPlace} : RecAt(q)' = k
           /\ \A q \in Places : ReadBefore(q, NewPlace) /\ ~ReadBefore(NewPlace, q)
<1> DEFINE L == Len(pushed)
           nb == Append(builder, k)
           rec == [recs |-> nb, n |-> m]
<1>1. /\ L \in Nat /\ Len(builder) \in Nat
      /\ nb \in Seq(Keys) /\ Len(nb) = Len(builder) + 1
      /\ \A i \in 1..Len(builder) : nb[i] = builder[i]
      /\ nb[Len(builder) + 1] = k
  BY AppendSeq DEF TypeOK
<1>2. rec \in Buffer
  BY <1>1 DEF Buffer
<1>3. /\ \A b \in callStart + 1..L : BufRecs(b)' = BufRecs(b)
      /\ \A b \in {L + 1} : BufRecs(b)' = nb
      /\ BufRecs(L + 1) = builder
      /\ \/ Len(pushed') = L
         \/ Len(pushed') = L + 1 /\ \A b \in {L + 2} : BufRecs(b)' = <<>>
  <2>0. BufRecs(L + 1) = builder
    BY <1>1 DEF BufRecs
  <2>a. Len(Append(pushed, rec)) = L + 1
    BY <1>2, AppendSeq DEF TypeOK
  <2>1. CASE pushed' = pushed /\ builder' = nb
    <3>1. \A b \in callStart + 1..L : BufRecs(b)' = BufRecs(b)
      BY <2>1 DEF BufRecs
    <3>2. \A b \in {L + 1} : BufRecs(b)' = nb
      BY <1>1, <2>1 DEF BufRecs
    <3> QED  BY <1>1, <2>0, <2>a, <2>1, <3>1, <3>2
  <2>2. CASE pushed' = Append(pushed, rec) /\ builder' = <<>>
    <3>1. /\ Len(pushed') = L + 1
          /\ \A i \in 1..L : pushed'[i] = pushed[i]
          /\ pushed'[L + 1] = rec
      BY <1>2, <2>2, AppendSeq DEF TypeOK
    <3>2. \A b \in callStart + 1..L : BufRecs(b)' = BufRecs(b)
      <4> SUFFICES ASSUME NEW b \in callStart + 1..L PROVE BufRecs(b)' = BufRecs(b)
        OBVIOUS
      <4>1. b \in 1..L
        BY <1>1 DEF TypeOK
      <4> QED  BY <1>1, <3>1, <4>1 DEF BufRecs
    <3>3. \A b \in {L + 1} : BufRecs(b)' = nb
      BY <1>1, <3>1 DEF BufRecs
    <3>4. \A b \in {L + 2} : BufRecs(b)' = <<>>
      BY <1>1, <2>2, <3>1 DEF BufRecs
    <3> QED  BY <2>0, <2>2, <3>1, <3>2, <3>3, <3>4
  <2> QED  BY <2>1, <2>2
<1>3a. Len(pushed') \in Nat /\ L <= Len(pushed')
  BY <1>1, <1>3
<1>4. \A q \in Places : ReadBefore(q, NewPlace) /\ ~ReadBefore(NewPlace, q)
                        /\ q # NewPlace
  <2> SUFFICES ASSUME NEW q \in Places
               PROVE  ReadBefore(q, NewPlace) /\ ~ReadBefore(NewPlace, q) /\ q # NewPlace
    OBVIOUS
  <2>1. /\ q[1] \in callStart + 1..L + 1
        /\ q[1] = L + 1 => q[2] \in 1..Len(builder)
        /\ q[2] \in 1..Len(BufRecs(q[1]))
    BY PlaceParts
  <2> QED  BY <1>1, <2>1 DEF ReadBefore, NewPlace
<1>5. \A q \in Places : RecAt(q)' = RecAt(q)
  <2> SUFFICES ASSUME NEW q \in Places PROVE RecAt(q)' = RecAt(q)
    OBVIOUS
  <2>1. q[1] \in callStart + 1..L + 1 /\ q[2] \in 1..Len(BufRecs(q[1]))
        /\ (q[1] = L + 1 => q[2] \in 1..Len(builder))
    BY PlaceParts
  <2>2. CASE q[1] <= L
    <3>1. q[1] \in callStart + 1..L
      BY <1>1, <2>1, <2>2
    <3>2. BufRecs(q[1])' = BufRecs(q[1])
      BY <1>3, <3>1
    <3> QED  BY <3>2 DEF RecAt
  <2>3. CASE q[1] = L + 1
    <3>1. BufRecs(q[1])' = nb /\ BufRecs(q[1]) = builder
      BY <1>3, <2>3
    <3>2. q[2] \in 1..Len(builder)
      BY <2>1, <2>3
    <3> QED  BY <1>1, <3>1, <3>2 DEF RecAt
  <2>4. q[1] <= L \/ q[1] = L + 1
    BY <1>1, <2>1 DEF TypeOK
  <2> QED  BY <2>2, <2>3, <2>4
<1>6. \A q \in {NewPlace} : RecAt(q)' = k
  BY <1>1, <1>3 DEF RecAt, NewPlace
<1>7. Places' = Places \cup {NewPlace}
  <2>1. ASSUME NEW q \in Places' PROVE q \in Places \cup {NewPlace}
    <3>1. PICK b \in callStart + 1..Len(pushed') + 1 :
             \E j \in 1..Len(BufRecs(b)') : q = <<b, j>>
      BY <2>1 DEF Places
    <3>2. PICK j \in 1..Len(BufRecs(b)') : q = <<b, j>>
      BY <3>1
    <3>3. CASE b <= L
      <4>1. b \in callStart + 1..L
        BY <1>1, <3>1, <3>3
      <4>2. j \in 1..Len(BufRecs(b))
        BY <1>3, <3>2, <4>1
      <4>3. b \in callStart + 1..L + 1
        BY <1>1, <4>1
      <4> QED  BY <3>2, <4>2, <4>3, PlacesMember
    <3>4. CASE b = L + 1 /\ j <= Len(builder)
      <4>1. b \in callStart + 1..L + 1
        BY <1>1, <3>1, <3>4
      <4>2. j \in 1..Len(BufRecs(b))
        BY <1>3, <3>2, <3>4
      <4> QED  BY <3>2, <4>1, <4>2, PlacesMember
    <3>5. CASE b = L + 1 /\ j = Len(builder) + 1
      BY <3>2, <3>5 DEF NewPlace
    <3>6. CASE b = L + 2
      <4>1. Len(BufRecs(b)') = 0
        BY <1>1, <1>3, <3>1, <3>6
      <4> QED  BY <3>2, <4>1
    <3> QED  BY <1>1, <1>3, <3>1, <3>2, <3>3, <3>4, <3>5, <3>6
  <2>2. ASSUME NEW q \in Places PROVE q \in Places'
    <3>1. q = <<q[1], q[2]>> /\ q[1] \in callStart + 1..L + 1
          /\ q[2] \in 1..Len(BufRecs(q[1]))
          /\ (q[1] = L + 1 => q[2] \in 1..Len(builder))
      BY <2>2, PlaceParts
    <3>2. q[1] \in callStart + 1..Len(pushed') + 1
      BY <1>1, <1>3a, <3>1
    <3>3. q[2] \in 1..Len(BufRecs(q[1])')
      <4>1. CASE q[1] <= L
        <5>1. q[1] \in callStart + 1..L
          BY <1>1, <3>1, <4>1 DEF TypeOK
        <5>2. BufRecs(q[1])' = BufRecs(q[1])
          BY <1>3, <5>1
        <5> QED  BY <3>1, <5>2
      <4>2. CASE q[1] = L + 1
        <5>1. BufRecs(q[1])' = nb
          BY <1>3, <4>2
        <5> QED  BY <1>1, <3>1, <4>2, <5>1
      <4>3. q[1] <= L \/ q[1] = L + 1
        BY <1>1, <3>1 DEF TypeOK
      <4> QED  BY <4>1, <4>2, <4>3
    <3>4. \E b \in callStart + 1..Len(pushed') + 1 :
             \E j \in 1..Len(BufRecs(b)') : q = <<b, j>>
      BY <3>1, <3>2, <3>3
    <3> QED  BY <3>4 DEF Places
  <2>3. NewPlace \in Places'
    <3>1. L + 1 \in callStart + 1..Len(pushed') + 1
      BY <1>1, <1>3 DEF TypeOK
    <3>2. \A b \in {L + 1} : Len(builder) + 1 \in 1..Len(BufRecs(b)')
      BY <1>1, <1>3
    <3>3. \E b \in callStart + 1..Len(pushed') + 1 :
             \E j \in 1..Len(BufRecs(b)') : NewPlace = <<b, j>>
      BY <3>1, <3>2 DEF NewPlace
    <3> QED  BY <3>3 DEF Places
  <2> QED  BY <2>1, <2>2, <2>3
<1> QED  BY <1>4, <1>5, <1>6, <1>7


\* A step that adds the place NewPlace, holding k, counts one more k and
\* leaves the count of every other key alone; the places stay finite.
LEMMA CountGrow ==
    ASSUME TypeOK, NEW k \in Keys, NEW m \in Nat, callStart' = callStart,
           \/ pushed' = pushed /\ builder' = Append(builder, k)
           \/ /\ pushed' = Append(pushed, [recs |-> Append(builder, k), n |-> m])
              /\ builder' = <<>>,
           IsFiniteSet(Places)
    PROVE  /\ IsFiniteSet(Places')
           /\ \A x : Occurrences(x)' = IF x = k THEN Occurrences(x) + 1
                                                ELSE Occurrences(x)
<1>1. /\ Places' = Places \cup {NewPlace}
      /\ NewPlace \notin Places
      /\ \A q \in Places : RecAt(q)' = RecAt(q)
      /\ \A q \in {NewPlace} : RecAt(q)' = k
  BY PlacesGrow
<1>2. IsFiniteSet(Places')
  BY <1>1, FS_AddElement
<1>3. ASSUME NEW x PROVE Occurrences(x)' = IF x = k THEN Occurrences(x) + 1
                                                    ELSE Occurrences(x)
  <2> DEFINE S == {q \in Places : RecAt(q) = x}
  <2>1. IsFiniteSet(S) /\ NewPlace \notin S
    BY <1>1, FS_Subset
  <2>2. CASE x = k
    <3>1. {q \in Places' : RecAt(q)' = x} = S \cup {NewPlace}
      BY <1>1, <2>2
    <3> QED  BY <2>1, <2>2, <3>1, FS_AddElement DEF Occurrences
  <2>3. CASE x # k
    <3>1. {q \in Places' : RecAt(q)' = x} = S
      BY <1>1, <2>3
    <3> QED  BY <2>3, <3>1 DEF Occurrences
  <2> QED  BY <2>2, <2>3
<1> QED  BY <1>2, <1>3

\* The final flush pushes the builder as a new buffer and empties it: the
\* records stay at the same places, so every count stays as it is.
LEMMA PlacesFlush ==
    ASSUME TypeOK, NEW m, callStart' = callStart,
           pushed' = Append(pushed, [recs |-> builder, n |-> m]),
           builder' = <<>>
    PROVE  /\ Places' = Places
           /\ \A q \in Places : RecAt(q)' = RecAt(q)
           /\ \A x : Occurrences(x)' = Occurrences(x)
<1> DEFINE L == Len(pushed)
<1>1. /\ L \in Nat
      /\ Len(pushed') = L + 1
      /\ \A i \in 1..L : pushed'[i] = pushed[i]
      /\ pushed'[L + 1].recs = builder
  BY AppendProperties DEF TypeOK
<1>2. \A b \in callStart + 1..L + 1 : BufRecs(b)' = BufRecs(b)
  <2> SUFFICES ASSUME NEW b \in callStart + 1..L + 1 PROVE BufRecs(b)' = BufRecs(b)
    OBVIOUS
  <2>1. b \in 1..L + 1
    BY <1>1 DEF TypeOK
  <2> QED  BY <1>1, <2>1 DEF BufRecs
<1>3. \A b \in {L + 2} : BufRecs(b)' = <<>>
  BY <1>1 DEF BufRecs
<1>4. Places' = Places
  <2>1. ASSUME NEW q \in Places' PROVE q \in Places
    <3>1. PICK b \in callStart + 1..Len(pushed') + 1 :
             \E j \in 1..Len(BufRecs(b)') : q = <<b, j>>
      BY <2>1 DEF Places
    <3>2. b # L + 2
      BY <1>1, <1>3, <3>1
    <3>3. b \in callStart + 1..L + 1
      BY <1>1, <3>1, <3>2 DEF TypeOK
    <3> QED  BY <1>2, <3>1, <3>3 DEF Places
  <2>2. ASSUME NEW q \in Places PROVE q \in Places'
    <3>1. PICK b \in callStart + 1..L + 1 :
             \E j \in 1..Len(BufRecs(b)) : q = <<b, j>>
      BY <2>2 DEF Places
    <3>2. b \in callStart + 1..Len(pushed') + 1
      BY <1>1, <3>1 DEF TypeOK
    <3> QED  BY <1>2, <3>1, <3>2 DEF Places
  <2> QED  BY <2>1, <2>2
<1>5. \A q \in Places : RecAt(q)' = RecAt(q)
  BY <1>2, PlaceParts DEF RecAt
<1> QED  BY <1>4, <1>5 DEF Occurrences


-----------------------------------------------------------------------------
(***************************************************************************)
(* The inductive invariant EInv, in three parts: the shape of the encode  *)
(* state, the records at the reading places, and their counts.           *)
(***************************************************************************)
Shape ==
    /\ batch \in Batches
    /\ pc = "loop" => w = 0
    /\ pc = "emit" => Loaded
    /\ Loaded => 0 <= w /\ w <= Cur.w
    /\ pc = "idle" => pos = Len(batch) + 1 /\ builder = <<>>

RecordsInv ==
    /\ IsFiniteSet(Places)
    /\ \A q \in Places : \E i \in 1..Len(batch) : i <= pos /\ RecAt(q) = batch[i].key
    /\ \A q, r \in Places :
          ReadBefore(q, r) => KeyPos(RecAt(q)) <= KeyPos(RecAt(r))

CountsInv == \A i \in 1..Len(batch) : Occurrences(batch[i].key) = Written(i)

LEMMA EInvParts == EInv <=> IInv /\ Shape /\ RecordsInv /\ CountsInv
BY DEF EInv, Shape, RecordsInv, CountsInv

\* Init establishes EInv: no call has started and nothing was written.
LEMMA ExactlyOnceInit == Init => EInv
<1> SUFFICES ASSUME Init PROVE IInv /\ Shape /\ RecordsInv /\ CountsInv
  BY EInvParts
<1>1. IInv
  BY EncoderInitIInv
<1>2. Shape
  BY EmptyBatch DEF Init, Shape, Loaded
<1>3. Places = {}
  BY DEF Init, Places, BufRecs
<1>4. RecordsInv
  BY <1>3, FS_EmptySet DEF RecordsInv
<1>5. CountsInv
  BY DEF Init, CountsInv
<1> QED  BY <1>1, <1>2, <1>4, <1>5

\* A step that keeps the batch and the records at the reading places, and
\* moves the cursor forward by at most one, keeps RecordsInv and every
\* count.
LEMMA RecordsStay ==
    ASSUME RecordsInv, TypeOK,
           Places' = Places, \A q \in Places : RecAt(q)' = RecAt(q),
           batch' = batch, pos' \in {pos, pos + 1}
    PROVE  /\ RecordsInv'
           /\ \A i \in 1..Len(batch) : Occurrences(batch[i].key)' = Occurrences(batch[i].key)
<1>1. IsFiniteSet(Places')
  BY DEF RecordsInv
<1>2. \A q \in Places' : \E i \in 1..Len(batch') : i <= pos' /\ RecAt(q)' = batch'[i].key
  BY DEF RecordsInv, TypeOK
<1>3. \A q, r \in Places' : ReadBefore(q, r) => KeyPos(RecAt(q)') <= KeyPos(RecAt(r)')
  BY DEF RecordsInv
<1>4. \A i \in 1..Len(batch) : Occurrences(batch[i].key)' = Occurrences(batch[i].key)
  BY DEF Occurrences
<1> QED  BY <1>1, <1>2, <1>3, <1>4 DEF RecordsInv, ReadBefore


\* A step that keeps the batch, the pushed buffers, the builder and the
\* start of the call, moves the cursor forward by at most one and keeps
\* the number of copies written of every entry keeps EInv, once it keeps
\* IInv and Shape.
LEMMA StayStep ==
    ASSUME EInv, UNCHANGED <<pushed, builder, callStart, batch>>,
           pos' \in {pos, pos + 1}, IInv', Shape',
           \A i \in 1..Len(batch) : Written(i)' = Written(i)
    PROVE  EInv'
<1>1. TypeOK /\ RecordsInv /\ CountsInv
  BY EInvParts DEF IInv
<1>2. Places' = Places /\ \A q \in Places : RecAt(q)' = RecAt(q)
  BY PlacesSame
<1>3. /\ RecordsInv'
      /\ \A i \in 1..Len(batch) : Occurrences(batch[i].key)' = Occurrences(batch[i].key)
  BY <1>1, <1>2, RecordsStay
<1>4. CountsInv'
  BY <1>1, <1>3 DEF CountsInv
<1> QED  BY <1>3, <1>4 DEF EInv, Shape, RecordsInv, CountsInv

\* A call starts on a fresh builder: no place yet, nothing written.
LEMMA StepStart ==
    ASSUME EInv, NEW b \in Batches, Start(b)
    PROVE  EInv'
<1>1. IInv /\ TypeOK
  BY EInvParts DEF IInv
<1>2. IInv'
  BY <1>1, EncoderNextIInv DEF Next
<1>3. Shape'
  BY DEF Start, Shape, Loaded
<1>4. Places' = {}
  BY <1>1 DEF Start, Places, BufRecs, TypeOK
<1>5. RecordsInv'
  BY <1>4, FS_EmptySet DEF RecordsInv
<1>6. CountsInv'
  <2> SUFFICES ASSUME NEW i \in 1..Len(batch')
               PROVE  Occurrences(batch[i].key)' = Written(i)'
    BY DEF CountsInv
  <2>1. Occurrences(batch[i].key)' = 0
    BY <1>4, FS_EmptySet DEF Occurrences
  <2>2. Written(i)' = 0
    BY DEF Start, Written, Loaded
  <2> QED  BY <2>1, <2>2
<1> QED  BY <1>2, <1>3, <1>5, <1>6 DEF EInv, Shape, RecordsInv, CountsInv

\* A key without a value: skipped, with no copy to write.
LEMMA StepSkipKey == EInv /\ SkipKey => EInv'
<1> SUFFICES ASSUME EInv, SkipKey PROVE EInv'
  OBVIOUS
<1>1. IInv /\ TypeOK /\ Shape
  BY EInvParts DEF IInv
<1>2. IInv'
  BY <1>1, EncoderNextIInv DEF Next
<1>3. Shape'
  BY <1>1 DEF SkipKey, Shape, Loaded, KeyValid, TypeOK
<1>4. \A i \in 1..Len(batch) : Written(i)' = Written(i)
  BY <1>1 DEF SkipKey, Written, Loaded, CopyCount, Cur, KeyValid, TypeOK
<1> QED  BY <1>2, <1>3, <1>4, StayStep DEF SkipKey

\* A weight out of range: the call fails before writing the key.
LEMMA StepWeightTooLarge == EInv /\ WeightTooLarge => EInv'
<1> SUFFICES ASSUME EInv, WeightTooLarge PROVE EInv'
  OBVIOUS
<1>1. IInv /\ TypeOK /\ Shape
  BY EInvParts DEF IInv
<1>2. IInv'
  BY <1>1, EncoderNextIInv DEF Next
<1>3. ~Loaded'
  BY DEF WeightTooLarge, Loaded, Cur, KeyValid
<1>4. Shape'
  BY <1>1, <1>3 DEF WeightTooLarge, Shape, Loaded
<1>5. \A i \in 1..Len(batch) : Written(i)' = Written(i)
  BY <1>3 DEF WeightTooLarge, Written, Loaded
<1> QED  BY <1>2, <1>4, <1>5, StayStep DEF WeightTooLarge

\* A retraction: the call panics before writing the key.
LEMMA StepRetraction == EInv /\ Retraction => EInv'
<1> SUFFICES ASSUME EInv, Retraction PROVE EInv'
  OBVIOUS
<1>1. IInv /\ TypeOK /\ Shape
  BY EInvParts DEF IInv
<1>2. IInv'
  BY <1>1, EncoderNextIInv DEF Next
<1>3. Shape'
  BY <1>1 DEF Retraction, Shape, Loaded
<1>4. \A i \in 1..Len(batch) : Written(i)' = Written(i)
  BY DEF Retraction, Written, Loaded
<1> QED  BY <1>2, <1>3, <1>4, StayStep DEF Retraction

\* The weight is loaded: w starts at the key's weight, no copy written.
LEMMA StepLoadWeight == EInv /\ LoadWeight => EInv'
<1> SUFFICES ASSUME EInv, LoadWeight PROVE EInv'
  OBVIOUS
<1>1. IInv /\ TypeOK /\ Shape
  BY EInvParts DEF IInv
<1>2. IInv'
  BY <1>1, EncoderNextIInv DEF Next
<1>3. Cur.w \in Int
  BY <1>1, CurEntry DEF LoadWeight
<1>4. Loaded'
  BY DEF LoadWeight, Loaded, Cur, KeyValid
<1>5. Shape'
  BY <1>1, <1>3, <1>4 DEF LoadWeight, Shape, Cur
<1>6. \A i \in 1..Len(batch) : Written(i)' = Written(i)
  BY <1>3 DEF LoadWeight, Written, Loaded, Cur
<1> QED  BY <1>2, <1>5, <1>6, StayStep DEF LoadWeight

\* Serialization fails inside the emit loop: the copies written so far
\* stay written.
LEMMA StepEmitFails == EInv /\ EmitFails => EInv'
<1> SUFFICES ASSUME EInv, EmitFails PROVE EInv'
  OBVIOUS
<1>1. IInv /\ TypeOK /\ Shape
  BY EInvParts DEF IInv
<1>2. IInv'
  BY <1>1, EncoderNextIInv DEF Next
<1>3. Loaded' = Loaded
  BY DEF EmitFails, Loaded, Cur, KeyValid
<1>4. Shape'
  BY <1>1, <1>3 DEF EmitFails, Shape, Cur
<1>5. \A i \in 1..Len(batch) : Written(i)' = Written(i)
  BY <1>3 DEF EmitFails, Written, Cur
<1> QED  BY <1>2, <1>4, <1>5, StayStep DEF EmitFails


\* All copies of the key are written: its count is now its CopyCount.
LEMMA StepNextKey == EInv /\ NextKey => EInv'
<1> SUFFICES ASSUME EInv, NextKey PROVE EInv'
  OBVIOUS
<1>1. IInv /\ TypeOK /\ Shape /\ KeyValid
  BY EInvParts DEF IInv, NextKey
<1>2. IInv'
  BY <1>1, EncoderNextIInv DEF Next
<1>3. Shape'
  BY <1>1 DEF NextKey, Shape, Loaded, KeyValid, TypeOK
<1>4. /\ Loaded /\ w = 0
      /\ Cur.w \in Int \ {0}
  BY <1>1, CurEntry DEF NextKey, Shape
<1>5. CopyCount(Cur) = Cur.w - w
  BY <1>4 DEF Loaded, CopyCount
<1>6. \A i \in 1..Len(batch) : Written(i)' = Written(i)
  <2> SUFFICES ASSUME NEW i \in 1..Len(batch) PROVE Written(i)' = Written(i)
    OBVIOUS
  <2>1. ~Loaded'
    BY DEF NextKey, Loaded
  <2>2. CASE i = pos
    BY <1>4, <1>5, <2>1, <2>2 DEF NextKey, Written, Cur
  <2>3. CASE i # pos
    BY <1>1, <2>1, <2>3 DEF NextKey, Written, TypeOK
  <2> QED  BY <2>2, <2>3
<1> QED  BY <1>2, <1>3, <1>6, StayStep DEF NextKey

\* The cursor is exhausted with an empty builder: encode returns Ok.
LEMMA StepFinishEmpty == EInv /\ FinishEmpty => EInv'
<1> SUFFICES ASSUME EInv, FinishEmpty PROVE EInv'
  OBVIOUS
<1>1. IInv /\ TypeOK /\ Shape
  BY EInvParts DEF IInv
<1>2. IInv'
  BY <1>1, EncoderNextIInv DEF Next
<1>3. builder = <<>>
  BY <1>1, EmptySeq DEF FinishEmpty, IInv, TypeOK
<1>4. Shape'
  BY <1>1, <1>3 DEF FinishEmpty, Shape, Loaded, KeyValid, TypeOK
<1>5. \A i \in 1..Len(batch) : Written(i)' = Written(i)
  BY DEF FinishEmpty, Written, Loaded
<1> QED  BY <1>2, <1>4, <1>5, StayStep DEF FinishEmpty

\* The final flush fails before push_buffer: encode returns the error with
\* the builder's records still unpushed, at the same places.
LEMMA StepFinishFails == EInv /\ FinishFails => EInv'
<1> SUFFICES ASSUME EInv, FinishFails PROVE EInv'
  OBVIOUS
<1>1. IInv /\ TypeOK /\ Shape
  BY EInvParts DEF IInv
<1>2. IInv'
  BY <1>1, EncoderNextIInv DEF Next
<1>3. ~Loaded /\ ~Loaded'
  BY DEF FinishFails, Loaded, KeyValid
<1>4. Shape'
  BY <1>1, <1>3 DEF FinishFails, Shape
<1>5. \A i \in 1..Len(batch) : Written(i)' = Written(i)
  BY <1>3 DEF FinishFails, Written
<1> QED  BY <1>2, <1>4, <1>5, StayStep DEF FinishFails

\* The final flush: the builder's records move to a pushed buffer at the
\* same places, and encode returns Ok.
LEMMA StepFinishFlush == EInv /\ FinishFlush => EInv'
<1> SUFFICES ASSUME EInv, FinishFlush PROVE EInv'
  OBVIOUS
<1>1. IInv /\ TypeOK /\ Shape /\ RecordsInv /\ CountsInv
  BY EInvParts DEF IInv
<1>2. IInv'
  BY <1>1, EncoderNextIInv DEF Next
<1>3. /\ Places' = Places
      /\ \A q \in Places : RecAt(q)' = RecAt(q)
  BY <1>1, PlacesFlush DEF FinishFlush
<1>4. /\ RecordsInv'
      /\ \A i \in 1..Len(batch) : Occurrences(batch[i].key)' = Occurrences(batch[i].key)
  BY <1>1, <1>3, RecordsStay DEF FinishFlush
<1>5. Shape'
  BY <1>1 DEF FinishFlush, Shape, Loaded, KeyValid, TypeOK
<1>6. \A i \in 1..Len(batch) : Written(i)' = Written(i)
  BY DEF FinishFlush, Written, Loaded
<1>7. CountsInv'
  BY <1>1, <1>4, <1>6 DEF FinishFlush, CountsInv
<1> QED  BY <1>2, <1>4, <1>5, <1>7 DEF EInv, Shape, RecordsInv, CountsInv

\* A stuttering step keeps EInv.
LEMMA StepStutter == EInv /\ UNCHANGED vars => EInv'
<1> SUFFICES ASSUME EInv, UNCHANGED vars PROVE EInv'
  OBVIOUS
<1>1. IInv /\ Shape
  BY EInvParts
<1>2. IInv'
  BY <1>1, EncoderNextIInv
<1>3. Shape'
  BY <1>1 DEF vars, Shape, Loaded, Cur, KeyValid, InRange
<1>4. \A i \in 1..Len(batch) : Written(i)' = Written(i)
  BY DEF vars, Written, Loaded, Cur, KeyValid, CopyCount, InRange
<1> QED  BY <1>2, <1>3, <1>4, StayStep DEF vars


\* One iteration of the emit loop, with or without a flush: one more copy
\* of the current key, at a place read after every other.
LEMMA EmitStep ==
    ASSUME EInv, IInv', pc = "emit", w # 0, w' = w - 1,
           UNCHANGED <<pc, batch, pos, callStart>>,
           \/ pushed' = pushed /\ builder' = Append(builder, Cur.key)
           \/ /\ pushed' = Append(pushed, [recs |-> Append(builder, Cur.key),
                                            n |-> numRecords + 1])
              /\ builder' = <<>>
    PROVE  EInv'
<1>1. IInv /\ TypeOK /\ Shape /\ RecordsInv /\ CountsInv /\ KeyValid
  BY EInvParts DEF IInv
<1>2. /\ Loaded /\ 0 < w /\ w <= Cur.w
      /\ Cur.key \in Keys /\ Cur.w \in Int
      /\ pos \in 1..Len(batch)
      /\ numRecords + 1 \in Nat
  BY <1>1, CurEntry DEF Shape, KeyValid, TypeOK
<1>3. /\ Places' = Places \cup {NewPlace}
      /\ \A q \in Places : RecAt(q)' = RecAt(q)
      /\ \A q \in {NewPlace} : RecAt(q)' = Cur.key
      /\ \A q \in Places : ReadBefore(q, NewPlace) /\ ~ReadBefore(NewPlace, q)
      /\ IsFiniteSet(Places')
      /\ \A x : Occurrences(x)' = IF x = Cur.key THEN Occurrences(x) + 1
                                                ELSE Occurrences(x)
  <2> DEFINE k == Cur.key
             m == numRecords + 1
  <2>1. \/ pushed' = pushed /\ builder' = Append(builder, k)
        \/ /\ pushed' = Append(pushed, [recs |-> Append(builder, k), n |-> m])
           /\ builder' = <<>>
    OBVIOUS
  <2>2. IsFiniteSet(Places)
    BY <1>1 DEF RecordsInv
  <2> QED  BY <1>1, <1>2, <2>1, <2>2, PlacesGrow, CountGrow
<1>4. /\ batch \in Seq(Entry)
      /\ \A i, j \in 1..Len(batch) : i < j => KeyPos(batch[i].key) < KeyPos(batch[j].key)
      /\ \A i, j \in 1..Len(batch) : i # j => batch[i].key # batch[j].key
  BY <1>1, BatchOrdered DEF Shape
<1>5. Loaded' = Loaded /\ Cur' = Cur
  BY DEF Loaded, Cur, KeyValid
<1>6. Shape'
  BY <1>1, <1>2, <1>5 DEF Shape, TypeOK
<1>7. \A q \in Places' : \E i \in 1..Len(batch') : i <= pos' /\ RecAt(q)' = batch'[i].key
  <2> SUFFICES ASSUME NEW q \in Places'
               PROVE  \E i \in 1..Len(batch) : i <= pos /\ RecAt(q)' = batch[i].key
    OBVIOUS
  <2>1. CASE q \in Places
    <3>1. PICK i \in 1..Len(batch) : i <= pos /\ RecAt(q) = batch[i].key
      BY <1>1, <2>1 DEF RecordsInv
    <3>2. RecAt(q)' = RecAt(q)
      BY <1>3, <2>1
    <3> QED  BY <3>1, <3>2
  <2>2. CASE q = NewPlace
    <3>1. RecAt(q)' = batch[pos].key
      BY <1>3, <2>2 DEF Cur
    <3> QED  BY <1>2, <3>1
  <2> QED  BY <1>3, <2>1, <2>2
\* Every record already written is a key at or before the cursor, so it
\* comes no later than the current key in cursor order.
<1>8. \A q \in Places : KeyPos(RecAt(q)) <= KeyPos(Cur.key)
  <2> SUFFICES ASSUME NEW q \in Places PROVE KeyPos(RecAt(q)) <= KeyPos(Cur.key)
    OBVIOUS
  <2>1. PICK i \in 1..Len(batch) : i <= pos /\ RecAt(q) = batch[i].key
    BY <1>1 DEF RecordsInv
  <2>2. KeyPos(Cur.key) \in Int
    BY <1>2, KeyPosType
  <2>3. CASE i < pos
    <3>1. batch[i] \in Entry
      BY <1>4, ElementOfSeq
    <3>2. KeyPos(batch[i].key) \in Int
      BY <3>1, KeyPosType DEF Entry
    <3>3. KeyPos(batch[i].key) < KeyPos(batch[pos].key)
      BY <1>2, <1>4, <2>3
    <3> QED  BY <2>1, <2>2, <3>2, <3>3 DEF Cur
  <2>4. CASE i = pos
    BY <2>1, <2>2, <2>4 DEF Cur
  <2> QED  BY <1>2, <2>1, <2>3, <2>4
<1>9. \A q, r \in Places' : ReadBefore(q, r) => KeyPos(RecAt(q)') <= KeyPos(RecAt(r)')
  <2> SUFFICES ASSUME NEW q \in Places', NEW r \in Places', ReadBefore(q, r)
               PROVE  KeyPos(RecAt(q)') <= KeyPos(RecAt(r)')
    OBVIOUS
  <2>1. CASE q \in Places /\ r \in Places
    BY <1>1, <1>3, <2>1 DEF RecordsInv
  <2>2. CASE q \in Places /\ r = NewPlace
    BY <1>3, <1>8, <2>2
  <2>3. CASE q = NewPlace /\ r \in Places
    BY <1>3, <2>3
  <2>4. CASE q = NewPlace /\ r = NewPlace
    BY <1>1, <2>4 DEF ReadBefore, NewPlace, TypeOK
  <2> QED  BY <1>3, <2>1, <2>2, <2>3, <2>4
<1>10. RecordsInv'
  BY <1>3, <1>7, <1>9 DEF RecordsInv
<1>11. CountsInv'
  <2> SUFFICES ASSUME NEW i \in 1..Len(batch)
               PROVE  Occurrences(batch[i].key)' = Written(i)'
    BY DEF CountsInv
  <2>1. Occurrences(batch[i].key) = Written(i)
    BY <1>1 DEF CountsInv
  <2>2. CASE i = pos
    <3>1. Occurrences(batch[i].key)' = Occurrences(batch[i].key) + 1
      BY <1>3, <2>2 DEF Occurrences, Cur
    <3>2. Written(i)' = Written(i) + 1
      BY <1>1, <1>2, <1>5, <2>2 DEF Written, Cur, TypeOK
    <3> QED  BY <2>1, <3>1, <3>2
  <2>3. CASE i # pos
    <3>1. batch[i].key # Cur.key
      <4>1. \A j \in 1..Len(batch) : i # j => batch[i].key # batch[j].key
        BY <1>4
      <4> QED  BY <1>2, <2>3, <4>1 DEF Cur
    <3>2. Occurrences(batch[i].key)' = Occurrences(batch[i].key)
      BY <1>3, <3>1 DEF Occurrences
    <3>3. Written(i)' = Written(i)
      BY <2>3 DEF Written, Loaded, Cur, KeyValid
    <3> QED  BY <2>1, <3>2, <3>3
  <2> QED  BY <2>2, <2>3
<1> QED  BY <1>6, <1>10, <1>11 DEF EInv, Shape, RecordsInv, CountsInv


\* In the emit loop w is positive, so a step of it takes w one down.
LEMMA EmitDecrements ==
    ASSUME EInv, pc = "emit", w # 0
    PROVE  w > 0 /\ (IF w > 0 THEN w - 1 ELSE w + 1) = w - 1
<1>1. TypeOK /\ Shape
  BY EInvParts DEF IInv
<1> QED  BY <1>1 DEF Shape, TypeOK

LEMMA StepEmitRecord == EInv /\ EmitRecord => EInv'
<1> SUFFICES ASSUME EInv, EmitRecord PROVE EInv'
  OBVIOUS
<1>1. IInv'
  BY EInvParts, EncoderNextIInv DEF Next
<1>2. w' = w - 1
  BY EmitDecrements DEF EmitRecord
<1> QED  BY <1>1, <1>2, EmitStep DEF EmitRecord

LEMMA StepEmitAndFlush == EInv /\ EmitAndFlush => EInv'
<1> SUFFICES ASSUME EInv, EmitAndFlush PROVE EInv'
  OBVIOUS
<1>1. IInv'
  BY EInvParts, EncoderNextIInv DEF Next
<1>2. w' = w - 1
  BY EmitDecrements DEF EmitAndFlush
<1> QED  BY <1>1, <1>2, EmitStep DEF EmitAndFlush

\* Every step of Next, and every stuttering step, preserves EInv.
LEMMA ExactlyOnceNext == EInv /\ [Next]_vars => EInv'
<1> SUFFICES ASSUME EInv, [Next]_vars PROVE EInv'
  OBVIOUS
<1>1. CASE \E b \in Batches : Start(b)
  BY <1>1, StepStart
<1>2. CASE SkipKey \/ WeightTooLarge \/ Retraction \/ LoadWeight
  BY <1>2, StepSkipKey, StepWeightTooLarge, StepRetraction, StepLoadWeight
<1>3. CASE EmitRecord \/ EmitAndFlush \/ EmitFails \/ NextKey
  BY <1>3, StepEmitRecord, StepEmitAndFlush, StepEmitFails, StepNextKey
<1>4. CASE FinishFlush \/ FinishFails \/ FinishEmpty
  BY <1>4, StepFinishFlush, StepFinishFails, StepFinishEmpty
<1>5. CASE UNCHANGED vars
  BY <1>5, StepStutter
<1> QED  BY <1>1, <1>2, <1>3, <1>4, <1>5 DEF Next

\* EInv holds in every reachable state of encode.
THEOREM ExactlyOnceInvariantHolds == Spec => []EInv
BY ExactlyOnceInit, ExactlyOnceNext, PTL DEF Spec

\* EInv gives EncodedExactlyOnce.
LEMMA EInvExactlyOnce == EInv => EncodedExactlyOnce
<1> SUFFICES ASSUME EInv PROVE EncodedExactlyOnce
  OBVIOUS
<1>1. Shape /\ RecordsInv /\ CountsInv
  BY EInvParts
<1>2. \A q \in Places : \E i \in 1..Len(batch) : RecAt(q) = batch[i].key
  BY <1>1 DEF RecordsInv
<1> QED  BY <1>1, <1>2 DEF EncodedExactlyOnce, Shape, RecordsInv, CountsInv

\* encode delivers every batch exactly once, for every key order, set of
\* weights, MAX_DUPLICATES, buffer_size_records and number of calls:
\* what the consumer has received in a call, with what the builder holds,
\* is in key order, made of the batch's keys, each key before the cursor
\* as many times as its weight and the current key as many times as the
\* emit loop has run; when encode returns Ok the builder is empty and the
\* cursor past the last key, so the consumer holds every copy.
THEOREM ExactlyOnce == Spec => []EncodedExactlyOnce
BY ExactlyOnceInvariantHolds, EInvExactlyOnce, PTL

=============================================================================
