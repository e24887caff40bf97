------------------------- MODULE ParquetParserProofs -------------------------
(***************************************************************************)
(* Proofs about ParquetParser, for every set of parsers and every bound   *)
(* on chunks and parse calls:                                              *)
(*                                                                         *)
(*   ParserInvariantHolds  Spec => []IInv                                  *)
(*   ParserTypeCorrect     Spec => []TypeOK                                *)
(*   OwnDataOnly           Spec => []ParseReturnsOwnData                   *)
(*   EveryChunkAccounted   Spec => []ParseAccountsEveryChunk               *)
(*   RefinementInvariantHolds  Spec => []RInv                              *)
(*   Refinement            Spec => ParserRefinement                        *)
(*                                                                         *)
(* The argument: between calls a parser's handle is empty (take_all       *)
(* drained it), and during a call it only receives the good chunks of the *)
(* file being parsed, tagged with the call's number; ParseEnd hands       *)
(* exactly that buffer to the result.  For the stronger accounting, the   *)
(* chunk loop keeps the handle's chunks equal to the good chunks before   *)
(* the cursor, in file order, and the errors as many as the failing       *)
(* chunks before it (ChunkLoopAccounted); at the end the cursor is just   *)
(* past the last chunk, so the result accounts for the whole file.        *)
(* For the refinement, each call's number is fresh when the call starts   *)
(* and stays unused by results and by other running calls (CallsFresh),   *)
(* so ReaderFails and ParseEnd are Return steps and the others stutter.   *)
(***************************************************************************)
EXTENDS ParquetParser, SequenceTheorems, FiniteSetTheorems, TLAPS

USE ChunksAssumption, ParsesAssumption

GoodFiles == UNION {[1..n -> Outcomes] : n \in 0..MaxChunks}

\* A file that is not Corrupt is a sequence of at most MaxChunks outcomes.
LEMMA FileIsSeq ==
    ASSUME NEW f \in GoodFiles
    PROVE  /\ f \in Seq(Outcomes)
           /\ Len(f) \in 0..MaxChunks
           /\ DOMAIN f = 1..Len(f)
<1>1. PICK n \in 0..MaxChunks : f \in [1..n -> Outcomes]
  BY DEF GoodFiles
<1>2. f \in Seq(Outcomes)
  BY <1>1, SeqDef
<1>3. DOMAIN f = 1..Len(f) /\ Len(f) \in Nat
  BY <1>2, LenProperties
<1>4. Len(f) = n
  BY <1>1, <1>3
<1> QED  BY <1>2, <1>3, <1>4

\* Appending an element of S to a sequence over S.
LEMMA AppendType ==
    ASSUME NEW S, NEW s \in Seq(S), NEW e \in S
    PROVE  /\ Append(s, e) \in Seq(S)
           /\ Len(Append(s, e)) = Len(s) + 1
           /\ \A i \in 1..Len(s) : Append(s, e)[i] = s[i]
           /\ Append(s, e)[Len(s) + 1] = e
BY AppendProperties

-----------------------------------------------------------------------------
\* Init establishes the inductive invariant.
LEMMA ParserInitIInv == Init => IInv
<1> SUFFICES ASSUME Init PROVE IInv
  OBVIOUS
<1>1. <<>> \in Files
  BY DEF Files
<1>2. TypeOK
  BY <1>1, FirstAssumption DEF Init, TypeOK
<1> QED  BY <1>2 DEF Init, IInv, ParsingState, StagedOwnChunks, ParseReturnsOwnData

\* Every step of Next, and every stuttering step, preserves IInv.
LEMMA ParserNextIInv == IInv /\ [Next]_vars => IInv'
<1> SUFFICES ASSUME IInv, [Next]_vars PROVE IInv'
  OBVIOUS
<1> USE DEF IInv
<1>1. ASSUME NEW p \in Parsers, NEW q \in Parsers, Fork(p, q) PROVE IInv'
  <2>1. TypeOK'
    BY <1>1 DEF Fork, TypeOK
  <2> QED  BY <1>1, <2>1 DEF Fork, ParsingState, StagedOwnChunks, ParseReturnsOwnData
<1>2. ASSUME NEW p \in Parsers, ReaderFails(p) PROVE IInv'
  <2> DEFINE rec == [parser |-> p, call |-> calls + 1, file |-> Corrupt,
                     data |-> <<>>, errs |-> <<-1>>]
  <2>1. rec \in Result
    BY <1>2 DEF ReaderFails, TypeOK, Result, Files
  <2>2. results' = Append(results, rec)
    BY <1>2 DEF ReaderFails
  <2>3. TypeOK'
    BY <1>2, <2>1, <2>2, AppendType, SMTT(30) DEF ReaderFails, TypeOK
  <2>4. ParseReturnsOwnData'
    <3>1. results \in Seq(Result) /\ Len(results) \in Nat
      BY LenProperties DEF TypeOK
    <3>2. /\ Len(results') = Len(results) + 1
          /\ \A i \in 1..Len(results) : results'[i] = results[i]
          /\ results'[Len(results) + 1] = rec
      BY <3>1, <2>1, <2>2, AppendType
    <3>3. Len(rec.data) = 0
      OBVIOUS
    <3> QED  BY <3>1, <3>2, <3>3 DEF ParseReturnsOwnData
  <2> QED  BY <1>2, <2>3, <2>4 DEF ReaderFails, ParsingState, StagedOwnChunks
<1>3. ASSUME NEW p \in Parsers, NEW f \in Files, ParseStart(p, f) PROVE IInv'
  <2>1. f \in GoodFiles
    BY <1>3 DEF ParseStart, Files, GoodFiles
  <2>2. TypeOK'
    BY <1>3, <2>1 DEF ParseStart, TypeOK, GoodFiles
  <2>3. staged[p] = <<>>
    BY <1>3 DEF ParseStart, TypeOK
  <2>4. ParsingState(p)' /\ StagedOwnChunks(p)'
    <3>1. file'[p] = f /\ cid'[p] = calls + 1 /\ staged'[p] = <<>>
      BY <1>3, <2>3 DEF ParseStart, TypeOK
    <3>2. calls + 1 \in 1..MaxParses
      BY <1>3 DEF ParseStart, TypeOK
    <3> QED  BY <1>3, <2>1, <3>1, <3>2 DEF ParseStart, ParsingState, StagedOwnChunks, GoodFiles
  <2>5. \A r \in Parsers \ {p} : ParsingState(r)' /\ StagedOwnChunks(r)'
    <3> SUFFICES ASSUME NEW r \in Parsers \ {p} PROVE ParsingState(r)' /\ StagedOwnChunks(r)'
      OBVIOUS
    <3>1. /\ pc'[r] = pc[r] /\ file'[r] = file[r] /\ cid'[r] = cid[r]
          /\ staged'[r] = staged[r]
      BY <1>3 DEF ParseStart, TypeOK
    <3>2. ParsingState(r) /\ StagedOwnChunks(r)
      OBVIOUS
    <3> QED  BY <3>1, <3>2 DEF ParsingState, StagedOwnChunks
  <2>6. \A r \in Parsers : pc'[r] = "idle" => staged'[r] = <<>>
    BY <1>3 DEF ParseStart, TypeOK
  <2> QED  BY <1>3, <2>2, <2>4, <2>5, <2>6 DEF ParseStart, ParseReturnsOwnData
<1>4. ASSUME NEW p \in Parsers, ChunkInserted(p) PROVE IInv'
  <2>1. /\ file[p] \in GoodFiles /\ file[p] # Corrupt
        /\ cid[p] \in 1..MaxParses /\ idx[p] \in 1..MaxChunks + 1
        /\ idx[p] <= Len(file[p]) /\ file[p][idx[p]] = "ok"
    BY <1>4 DEF ChunkInserted, HasChunk, Chunk, ParsingState, TypeOK, GoodFiles
  <2>2. Len(file[p]) \in 0..MaxChunks /\ DOMAIN file[p] = 1..Len(file[p])
    BY <2>1, FileIsSeq
  <2>3. <<cid[p], idx[p]>> \in Data
    BY <2>1, <2>2 DEF Data
  <2>4. staged'[p] = Append(staged[p], <<cid[p], idx[p]>>)
    BY <1>4 DEF ChunkInserted, TypeOK
  <2>5. TypeOK'
    BY <1>4, <2>1, <2>2, <2>3, <2>4, AppendType, SMTT(30) DEF ChunkInserted, TypeOK
  <2>6. StagedOwnChunks(p)'
    <3>1. staged[p] \in Seq(Data) /\ Len(staged[p]) \in Nat
      BY LenProperties DEF TypeOK
    <3>2. /\ Len(staged'[p]) = Len(staged[p]) + 1
          /\ \A i \in 1..Len(staged[p]) : staged'[p][i] = staged[p][i]
          /\ staged'[p][Len(staged[p]) + 1] = <<cid[p], idx[p]>>
      BY <3>1, <2>3, <2>4, AppendType
    <3>3. StagedOwnChunks(p)
      OBVIOUS
    <3>4. cid'[p] = cid[p] /\ file'[p] = file[p]
      BY <1>4 DEF ChunkInserted
    <3>5. idx[p] \in DOMAIN file[p]
      BY <2>1, <2>2
    <3> SUFFICES ASSUME NEW j \in 1..Len(staged'[p])
                 PROVE  /\ staged'[p][j][1] = cid'[p]
                        /\ staged'[p][j][2] \in DOMAIN file'[p]
                        /\ file'[p][staged'[p][j][2]] = "ok"
      BY DEF StagedOwnChunks
    <3>6. CASE j \in 1..Len(staged[p])
      BY <3>2, <3>3, <3>4, <3>6 DEF StagedOwnChunks
    <3>7. CASE j = Len(staged[p]) + 1
      BY <2>1, <3>2, <3>4, <3>5, <3>7
    <3> QED  BY <3>1, <3>2, <3>6, <3>7
  <2>7. \A r \in Parsers \ {p} : StagedOwnChunks(r)'
    <3> SUFFICES ASSUME NEW r \in Parsers \ {p} PROVE StagedOwnChunks(r)'
      OBVIOUS
    <3>1. staged'[r] = staged[r] /\ cid'[r] = cid[r] /\ file'[r] = file[r]
      BY <1>4 DEF ChunkInserted, TypeOK
    <3>2. StagedOwnChunks(r)
      OBVIOUS
    <3> QED  BY <3>1, <3>2 DEF StagedOwnChunks
  <2>8. \A r \in Parsers : ParsingState(r)'
    BY <1>4 DEF ChunkInserted, ParsingState
  <2>9. \A r \in Parsers : pc'[r] = "idle" => staged'[r] = <<>>
    BY <1>4 DEF ChunkInserted, HasChunk, TypeOK
  <2>10. ParseReturnsOwnData'
    BY <1>4 DEF ChunkInserted, ParseReturnsOwnData
  <2> QED  BY <2>5, <2>6, <2>7, <2>8, <2>9, <2>10
<1>5. ASSUME NEW p \in Parsers, ChunkFails(p) PROVE IInv'
  <2>1. file[p] \in GoodFiles /\ idx[p] \in 1..MaxChunks + 1 /\ idx[p] <= Len(file[p])
    BY <1>5 DEF ChunkFails, HasChunk, ParsingState, TypeOK, GoodFiles
  <2>2. Len(file[p]) \in 0..MaxChunks
    BY <2>1, FileIsSeq
  <2>3. TypeOK'
    BY <1>5, <2>1, <2>2, AppendType, SMTT(30) DEF ChunkFails, TypeOK
  <2> QED  BY <1>5, <2>3 DEF ChunkFails, ParsingState, StagedOwnChunks, ParseReturnsOwnData
<1>6. ASSUME NEW p \in Parsers, ParseEnd(p) PROVE IInv'
  <2> DEFINE rec == [parser |-> p, call |-> cid[p], file |-> file[p],
                     data |-> staged[p], errs |-> errs[p]]
  <2>1. /\ file[p] \in GoodFiles /\ file[p] # Corrupt /\ cid[p] \in 1..MaxParses
        /\ StagedOwnChunks(p)
    BY <1>6 DEF ParseEnd, ParsingState, GoodFiles
  <2>2. rec \in Result
    BY <2>1 DEF TypeOK, Result, Files, GoodFiles
  <2>3. results' = Append(results, rec)
    BY <1>6 DEF ParseEnd
  <2>4. TypeOK'
    BY <1>6, <2>2, <2>3, AppendType DEF ParseEnd, TypeOK
  <2>5. ParseReturnsOwnData'
    <3>1. results \in Seq(Result) /\ Len(results) \in Nat
      BY LenProperties DEF TypeOK
    <3>2. /\ Len(results') = Len(results) + 1
          /\ \A i \in 1..Len(results) : results'[i] = results[i]
          /\ results'[Len(results) + 1] = rec
      BY <3>1, <2>2, <2>3, AppendType
    <3>3. \A j \in 1..Len(rec.data) :
              /\ rec.data[j][1] = rec.call
              /\ rec.file # Corrupt
              /\ rec.data[j][2] \in DOMAIN rec.file
              /\ rec.file[rec.data[j][2]] = "ok"
      BY <2>1 DEF StagedOwnChunks
    <3> QED  BY <3>1, <3>2, <3>3 DEF ParseReturnsOwnData
  <2>6. \A r \in Parsers : ParsingState(r)' /\ StagedOwnChunks(r)'
    BY <1>6, SMTT(30) DEF ParseEnd, ParsingState, StagedOwnChunks, TypeOK
  <2>7. \A r \in Parsers : pc'[r] = "idle" => staged'[r] = <<>>
    BY <1>6 DEF ParseEnd, TypeOK
  <2> QED  BY <2>4, <2>5, <2>6, <2>7
<1>7. CASE UNCHANGED vars
  BY <1>7 DEF vars, TypeOK, ParsingState, StagedOwnChunks, ParseReturnsOwnData
<1> QED  BY <1>1, <1>2, <1>3, <1>4, <1>5, <1>6, <1>7 DEF Next

\* The inductive invariant holds in every reachable state.
THEOREM ParserInvariantHolds == Spec => []IInv
BY ParserInitIInv, ParserNextIInv, PTL DEF Spec

\* Every reachable state of the parsers has the types of TypeOK.
THEOREM ParserTypeCorrect == Spec => []TypeOK
BY ParserInvariantHolds, PTL DEF IInv

\* take_all hands each parse call only the data of its own file's good
\* chunks, for any number of parsers, forks and calls.
THEOREM OwnDataOnly == Spec => []ParseReturnsOwnData
BY ParserInvariantHolds, PTL DEF IInv


-----------------------------------------------------------------------------
(***************************************************************************)
(* Every chunk accounted for.                                              *)
(***************************************************************************)

\* Moving the cursor past chunk i adds it to the good chunks or to the
\* failing ones, according to its outcome.
LEMMA ChunkStep ==
    ASSUME NEW f \in GoodFiles, NEW i \in Nat \ {0}, i \in DOMAIN f
    PROVE  /\ f[i] = "ok" =>
                 /\ GoodChunks(f, i) = GoodChunks(f, i - 1) \cup {i}
                 /\ BadChunks(f, i) = BadChunks(f, i - 1)
           /\ f[i] \in {"bad_insert", "bad_read"} =>
                 /\ GoodChunks(f, i) = GoodChunks(f, i - 1)
                 /\ BadChunks(f, i) = BadChunks(f, i - 1) \cup {i}
BY DEF GoodChunks, BadChunks

\* The failing chunks before the cursor are a finite set without the
\* chunk under it.
LEMMA BadFinite ==
    ASSUME NEW f, NEW i \in Nat \ {0}
    PROVE  /\ IsFiniteSet(BadChunks(f, i - 1))
           /\ i \notin BadChunks(f, i - 1)
<1>1. IsFiniteSet(1..(i - 1))
  BY FS_Interval
<1>2. BadChunks(f, i - 1) \subseteq 1..(i - 1)
  BY DEF BadChunks
<1> QED  BY <1>1, <1>2, FS_Subset DEF BadChunks

\* Appending an accounted result keeps every result accounted.
LEMMA AppendAccounted ==
    ASSUME NEW s \in Seq(Result), NEW rec \in Result,
           \A r \in 1..Len(s) : Accounted(s[r]),
           Accounted(rec)
    PROVE  \A r \in 1..Len(Append(s, rec)) : Accounted(Append(s, rec)[r])
<1>1. Len(s) \in Nat
  BY LenProperties
<1>2. /\ Len(Append(s, rec)) = Len(s) + 1
      /\ \A i \in 1..Len(s) : Append(s, rec)[i] = s[i]
      /\ Append(s, rec)[Len(s) + 1] = rec
  BY AppendType
<1> QED  BY <1>1, <1>2

\* Init establishes the strengthened invariant.
LEMMA AccountInit == Init => AInv
<1> SUFFICES ASSUME Init PROVE AInv
  OBVIOUS
<1> QED  BY ParserInitIInv DEF Init, AInv, ChunkLoopAccounted, ParseAccountsEveryChunk

\* Every step of Next, and every stuttering step, preserves AInv.
LEMMA AccountNext == AInv /\ [Next]_vars => AInv'
<1> SUFFICES ASSUME AInv, [Next]_vars PROVE AInv'
  OBVIOUS
<1>0. IInv /\ IInv' /\ TypeOK /\ ParseAccountsEveryChunk
      /\ \A p \in Parsers : ChunkLoopAccounted(p)
  BY ParserNextIInv DEF AInv, IInv
<1> SUFFICES /\ \A r \in Parsers : ChunkLoopAccounted(r)'
             /\ ParseAccountsEveryChunk'
  BY <1>0 DEF AInv
\* A step that changes neither parser r's loop nor the results.
<1>a. ASSUME NEW r \in Parsers,
             pc'[r] = pc[r], file'[r] = file[r], idx'[r] = idx[r],
             staged'[r] = staged[r], errs'[r] = errs[r]
      PROVE  ChunkLoopAccounted(r)'
  BY <1>0, <1>a, Zenon DEF ChunkLoopAccounted
\* A step that appends an accounted result to the results.
<1>b. ASSUME NEW rec \in Result, Accounted(rec), results' = Append(results, rec)
      PROVE  ParseAccountsEveryChunk'
  BY <1>0, <1>b, AppendAccounted DEF ParseAccountsEveryChunk, TypeOK
<1>1. ASSUME NEW p \in Parsers, NEW q \in Parsers, Fork(p, q)
      PROVE  (\A r \in Parsers : ChunkLoopAccounted(r)') /\ ParseAccountsEveryChunk'
  <2>1. \A r \in Parsers : ChunkLoopAccounted(r)'
    BY <1>1, <1>a DEF Fork
  <2>2. ParseAccountsEveryChunk'
    BY <1>0, <1>1 DEF Fork, ParseAccountsEveryChunk
  <2> QED  BY <2>1, <2>2
<1>2. ASSUME NEW p \in Parsers, ReaderFails(p)
      PROVE  (\A r \in Parsers : ChunkLoopAccounted(r)') /\ ParseAccountsEveryChunk'
  <2> DEFINE rec == [parser |-> p, call |-> calls + 1, file |-> Corrupt,
                     data |-> <<>>, errs |-> <<-1>>]
  <2>1. rec \in Result
    <3>1. calls + 1 \in 1..MaxParses /\ Corrupt \in Files
      BY <1>0, <1>2 DEF ReaderFails, TypeOK, Files
    <3>2. <<>> \in Seq(Data) /\ <<-1>> \in Seq(Int)
      OBVIOUS
    <3> QED  BY <3>1, <3>2 DEF Result
  <2>2. Accounted(rec)
    BY DEF Accounted
  <2> QED  BY <1>2, <2>1, <2>2, <1>a, <1>b DEF ReaderFails
<1>3. ASSUME NEW p \in Parsers, NEW f \in Files, ParseStart(p, f)
      PROVE  (\A r \in Parsers : ChunkLoopAccounted(r)') /\ ParseAccountsEveryChunk'
  <2>1. f \in GoodFiles /\ Len(f) \in Nat
    BY <1>3, FileIsSeq DEF ParseStart, Files, GoodFiles
  <2>2. staged[p] = <<>>
    BY <1>0, <1>3 DEF ParseStart, IInv
  <2>3. /\ pc'[p] = "parsing" /\ file'[p] = f /\ idx'[p] = 1
        /\ staged'[p] = <<>> /\ errs'[p] = <<>>
    BY <1>0, <1>3, <2>2 DEF ParseStart, TypeOK
  <2>4. GoodChunks(f, 0) = {} /\ BadChunks(f, 0) = {}
    BY DEF GoodChunks, BadChunks
  <2>5. /\ ChunksIn(<<>>) = GoodChunks(f, 1 - 1)
        /\ InChunkOrder(<<>>)
        /\ Len(<<>>) = Cardinality(BadChunks(f, 1 - 1))
        /\ 1 <= Len(f) + 1
    BY <2>1, <2>4, FS_EmptySet DEF ChunksIn, InChunkOrder
  <2>6. ChunkLoopAccounted(p)'
    BY <2>3, <2>5 DEF ChunkLoopAccounted
  <2>7. \A r \in Parsers \ {p} : ChunkLoopAccounted(r)'
    BY <1>0, <1>3, <1>a DEF ParseStart, TypeOK
  <2> QED  BY <1>0, <1>3, <2>6, <2>7 DEF ParseStart, ParseAccountsEveryChunk
<1>4. ASSUME NEW p \in Parsers, ChunkInserted(p)
      PROVE  (\A r \in Parsers : ChunkLoopAccounted(r)') /\ ParseAccountsEveryChunk'
  <2> DEFINE f == file[p]
             i == idx[p]
             d == staged[p]
  <2>1. /\ f \in GoodFiles /\ i \in 1..Len(f) /\ f[i] = "ok"
        /\ cid[p] \in 1..MaxParses /\ Len(f) \in 0..MaxChunks /\ DOMAIN f = 1..Len(f)
    BY <1>0, <1>4, FileIsSeq, SMTT(30) DEF ChunkInserted, HasChunk, Chunk, IInv, ParsingState,
                                 TypeOK, GoodFiles
  <2>2. /\ ChunksIn(d) = GoodChunks(f, i - 1)
        /\ InChunkOrder(d)
        /\ Len(errs[p]) = Cardinality(BadChunks(f, i - 1))
    BY <1>0, <1>4 DEF ChunkInserted, HasChunk, ChunkLoopAccounted
  <2>3. /\ GoodChunks(f, i) = GoodChunks(f, i - 1) \cup {i}
        /\ BadChunks(f, i) = BadChunks(f, i - 1)
    BY <2>1, ChunkStep
  <2>4. /\ pc'[p] = "parsing" /\ file'[p] = f /\ idx'[p] = i + 1
        /\ staged'[p] = Append(d, <<cid[p], i>>) /\ errs'[p] = errs[p]
    BY <1>0, <1>4 DEF ChunkInserted, HasChunk, TypeOK
  <2>5. d \in Seq(Data) /\ Len(d) \in Nat /\ <<cid[p], i>> \in Data
    BY <1>0, <2>1, LenProperties DEF TypeOK, Data
  <2>6. /\ Len(Append(d, <<cid[p], i>>)) = Len(d) + 1
        /\ \A j \in 1..Len(d) : Append(d, <<cid[p], i>>)[j] = d[j]
        /\ Append(d, <<cid[p], i>>)[Len(d) + 1] = <<cid[p], i>>
    BY <2>5, AppendType
  <2>7. ChunksIn(Append(d, <<cid[p], i>>)) = ChunksIn(d) \cup {i}
    BY <2>5, <2>6 DEF ChunksIn
  <2>8. InChunkOrder(Append(d, <<cid[p], i>>))
    <3>1. \A j \in 1..Len(d) : d[j][2] < i
      <4> SUFFICES ASSUME NEW j \in 1..Len(d) PROVE d[j][2] < i
        OBVIOUS
      <4>1. d[j][2] \in GoodChunks(f, i - 1)
        BY <2>2 DEF ChunksIn
      <4> QED  BY <2>1, <4>1 DEF GoodChunks
    <3> DEFINE a == Append(d, <<cid[p], i>>)
    <3> SUFFICES ASSUME NEW j \in 1..Len(a), NEW k \in 1..Len(a), j < k
                 PROVE  a[j][2] < a[k][2]
      BY DEF InChunkOrder
    <3>2. CASE k <= Len(d)
      BY <2>2, <2>5, <2>6, <3>2 DEF InChunkOrder
    <3>3. CASE k = Len(d) + 1
      BY <2>5, <2>6, <3>1, <3>3
    <3> QED  BY <2>5, <2>6, <3>2, <3>3
  <2>9. /\ idx'[p] <= Len(file'[p]) + 1
        /\ ChunksIn(staged'[p]) = GoodChunks(file'[p], idx'[p] - 1)
        /\ InChunkOrder(staged'[p])
        /\ Len(errs'[p]) = Cardinality(BadChunks(file'[p], idx'[p] - 1))
    <3>1. idx'[p] - 1 = i /\ idx'[p] <= Len(file'[p]) + 1
      BY <2>1, <2>4
    <3>2. ChunksIn(staged'[p]) = GoodChunks(f, i)
      BY <2>3, <2>4, <2>7, <2>2
    <3> QED  BY <3>1, <3>2, <2>2, <2>3, <2>4, <2>8
  <2>11. ChunkLoopAccounted(p)'
    BY <2>9 DEF ChunkLoopAccounted
  <2>10. \A r \in Parsers \ {p} : ChunkLoopAccounted(r)'
    BY <1>0, <1>4, <1>a DEF ChunkInserted, TypeOK
  <2> QED  BY <1>0, <1>4, <2>11, <2>10 DEF ChunkInserted, ParseAccountsEveryChunk
<1>5. ASSUME NEW p \in Parsers, ChunkFails(p)
      PROVE  (\A r \in Parsers : ChunkLoopAccounted(r)') /\ ParseAccountsEveryChunk'
  <2> DEFINE f == file[p]
             i == idx[p]
  <2>1. /\ f \in GoodFiles /\ i \in 1..Len(f) /\ f[i] \in {"bad_insert", "bad_read"}
        /\ DOMAIN f = 1..Len(f)
    BY <1>0, <1>5, FileIsSeq, SMTT(30) DEF ChunkFails, HasChunk, Chunk, IInv, ParsingState,
                                 TypeOK, GoodFiles
  <2>2. /\ ChunksIn(staged[p]) = GoodChunks(f, i - 1)
        /\ InChunkOrder(staged[p])
        /\ Len(errs[p]) = Cardinality(BadChunks(f, i - 1))
    BY <1>0, <1>5 DEF ChunkFails, HasChunk, ChunkLoopAccounted
  <2>3. /\ GoodChunks(f, i) = GoodChunks(f, i - 1)
        /\ BadChunks(f, i) = BadChunks(f, i - 1) \cup {i}
    BY <2>1, ChunkStep
  <2>4. Cardinality(BadChunks(f, i)) = Cardinality(BadChunks(f, i - 1)) + 1
    <3>1. IsFiniteSet(BadChunks(f, i - 1)) /\ i \notin BadChunks(f, i - 1)
      BY <2>1, BadFinite
    <3> QED  BY <2>3, <3>1, FS_AddElement
  <2>5. /\ pc'[p] = "parsing" /\ file'[p] = f /\ idx'[p] = i + 1
        /\ staged'[p] = staged[p] /\ errs'[p] = Append(errs[p], chunkNo[p])
    BY <1>0, <1>5 DEF ChunkFails, HasChunk, TypeOK
  <2>6. Len(errs'[p]) = Len(errs[p]) + 1
    BY <1>0, <2>5, AppendType DEF TypeOK
  <2>7. /\ idx'[p] <= Len(file'[p]) + 1
        /\ ChunksIn(staged'[p]) = GoodChunks(file'[p], idx'[p] - 1)
        /\ InChunkOrder(staged'[p])
        /\ Len(errs'[p]) = Cardinality(BadChunks(file'[p], idx'[p] - 1))
    <3>1. idx'[p] - 1 = i /\ idx'[p] <= Len(file'[p]) + 1
      BY <2>1, <2>5
    <3>2. Len(errs'[p]) = Cardinality(BadChunks(f, i))
      BY <2>2, <2>4, <2>6
    <3> QED  BY <3>1, <3>2, <2>2, <2>3, <2>5
  <2>9. ChunkLoopAccounted(p)'
    BY <2>7 DEF ChunkLoopAccounted
  <2>8. \A r \in Parsers \ {p} : ChunkLoopAccounted(r)'
    BY <1>0, <1>5, <1>a DEF ChunkFails, TypeOK
  <2> QED  BY <1>0, <1>5, <2>9, <2>8 DEF ChunkFails, ParseAccountsEveryChunk
<1>6. ASSUME NEW p \in Parsers, ParseEnd(p)
      PROVE  (\A r \in Parsers : ChunkLoopAccounted(r)') /\ ParseAccountsEveryChunk'
  <2> DEFINE rec == [parser |-> p, call |-> cid[p], file |-> file[p],
                     data |-> staged[p], errs |-> errs[p]]
  <2>1. /\ file[p] \in GoodFiles /\ file[p] # Corrupt /\ cid[p] \in 1..MaxParses
        /\ StagedOwnChunks(p) /\ Len(file[p]) \in Nat
    BY <1>0, <1>6, FileIsSeq DEF ParseEnd, IInv, ParsingState, GoodFiles
  <2>2. rec \in Result
    BY <1>0, <2>1 DEF TypeOK, Result, Files, GoodFiles
  <2>3. idx[p] - 1 = Len(file[p])
    BY <1>0, <1>6, <2>1 DEF ParseEnd, ChunkLoopAccounted, TypeOK
  <2>4. Accounted(rec)
    BY <1>0, <1>6, <2>1, <2>3 DEF ParseEnd, ChunkLoopAccounted, StagedOwnChunks, Accounted
  <2>5. ChunkLoopAccounted(p)'
    BY <1>0, <1>6 DEF ParseEnd, ChunkLoopAccounted, TypeOK
  <2>6. \A r \in Parsers \ {p} : ChunkLoopAccounted(r)'
    BY <1>0, <1>6, <1>a DEF ParseEnd, TypeOK
  <2> QED  BY <1>6, <1>b, <2>2, <2>4, <2>5, <2>6 DEF ParseEnd
<1>7. CASE UNCHANGED vars
  BY <1>0, <1>7, <1>a DEF vars, ParseAccountsEveryChunk
<1> QED  BY <1>1, <1>2, <1>3, <1>4, <1>5, <1>6, <1>7 DEF Next


\* The strengthened invariant holds in every reachable state.
THEOREM AccountInvariantHolds == Spec => []AInv
BY AccountInit, AccountNext, PTL DEF Spec

\* Every parse call accounts for each chunk of its file exactly once: the
\* data of its good chunks, in file order, and one error per failing
\* chunk, for any number of parsers, forks, calls and chunks per file.
THEOREM EveryChunkAccounted == Spec => []ParseAccountsEveryChunk
BY AccountInvariantHolds, PTL DEF AInv


-----------------------------------------------------------------------------
(***************************************************************************)
(* The refinement of ParquetParserAbstract.                                *)
(***************************************************************************)

\* The calls of a sequence of results with one more result appended.
LEMMA CallsAppend ==
    ASSUME NEW s \in Seq(Result), NEW rec \in Result
    PROVE  /\ Calls(Append(s, rec)) = Calls(s) \cup {rec.call}
           /\ Len(Append(s, rec)) = Len(s) + 1
           /\ \A r \in 1..Len(s) : Append(s, rec)[r] = s[r]
           /\ Append(s, rec)[Len(s) + 1] = rec
<1>1. Len(s) \in Nat
  BY LenProperties
<1>2. /\ Len(Append(s, rec)) = Len(s) + 1
      /\ \A i \in 1..Len(s) : Append(s, rec)[i] = s[i]
      /\ Append(s, rec)[Len(s) + 1] = rec
  BY AppendType
<1> QED  BY <1>1, <1>2 DEF Calls

\* The result ReaderFails appends.
LEMMA ReaderFailsResult ==
    ASSUME TypeOK, NEW p \in Parsers, ReaderFails(p)
    PROVE  /\ [parser |-> p, call |-> calls + 1, file |-> Corrupt,
               data |-> <<>>, errs |-> <<-1>>] \in Result
           /\ calls + 1 \in 1..MaxParses
<1>1. calls + 1 \in 1..MaxParses /\ Corrupt \in Files
  BY DEF ReaderFails, TypeOK, Files
<1>2. <<>> \in Seq(Data) /\ <<-1>> \in Seq(Int)
  OBVIOUS
<1> QED  BY <1>1, <1>2 DEF Result

\* The result ParseEnd appends.
LEMMA ParseEndResult ==
    ASSUME IInv, NEW p \in Parsers, ParseEnd(p)
    PROVE  [parser |-> p, call |-> cid[p], file |-> file[p],
            data |-> staged[p], errs |-> errs[p]] \in Result
<1>1. file[p] \in Files /\ cid[p] \in 1..MaxParses
  BY DEF ParseEnd, IInv, ParsingState, Files
<1> QED  BY <1>1 DEF IInv, TypeOK, Result

\* Init establishes CallsFresh.
LEMMA FreshInit == Init => CallsFresh
BY DEF Init, CallsFresh, Calls

\* Every step of Next, and every stuttering step, preserves CallsFresh.
LEMMA FreshNext == IInv /\ CallsFresh /\ [Next]_vars => CallsFresh'
<1> SUFFICES ASSUME IInv, CallsFresh, [Next]_vars PROVE CallsFresh'
  OBVIOUS
<1>0. TypeOK /\ MaxParses \in Nat
  BY DEF IInv
<1>1. ASSUME NEW p \in Parsers, NEW q \in Parsers, Fork(p, q) PROVE CallsFresh'
  BY <1>1 DEF Fork, CallsFresh, Calls
<1>2. ASSUME NEW p \in Parsers, ReaderFails(p) PROVE CallsFresh'
  <2> DEFINE rec == [parser |-> p, call |-> calls + 1, file |-> Corrupt,
                     data |-> <<>>, errs |-> <<-1>>]
  <2>1. rec \in Result /\ calls \in Nat
    BY <1>0, <1>2, ReaderFailsResult DEF TypeOK
  <2>2. /\ Calls(results') = Calls(results) \cup {calls + 1}
        /\ Len(results') = Len(results) + 1
        /\ \A r \in 1..Len(results) : results'[r] = results[r]
        /\ results'[Len(results) + 1] = rec
        /\ Len(results) \in Nat
    BY <1>0, <1>2, <2>1, CallsAppend, LenProperties DEF ReaderFails, TypeOK
  <2>0. pc' = pc /\ cid' = cid /\ calls' = calls + 1
    BY <1>2 DEF ReaderFails
  <2>3. \A r \in 1..Len(results') : results'[r].call <= calls'
    <3> SUFFICES ASSUME NEW r \in 1..Len(results') PROVE results'[r].call <= calls'
      OBVIOUS
    <3>1. CASE r <= Len(results)
      <4>1. r \in 1..Len(results)
        BY <2>2, <3>1
      <4>2. results[r] \in Result /\ results[r].call <= calls
        BY <1>0, <4>1, ElementOfSeq DEF CallsFresh, TypeOK
      <4> QED  BY <2>0, <2>1, <2>2, <4>1, <4>2 DEF Result
    <3>2. CASE r = Len(results) + 1
      BY <2>0, <2>1, <2>2, <3>2
    <3> QED  BY <2>2, <3>1, <3>2
  <2>4. \A x \in Parsers : pc'[x] = "parsing" => cid'[x] <= calls' /\ cid'[x] \notin Calls(results')
    <3> SUFFICES ASSUME NEW x \in Parsers, pc[x] = "parsing"
                 PROVE  cid[x] <= calls + 1 /\ cid[x] \notin Calls(results) \cup {calls + 1}
      BY <2>0, <2>2
    <3>1. cid[x] <= calls /\ cid[x] \notin Calls(results)
      BY DEF CallsFresh
    <3> QED  BY <1>0, <2>1, <3>1 DEF TypeOK
  <2> QED  BY <1>2, <2>3, <2>4 DEF ReaderFails, CallsFresh
<1>3. ASSUME NEW p \in Parsers, NEW f \in Files, ParseStart(p, f) PROVE CallsFresh'
  <2>1. /\ calls \in Nat
        /\ pc'[p] = "parsing" /\ cid'[p] = calls + 1 /\ calls' = calls + 1
        /\ \A x \in Parsers \ {p} : pc'[x] = pc[x] /\ cid'[x] = cid[x]
        /\ pc[p] = "idle" /\ results' = results
    BY <1>0, <1>3 DEF ParseStart, TypeOK
  <2>2. calls + 1 \notin Calls(results)
    BY <1>3, <2>1 DEF ParseStart, CallsFresh, Calls
  <2>3. \A x \in Parsers : pc'[x] = "parsing" => cid'[x] <= calls' /\ cid'[x] \notin Calls(results')
    <3> SUFFICES ASSUME NEW x \in Parsers, pc'[x] = "parsing"
                 PROVE  cid'[x] <= calls' /\ cid'[x] \notin Calls(results')
      OBVIOUS
    <3>1. CASE x = p
      BY <2>1, <2>2, <3>1
    <3>2. CASE x # p
      <4>1. cid[x] <= calls /\ cid[x] \notin Calls(results)
        BY <2>1, <3>2 DEF CallsFresh
      <4> QED  BY <1>0, <2>1, <3>2, <4>1 DEF TypeOK
    <3> QED  BY <3>1, <3>2
  <2>4. \A x, y \in Parsers :
           x # y /\ pc'[x] = "parsing" /\ pc'[y] = "parsing" => cid'[x] # cid'[y]
    <3> SUFFICES ASSUME NEW x \in Parsers, NEW y \in Parsers, x # y,
                        pc'[x] = "parsing", pc'[y] = "parsing"
                 PROVE  cid'[x] # cid'[y]
      OBVIOUS
    <3>1. \A z \in Parsers \ {p} :
             pc'[z] = "parsing" =>
                /\ pc[z] = "parsing" /\ cid'[z] = cid[z]
                /\ cid[z] \in Int /\ cid[z] <= calls
      <4> SUFFICES ASSUME NEW z \in Parsers \ {p}, pc'[z] = "parsing"
                   PROVE  /\ pc[z] = "parsing" /\ cid'[z] = cid[z]
                          /\ cid[z] \in Int /\ cid[z] <= calls
        OBVIOUS
      <4>1. pc[z] = "parsing" /\ cid'[z] = cid[z]
        BY <2>1
      <4> QED  BY <1>0, <4>1 DEF CallsFresh, TypeOK
    <3>2. CASE x = p
      BY <2>1, <3>1, <3>2
    <3>3. CASE y = p
      BY <2>1, <3>1, <3>3
    <3>4. CASE x # p /\ y # p
      BY <2>1, <3>4 DEF CallsFresh
    <3> QED  BY <3>2, <3>3, <3>4
  <2>5. \A r \in 1..Len(results') : results'[r].call <= calls'
    <3> SUFFICES ASSUME NEW r \in 1..Len(results) PROVE results[r].call <= calls + 1
      BY <2>1
    <3>1. results[r] \in Result /\ results[r].call <= calls
      BY <1>0, ElementOfSeq DEF CallsFresh, TypeOK
    <3> QED  BY <2>1, <3>1 DEF Result
  <2> QED  BY <2>3, <2>4, <2>5 DEF CallsFresh
<1>4. ASSUME NEW p \in Parsers, ChunkInserted(p) PROVE CallsFresh'
  BY <1>4 DEF ChunkInserted, CallsFresh, Calls
<1>5. ASSUME NEW p \in Parsers, ChunkFails(p) PROVE CallsFresh'
  BY <1>5 DEF ChunkFails, CallsFresh, Calls
<1>6. ASSUME NEW p \in Parsers, ParseEnd(p) PROVE CallsFresh'
  <2> DEFINE rec == [parser |-> p, call |-> cid[p], file |-> file[p],
                     data |-> staged[p], errs |-> errs[p]]
  <2>1. rec \in Result
    BY <1>6, ParseEndResult
  <2>2. /\ Calls(results') = Calls(results) \cup {cid[p]}
        /\ Len(results') = Len(results) + 1
        /\ \A r \in 1..Len(results) : results'[r] = results[r]
        /\ results'[Len(results) + 1] = rec
        /\ Len(results) \in Nat
    BY <1>0, <1>6, <2>1, CallsAppend, LenProperties DEF ParseEnd, TypeOK
  <2>3. /\ pc'[p] = "idle"
        /\ \A x \in Parsers \ {p} : pc'[x] = pc[x]
    BY <1>0, <1>6 DEF ParseEnd, TypeOK
  <2>4. \A r \in 1..Len(results') : results'[r].call <= calls'
    <3> SUFFICES ASSUME NEW r \in 1..Len(results') PROVE results'[r].call <= calls'
      OBVIOUS
    <3>1. calls' = calls /\ cid[p] <= calls
      BY <1>6 DEF ParseEnd, CallsFresh
    <3>2. CASE r <= Len(results)
      BY <2>2, <3>1, <3>2 DEF CallsFresh
    <3>3. CASE r = Len(results) + 1
      BY <2>2, <3>1, <3>3, SMTT(30)
    <3> QED  BY <2>2, <3>2, <3>3
  <2>5. \A x \in Parsers : pc'[x] = "parsing" => cid'[x] <= calls' /\ cid'[x] \notin Calls(results')
    BY <1>6, <2>2, <2>3 DEF ParseEnd, CallsFresh
  <2>6. \A x, y \in Parsers :
           x # y /\ pc'[x] = "parsing" /\ pc'[y] = "parsing" => cid'[x] # cid'[y]
    BY <1>6, <2>3 DEF ParseEnd, CallsFresh
  <2> QED  BY <2>4, <2>5, <2>6 DEF CallsFresh
<1>7. CASE UNCHANGED vars
  BY <1>7 DEF vars, CallsFresh, Calls
<1> QED  BY <1>1, <1>2, <1>3, <1>4, <1>5, <1>6, <1>7 DEF Next

\* The refinement invariant holds in every reachable state.
THEOREM RefinementInvariantHolds == Spec => []RInv
<1>1. Init => RInv
  BY AccountInit, FreshInit DEF RInv
<1>2. RInv /\ [Next]_vars => RInv'
  BY AccountNext, FreshNext DEF RInv, AInv
<1> QED  BY <1>1, <1>2, PTL DEF Spec

\* Every step of the parsers is a Return step of the abstract parser, or
\* leaves the results alone.
LEMMA RefineNext == RInv /\ RInv' /\ [Next]_vars => [Return]_results
<1> SUFFICES ASSUME RInv, RInv', [Next]_vars PROVE [Return]_results
  OBVIOUS
<1>0. /\ TypeOK /\ TypeOK' /\ IInv /\ CallsFresh
      /\ ParseAccountsEveryChunk'
  BY DEF RInv, AInv, IInv
\* A step that appends one result whose call has not returned.
<1>a. ASSUME NEW rec \in Result, results' = Append(results, rec),
             rec.call \notin Calls(results)
      PROVE  Return
  <2>1. /\ Len(results) \in Nat
        /\ Len(results') = Len(results) + 1
        /\ \A i \in 1..Len(results) : results'[i] = results[i]
        /\ results'[Len(results')] = rec
    BY <1>0, <1>a, AppendType, LenProperties DEF TypeOK
  <2>2. Accounted(results'[Len(results')])
    BY <1>0, <2>1 DEF ParseAccountsEveryChunk
  <2> QED  BY <1>0, <1>a, <2>1, <2>2 DEF Return, TypeOK
<1>1. ASSUME NEW p \in Parsers, ReaderFails(p) PROVE [Return]_results
  <2>1. calls + 1 \notin Calls(results)
    BY <1>0, <1>1, SMTT(30) DEF CallsFresh, Calls, TypeOK
  <2> QED  BY <1>0, <1>1, <1>a, <2>1, ReaderFailsResult DEF ReaderFails
<1>2. ASSUME NEW p \in Parsers, ParseEnd(p) PROVE [Return]_results
  <2>1. cid[p] \notin Calls(results)
    BY <1>0, <1>2 DEF ParseEnd, CallsFresh
  <2> QED  BY <1>0, <1>2, <1>a, <2>1, ParseEndResult DEF ParseEnd
<1>3. CASE UNCHANGED results
  BY <1>3
<1> QED  BY <1>1, <1>2, <1>3
         DEF Next, Fork, ParseStart, ChunkInserted, ChunkFails, vars

\* The chunk-by-chunk parse implements the abstract parser: each completed
\* parse call appears once, as a complete account of its file, for any
\* number of parsers, forks, calls and chunks.
THEOREM Refinement == Spec => ParserRefinement
<1>1. Init => AbsInit
  BY DEF Init, AbsInit
<1>2. Spec => []RInv
  BY RefinementInvariantHolds
<1>3. RInv /\ RInv' /\ [Next]_vars => [Return]_results
  BY RefineNext
<1> QED  BY <1>1, <1>2, <1>3, PTL DEF Spec, ParserRefinement, AbsSpec

=============================================================================
