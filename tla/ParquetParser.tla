---------------------------- MODULE ParquetParser ----------------------------
(***************************************************************************)
(* The ingestion boundary as the Parquet connector implements it:         *)
(* ParquetParser (crates/adapters/src/format/parquet/mod.rs).  parse gets  *)
(* a whole file, reads it as a sequence of record batches ("chunks"),     *)
(* inserts each into its input handle, records an error for each chunk    *)
(* that cannot be read or inserted, counts chunks in last_chunk_number,   *)
(* and returns what the handle buffered (take_all) with the errors.       *)
(* fork creates a parser on a forked handle, for decoding in parallel.    *)
(*                                                                         *)
(* A file is either Corrupt (ParquetRecordBatchReader::try_new fails) or  *)
(* the sequence of outcomes of its chunks: "ok", "bad_insert" (the handle  *)
(* rejects the record batch) or "bad_read" (the reader returns Err).  The *)
(* data of chunk i of parse call c is the pair <<c, i>>.  The handle's    *)
(* insert (outside src/) is taken to be atomic: a rejected batch leaves   *)
(* nothing in the buffer.                                                  *)
(***************************************************************************)
EXTENDS ParquetParserAbstract

CONSTANT First  \* the parser new_parser creates

ASSUME FirstAssumption == First \in Parsers
ASSUME ChunksAssumption == MaxChunks \in Nat
ASSUME ParsesAssumption == MaxParses \in Nat

VARIABLES
    active,      \* the parser instances that exist
    pc,          \* pc[p]: "idle", or "parsing" inside `for batch in reader`
    chunkNo,     \* chunkNo[p]: last_chunk_number of parser p
    file,        \* file[p]: the file parser p is parsing
    idx,         \* idx[p]: the next chunk of file[p]
    staged,      \* staged[p]: the data p's handle holds, not yet taken
    errs,        \* errs[p]: the errors of p's current parse call
    cid,         \* cid[p]: the number of p's current parse call
    calls        \* number of parse calls so far

vars == <<active, pc, chunkNo, file, idx, staged, errs, cid, calls, results>>

TypeOK ==
    /\ active \subseteq Parsers
    /\ pc \in [Parsers -> {"idle", "parsing"}]
    /\ chunkNo \in [Parsers -> Nat]
    /\ file \in [Parsers -> Files]
    /\ idx \in [Parsers -> 1..MaxChunks + 1]
    /\ staged \in [Parsers -> Seq(Data)]
    /\ errs \in [Parsers -> Seq(Int)]
    /\ cid \in [Parsers -> 0..MaxParses]
    /\ calls \in 0..MaxParses
    /\ results \in Seq(Result)

\* ParquetParser::new: last_chunk_number starts at 0.
Init ==
    /\ active = {First}
    /\ pc = [p \in Parsers |-> "idle"]
    /\ chunkNo = [p \in Parsers |-> 0]
    /\ file = [p \in Parsers |-> <<>>]
    /\ idx = [p \in Parsers |-> 1]
    /\ staged = [p \in Parsers |-> <<>>]
    /\ errs = [p \in Parsers |-> <<>>]
    /\ cid = [p \in Parsers |-> 0]
    /\ calls = 0
    /\ results = <<>>

\* fork: a new parser over input_stream.fork(), its counter at 0.
Fork(p, q) ==
    /\ p \in active
    /\ q \notin active
    /\ active' = active \cup {q}
    /\ chunkNo' = [chunkNo EXCEPT ![q] = 0]
    /\ UNCHANGED <<pc, file, idx, staged, errs, cid, calls, results>>

\* The reader cannot open the file: parse returns (None, [error]) at once.
ReaderFails(p) ==
    /\ p \in active
    /\ pc[p] = "idle"
    /\ calls < MaxParses
    /\ calls' = calls + 1
    /\ results' = Append(results, [parser |-> p, call |-> calls + 1, file |-> Corrupt,
                                   data |-> <<>>, errs |-> <<-1>>])
    /\ UNCHANGED <<active, pc, chunkNo, file, idx, staged, errs, cid>>

\* The reader opens the file: the chunk loop starts.
ParseStart(p, f) ==
    /\ p \in active
    /\ pc[p] = "idle"
    /\ calls < MaxParses
    /\ f # Corrupt
    /\ calls' = calls + 1
    /\ pc' = [pc EXCEPT ![p] = "parsing"]
    /\ file' = [file EXCEPT ![p] = f]
    /\ idx' = [idx EXCEPT ![p] = 1]
    /\ errs' = [errs EXCEPT ![p] = <<>>]
    /\ cid' = [cid EXCEPT ![p] = calls + 1]
    /\ UNCHANGED <<active, chunkNo, staged, results>>

HasChunk(p) == pc[p] = "parsing" /\ idx[p] <= Len(file[p])
Chunk(p) == file[p][idx[p]]

\* One iteration of the chunk loop: the chunk is inserted, or an error
\* naming last_chunk_number is recorded; last_chunk_number grows by one
\* in every case.
ChunkInserted(p) ==
    /\ HasChunk(p)
    /\ Chunk(p) = "ok"
    /\ staged' = [staged EXCEPT ![p] = Append(@, <<cid[p], idx[p]>>)]
    /\ chunkNo' = [chunkNo EXCEPT ![p] = @ + 1]
    /\ idx' = [idx EXCEPT ![p] = @ + 1]
    /\ UNCHANGED <<active, pc, file, errs, cid, calls, results>>

ChunkFails(p) ==
    /\ HasChunk(p)
    /\ Chunk(p) \in {"bad_insert", "bad_read"}
    /\ errs' = [errs EXCEPT ![p] = Append(@, chunkNo[p])]
    /\ chunkNo' = [chunkNo EXCEPT ![p] = @ + 1]
    /\ idx' = [idx EXCEPT ![p] = @ + 1]
    /\ UNCHANGED <<active, pc, file, staged, cid, calls, results>>

\* Mutant: the buffer is read but not drained.
ParseEndNoDrain(p) ==
    /\ pc[p] = "parsing"
    /\ idx[p] > Len(file[p])
    /\ results' = Append(results, [parser |-> p, call |-> cid[p], file |-> file[p],
                                   data |-> staged[p], errs |-> errs[p]])
    /\ pc' = [pc EXCEPT ![p] = "idle"]
    /\ UNCHANGED <<active, chunkNo, file, idx, staged, errs, cid, calls>>

\* The reader is exhausted: take_all drains the handle's buffer and parse
\* returns it with the errors.
ParseEnd(p) ==
    /\ pc[p] = "parsing"
    /\ idx[p] > Len(file[p])
    /\ results' = Append(results, [parser |-> p, call |-> cid[p], file |-> file[p],
                                   data |-> staged[p], errs |-> errs[p]])
    /\ staged' = [staged EXCEPT ![p] = <<>>]
    /\ pc' = [pc EXCEPT ![p] = "idle"]
    /\ UNCHANGED <<active, chunkNo, file, idx, errs, cid, calls>>

Next ==
    \/ \E p, q \in Parsers : Fork(p, q)
    \/ \E p \in Parsers :
          \/ ReaderFails(p)
          \/ \E f \in Files : ParseStart(p, f)
          \/ ChunkInserted(p)
          \/ ChunkFails(p)
          \/ ParseEnd(p)

\* A parse call runs to its end without waiting on anything.
Fairness == \A p \in Parsers : WF_vars(ChunkInserted(p) \/ ChunkFails(p) \/ ParseEnd(p))

Spec == Init /\ [][Next]_vars /\ Fairness

-----------------------------------------------------------------------------
(***************************************************************************)
(* Properties.                                                             *)
(***************************************************************************)

\* Every parse call accounts for each chunk of its file exactly once: it
\* returns the data of the file's "ok" chunks, in file order and nothing
\* else (no data of another call), and one error per failing chunk; a
\* file the reader cannot open yields one error and no data.
ParseAccountsEveryChunk == \A r \in 1..Len(results) : Accounted(results[r])

\* What take_all returns belongs to the call that parsed it: every record
\* of a parse call's result comes from a good chunk of that call's own
\* file, never from an earlier call of the same parser or its handle.
ParseReturnsOwnData ==
    \A r \in 1..Len(results) : \A j \in 1..Len(results[r].data) :
        /\ results[r].data[j][1] = results[r].call
        /\ results[r].file # Corrupt
        /\ results[r].data[j][2] \in DOMAIN results[r].file
        /\ results[r].file[results[r].data[j][2]] = "ok"

\* The chunk-by-chunk parse, with parsers and forks interleaved, implements
\* the abstract parser: every completed call appears once, in one step, as
\* a complete account of its file (ParquetParserAbstract).
ParserRefinement == AbsSpec

-----------------------------------------------------------------------------
(***************************************************************************)
(* The inductive invariant behind ParseReturnsOwnData: a parser's handle   *)
(* holds nothing between calls, and during a call only good chunks of the  *)
(* file it is parsing, tagged with the call's number.                      *)
(***************************************************************************)

StagedOwnChunks(p) ==
    \A j \in 1..Len(staged[p]) :
        /\ staged[p][j][1] = cid[p]
        /\ staged[p][j][2] \in DOMAIN file[p]
        /\ file[p][staged[p][j][2]] = "ok"

ParsingState(p) ==
    pc[p] = "parsing" =>
        /\ file[p] \in UNION {[1..n -> Outcomes] : n \in 0..MaxChunks}
        /\ file[p] # Corrupt
        /\ cid[p] \in 1..MaxParses

IInv ==
    /\ TypeOK
    /\ \A p \in Parsers : pc[p] = "idle" => staged[p] = <<>>
    /\ \A p \in Parsers : ParsingState(p) /\ StagedOwnChunks(p)
    /\ ParseReturnsOwnData


(***************************************************************************)
(* The strengthening behind ParseAccountsEveryChunk: inside the chunk     *)
(* loop, the handle holds the good chunks before the cursor, in file      *)
(* order, and one error has been recorded per failing chunk before it.    *)
(***************************************************************************)
ChunkLoopAccounted(p) ==
    pc[p] = "parsing" =>
        /\ idx[p] <= Len(file[p]) + 1
        /\ ChunksIn(staged[p]) = GoodChunks(file[p], idx[p] - 1)
        /\ InChunkOrder(staged[p])
        /\ Len(errs[p]) = Cardinality(BadChunks(file[p], idx[p] - 1))

AInv ==
    /\ IInv
    /\ \A p \in Parsers : ChunkLoopAccounted(p)
    /\ ParseAccountsEveryChunk


(***************************************************************************)
(* The strengthening behind ParserRefinement: results carry the numbers   *)
(* of calls already started, and a running call's number is neither that  *)
(* of a returned call nor that of another running call.                    *)
(***************************************************************************)
CallsFresh ==
    /\ \A r \in 1..Len(results) : results[r].call <= calls
    /\ \A p \in Parsers : pc[p] = "parsing" => cid[p] <= calls /\ cid[p] \notin Calls(results)
    /\ \A p, q \in Parsers :
          p # q /\ pc[p] = "parsing" /\ pc[q] = "parsing" => cid[p] # cid[q]

RInv == AInv /\ CallsFresh

=============================================================================
