------------------------ MODULE ParquetParserAbstract ------------------------
(***************************************************************************)
(* What ParquetParser::parse promises its caller, without the chunk loop: *)
(* a parse call hands a whole file to the parser and gets back, in one    *)
(* step, the data of every chunk the reader could decode and the input    *)
(* handle accepted, in file order, and one error for every other chunk;   *)
(* a file the reader cannot open gives one error and no data.  Calls are  *)
(* numbered in the order they start; no call returns twice.               *)
(*                                                                         *)
(* The files, the data and the results are those of ParquetParser, which  *)
(* extends this module and shows that its chunk-by-chunk parse, with      *)
(* parsers and forks interleaved, implements this specification.          *)
(***************************************************************************)
EXTENDS Integers, Sequences, FiniteSets

CONSTANTS
    Parsers,    \* parser instances: the first one and those fork creates
    Corrupt,    \* a file the Parquet reader cannot open
    MaxChunks,  \* bound on the chunks of a file
    MaxParses   \* bound on the number of parse calls

\* The outcome of one chunk: decoded and inserted, rejected by the input
\* handle, or not decodable by the reader.
Outcomes == {"ok", "bad_insert", "bad_read"}

Files == {Corrupt} \cup UNION {[1..n -> Outcomes] : n \in 0..MaxChunks}

\* The data of chunk i of parse call c is the pair <<c, i>>.
Data == (1..MaxParses) \X (1..MaxChunks)

\* What one parse call returned: its parser, the file, the buffer
\* take_all gave back, and the chunk number of each error (-1 for the
\* error of a file the reader cannot open).
Result == [parser : Parsers, call : 1..MaxParses, file : Files,
           data : Seq(Data), errs : Seq(Int)]

\* The "ok" chunks and the failing chunks among the first n of file f.
GoodChunks(f, n) == {i \in 1..n : f[i] = "ok"}
BadChunks(f, n) == {i \in 1..n : f[i] \in {"bad_insert", "bad_read"}}

\* The chunks whose data the sequence of records d holds.
ChunksIn(d) == {d[j][2] : j \in 1..Len(d)}

\* d holds its records in strictly increasing chunk order.
InChunkOrder(d) == \A j, k \in 1..Len(d) : j < k => d[j][2] < d[k][2]

\* The result res of one parse call accounts for every chunk of its file.
Accounted(res) ==
    IF res.file = Corrupt
    THEN res.data = <<>> /\ Len(res.errs) = 1
    ELSE /\ \A j \in 1..Len(res.data) : res.data[j][1] = res.call
         /\ ChunksIn(res.data) = GoodChunks(res.file, Len(res.file))
         /\ InChunkOrder(res.data)
         /\ Len(res.errs) = Cardinality(BadChunks(res.file, Len(res.file)))

VARIABLE results  \* every completed parse call, in the order it returned

\* The numbers of the calls that have returned.
Calls(s) == {s[i].call : i \in 1..Len(s)}

AbsInit == results = <<>>

\* A parse call returns: one result is appended, and the earlier ones stay
\* as they are; it accounts for every chunk of its file, and its call has
\* not returned before.
Return ==
    /\ results' \in Seq(Result)
    /\ Len(results') = Len(results) + 1
    /\ \A i \in 1..Len(results) : results'[i] = results[i]
    /\ Accounted(results'[Len(results')])
    /\ results'[Len(results')].call \notin Calls(results)

AbsSpec == AbsInit /\ [][Return]_results

=============================================================================
