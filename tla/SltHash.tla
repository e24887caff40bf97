------------------------------- MODULE SltHash -------------------------------
(***************************************************************************)
(* The SqlLogicTest output functions of the hashing library               *)
(* (sql-to-dbsp-compiler/lib/hashing/src/lib.rs).  A test circuit's output *)
(* Z-set is turned into the lines SqlLogicTest compares (zset_to_strings)  *)
(* or into the md5 of those lines (hash); the result of an ORDER BY is a   *)
(* Z-set holding vectors (zset_of_vectors_to_strings, hash_vectors); and   *)
(* weighted_vector_count counts the elements of such a Z-set.             *)
(*                                                                         *)
(* Each public function is one action, a call with its arguments chosen   *)
(* from small sets; its result is a record: whether it panicked, and the  *)
(* value.  A key K is a tuple of integer columns; its SqlLogicTest string  *)
(* (the integer format "I") is its decimal digits, a character being a    *)
(* digit 0..9 or NL.  hash is modelled up to the md5 call: its value is   *)
(* the string md5 is computed over.  A Z-set's cursor visits its keys in  *)
(* the keys' order, as every batch of the engine is sorted.               *)
(***************************************************************************)
EXTENDS Integers, Sequences, FiniteSets, SequencesExt

CONSTANTS
    ColVals,    \* the values a column of a tuple takes
    Arity,      \* the number of columns of the tuple type K
    Weights,    \* the weights a Z-set may give a key
    VecKeys     \* the vectors of tuples an ORDER BY result may hold

ASSUME ColValsAssumption == ColVals \subseteq Nat
ASSUME ArityAssumption == Arity \in Nat \ {0}
ASSUME WeightsAssumption == Weights \subseteq Int \ {0}
ASSUME VecKeysAssumption == VecKeys \subseteq Seq([1..Arity -> ColVals])

NL == -1

\* enum SortOrder.
Orders == {"NONE", "ROW", "VALUE"}

Tuples == [1..Arity -> ColVals]

\* The consolidated Z-sets over a set of keys (no key has weight 0).
WSets(Ks) == UNION {[D -> Weights] : D \in SUBSET Ks}

\* Ord::cmp on integers and characters.
IntCmp(a, b) == IF a < b THEN "LT" ELSE IF a = b THEN "EQ" ELSE "GT"

\* Lexicographic comparison under an element order, as Ord is derived
\* for tuples and implemented for str and Vec.
LexCmp(l, r, Cmp(_, _)) ==
    LET diff == {i \in 1..(IF Len(l) < Len(r) THEN Len(l) ELSE Len(r)) :
                    Cmp(l[i], r[i]) # "EQ"}
        first == CHOOSE i \in diff : \A j \in diff : i <= j
    IN  IF diff = {} THEN IntCmp(Len(l), Len(r)) ELSE Cmp(l[first], r[first])

\* The order of strings (str's Ord, byte by byte), of tuples (derived
\* Ord) and of vectors of tuples (Vec's Ord): all lexicographic.
StrCmp(a, b) == LexCmp(a, b, IntCmp)
TupleCmp(a, b) == LexCmp(a, b, IntCmp)
VecCmp(a, b) == LexCmp(a, b, TupleCmp)

\* compare on lines: the first index below the shorter length where the
\* strings differ decides; if there is none, the lengths do.
Compare(l, r) ==
    LET diff == {i \in 1..(IF Len(l) < Len(r) THEN Len(l) ELSE Len(r)) :
                    StrCmp(l[i], r[i]) # "EQ"}
        first == CHOOSE i \in diff : \A j \in diff : i <= j
    IN  IF diff = {} THEN IntCmp(Len(l), Len(r)) ELSE StrCmp(l[first], r[first])

\* compare with its loop stopping one element short (used by a mutant).
CompareSkipsLast(l, r) ==
    LET diff == {i \in 1..((IF Len(l) < Len(r) THEN Len(l) ELSE Len(r)) - 1) :
                    StrCmp(l[i], r[i]) # "EQ"}
        first == CHOOSE i \in diff : \A j \in diff : i <= j
    IN  IF diff = {} THEN IntCmp(Len(l), Len(r)) ELSE StrCmp(l[first], r[first])

\* Mutant: DataRows::get sorts with that compare.
GetCompareSkipsLast(rows, order) ==
    IF order = "NONE" THEN rows
    ELSE SortSeq(rows, LAMBDA a, b : CompareSkipsLast(a, b) = "LT")

\* The keys of a Z-set of tuples, or of vectors, in the order its
\* cursor visits them.
TupleCursor(s) == SortSeq(SetToSeq(DOMAIN s), LAMBDA a, b : TupleCmp(a, b) = "LT")
VecCursor(s) == SortSeq(SetToSeq(DOMAIN s), LAMBDA a, b : VecCmp(a, b) = "LT")

RECURSIVE Digits(_)

\* The decimal digits of a natural number, most significant first.
Digits(n) == IF n < 10 THEN <<n>> ELSE Digits(n \div 10) \o <<n % 10>>

\* SqlRow::to_slt_strings with the integer format: one string per column.
ToSltStrings(row) == [i \in DOMAIN row |-> Digits(row[i])]

Result(panic, val) == [panic |-> panic, val |-> val]

\* weighted_count: the sum of the weights.
WeightedCount(s) == FoldLeft(LAMBDA acc, k : acc + s[k], 0, TupleCursor(s))

\* zset_to_rows: `try_into().unwrap()` panics when the total weight is
\* negative, the loop panics at a negative weight; otherwise every key
\* is pushed as often as its weight, in cursor order.
ZsetToRows(s) ==
    LET ks == TupleCursor(s) IN
    Result(WeightedCount(s) < 0 \/ \E i \in DOMAIN ks : s[ks[i]] < 0,
           FlattenSeq([i \in DOMAIN ks |-> [j \in 1..s[ks[i]] |-> ks[i]]]))

\* DataRows::push: the row's strings become one line (ROW, NONE) or one
\* line per column (VALUE).
Push(rows, sqlRow, order) ==
    LET strs == ToSltStrings(sqlRow) IN
    IF order \in {"ROW", "NONE"} THEN Append(rows, strs)
    ELSE rows \o [i \in DOMAIN strs |-> <<strs[i]>>]

\* DataRows::get: sort_unstable_by(compare) unless the order is NONE.
Get(rows, order) ==
    IF order = "NONE" THEN rows
    ELSE SortSeq(rows, LAMBDA a, b : Compare(a, b) = "LT")

\* DataRows::new or with_capacity, then push of every row.
PushAll(sqlRows, order) == FoldLeft(LAMBDA acc, r : Push(acc, r, order), <<>>, sqlRows)

\* The string hash builds: every column of every line followed by "\n".
Joined(lines) == FlattenSeq([i \in DOMAIN lines |->
                     FlattenSeq([j \in DOMAIN lines[i] |-> lines[i][j] \o <<NL>>])])

ZsetToStringsOf(s, order) ==
    LET rows == ZsetToRows(s) IN
    Result(rows.panic, Get(PushAll(rows.val, order), order))

HashOf(s, order) ==
    LET lines == ZsetToStringsOf(s, order) IN Result(lines.panic, Joined(lines.val))

\* The cursor loop of zset_of_vectors_to_strings and hash_vectors panics
\* at any weight other than one.
VectorsPanic(s) == \E k \in DOMAIN s : s[k] # 1

ZsetOfVectorsToStringsOf(s, order) ==
    LET ks == VecCursor(s) IN
    Result(VectorsPanic(s), Get(PushAll(FlattenSeq(ks), order), order))

\* Mutant: each vector's lines are joined without DataRows::get.
HashVectorsUnsorted(s, order) ==
    LET ks == VecCursor(s) IN
    Result(VectorsPanic(s), FlattenSeq([i \in DOMAIN ks |-> Joined(PushAll(ks[i], order))]))

\* hash_vectors: one DataRows per vector, sorted on its own, the lines
\* of all vectors joined in cursor order.
HashVectorsOf(s, order) ==
    LET ks == VecCursor(s) IN
    Result(VectorsPanic(s),
           FlattenSeq([i \in DOMAIN ks |-> Joined(Get(PushAll(ks[i], order), order))]))

\* weighted_vector_count: sum += len * weight along the cursor.
WeightedVectorCountOf(s) ==
    Result(FALSE, FoldLeft(LAMBDA acc, k : acc + Len(k) * s[k], 0, VecCursor(s)))

-----------------------------------------------------------------------------
VARIABLES
    call,       \* the function called, "none" before the call
    arg,        \* its Z-set argument
    order,      \* its SortOrder argument
    result      \* what it returned: Result(panic, val)

vars == <<call, arg, order, result>>

Calls == {"zset_to_strings", "hash", "zset_of_vectors_to_strings", "hash_vectors",
          "weighted_vector_count"}

Strs == Seq(0..9 \cup {NL})

TypeOK ==
    /\ call \in {"none"} \cup Calls
    /\ order \in Orders
    /\ result.panic \in BOOLEAN
    /\ call \in {"zset_to_strings", "zset_of_vectors_to_strings"} =>
           result.val \in Seq(Seq(Strs))
    /\ call \in {"hash", "hash_vectors"} => result.val \in Strs
    /\ call = "weighted_vector_count" => result.val \in Int

Init ==
    /\ call = "none"
    /\ arg = <<>>
    /\ order = "NONE"
    /\ result = Result(FALSE, <<>>)

Invoke(c, s, o, r) ==
    /\ call = "none"
    /\ call' = c
    /\ arg' = s
    /\ order' = o
    /\ result' = r

ZsetToStrings(s, o) == Invoke("zset_to_strings", s, o, ZsetToStringsOf(s, o))

Hash(s, o) == Invoke("hash", s, o, HashOf(s, o))

ZsetOfVectorsToStrings(s, o) ==
    Invoke("zset_of_vectors_to_strings", s, o, ZsetOfVectorsToStringsOf(s, o))

HashVectors(s, o) == Invoke("hash_vectors", s, o, HashVectorsOf(s, o))

WeightedVectorCount(s) == Invoke("weighted_vector_count", s, "NONE", WeightedVectorCountOf(s))

Next ==
    \/ \E s \in WSets(Tuples), o \in Orders : ZsetToStrings(s, o) \/ Hash(s, o)
    \/ \E s \in WSets(VecKeys), o \in Orders :
          ZsetOfVectorsToStrings(s, o) \/ HashVectors(s, o)
    \/ \E s \in WSets(VecKeys) : WeightedVectorCount(s)

\* A call returns; nothing follows it.
Spec == Init /\ [][Next]_vars

-----------------------------------------------------------------------------
(***************************************************************************)
(* Reference definitions: what SqlLogicTest's rowsort and valuesort mean, *)
(* written without compare, DataRows or the cursor loops.                 *)
(***************************************************************************)

\* Lexicographic order: a proper prefix, or the first difference, decides.
LexLess(a, b, Less(_, _)) ==
    \E k \in 0..Len(a) :
        /\ k <= Len(b)
        /\ SubSeq(a, 1, k) = SubSeq(b, 1, k)
        /\ \/ k = Len(a) /\ k < Len(b)
           \/ k < Len(a) /\ k < Len(b) /\ Less(a[k + 1], b[k + 1])

StrLess(a, b) == LexLess(a, b, LAMBDA x, y : x < y)
LineLess(a, b) == LexLess(a, b, StrLess)
TupleLess(a, b) == LexLess(a, b, LAMBDA x, y : x < y)
VecLess(a, b) == LexLess(a, b, TupleLess)

\* The elements of a finite set in increasing order: the i-th is the one
\* with i - 1 elements below it.
Ascending(S, Less(_, _)) ==
    [i \in 1..Cardinality(S) |-> CHOOSE x \in S : Cardinality({y \in S : Less(y, x)}) = i - 1]

\* How many times a line appears when the tuples of the bag b (tuple ->
\* multiplicity) are printed one line per row, or one line per value.
LineCount(b, o, line) ==
    IF o = "VALUE"
    THEN MapThenSumSet(LAMBDA k : b[k] * Cardinality({i \in 1..Arity : <<Digits(k[i])>> = line}),
                       DOMAIN b)
    ELSE MapThenSumSet(LAMBDA k : IF ToSltStrings(k) = line THEN b[k] ELSE 0, DOMAIN b)

\* The lines of a bag of tuples, sorted as SqlLogicTest sorts them.
SortedLines(b, o) ==
    LET cands == IF o = "VALUE" THEN {<<Digits(k[i])>> : k \in DOMAIN b, i \in 1..Arity}
                 ELSE {ToSltStrings(k) : k \in DOMAIN b}
        ls == Ascending(cands, LineLess)
    IN  FlattenSeq([i \in DOMAIN ls |-> [j \in 1..LineCount(b, o, ls[i]) |-> ls[i]]])

\* The lines of a sequence of tuples in the given order (NONE).
LinesInOrder(ts) == [i \in DOMAIN ts |-> ToSltStrings(ts[i])]

\* The tuples of a Z-set in key order, each as often as its weight.
ExpandInKeyOrder(s) ==
    LET ks == Ascending(DOMAIN s, TupleLess)
    IN  FlattenSeq([i \in DOMAIN ks |-> [j \in 1..s[ks[i]] |-> ks[i]]])

\* The tuples of a set of vectors, vector by vector in vector order.
ConcatInVectorOrder(s) == FlattenSeq(Ascending(DOMAIN s, VecLess))

ExpectedLines(ts, b, o) == IF o = "NONE" THEN LinesInOrder(ts) ELSE SortedLines(b, o)

\* The bag of the tuples of the vectors of s (each vector counted once).
VecBag(s) ==
    [k \in UNION {Range(v) : v \in DOMAIN s} |->
        MapThenSumSet(LAMBDA v : Cardinality({i \in DOMAIN v : v[i] = k}), DOMAIN s)]

-----------------------------------------------------------------------------
(***************************************************************************)
(* Properties.                                                             *)
(***************************************************************************)

\* zset_to_strings and hash give SqlLogicTest's answer for a test output
\* with non-negative weights: each row as many times as its weight, as
\* lines of decimal strings, sorted lexicographically by row (ROW) or
\* value by value (VALUE), or in key order (NONE); hash digests exactly
\* those lines, each column followed by a newline.  This rests on
\* compare, DataRows::push/get and the weight loop of zset_to_rows.
SltLinesMatchReference ==
    call \in {"zset_to_strings", "hash"} /\ ~result.panic =>
        LET ref == ExpectedLines(ExpandInKeyOrder(arg), arg, order)
        IN  result.val = IF call = "hash" THEN Joined(ref) ELSE ref

\* For an ORDER BY result (weights one), zset_of_vectors_to_strings
\* gives the lines of all tuples of all vectors, sorted as a whole unless
\* NONE; hash_vectors, given the single vector its comment expects,
\* digests the same lines.
VectorLinesMatchReference ==
    ~result.panic =>
        LET ref == ExpectedLines(ConcatInVectorOrder(arg), VecBag(arg), order) IN
        /\ call = "zset_of_vectors_to_strings" => result.val = ref
        /\ call = "hash_vectors" /\ Cardinality(DOMAIN arg) <= 1 => result.val = Joined(ref)
====
