----------------------------- MODULE FixedBinary -----------------------------
(***************************************************************************)
(* FixedByteArray (crates/sqllib/src/fixed_binary.rs): a SQL BINARY(N)    *)
(* value stored as SIZE_IN_U64 little-endian machine words.  Each public  *)
(* function is one call action with its arguments chosen from small sets; *)
(* its result is [out |-> "ok", "err" or "panic", val |-> the value].     *)
(*                                                                         *)
(* The code fixes SIZE_IN_U64 = 4 words of 8 bytes; the model takes both  *)
(* as constants so that TLC can enumerate every byte string around the    *)
(* expected size.  Bytes keep their width (0..255) and words are the      *)
(* little-endian numbers of their bytes, so the conversions are modelled  *)
(* by what they compute.                                                   *)
(***************************************************************************)
EXTENDS Integers, Sequences, FiniteSets, Bitwise

CONSTANTS
    SizeInU64,      \* SIZE_IN_U64: the number of words
    WordBytes,      \* the bytes of a word (8 for u64)
    ByteVals,       \* the byte values inputs are made of
    WordVals        \* the word values from_vec is given

ASSUME SizeAssumption == SizeInU64 \in Nat \ {0} /\ WordBytes \in Nat \ {0}
ASSUME ByteValsAssumption == ByteVals \subseteq 0..255
ASSUME WordValsAssumption == WordVals \subseteq 0..(256^WordBytes - 1)

\* SIZE_IN_BYTES.
SizeInBytes == SizeInU64 * WordBytes

Word == 0..(256^WordBytes - 1)

Ok(v) == [out |-> "ok", val |-> v]
Panic == [out |-> "panic", val |-> <<>>]
Err == [out |-> "err", val |-> <<>>]

\* slice_to_array: an array of exactly n elements, or an error.
SliceToArray(slice, n) == IF Len(slice) # n THEN Err ELSE Ok(slice)

\* u64::from_le_bytes: the first byte is the least significant.
FromLeBytes(chunk) ==
    LET f[i \in 0..Len(chunk)] == IF i = 0 THEN 0 ELSE f[i - 1] + chunk[i] * 256^(i - 1)
    IN  f[Len(chunk)]

\* Mutant: the bytes of a word are written most significant first.
ToBeBytes(w) == [i \in 1..WordBytes |-> (w \div 256^(WordBytes - i)) % 256]

\* u64::to_le_bytes.
ToLeBytes(w) == [i \in 1..WordBytes |-> (w \div 256^(i - 1)) % 256]

\* chunks_exact: the complete chunks of n elements; a shorter remainder
\* is dropped.
ChunksExact(d, n) == [i \in 1..(Len(d) \div n) |-> SubSeq(d, (i - 1) * n + 1, i * n)]

\* from_bytes: one word per complete chunk of 8 bytes (slice_to_array of
\* a chunk cannot fail), then slice_to_array(&vec).unwrap(), which panics
\* unless there are exactly SIZE_IN_U64 words.
FromBytes(d) ==
    LET chunks == ChunksExact(d, WordBytes)
        arr == SliceToArray([i \in DOMAIN chunks |-> FromLeBytes(chunks[i])], SizeInU64)
    IN  IF arr.out = "ok" THEN arr ELSE Panic

\* zero, and Default, which calls zero(SIZE_IN_BYTES).
Zero(size) == IF size # SizeInBytes THEN Panic ELSE Ok([i \in 1..SizeInU64 |-> 0])

\* from_vec: d[0..SIZE_IN_U64] panics on a shorter vector and drops the
\* words past SIZE_IN_U64; slice_to_array of that slice cannot fail.
FromVec(d) == IF Len(d) < SizeInU64 THEN Panic ELSE Ok(SubSeq(d, 1, SizeInU64))

\* The closures of and, or and xor.
WordOp(op, l, r) == CASE op = "and" -> l & r
                      [] op = "or"  -> l | r
                      [] op = "xor" -> l ^^ r

\* Mutant: zip pairs self's words with themselves.
ZipSelf(a, b, op) == FromVec([i \in 1..SizeInU64 |-> WordOp(op, a[i], a[i])])

\* zip: the closure applied to the words pairwise, then from_vec.
Zip(a, b, op) == FromVec([i \in 1..SizeInU64 |-> WordOp(op, a[i], b[i])])

\* to_byte_array: the little-endian bytes of every word, in word order.
ToByteArray(a) ==
    [k \in 1..Len(a) * WordBytes |-> ToLeBytes(a[(k - 1) \div WordBytes + 1])[((k - 1) % WordBytes) + 1]]

\* The derived Ord of FixedByteArray: its words compared as numbers, the
\* first difference deciding.
WordsCmp(a, b) ==
    LET diff == {i \in 1..SizeInU64 : a[i] # b[i]}
        first == CHOOSE i \in diff : \A j \in diff : i <= j
    IN  IF diff = {} THEN "EQ" ELSE IF a[first] < b[first] THEN "LT" ELSE "GT"

\* deserialize_with_context: the serde input is well formed for its
\* format or not (a JSON value that is not an array of bytes, a string
\* that is not base64); well-formed input goes to from_bytes.
Deserialize(fmt, input) ==
    CASE fmt = "PgHex"   -> Err
      [] ~input.valid    -> Err
      [] OTHER           -> FromBytes(input.bytes)

-----------------------------------------------------------------------------
VARIABLES
    call,       \* the function called, "none" before the call
    args,       \* its arguments
    result      \* what it returned

vars == <<call, args, result>>

Formats == {"Array", "Base64", "Bytes", "PgHex"}

\* Byte strings from one byte short of SIZE_IN_BYTES to one word past it.
ByteSeqs == UNION {[1..n -> ByteVals] : n \in (SizeInBytes - 1)..(SizeInBytes + WordBytes)}

\* The FixedByteArray values made of bytes in ByteVals.
Values == {FromBytes(d).val : d \in [1..SizeInBytes -> ByteVals]}

Calls == {"from_bytes", "deserialize", "zero", "default", "from_vec", "and", "or", "xor",
          "cmp", "serialize"}

TypeOK ==
    /\ call \in {"none"} \cup Calls
    /\ result.out \in {"ok", "err", "panic"}
    /\ call \in Calls \ {"cmp", "serialize"} /\ result.out = "ok" =>
           result.val \in [1..SizeInU64 -> Word]
    /\ call = "serialize" => result.val \in [1..SizeInBytes -> 0..255]
    /\ call = "cmp" => result.val \in {"LT", "EQ", "GT"}

Init ==
    /\ call = "none"
    /\ args = <<>>
    /\ result = Ok(<<>>)

Invoke(c, a, r) ==
    /\ call = "none"
    /\ call' = c
    /\ args' = a
    /\ result' = r

FromBytesCall(d) == Invoke("from_bytes", <<d>>, FromBytes(d))

DeserializeCall(fmt, input) == Invoke("deserialize", <<fmt, input>>, Deserialize(fmt, input))

ZeroCall(size) == Invoke("zero", <<size>>, Zero(size))

DefaultCall == Invoke("default", <<>>, Zero(SizeInBytes))

FromVecCall(d) == Invoke("from_vec", <<d>>, FromVec(d))

\* and, or, xor.
BitwiseCall(op, a, b) == Invoke(op, <<a, b>>, Zip(a, b, op))

CmpCall(a, b) == Invoke("cmp", <<a, b>>, Ok(WordsCmp(a, b)))

SerializeCall(a) == Invoke("serialize", <<a>>, Ok(ToByteArray(a)))

Next ==
    \/ \E a, b \in Values : CmpCall(a, b)
    \/ \E d \in ByteSeqs : FromBytesCall(d)
    \/ DefaultCall
    \/ \E a \in Values : SerializeCall(a)
    \/ \E fmt \in Formats, d \in ByteSeqs, valid \in BOOLEAN :
          DeserializeCall(fmt, [valid |-> valid, bytes |-> d])
    \/ \E size \in 0..SizeInBytes + 1 : ZeroCall(size)
    \/ \E n \in (SizeInU64 - 1)..(SizeInU64 + 1) : \E d \in [1..n -> WordVals] : FromVecCall(d)
    \/ \E op \in {"and", "or", "xor"}, a, b \in Values : BitwiseCall(op, a, b)

\* A call returns; nothing follows it.
Spec == Init /\ [][Next]_vars

-----------------------------------------------------------------------------
(***************************************************************************)
(* Properties.                                                             *)
(***************************************************************************)

\* Lexicographic order of byte strings, defined by a common prefix.
BytesLess(a, b) ==
    \E k \in 0..Len(a) :
        /\ k <= Len(b)
        /\ SubSeq(a, 1, k) = SubSeq(b, 1, k)
        /\ \/ k = Len(a) /\ k < Len(b)
           \/ k < Len(a) /\ k < Len(b) /\ a[k + 1] < b[k + 1]

\* The bytes survive the words: from_bytes of SIZE_IN_BYTES bytes
\* serializes back to the same bytes, and every value serializes to
\* bytes from_bytes turns back into it.  This rests on from_le_bytes,
\* to_le_bytes and the chunking agreeing on byte order.
RoundTrip ==
    /\ call = "from_bytes" /\ result.out = "ok" /\ Len(args[1]) = SizeInBytes =>
           ToByteArray(result.val) = args[1]
    /\ call = "serialize" => FromBytes(result.val) = Ok(args[1])

\* and, or and xor of two values are the bytewise and, or and xor of
\* their bytes, as their doc comments say, although zip works on words.
BitwiseIsBytewise ==
    call \in {"and", "or", "xor"} =>
        /\ result.out = "ok"
        /\ LET l == ToByteArray(args[1])
               r == ToByteArray(args[2])
           IN  ToByteArray(result.val) = [k \in DOMAIN l |-> WordOp(call, l[k], r[k])]

\* A value is built only from exactly SIZE_IN_BYTES bytes: from_bytes and
\* deserialization reject (by the panic of slice_to_array's unwrap) any
\* other length, as the size check in from_bytes intends.
FromBytesRejectsWrongSize ==
    call \in {"from_bytes", "deserialize"} /\ result.out = "ok" =>
        LET bytes == IF call = "from_bytes" THEN args[1] ELSE args[2].bytes
        IN  Len(bytes) = SizeInBytes

\* Two BINARY values compare as their bytes do (lexicographically), the
\* order of the byte string to_byte_array gives.
OrderIsBytewise ==
    call = "cmp" =>
        result.val = IF args[1] = args[2] THEN "EQ"
                     ELSE IF BytesLess(ToByteArray(args[1]), ToByteArray(args[2]))
                          THEN "LT" ELSE "GT"
====
