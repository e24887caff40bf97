------------------------- MODULE MCParquetEncoder -------------------------
(***************************************************************************)
(* Small instance of ParquetEncoder: two keys, weights that exercise the  *)
(* flush inside the loop (2 + 1 records with buffers of 2), the           *)
(* MAX_DUPLICATES bound on both sides (3 > 2, -3 < -2) and a retraction   *)
(* within it (-1), over two calls.                                        *)
(* The transport takes buffers of 4 bytes; b's record alone takes 3.      *)
(***************************************************************************)
EXTENDS ParquetEncoder, TLC

CONSTANTS a, b

MCKeyOrder == <<a, b>>
MCWeights == {-3, -1, 1, 2, 3}
MCMaxDuplicates == 2
MCBufferSizeRecords == 2
MCMaxCalls == 2
MCMaxBufferSize == 4
MCRecordBytes == (a :> 1) @@ (b :> 3)
=============================================================================
