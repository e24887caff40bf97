-------------------------- MODULE MCParquetParser --------------------------
(***************************************************************************)
(* Small instance of ParquetParser: the first parser and one fork, files  *)
(* of up to two chunks with every outcome, three parse calls (so that a   *)
(* parser parses a second file after a failing chunk).                    *)
(***************************************************************************)
EXTENDS ParquetParser

CONSTANTS p0, p1, corrupt

MCParsers == {p0, p1}
MCMaxChunks == 2
MCMaxParses == 3
=============================================================================
