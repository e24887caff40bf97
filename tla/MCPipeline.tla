------------------------------ MODULE MCPipeline ------------------------------
(***************************************************************************)
(* Small instance of Pipeline: one key with two values (two rows of the   *)
(* view), batch weights -1..2 over three steps, buffers of two    *)
(* records, so that a batch of both rows flushes inside the loop and a    *)
(* batch of one row at the end.                                            *)
(***************************************************************************)
EXTENDS Pipeline, TLC

CONSTANTS k1, v1, v2

MCKeys == {k1}
MCVals == {v1, v2}
MCElemOrder == << <<k1, v1>>, <<k1, v2>> >>
MCInWeights == -1..2
MCHashRange == {0}
MCHash == [k \in MCKeys |-> 0]
MCMaxSteps == 3
MCRecordBytes == [e \in MCKeys \X MCVals |-> 1]
=============================================================================
