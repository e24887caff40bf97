\* Three steps of insertions and deletions through distinct into the encoder.
CONSTANTS
    k1 = k1
    v1 = v1
    v2 = v2
    Keys <- MCKeys
    Vals <- MCVals
    ElemOrder <- MCElemOrder
    InWeights <- MCInWeights
    HashRange <- MCHashRange
    Hash <- MCHash
    MaxSteps <- MCMaxSteps
    MaxDuplicates = 1
    BufferSizeRecords = 2
    MaxBufferSize = 8
    RecordBytes <- MCRecordBytes

SPECIFICATION Spec

INVARIANT PanicsOnlyOnDeletion
INVARIANT DeliversDistinctRows

\* The circuit stops after MaxSteps steps and the endpoint once the queue
\* is empty.
CHECK_DEADLOCK FALSE
