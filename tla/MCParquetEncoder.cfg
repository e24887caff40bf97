\* Two calls of encode over batches of at most two keys.
CONSTANTS
    a = a
    b = b
    KeyOrder <- MCKeyOrder
    Weights <- MCWeights
    MaxDuplicates <- MCMaxDuplicates
    BufferSizeRecords <- MCBufferSizeRecords
    MaxCalls <- MCMaxCalls
    MaxBufferSize <- MCMaxBufferSize
    RecordBytes <- MCRecordBytes

SPECIFICATION Spec

INVARIANT EncodedExactlyOnce
INVARIANT PushedBuffersCounted
PROPERTY EncodeTerminates

\* The controller stops calling encode after MaxCalls batches, and a panic
\* ends the encoder's thread.
CHECK_DEADLOCK FALSE
