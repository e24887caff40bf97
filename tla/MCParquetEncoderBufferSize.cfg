\* Expected to fail: buffer_full never fires, so a pushed buffer can exceed
\* the transport's max_buffer_size_bytes.
CONSTANTS
    a = a
    b = b
    KeyOrder <- MCKeyOrder
    Weights <- MCWeights
    MaxDuplicates <- MCMaxDuplicates
    BufferSizeRecords <- MCBufferSizeRecords
    MaxCalls <- MCMaxCalls
    MaxBufferSize <- MCMaxBufferSize
    RecordBytes <- MCRecordBytes

SPECIFICATION Spec

INVARIANT PushedBufferFits


\* The controller stops calling encode after MaxCalls batches, and a panic
\* ends the encoder's thread.
CHECK_DEADLOCK FALSE
