\* SIZE_IN_U64 = 2 words of WordBytes = 2 bytes.
CONSTANTS
    SizeInU64 = 2
    WordBytes = 2
    ByteVals = {0, 1, 2}
    WordVals <- MCWordVals

SPECIFICATION Spec

INVARIANT FromBytesRejectsWrongSize





\* A call returns; the model stops after it.
CHECK_DEADLOCK FALSE
