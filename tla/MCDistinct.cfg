\* Three steps over two colliding keys with weights -2..2.
CONSTANTS
    k1 = k1
    k2 = k2
    v1 = v1
    Keys <- MCKeys
    Vals <- MCVals
    InWeights <- MCInWeights
    HashRange <- MCHashRange
    Hash <- MCHash
    MaxSteps <- MCMaxSteps

SPECIFICATION Spec

INVARIANT IncrementalEqualsFromScratch
PROPERTY DistinctRefinement

\* The circuit may be torn down between steps (cancellation is
\* step-granular); the model stops there after MaxSteps steps.
CHECK_DEADLOCK FALSE
