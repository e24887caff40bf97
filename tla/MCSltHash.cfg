CONSTANTS
    ColVals = {2, 10}
    Arity = 2
    Weights <- MCWeights
    VecKeys <- MCVecKeys
SPECIFICATION Spec
INVARIANT SltLinesMatchReference
INVARIANT VectorLinesMatchReference
CHECK_DEADLOCK FALSE
