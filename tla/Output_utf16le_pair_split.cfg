SPECIFICATION Spec
CONSTANTS
    Inputs <- PairSplitInputs
    Assigned <- MCAssigned
    ReadBufferSize = 4
INVARIANTS
    FlushedIsComplete
