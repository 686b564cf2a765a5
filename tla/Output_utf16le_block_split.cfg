SPECIFICATION Spec
CONSTANTS
    Inputs <- OneChunkInputs
    Assigned <- MCAssigned
    ReadBufferSize = 4
INVARIANTS
    BlocksMakeNoDifference
