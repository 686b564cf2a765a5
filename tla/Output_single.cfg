SPECIFICATION Spec
CONSTANTS
    Inputs <- SingleInputs
    Assigned <- MCAssigned
    ReadBufferSize = 4
INVARIANTS
    WrittenIsPrefix
    FlushedIsComplete
    ScansDeliver
