SPECIFICATION Spec
CONSTANTS
    Inputs <- Gb18030TailInputs
    Assigned <- MCAssigned
    ReadBufferSize = 4
INVARIANTS
    FlushedIsComplete
