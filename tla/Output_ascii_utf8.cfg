SPECIFICATION Spec
CONSTANTS
    Inputs <- AsciiUtf8Inputs
    Assigned <- MCAssigned
    ReadBufferSize = 4
INVARIANTS
    FlushedIsComplete
