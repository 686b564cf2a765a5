\* a worker that the failed opening of the output leaves behind
SPECIFICATION ScratchSpec
CONSTANTS
    Jobs = 2
    ChunkCount = 2
    NumEncodings = 1
INVARIANTS
    NothingLeftBehind
