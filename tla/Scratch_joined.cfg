\* two workers, two chunks: one worker may be detached while it scans
SPECIFICATION ScratchSpec
CONSTANTS
    Jobs = 2
    ChunkCount = 2
    NumEncodings = 1
INVARIANTS
    ScratchTypeOK
    NamesAreTransient
    JoinedRunsCleanUp
    KeptWhole
