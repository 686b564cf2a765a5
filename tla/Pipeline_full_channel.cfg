\* one worker, four chunks of two encodings; the channel holds two files
SPECIFICATION FairSpec
CONSTANTS
    Jobs = 1
    ChunkCount = 4
    NumEncodings = 2
INVARIANTS
    NobodyStuck
PROPERTIES
    Terminates
