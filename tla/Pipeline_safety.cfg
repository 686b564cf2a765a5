\* two workers race for three chunks; the channel holds four files
SPECIFICATION FairSpec
CONSTANTS
    Jobs = 2
    ChunkCount = 3
    NumEncodings = 1
INVARIANTS
    TypeOK
    OnlyWholeFilesTravel
    NextFilePresent
    NoChunkLost
    NoChunkTwice
    SuccessIsComplete
    BlameIsRight
PROPERTIES
    ImplementsOrderedOutput
