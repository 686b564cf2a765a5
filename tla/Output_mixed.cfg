SPECIFICATION Spec
CONSTANTS
    Inputs <- MixedInputs
    Assigned <- MCAssigned
    ReadBufferSize = 4
INVARIANTS
    TypeOK
    NoMixedJoin
    PendingIsLive
    NoByteTwice
    LinesAreFragments
    NothingLost
    StreamInOrder
    ByteStringsAreWhole
