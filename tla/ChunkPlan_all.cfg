\* u64 has six bits; two chunks per worker wanted, of 2 to 16 bytes
SPECIFICATION Spec
CONSTANTS
    Word = 64
    PowersOfTwo <- MCPowersOfTwo
    AutoChunksPerWorker = 2
    AutoMinChunkSize = 2
    AutoMaxChunkSize = 16
    Requests <- MCRequests
INVARIANTS
    TypeOK
    ChunksPartition
    NothingWraps
    BoundariesOnUnits
    EveryWorkerHasAChunk
    HalvingNeedsWrap
