---------------------------- MODULE MCChunkPlan ----------------------------
EXTENDS ChunkPlan

\* u64 scaled to six bits; the units are those of `', `K', `M'
MCPowersOfTwo == {2 ^ k : k \in 0 .. 5}

\* the fields that do not matter to `auto', and the other way round, have one value
MCRequests ==
    [fileLen : 0 .. 31, jobs : 0 .. 6 \cup {31, 32, 33, 34, 63}, auto : {TRUE}, number : {0},
     unit : {1}, utf16le : BOOLEAN, minLength : {0, 2}]
    \cup
    [fileLen : 0 .. 31, jobs : {0, 3}, auto : {FALSE}, number : 0 .. 63,
     unit : {1, 4, 16}, utf16le : BOOLEAN, minLength : {0, 2}]
=============================================================================
