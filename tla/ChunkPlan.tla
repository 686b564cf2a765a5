------------------------------ MODULE ChunkPlan ------------------------------
(***************************************************************************)
(* How the file is cut into chunks: chunk.rs, and validate_input_file and  *)
(* build_config of main.rs.                                                *)
(*                                                                         *)
(* A request is what the user asks for on a file of a given length.  It is *)
(* refused, or a chunk size is settled on, and with it the number of       *)
(* chunks, where each begins and how long it is.  Lengths and sizes are    *)
(* u64: `Word' is the number of values of that type.                       *)
(***************************************************************************)
EXTENDS Integers

CONSTANTS
    Word,                   \* 2^64
    PowersOfTwo,            \* those below Word
    AutoChunksPerWorker,    \* AUTO_CHUNKS_PER_WORKER
    AutoMinChunkSize,       \* AUTO_MIN_CHUNK_SIZE
    AutoMaxChunkSize,       \* AUTO_MAX_CHUNK_SIZE
    Requests                \* [fileLen, jobs, auto, number, unit, utf16le, minLength]

ASSUME WordAssumption == Word \in Nat
ASSUME PowersAssumption ==
    /\ PowersOfTwo \subseteq 1 .. Word - 1
    /\ \A x \in 1 .. Word - 1 : \E p \in PowersOfTwo : p <= x /\ x < 2 * p
\* above 1 they are even, and the next one is twice as large
ASSUME DoublingAssumption ==
    /\ \A p \in PowersOfTwo : p > 1 => p % 2 = 0 /\ p \div 2 \in PowersOfTwo
    /\ \A p, q \in PowersOfTwo : p < q => 2 * p <= q
ASSUME AutoAssumption ==
    /\ AutoChunksPerWorker \in Nat \ {0}
    /\ AutoMinChunkSize \in Nat \ {0}
    /\ AutoMaxChunkSize \in Nat
    /\ AutoMinChunkSize <= AutoMaxChunkSize
\* 16 MiB and 256 MiB (chunk.rs:34, 44, 84)
ASSUME AutoPowersAssumption == {AutoMinChunkSize, AutoMaxChunkSize} \subseteq PowersOfTwo
\* no file is longer than 2^63 - 1 bytes, the number of threads is a u64
ASSUME RequestsAssumption ==
    Requests \subseteq [fileLen : {len \in Nat : len + len < Word /\ len + AutoMaxChunkSize < Word},
                        jobs : 0 .. Word - 1,
                        auto : BOOLEAN, number : Nat, unit : Nat,
                        utf16le : BOOLEAN, minLength : Nat]

VARIABLES
    request,        \* the arguments, and the length of the file
    stage,          \* how far build_config has come
    size            \* the chunk size, 0 while there is none

vars == <<request, stage, size>>

Refusals == {"empty file", "no jobs", "size overflow", "zero size", "odd size", "no length"}
Stages == {"start", "halving", "sized", "planned", "panicked"} \cup Refusals

Init ==
    /\ request \in Requests
    /\ stage = "start"
    /\ size = 0

-----------------------------------------------------------------------------
(* The arithmetic of chunk.rs.                                             *)

Least(a, b) == IF a <= b THEN a ELSE b
Greatest(a, b) == IF a >= b THEN a ELSE b
DivCeil(a, b) == (a + b - 1) \div b

FloorPowerOfTwo(x) == CHOOSE p \in PowersOfTwo : p <= x /\ x < 2 * p

\* jobs * AUTO_CHUNKS_PER_WORKER, which wraps
ChunksWanted == (request.jobs * AutoChunksPerWorker) % Word

\* mutant: the parentheses are missing
TargetWithoutParentheses == (request.fileLen \div request.jobs) * AutoChunksPerWorker

Target == request.fileLen \div ChunksWanted

FirstSize ==
    Greatest(AutoMinChunkSize,
             Least(AutoMaxChunkSize, FloorPowerOfTwo(Greatest(Target, 1))))

\* mutant: the constant in the place of the number of workers
TooFewForConstant ==
    size > AutoMinChunkSize /\ DivCeil(request.fileLen, size) < AutoChunksPerWorker

TooFewChunks ==
    size > AutoMinChunkSize /\ DivCeil(request.fileLen, size) < request.jobs

-----------------------------------------------------------------------------
(* validate_input_file and build_config, check by check.                   *)

Refuse(reason) ==
    /\ stage' = reason
    /\ UNCHANGED <<request, size>>

RefuseEmptyFile ==
    /\ stage = "start"
    /\ request.fileLen = 0
    /\ Refuse("empty file")

RefuseNoJobs ==
    /\ stage = "start"
    /\ request.fileLen > 0
    /\ request.jobs = 0
    /\ Refuse("no jobs")

Accepted == stage = "start" /\ request.fileLen > 0 /\ request.jobs > 0

\* the product has wrapped to zero, and is divided by
AutoPanics ==
    /\ Accepted
    /\ request.auto
    /\ ChunksWanted = 0
    /\ Refuse("panicked")

AutoFirstSize ==
    /\ Accepted
    /\ request.auto
    /\ ChunksWanted # 0
    /\ size' = FirstSize
    /\ stage' = "halving"
    /\ UNCHANGED request

Halve ==
    /\ stage = "halving"
    /\ TooFewChunks
    /\ size' = size \div 2
    /\ UNCHANGED <<request, stage>>

AutoSized ==
    /\ stage = "halving"
    /\ ~TooFewChunks
    /\ stage' = "sized"
    /\ UNCHANGED <<request, size>>

Asked == request.number * request.unit

\* parse_size: checked_mul
RefuseOverflow ==
    /\ Accepted
    /\ ~request.auto
    /\ Asked >= Word
    /\ Refuse("size overflow")

RefuseZero ==
    /\ Accepted
    /\ ~request.auto
    /\ Asked = 0
    /\ Refuse("zero size")

\* mutant: a size of zero passes
TakeAnySize ==
    /\ Accepted
    /\ ~request.auto
    /\ Asked < Word
    /\ size' = Least(Asked, request.fileLen)
    /\ stage' = "sized"
    /\ UNCHANGED request

\* mutant: the size is not clamped to the length of the file
TakeSizeUnclamped ==
    /\ Accepted
    /\ ~request.auto
    /\ Asked \in 1 .. Word - 1
    /\ size' = Asked
    /\ stage' = "sized"
    /\ UNCHANGED request

TakeSize ==
    /\ Accepted
    /\ ~request.auto
    /\ Asked \in 1 .. Word - 1
    /\ size' = Least(Asked, request.fileLen)
    /\ stage' = "sized"
    /\ UNCHANGED request

\* mutant: the rule is applied only to a size that was found
CutsUnitIfAuto == request.auto /\ request.utf16le /\ size % 2 # 0

CutsUnit == request.utf16le /\ size % 2 # 0

RefuseOddSize ==
    /\ stage = "sized"
    /\ CutsUnit
    /\ Refuse("odd size")

RefuseNoLength ==
    /\ stage = "sized"
    /\ ~CutsUnit
    /\ request.minLength = 0
    /\ Refuse("no length")

Plan ==
    /\ stage = "sized"
    /\ ~CutsUnit
    /\ request.minLength > 0
    /\ stage' = "planned"
    /\ UNCHANGED <<request, size>>

Over == stage \in {"planned", "panicked"} \cup Refusals /\ UNCHANGED vars

Next ==
    \/ RefuseEmptyFile \/ RefuseNoJobs
    \/ AutoPanics \/ AutoFirstSize \/ Halve \/ AutoSized
    \/ RefuseOverflow \/ RefuseZero \/ TakeSize
    \/ RefuseOddSize \/ RefuseNoLength \/ Plan \/ Over

Spec == Init /\ [][Next]_vars

-----------------------------------------------------------------------------
(* The chunks: run and process_chunk.                                      *)

\* mutant: a last chunk that is shorter is forgotten
WholeChunksOnly == request.fileLen \div size

ChunkCount == (request.fileLen + size - 1) \div size

ChunkOffset(index) == index * size
ChunkLen(index) == Least(size, request.fileLen - ChunkOffset(index))

InChunk(at, index) == ChunkOffset(index) <= at /\ at < ChunkOffset(index) + ChunkLen(index)

-----------------------------------------------------------------------------
(* Properties.                                                             *)

\* The variables keep their types; a size that was settled on is not zero (main.rs:51).
TypeOK ==
    /\ request \in Requests
    /\ stage \in Stages
    /\ size \in Nat
    /\ stage \in {"halving", "sized", "planned"} => size > 0 /\ request.fileLen > 0

\* The chunks partition the file: none is empty or begins past the end (the unsigned
\* subtraction of main.rs:115), and every byte is in exactly one of them.
ChunksPartition ==
    stage = "planned" =>
        /\ \A i \in 0 .. ChunkCount - 1 :
               ChunkLen(i) > 0 /\ ChunkOffset(i) + ChunkLen(i) <= request.fileLen
        /\ \A at \in 0 .. request.fileLen - 1 :
               \E i \in 0 .. ChunkCount - 1 :
                   /\ InChunk(at, i)
                   /\ \A j \in 0 .. ChunkCount - 1 : InChunk(at, j) => j = i

\* The unsigned sum of main.rs:474 does not wrap, nor does any chunk's offset
\* (main.rs:114): only the clamp to the length of the file sees to that.
NothingWraps ==
    stage = "planned" =>
        /\ request.fileLen + size - 1 < Word
        /\ \A i \in 0 .. ChunkCount - 1 : ChunkOffset(i) < Word

\* A chunk never begins inside a code unit of UTF-16LE (config.rs:101-103), whether the
\* size was asked for, clamped to the length of the file, or found.
BoundariesOnUnits ==
    stage = "planned" /\ request.utf16le =>
        \A i \in 0 .. ChunkCount - 1 : ChunkOffset(i) % 2 = 0

\* With `--chunk-size auto' every worker has a chunk, unless the chunks have the least
\* size already, however many jobs there are (chunk.rs:112-113).
EveryWorkerHasAChunk ==
    stage = "planned" /\ request.auto =>
        size = AutoMinChunkSize \/ ChunkCount >= request.jobs

\* The loop of auto_chunk_size has nothing to do unless the product of jobs and chunks
\* per worker has wrapped: rounding down can only give more chunks (chunk.rs:90-93 says
\* it can overshoot).
HalvingNeedsWrap ==
    stage = "halving" /\ TooFewChunks => request.jobs * AutoChunksPerWorker >= Word
=============================================================================
