--------------------------- MODULE ChunkPlanProofs ---------------------------
(***************************************************************************)
(* What ChunkPlan promises, for every request: the sizes found and asked   *)
(* for are positive, the chunks partition the file, nothing wraps, and the *)
(* loop of auto_chunk_size is idle unless the number of chunks wanted has  *)
(* wrapped.                                                                *)
(***************************************************************************)
EXTENDS ChunkPlan, TLAPS

\* Division rounds down: what the proofs below need to know of it.
LEMMA DivFacts ==
    ASSUME NEW a \in Nat, NEW b \in Nat \ {0}
    PROVE  /\ a \div b \in Nat
           /\ b * (a \div b) <= a
           /\ a < b * (a \div b) + b
    OBVIOUS

\* Products of natural numbers respect the order.
LEMMA ProductOrder ==
    ASSUME NEW a \in Nat, NEW b \in Nat, NEW c \in Nat, a <= b
    PROVE  a * c <= b * c
    OBVIOUS

\* A number below the modulus is its own remainder, and a remainder is below it.
LEMMA ModFacts ==
    ASSUME NEW a \in Nat, NEW m \in Nat \ {0}
    PROVE  /\ a % m \in 0 .. m - 1
           /\ a < m => a % m = a
    OBVIOUS

-----------------------------------------------------------------------------
(* The invariant.                                                          *)

Wanted == request.jobs * AutoChunksPerWorker
Wraps == Wanted >= Word

\* how large a size may be, and that it was found by rounding down
SizeIsBounded ==
    stage \in {"halving", "sized", "planned"} =>
        size <= request.fileLen \/ size <= AutoMaxChunkSize
FoundByRoundingDown ==
    stage = "halving" =>
        /\ request.jobs > 0
        /\ Wraps \/ size = AutoMinChunkSize \/ size * Wanted <= request.fileLen

IInv == TypeOK /\ SizeIsBounded /\ FoundByRoundingDown

\* What a request holds, as the steps below need it.
LEMMA RequestFacts ==
    ASSUME request \in Requests
    PROVE  /\ request.fileLen \in Nat
           /\ request.fileLen + request.fileLen < Word
           /\ request.fileLen + AutoMaxChunkSize < Word
           /\ request.jobs \in Nat
           /\ request.number \in Nat
           /\ request.unit \in Nat
           /\ Wanted \in Nat
           /\ request.jobs <= Wanted
    BY RequestsAssumption, AutoAssumption, WordAssumption DEF Wanted

\* A power of two that is found is one, and is not above its argument.
LEMMA FloorFacts ==
    ASSUME NEW x \in 1 .. Word - 1
    PROVE  FloorPowerOfTwo(x) \in Nat \ {0} /\ FloorPowerOfTwo(x) <= x
<1>1. \E p \in PowersOfTwo : p <= x /\ x < 2 * p
      BY PowersAssumption
<1>2. FloorPowerOfTwo(x) \in PowersOfTwo /\ FloorPowerOfTwo(x) <= x
      BY <1>1, Zenon DEF FloorPowerOfTwo
<1>3. PowersOfTwo \subseteq Nat \ {0}
      BY PowersAssumption, WordAssumption
<1>. QED  BY <1>2, <1>3

\* The first size is positive, at most the ceiling, and unless it is the floor there is
\* a piece of that size for every chunk wanted.
LEMMA FirstSizeFacts ==
    ASSUME request \in Requests, request.fileLen > 0, ChunksWanted # 0
    PROVE  /\ FirstSize \in Nat \ {0}
           /\ FirstSize <= AutoMaxChunkSize
           /\ FirstSize = AutoMinChunkSize \/ FirstSize * ChunksWanted <= request.fileLen
<1>1. request.fileLen \in Nat /\ request.fileLen < Word /\ 1 < Word
      BY RequestFacts, WordAssumption
<1>2. ChunksWanted \in Nat \ {0}
  <2>1. PICK product \in Nat : product = Wanted
        BY RequestFacts
  <2>2. Word \in Nat \ {0}
        BY <1>1, WordAssumption
  <2>3. product % Word \in 0 .. Word - 1
        BY <2>2, ModFacts
  <2>4. ChunksWanted = product % Word
        BY <2>1 DEF ChunksWanted, Wanted
  <2>. QED  BY <2>2, <2>3, <2>4
<1>3. Target \in Nat /\ Target * ChunksWanted <= request.fileLen
      BY <1>1, <1>2, DivFacts DEF Target
<1>4. Target <= request.fileLen
      BY <1>1, <1>2, <1>3
<1>5. Greatest(Target, 1) \in 1 .. Word - 1
      BY <1>1, <1>3, <1>4, WordAssumption DEF Greatest
<1>6. PICK f \in Nat \ {0} : f = FloorPowerOfTwo(Greatest(Target, 1)) /\ f <= Greatest(Target, 1)
      BY <1>5, FloorFacts
<1>7. PICK first \in Nat \ {0} :
          /\ first = FirstSize
          /\ first <= AutoMaxChunkSize
          /\ first = AutoMinChunkSize \/ first <= Greatest(Target, 1)
  <2>1. FirstSize = Greatest(AutoMinChunkSize, Least(AutoMaxChunkSize, f))
        BY <1>6 DEF FirstSize
  <2>. QED  BY <1>5, <1>6, <2>1, AutoAssumption DEF Greatest, Least
<1>8. first = AutoMinChunkSize \/ first <= Target
      BY <1>3, <1>7, AutoAssumption DEF FirstSize, Greatest, Least
<1>9. first <= Target => first * ChunksWanted <= request.fileLen
      BY <1>1, <1>2, <1>3, ProductOrder
<1>. QED  BY <1>7, <1>8, <1>9

\* Without a wrap the product is what it should be.
LEMMA NoWrap ==
    ASSUME request \in Requests, ~Wraps
    PROVE  ChunksWanted = Wanted
<1>1. PICK product \in Nat : product = Wanted /\ product < Word
      BY RequestFacts, WordAssumption DEF Wraps
<1>. QED  BY <1>1, ModFacts, WordAssumption DEF ChunksWanted, Wanted

\* If there is a piece for every chunk wanted, there are enough chunks.
LEMMA EnoughChunks ==
    ASSUME NEW len \in Nat, NEW s \in Nat \ {0}, NEW wanted \in Nat, NEW jobs \in Nat,
           s * wanted <= len, jobs <= wanted
    PROVE  jobs <= DivCeil(len, s)
<1>1. s * jobs <= len
      BY ProductOrder
<1>2. PICK q \in Nat : q = (len + s - 1) \div s /\ len + s - 1 < s * q + s
      BY DivFacts
<1>3. SUFFICES ASSUME q + 1 <= jobs PROVE FALSE
      BY <1>2 DEF DivCeil
<1>4. (q + 1) * s <= jobs * s
      BY <1>3, ProductOrder
<1>. QED  BY <1>1, <1>2, <1>4

\* The loop is idle, as long as the product has not wrapped.
LEMMA IdleLoop == IInv => HalvingNeedsWrap
<1>. SUFFICES ASSUME IInv, stage = "halving", TooFewChunks, ~Wraps PROVE FALSE
     BY RequestFacts, WordAssumption DEF HalvingNeedsWrap, Wraps, Wanted, IInv, TypeOK
<1>1. /\ request.fileLen \in Nat /\ request.jobs \in Nat /\ Wanted \in Nat
      /\ request.jobs <= Wanted
      BY RequestFacts DEF IInv, TypeOK
<1>2. size \in Nat \ {0} /\ size * Wanted <= request.fileLen
      BY AutoAssumption DEF IInv, TypeOK, FoundByRoundingDown, TooFewChunks
<1>3. request.jobs <= DivCeil(request.fileLen, size)
      BY <1>1, <1>2, EnoughChunks
<1>4. DivCeil(request.fileLen, size) \in Nat
      BY <1>1, <1>2, DivFacts DEF DivCeil
<1>. QED  BY <1>1, <1>3, <1>4 DEF TooFewChunks

\* It holds of every request.
LEMMA InitInv == Init => IInv
BY DEF Init, IInv, TypeOK, SizeIsBounded, FoundByRoundingDown, Stages

\* One step per action: only three of them choose a size.
LEMMA StepInv == IInv /\ [Next]_vars => IInv'
<1>. SUFFICES ASSUME IInv, [Next]_vars PROVE IInv'
     OBVIOUS
<1>. USE DEF IInv, TypeOK, SizeIsBounded, FoundByRoundingDown, Stages
<1>1. ASSUME NEW reason \in Refusals \cup {"panicked"}, Refuse(reason) PROVE IInv'
      BY <1>1 DEF Refuse, Refusals
<1>2. CASE AutoFirstSize
  <2>1. size' \in Nat \ {0} /\ size' <= AutoMaxChunkSize
        BY <1>2, FirstSizeFacts DEF AutoFirstSize, Accepted
  <2>2. Wraps \/ size' = AutoMinChunkSize \/ size' * Wanted <= request.fileLen
        BY <1>2, FirstSizeFacts, NoWrap DEF AutoFirstSize, Accepted
  <2>3. request' = request /\ stage' = "halving" /\ request.jobs > 0 /\ request.fileLen > 0
        BY <1>2 DEF AutoFirstSize, Accepted
  <2>4. Wraps' = Wraps /\ Wanted' = Wanted
        BY <2>3 DEF Wraps, Wanted
  <2>. QED  BY <2>1, <2>2, <2>3, <2>4
<1>3. CASE Halve
  <2>1. size > AutoMinChunkSize /\ stage = "halving" /\ TooFewChunks
        BY <1>3 DEF Halve, TooFewChunks
  <2>2. size \div 2 \in Nat \ {0} /\ size \div 2 <= size
        BY <2>1, AutoAssumption
  <2>3. request' = request /\ stage' = "halving" /\ size' = size \div 2
        BY <1>3 DEF Halve
  <2>4. Wraps /\ Wraps' = Wraps
        BY <2>1, <2>3, IdleLoop DEF HalvingNeedsWrap, Wraps, Wanted
  <2>5. TypeOK'
        BY <2>1, <2>2, <2>3
  <2>6. SizeIsBounded'
        BY <2>1, <2>2, <2>3, RequestFacts, AutoAssumption
  <2>7. FoundByRoundingDown'
        BY <2>1, <2>3, <2>4
  <2>. QED  BY <2>5, <2>6, <2>7
<1>4. CASE AutoSized
      BY <1>4 DEF AutoSized
<1>5. CASE TakeSize
  <2>1. Asked \in Nat \ {0} /\ request.fileLen \in Nat
        BY <1>5, RequestFacts DEF TakeSize
  <2>. QED  BY <1>5, <2>1 DEF TakeSize, Least, Accepted
<1>6. CASE Plan
      BY <1>6 DEF Plan
<1>7. CASE UNCHANGED vars
      BY <1>7 DEF vars, Wanted, Wraps
<1>. QED
     BY <1>1, <1>2, <1>3, <1>4, <1>5, <1>6, <1>7
     DEF Next, RefuseEmptyFile, RefuseNoJobs, AutoPanics, RefuseOverflow, RefuseZero,
         RefuseOddSize, RefuseNoLength, Over, Refusals

-----------------------------------------------------------------------------
(* The chunks.                                                             *)

\* A chunk that is handed out begins inside the file.
LEMMA ChunkInFile ==
    ASSUME NEW len \in Nat, NEW s \in Nat \ {0},
           NEW i \in 0 .. ((len + s - 1) \div s) - 1
    PROVE  i * s \in Nat /\ i * s < len
<1>1. PICK n \in Nat : n = (len + s - 1) \div s /\ s * n <= len + s - 1
      BY DivFacts
<1>2. i \in Nat /\ i + 1 <= n
      BY <1>1
<1>3. (i + 1) * s <= n * s
      BY <1>2, ProductOrder
<1>. QED  BY <1>1, <1>2, <1>3

\* Every byte has a chunk: the quotient of its offset and the size.
LEMMA ByteHasChunk ==
    ASSUME NEW len \in Nat, NEW s \in Nat \ {0}, NEW at \in 0 .. len - 1
    PROVE  \E i \in 0 .. ((len + s - 1) \div s) - 1 : i * s <= at /\ at < i * s + s
<1>1. PICK n \in Nat : n = (len + s - 1) \div s /\ len + s - 1 < s * n + s
      BY DivFacts
<1>2. PICK i \in Nat : i = at \div s /\ s * i <= at /\ at < s * i + s
  <2>1. at \in Nat
        OBVIOUS
  <2>. QED  BY <2>1, DivFacts
<1>3. i <= n - 1
  <2>1. SUFFICES ASSUME n <= i PROVE FALSE
        BY <1>1, <1>2
  <2>2. n * s <= i * s
        BY <2>1, ProductOrder
  <2>. QED  BY <1>1, <1>2, <2>2
<1>. QED  BY <1>1, <1>2, <1>3

\* Two chunks that share a byte are one.
LEMMA ChunksAreDisjoint ==
    ASSUME NEW s \in Nat \ {0}, NEW at \in Nat, NEW i \in Nat, NEW j \in Nat,
           i * s <= at, at < i * s + s, j * s <= at, at < j * s + s
    PROVE  i = j
<1>1. ASSUME NEW k \in Nat, NEW l \in Nat, k < l, at < k * s + s, l * s <= at PROVE FALSE
  <2>1. (k + 1) * s <= l * s
        BY <1>1, ProductOrder
  <2>. QED  BY <1>1, <2>1
<1>2. ~(i < j) /\ ~(j < i)
      BY <1>1
<1>. QED  BY <1>2

\* A chunk is not empty and stays in the file; its bytes are those from its offset on,
\* to the next chunk or to the end.
LEMMA ChunkFacts ==
    ASSUME request.fileLen \in Nat, size \in Nat \ {0}, NEW i \in 0 .. ChunkCount - 1
    PROVE  /\ ChunkLen(i) > 0
           /\ ChunkOffset(i) + ChunkLen(i) <= request.fileLen
           /\ \A at \in 0 .. request.fileLen - 1 :
                  InChunk(at, i) <=> i * size <= at /\ at < i * size + size
<1>1. PICK offset \in Nat : offset = ChunkOffset(i) /\ offset = i * size /\ offset < request.fileLen
      BY ChunkInFile DEF ChunkCount, ChunkOffset
<1>. QED  BY <1>1 DEF ChunkLen, Least, InChunk

\* Chunks of one size up to the end of the file partition it.
LEMMA PartitionFollows == IInv => ChunksPartition
<1>. SUFFICES ASSUME IInv, stage = "planned" PROVE ChunksPartition
     BY DEF ChunksPartition
<1>1. request.fileLen \in Nat /\ size \in Nat \ {0}
      BY RequestFacts DEF IInv, TypeOK
<1>2. ASSUME NEW i \in 0 .. ChunkCount - 1
      PROVE  ChunkLen(i) > 0 /\ ChunkOffset(i) + ChunkLen(i) <= request.fileLen
      BY <1>1, <1>2, ChunkFacts
<1>3. ASSUME NEW at \in 0 .. request.fileLen - 1
      PROVE  \E i \in 0 .. ChunkCount - 1 :
                 /\ InChunk(at, i)
                 /\ \A j \in 0 .. ChunkCount - 1 : InChunk(at, j) => j = i
  <2>1. PICK i \in 0 .. ChunkCount - 1 : i * size <= at /\ at < i * size + size
        BY <1>1, ByteHasChunk DEF ChunkCount
  <2>2. InChunk(at, i)
        BY <1>1, <2>1, ChunkFacts
  <2>3. ASSUME NEW j \in 0 .. ChunkCount - 1, InChunk(at, j) PROVE j = i
    <3>1. j * size <= at /\ at < j * size + size
          BY <1>1, <2>3, ChunkFacts
    <3>2. ChunkCount \in Int
          BY <1>1, DivFacts DEF ChunkCount
    <3>. QED  BY <1>1, <2>1, <3>1, <3>2, ChunksAreDisjoint
  <2>. QED  BY <2>2, <2>3
<1>. QED  BY <1>2, <1>3 DEF ChunksPartition

\* The sums and products that lead to the chunks stay below the word.
LEMMA NothingWrapsFollows == IInv => NothingWraps
<1>. SUFFICES ASSUME IInv, stage = "planned" PROVE NothingWraps
     BY DEF NothingWraps
<1>1. /\ request.fileLen \in Nat /\ size \in Nat \ {0}
      /\ request.fileLen + request.fileLen < Word
      /\ request.fileLen + AutoMaxChunkSize < Word
      BY RequestFacts DEF IInv, TypeOK
<1>2. request.fileLen + size - 1 < Word
      BY <1>1, WordAssumption, AutoAssumption DEF IInv, SizeIsBounded
<1>3. ASSUME NEW i \in 0 .. ChunkCount - 1 PROVE ChunkOffset(i) < Word
  <2>1. ChunkOffset(i) \in Nat /\ ChunkOffset(i) < request.fileLen
        BY <1>1, <1>3, ChunkInFile DEF ChunkCount, ChunkOffset
  <2>. QED  BY <1>1, <2>1, WordAssumption
<1>. QED  BY <1>2, <1>3 DEF NothingWraps

-----------------------------------------------------------------------------
(* The theorems.                                                           *)

\* The invariant holds in every reachable state.
LEMMA Invariance == Spec => []IInv
BY InitInv, StepInv, PTL DEF Spec

\* build_config never settles on a chunk size of zero, whatever it is asked for.
THEOREM TypeCorrect == Spec => []TypeOK
<1>1. IInv => TypeOK
      BY DEF IInv
<1>. QED  BY <1>1, Invariance, PTL

\* The chunks of run and process_chunk partition the file: every byte is in exactly one,
\* and none is empty, for every length and every chunk size.
THEOREM Partition == Spec => []ChunksPartition
BY PartitionFollows, Invariance, PTL

\* Neither the number of chunks nor the offset of one overflows a u64.
THEOREM NoOverflow == Spec => []NothingWraps
BY NothingWrapsFollows, Invariance, PTL

\* The halving loop of auto_chunk_size is entered only after the product of the number
\* of jobs and the chunks per worker has wrapped.
THEOREM LoopIsIdle == Spec => []HalvingNeedsWrap
BY IdleLoop, Invariance, PTL

-----------------------------------------------------------------------------
(* The sizes that are found, and the boundaries they give.                 *)

\* The loop halves powers of two and stops in time.
FoundSizeInv ==
    /\ request.auto /\ stage \in {"halving", "sized", "planned"} =>
           size \in PowersOfTwo /\ AutoMinChunkSize <= size
    /\ request.auto /\ stage \in {"sized", "planned"} => ~TooFewChunks
    /\ stage = "planned" => ~CutsUnit

\* The first size is a power of two, not below the floor.
LEMMA FirstSizeIsPower ==
    ASSUME request \in Requests, request.fileLen > 0, ChunksWanted # 0
    PROVE  FirstSize \in PowersOfTwo /\ AutoMinChunkSize <= FirstSize
<1>1. /\ request.fileLen \in Nat /\ request.fileLen < Word /\ 1 < Word
      BY RequestFacts, WordAssumption
<1>2. ChunksWanted \in Nat \ {0}
  <2>1. PICK product \in Nat : product = Wanted
        BY RequestFacts
  <2>2. Word \in Nat \ {0}
        BY <1>1, WordAssumption
  <2>3. product % Word \in 0 .. Word - 1
        BY <2>2, ModFacts
  <2>4. ChunksWanted = product % Word
        BY <2>1 DEF ChunksWanted, Wanted
  <2>. QED  BY <2>2, <2>3, <2>4
<1>3. Target \in Nat /\ Target <= request.fileLen
  <2>1. Target \in Nat /\ ChunksWanted * Target <= request.fileLen
        BY <1>1, <1>2, DivFacts DEF Target
  <2>. QED  BY <1>1, <1>2, <2>1
<1>4. Greatest(Target, 1) \in 1 .. Word - 1
      BY <1>1, <1>3, WordAssumption DEF Greatest
<1>5. PICK f \in PowersOfTwo : f = FloorPowerOfTwo(Greatest(Target, 1))
  <2>1. \E p \in PowersOfTwo : p <= Greatest(Target, 1) /\ Greatest(Target, 1) < 2 * p
        BY <1>4, PowersAssumption
  <2>. QED  BY <2>1, Zenon DEF FloorPowerOfTwo
<1>6. PowersOfTwo \subseteq Nat
      BY PowersAssumption, WordAssumption
<1>7. PICK clamped \in PowersOfTwo : clamped = Least(AutoMaxChunkSize, f)
      BY AutoPowersAssumption DEF Least
<1>8. FirstSize = Greatest(AutoMinChunkSize, clamped)
      BY <1>5, <1>7 DEF FirstSize
<1>9. AutoMinChunkSize \in Nat /\ clamped \in Nat
      BY <1>6, AutoAssumption
<1>. QED  BY <1>8, <1>9, AutoPowersAssumption DEF Greatest

\* Half of a power of two above the floor is one that is not below it.
LEMMA HalfIsPower ==
    ASSUME NEW s \in PowersOfTwo, s > AutoMinChunkSize
    PROVE  s \div 2 \in PowersOfTwo /\ AutoMinChunkSize <= s \div 2
<1>1. s \in Nat /\ AutoMinChunkSize \in Nat \ {0}
      BY PowersAssumption, WordAssumption, AutoAssumption
<1>2. s > 1 /\ 2 * AutoMinChunkSize <= s
      BY <1>1, DoublingAssumption, AutoPowersAssumption
<1>. QED  BY <1>1, <1>2, DoublingAssumption

\* A step that finds or settles on a size keeps what is known of it.
LEMMA FoundSizeStep ==
    ASSUME IInv, FoundSizeInv, [Next]_vars
    PROVE  FoundSizeInv'
<1>. USE DEF FoundSizeInv
<1>1. ASSUME NEW reason \in Refusals \cup {"panicked"}, Refuse(reason) PROVE FoundSizeInv'
      BY <1>1 DEF Refuse, Refusals
<1>2. CASE AutoFirstSize
  <2>1. /\ request' = request /\ stage' = "halving" /\ size' = FirstSize
        /\ request \in Requests /\ request.fileLen > 0 /\ ChunksWanted # 0
        BY <1>2 DEF AutoFirstSize, Accepted, IInv, TypeOK
  <2>. QED  BY <2>1, FirstSizeIsPower
<1>3. CASE Halve
  <2>1. /\ request' = request /\ stage' = "halving" /\ size' = size \div 2
        /\ size > AutoMinChunkSize /\ stage = "halving"
        BY <1>3 DEF Halve, TooFewChunks
  <2>. QED  BY <2>1, HalfIsPower
<1>4. CASE AutoSized
      BY <1>4 DEF AutoSized, TooFewChunks
<1>5. CASE TakeSize
      BY <1>5 DEF TakeSize
<1>6. CASE Plan
      BY <1>6 DEF Plan, TooFewChunks, CutsUnit
<1>7. CASE UNCHANGED vars
      BY <1>7 DEF vars, TooFewChunks, CutsUnit
<1>. QED
     BY <1>1, <1>2, <1>3, <1>4, <1>5, <1>6, <1>7
     DEF Next, RefuseEmptyFile, RefuseNoJobs, AutoPanics, RefuseOverflow, RefuseZero,
         RefuseOddSize, RefuseNoLength, Over, Refusals

\* So it holds in every state.
LEMMA FoundSizeInvariance == Spec => []FoundSizeInv
<1>1. Init => FoundSizeInv
      BY DEF Init, FoundSizeInv
<1>. QED  BY <1>1, FoundSizeStep, Invariance, PTL DEF Spec

\* A multiple of an even number is even.
LEMMA EvenMultiple ==
    ASSUME NEW s \in Nat, s % 2 = 0, NEW i \in Int
    PROVE  (i * s) % 2 = 0
<1>1. PICK h \in Nat : s = 2 * h
  <2>1. s \div 2 \in Nat /\ s = 2 * (s \div 2)
        OBVIOUS
  <2>. QED  BY <2>1
<1>2. i * s = 2 * (i * h)
      BY <1>1
<1>3. i * h \in Int
      BY <1>1
<1>4. ASSUME NEW k \in Int PROVE (2 * k) % 2 = 0
      OBVIOUS
<1>. QED  BY <1>2, <1>3, <1>4

\* No chunk begins inside a code unit, wherever the size came from.
THEOREM UnitsStayWhole == Spec => []BoundariesOnUnits
<1>1. IInv /\ FoundSizeInv => BoundariesOnUnits
  <2>. SUFFICES ASSUME IInv, FoundSizeInv, stage = "planned", request.utf16le,
                       NEW i \in 0 .. ChunkCount - 1
                PROVE  ChunkOffset(i) % 2 = 0
       BY DEF BoundariesOnUnits
  <2>1. size % 2 = 0
        BY DEF FoundSizeInv, CutsUnit
  <2>2. request.fileLen \in Nat /\ size \in Nat \ {0}
        BY RequestFacts DEF IInv, TypeOK
  <2>3. ChunkCount \in Int /\ i \in Int
    <3>1. (request.fileLen + size - 1) \div size \in Nat
          BY <2>2, DivFacts
    <3>. QED  BY <3>1 DEF ChunkCount
  <2>. QED  BY <2>1, <2>2, <2>3, EvenMultiple DEF ChunkOffset
<1>. QED  BY <1>1, Invariance, FoundSizeInvariance, PTL

\* The loop of auto_chunk_size leaves no worker without a chunk while it can still halve,
\* for every number of jobs, after a wrap of the product too (chunk.rs:112-116).
THEOREM NobodyIsIdle == Spec => []EveryWorkerHasAChunk
<1>1. IInv /\ FoundSizeInv => EveryWorkerHasAChunk
  <2>. SUFFICES ASSUME IInv, FoundSizeInv, stage = "planned", request.auto,
                       size # AutoMinChunkSize
                PROVE  ChunkCount >= request.jobs
       BY DEF EveryWorkerHasAChunk
  <2>1. /\ request.fileLen \in Nat /\ request.jobs \in Nat /\ size \in Nat \ {0}
        /\ AutoMinChunkSize <= size
        BY RequestFacts DEF IInv, TypeOK, FoundSizeInv
  <2>2. ~(DivCeil(request.fileLen, size) < request.jobs)
        BY <2>1, AutoAssumption DEF FoundSizeInv, TooFewChunks
  <2>3. ChunkCount = DivCeil(request.fileLen, size) /\ ChunkCount \in Nat
        BY <2>1, DivFacts DEF ChunkCount, DivCeil
  <2>. QED  BY <2>1, <2>2, <2>3
<1>. QED  BY <1>1, Invariance, FoundSizeInvariance, PTL
=============================================================================
