-------------------------- MODULE ScratchDirProofs --------------------------
(***************************************************************************)
(* Theorems about ScratchDir: with the directory the threads are still     *)
(* those of Pipeline, so that what PipelineProofs proves holds here too,   *)
(* no worker leaves a name behind in the directory, and with --keep-temp   *)
(* no finished file is lost.                                               *)
(***************************************************************************)
EXTENDS ScratchDir, PipelineProofs

-----------------------------------------------------------------------------
(* The composition implements Pipeline.                                    *)

\* Every step is one of Pipeline, or leaves its variables alone.
LEMMA ScratchStepIsStep == [ScratchNext]_allVars => [Next]_vars
<1>. SUFFICES ASSUME [ScratchNext]_allVars PROVE [Next]_vars
     OBVIOUS
<1>1. ASSUME NEW w \in Workers, ScratchWorkerStep(w) PROVE [Next]_vars
  <2>1. CASE CreateFile(w) \/ DetachFile(w)
        BY <2>1 DEF CreateFile, DetachFile
  <2>2. CASE FinishFile(w)
        BY <2>2 DEF FinishFile, Next, WorkerStep
  <2>3. CASE AbandonFile(w)
        BY <2>3 DEF AbandonFile, Next, WorkerStep
  <2>4. CASE OtherWorkerStep(w)
        BY <2>4 DEF OtherWorkerStep, Next, WorkerStep
  <2>. QED  BY <1>1, <2>1, <2>2, <2>3, <2>4 DEF ScratchWorkerStep
<1>2. CASE ScratchMainStep
      BY <1>2 DEF ScratchMainStep, DropGuard, RemoveEntry, RemoveDir, Next
<1>3. CASE (CtrlC \/ Exited) /\ UNCHANGED scratchVars
      BY <1>3 DEF Next
<1>4. CASE UNCHANGED allVars
      BY <1>4 DEF allVars
<1>. QED  BY <1>1, <1>2, <1>3, <1>4 DEF ScratchNext

\* Whatever happens in the temporary directory, the threads behave as in Pipeline.
THEOREM ScratchImplementsPipeline == ScratchSpec => Spec
<1>1. ScratchInit => Init
      BY DEF ScratchInit
<1>. QED  BY <1>1, ScratchStepIsStep, PTL DEF ScratchSpec, Spec

\* A run that succeeds has written everything, with the directory in the picture too.
THEOREM ScratchSuccess == ScratchSpec => []SuccessIsComplete
BY ScratchImplementsPipeline, SuccessMeansComplete, PTL

-----------------------------------------------------------------------------
(* Names are transient.                                                    *)

\* A worker has a file only while it works on it.
HeldOnlyAtWork ==
    /\ file \in [Workers -> FileStates]
    /\ \A w \in Workers : file[w] # "none" => wpc[w] \in {"scanning", "merging"}

Place(w) == <<wpc[w], work[w], scanned[w]>>

\* A step of one worker leaves the others where they are.
LEMMA OthersStay ==
    ASSUME WorkersTypeOK, NEW w \in Workers, NEW v \in Workers, v # w, WorkerStep(w)
    PROVE  Place(v)' = Place(v)
<1>. USE DEF WorkersTypeOK, Place, GoTo, FinishOk, MayTruncate
<1>1. CASE WorkerTop(w)
      BY <1>1 DEF WorkerTop
<1>2. CASE Claim(w)
      BY <1>2 DEF Claim
<1>3. CASE BeginScan(w)
      BY <1>3 DEF BeginScan
<1>4. CASE EndScan(w)
      BY <1>4 DEF EndScan
<1>5. CASE EndMerge(w)
      BY <1>5 DEF EndMerge
<1>6. CASE WorkerFails(w)
      BY <1>6 DEF WorkerFails
<1>7. CASE CancelSiblings(w)
      BY <1>7 DEF CancelSiblings
<1>8. CASE WorkerPanics(w)
      BY <1>8 DEF WorkerPanics
<1>9. CASE Recheck(w)
      BY <1>9 DEF Recheck
<1>10. CASE Send(w)
      BY <1>10 DEF Send
<1>. QED
     BY <1>1, <1>2, <1>3, <1>4, <1>5, <1>6, <1>7, <1>8, <1>9, <1>10 DEF WorkerStep

\* A worker that stays where it is keeps its name, and with its file its claim to it.
LEMMA StillNamed ==
    ASSUME NEW v \in Workers, Place(v)' = Place(v), file'[v] = file[v]
    PROVE  /\ NameOf(v)' = NameOf(v)
           /\ (file[v] # "none" => wpc[v] \in {"scanning", "merging"})
              => (file'[v] # "none" => wpc'[v] \in {"scanning", "merging"})
BY DEF Place, NameOf

\* If every worker but one stays where it is with its file, and that one has none with a
\* name before or after, then the names that stay are still accounted for.
LEMMA OneMoves ==
    ASSUME HeldOnlyAtWork, NamesAreTransient, NEW w \in Workers,
           \A v \in Workers \ {w} : Place(v)' = Place(v),
           NEW state \in FileStates, file' = [file EXCEPT ![w] = state],
           state # "none" => wpc'[w] \in {"scanning", "merging"},
           keepTemp' = keepTemp,
           \A name \in entries' : name \in entries /\ ~(file[w] = "named" /\ NameOf(w) = name)
    PROVE  HeldOnlyAtWork' /\ NamesAreTransient'
<1>1. ASSUME NEW v \in Workers \ {w}
      PROVE  /\ file'[v] = file[v]
             /\ NameOf(v)' = NameOf(v)
             /\ file'[v] # "none" => wpc'[v] \in {"scanning", "merging"}
  <2>1. file'[v] = file[v]
        BY DEF HeldOnlyAtWork
  <2>. QED  BY <2>1, StillNamed DEF HeldOnlyAtWork
<1>2. HeldOnlyAtWork'
      BY <1>1 DEF HeldOnlyAtWork
<1>3. ASSUME ~keepTemp, NEW name \in entries'
      PROVE  \E v \in Workers : file'[v] = "named" /\ NameOf(v)' = name
  <2>1. PICK v \in Workers : file[v] = "named" /\ NameOf(v) = name
        BY <1>3 DEF NamesAreTransient
  <2>2. v # w
        BY <1>3, <2>1
  <2>. QED  BY <1>1, <2>1, <2>2
<1>. QED  BY <1>2, <1>3 DEF NamesAreTransient

\* If no worker moves and no file changes hands, fewer names are still accounted for.
LEMMA NobodyMoves ==
    ASSUME HeldOnlyAtWork, NamesAreTransient, UNCHANGED <<workerVars, file, keepTemp>>,
           entries' \subseteq entries
    PROVE  HeldOnlyAtWork' /\ NamesAreTransient'
<1>1. ASSUME NEW v \in Workers PROVE NameOf(v)' = NameOf(v)
      BY DEF NameOf, workerVars
<1>2. HeldOnlyAtWork'
      BY DEF HeldOnlyAtWork, workerVars
<1>3. NamesAreTransient'
      BY <1>1 DEF NamesAreTransient
<1>. QED  BY <1>2, <1>3

\* Every step keeps the names transient.
LEMMA TransientStep ==
    ASSUME TypeOK, HeldOnlyAtWork, NamesAreTransient, [ScratchNext]_allVars
    PROVE  HeldOnlyAtWork' /\ NamesAreTransient'
<1>1. ASSUME NEW w \in Workers, ScratchWorkerStep(w)
      PROVE  HeldOnlyAtWork' /\ NamesAreTransient'
  <2>1. CASE CreateFile(w)
    <3>1. /\ UNCHANGED vars /\ keepTemp' = keepTemp
          /\ entries' = entries \cup {NameOf(w)}
          /\ file' = [file EXCEPT ![w] = "named"]
          /\ wpc[w] \in {"scanning", "merging"} /\ file[w] = "none"
          BY <2>1 DEF CreateFile, Works
    <3>2. \A v \in Workers : NameOf(v)' = NameOf(v) /\ wpc'[v] = wpc[v]
          BY <3>1 DEF NameOf, vars, workerVars
    <3>3. file'[w] = "named" /\ \A v \in Workers \ {w} : file'[v] = file[v]
          BY <3>1 DEF HeldOnlyAtWork
    <3>4. HeldOnlyAtWork'
          BY <3>1, <3>2, <3>3 DEF HeldOnlyAtWork, FileStates
    <3>5. ASSUME ~keepTemp, NEW name \in entries'
          PROVE  \E v \in Workers : file'[v] = "named" /\ NameOf(v)' = name
      <4>1. CASE name = NameOf(w)
            BY <3>2, <3>3, <4>1
      <4>2. CASE name \in entries
        <5>1. PICK v \in Workers : file[v] = "named" /\ NameOf(v) = name
              BY <3>5, <4>2 DEF NamesAreTransient
        <5>. QED  BY <3>1, <3>2, <3>3, <5>1
      <4>. QED  BY <3>1, <4>1, <4>2
    <3>. QED  BY <3>1, <3>4, <3>5 DEF NamesAreTransient
  <2>2. CASE DetachFile(w) /\ ~keepTemp
    <3>1. /\ UNCHANGED vars /\ keepTemp' = keepTemp
          /\ entries' = entries \ {NameOf(w)}
          /\ file' = [file EXCEPT ![w] = "open"]
          /\ wpc[w] \in {"scanning", "merging"}
          BY <2>2 DEF DetachFile, Works
    <3>2. \A v \in Workers : Place(v)' = Place(v)
          BY <3>1 DEF Place, vars, workerVars
    <3>3. wpc'[w] \in {"scanning", "merging"}
          BY <3>1, <3>2 DEF Place
    <3>. QED  BY <3>1, <3>2, <3>3, OneMoves DEF FileStates
  <2>3. CASE DetachFile(w) /\ keepTemp
    <3>1. /\ UNCHANGED workerVars /\ keepTemp /\ keepTemp'
          /\ file' = [file EXCEPT ![w] = "open"]
          /\ wpc[w] \in {"scanning", "merging"}
          BY <2>3 DEF DetachFile, Works, vars
    <3>2. HeldOnlyAtWork'
          BY <3>1 DEF HeldOnlyAtWork, FileStates, workerVars
    <3>3. NamesAreTransient'
          BY <3>1 DEF NamesAreTransient
    <3>. QED  BY <3>2, <3>3
  <2>4. CASE FinishFile(w)
    <3>1. /\ keepTemp' = keepTemp /\ entries' = entries
          /\ file' = [file EXCEPT ![w] = "none"] /\ file[w] = "open"
          /\ WorkerStep(w)
          BY <2>4 DEF FinishFile, WorkerStep
    <3>2. \A v \in Workers \ {w} : Place(v)' = Place(v)
          BY <3>1, OthersStay DEF TypeOK
    <3>. QED  BY <3>1, <3>2, OneMoves DEF FileStates
  <2>5. CASE AbandonFile(w)
    <3>1. /\ keepTemp' = keepTemp
          /\ entries' = IF file[w] = "named" THEN entries \ {NameOf(w)} ELSE entries
          /\ file' = [file EXCEPT ![w] = "none"]
          /\ WorkerStep(w)
          BY <2>5 DEF AbandonFile, WorkerStep
    <3>2. \A v \in Workers \ {w} : Place(v)' = Place(v)
          BY <3>1, OthersStay DEF TypeOK
    <3>3. \A name \in entries' : name \in entries /\ ~(file[w] = "named" /\ NameOf(w) = name)
          BY <3>1
    <3>. QED  BY <3>1, <3>2, <3>3, OneMoves DEF FileStates
  <2>6. CASE OtherWorkerStep(w)
    <3>1. UNCHANGED scratchVars /\ WorkerStep(w) /\ wpc[w] \notin {"scanning", "merging"}
          BY <2>6 DEF OtherWorkerStep, WorkerStep, WorkerTop, Claim, BeginScan,
                      CancelSiblings, Recheck, Send
    <3>2. file[w] = "none"
          BY <3>1 DEF HeldOnlyAtWork
    <3>3. \A v \in Workers \ {w} : Place(v)' = Place(v)
          BY <3>1, OthersStay DEF TypeOK
    <3>4. /\ keepTemp' = keepTemp /\ entries' = entries
          /\ file' = [file EXCEPT ![w] = "none"]
          BY <3>1, <3>2 DEF scratchVars, HeldOnlyAtWork
    <3>. QED  BY <3>2, <3>3, <3>4, OneMoves DEF FileStates
  <2>. QED  BY <1>1, <2>1, <2>2, <2>3, <2>4, <2>5, <2>6 DEF ScratchWorkerStep
<1>2. CASE DropGuard \/ RemoveEntry \/ RemoveDir
  <2>1. UNCHANGED <<workerVars, file, keepTemp>> /\ entries' \subseteq entries
        BY <1>2 DEF DropGuard, RemoveEntry, RemoveDir, vars
  <2>. QED  BY <2>1, NobodyMoves
<1>3. CASE (MainStep \/ CtrlC) /\ UNCHANGED scratchVars
      BY <1>3, MainFrame, NobodyMoves DEF scratchVars
<1>4. CASE Exited /\ UNCHANGED scratchVars
      BY <1>4, NobodyMoves DEF Exited, scratchVars, vars
<1>5. CASE UNCHANGED allVars
      BY <1>5, NobodyMoves DEF allVars, scratchVars, vars
<1>. QED  BY <1>1, <1>2, <1>3, <1>4, <1>5 DEF ScratchNext, ScratchMainStep

\* Without --keep-temp no worker leaves a name behind, however it ends: what is in the
\* directory is a file that its worker has created and not yet unlinked.
THEOREM NoNameIsLeft == ScratchSpec => []NamesAreTransient
<1>1. ScratchInit => HeldOnlyAtWork /\ NamesAreTransient
      BY DEF ScratchInit, HeldOnlyAtWork, NamesAreTransient, FileStates
<1>2. TypeOK /\ HeldOnlyAtWork /\ NamesAreTransient /\ [ScratchNext]_allVars
      => HeldOnlyAtWork' /\ NamesAreTransient'
      BY TransientStep
<1>3. ScratchSpec => []TypeOK
      BY ScratchImplementsPipeline, TypeCorrect, PTL
<1>. QED  BY <1>1, <1>2, <1>3, PTL DEF ScratchSpec

-----------------------------------------------------------------------------
(* Types.                                                                  *)

DirTypeOK ==
    /\ keepTemp \in BOOLEAN
    /\ entries \subseteq Names
    /\ exists \in BOOLEAN
    /\ guard \in GuardStates
    /\ listed \subseteq Names

\* What a worker at work creates is the name of one of its chunk's files.
LEMMA NameIsAName ==
    ASSUME IInv, NEW w \in Workers, Works(w)
    PROVE  NameOf(w) \in Names
<1>1. work[w] \in Files /\ scanned[w] \in 0 .. NumEncodings
      BY DEF Works, IInv, TypeOK, WorkersTypeOK, WorkerInv, Busy
<1>2. work[w].chunk \in ChunkIds /\ NumEncodings \in 0 .. NumEncodings
      BY <1>1, NumEncodingsAssumption DEF Files
<1>. QED  BY <1>1, <1>2 DEF NameOf, Names

\* Every step keeps the types.
LEMMA DirTypeStep ==
    ASSUME IInv, DirTypeOK, [ScratchNext]_allVars
    PROVE  DirTypeOK'
<1>. USE DEF DirTypeOK
<1>1. CASE UNCHANGED scratchVars
      BY <1>1 DEF scratchVars
<1>2. ASSUME NEW w \in Workers, CreateFile(w) PROVE DirTypeOK'
  <2>1. NameOf(w) \in Names
        BY <1>2, NameIsAName DEF CreateFile
  <2>. QED  BY <1>2, <2>1 DEF CreateFile
<1>3. ASSUME NEW w \in Workers, DetachFile(w) \/ FinishFile(w) \/ AbandonFile(w)
      PROVE  DirTypeOK'
      BY <1>3 DEF DetachFile, FinishFile, AbandonFile
<1>4. CASE DropGuard \/ RemoveEntry \/ RemoveDir
  <2>1. /\ keepTemp' = keepTemp /\ entries' \subseteq entries /\ listed' \subseteq Names
        /\ guard' \in GuardStates
        BY <1>4 DEF DropGuard, RemoveEntry, RemoveDir, GuardStates
  <2>2. exists' = exists \/ exists' = (entries # {})
        BY <1>4 DEF DropGuard, RemoveEntry, RemoveDir
  <2>3. exists' \in BOOLEAN
        BY <2>2, Zenon
  <2>. QED  BY <2>1, <2>3
<1>. QED  BY <1>1, <1>2, <1>3, <1>4
          DEF ScratchNext, ScratchWorkerStep, ScratchMainStep, OtherWorkerStep, allVars

\* Only Claim, the scans and the merge give a worker a name, and only from the names of the
\* chunk it holds; the guard lists nothing else (tempfile_helper.rs:67-107).
THEOREM ScratchTypeCorrect == ScratchSpec => []ScratchTypeOK
<1>1. ScratchInit => DirTypeOK
      BY DEF ScratchInit, DirTypeOK, GuardStates
<1>2. IInv /\ DirTypeOK /\ [ScratchNext]_allVars => DirTypeOK'
      BY DirTypeStep
<1>3. ScratchInit => HeldOnlyAtWork /\ NamesAreTransient
      BY DEF ScratchInit, HeldOnlyAtWork, NamesAreTransient, FileStates
<1>4. IInv /\ HeldOnlyAtWork /\ NamesAreTransient /\ [ScratchNext]_allVars
      => HeldOnlyAtWork' /\ NamesAreTransient'
      BY TransientStep DEF IInv
<1>5. ScratchSpec => []IInv
      BY ScratchImplementsPipeline, Invariance, PTL
<1>6. IInv /\ DirTypeOK /\ HeldOnlyAtWork => ScratchTypeOK
      BY DEF IInv, DirTypeOK, HeldOnlyAtWork, ScratchTypeOK
<1>. QED  BY <1>1, <1>2, <1>3, <1>4, <1>5, <1>6, PTL DEF ScratchSpec

-----------------------------------------------------------------------------
(* The directory of a run that joined its workers.                         *)

\* The guard is dropped between run's return and the exit of the process, and then the
\* directory is gone if nobody can have put anything into it.
CleanInv ==
    /\ guard # "held" => mpc \in {"returned", "exited"}
    /\ mpc = "exited" => guard = "dropped"
    /\ guard = "dropped" /\ ~keepTemp /\ joined = Jobs => ~exists

\* When every worker was joined no name is left.
LEMMA JoinedLeaveNothing ==
    ASSUME IInv, HeldOnlyAtWork, NamesAreTransient, ~keepTemp, joined = Jobs
    PROVE  entries = {}
<1>1. ASSUME NEW w \in Workers PROVE file[w] = "none"
  <2>1. wpc[w] = "ok"
        BY DEF IInv, EndInv, Workers
  <2>. QED  BY <2>1 DEF HeldOnlyAtWork
<1>. QED  BY <1>1 DEF NamesAreTransient

\* Every step keeps what is said of the directory's removal.
LEMMA CleanStep ==
    ASSUME IInv, HeldOnlyAtWork, NamesAreTransient, CleanInv, [ScratchNext]_allVars
    PROVE  CleanInv'
<1>. USE DEF CleanInv
<1>1. CASE UNCHANGED <<mpc, joined, keepTemp, guard, exists>>
      BY <1>1
<1>2. ASSUME NEW w \in Workers, ScratchWorkerStep(w) PROVE CleanInv'
  <2>1. UNCHANGED <<keepTemp, guard, exists>>
        BY <1>2 DEF ScratchWorkerStep, CreateFile, DetachFile, FinishFile, AbandonFile,
                    OtherWorkerStep, scratchVars
  <2>2. UNCHANGED <<mpc, joined>>
    <3>1. CASE UNCHANGED vars
          BY <3>1 DEF vars, mainVars, endVars
    <3>2. CASE WorkerStep(w)
          BY <3>2, WorkerFrame DEF mainVars, endVars
    <3>. QED  BY <1>2, <3>1, <3>2
              DEF ScratchWorkerStep, CreateFile, DetachFile, FinishFile, AbandonFile,
                  OtherWorkerStep, WorkerStep
  <2>. QED  BY <1>1, <2>1, <2>2
<1>3. CASE DropGuard
      BY <1>3 DEF DropGuard, vars, mainVars, endVars
<1>4. CASE RemoveEntry
      BY <1>1, <1>4 DEF RemoveEntry, vars, mainVars, endVars
<1>5. CASE RemoveDir
  <2>1. /\ guard = "removing" /\ guard' = "dropped" /\ exists' = (entries # {})
        /\ UNCHANGED <<mpc, joined, keepTemp>>
        BY <1>5 DEF RemoveDir, vars, mainVars, endVars
  <2>2. ~keepTemp /\ joined = Jobs => ~exists'
        BY <2>1, JoinedLeaveNothing
  <2>. QED  BY <2>1, <2>2
<1>6. CASE (mpc = "returned" => guard = "dropped") /\ MainStep /\ UNCHANGED scratchVars
  <2>1. CASE ProcessExit
        BY <1>6, <2>1 DEF ProcessExit, endVars, scratchVars
  <2>2. CASE ~ProcessExit
    <3>1. mpc \notin {"returned", "exited"} /\ mpc' # "exited"
          BY <1>6, <2>2
          DEF MainStep, OpenOutput, OpenFails, OutputTop, Receive, ReceiveTimeout,
              ReceiveDisconnected, ReceivedNext, Take, WriteChunk, WriteStops, FlushPending,
              FlushPendingFails, DropReceiver, JoinWorker, JoinedAll, Decide, Finish, Return
    <3>. QED  BY <1>6, <3>1 DEF scratchVars, IInv
  <2>. QED  BY <2>1, <2>2
<1>7. CASE (CtrlC \/ Exited) /\ UNCHANGED scratchVars
      BY <1>1, <1>7 DEF CtrlC, Exited, vars, mainVars, endVars, scratchVars
<1>8. CASE UNCHANGED allVars
      BY <1>1, <1>8 DEF allVars, vars, mainVars, endVars, scratchVars
<1>. QED  BY <1>2, <1>3, <1>4, <1>5, <1>6, <1>7, <1>8 DEF ScratchNext, ScratchMainStep

\* Once every worker was joined the directory goes with the run, however the run ended
\* (main.rs:470, tempfile_helper.rs:59).
THEOREM JoinedMeansClean == ScratchSpec => []JoinedRunsCleanUp
<1>1. ScratchInit => CleanInv /\ HeldOnlyAtWork /\ NamesAreTransient
      BY DEF ScratchInit, Init, CleanInv, HeldOnlyAtWork, NamesAreTransient, FileStates
<1>2. IInv /\ HeldOnlyAtWork /\ NamesAreTransient /\ CleanInv /\ [ScratchNext]_allVars
      => HeldOnlyAtWork' /\ NamesAreTransient' /\ CleanInv'
      BY TransientStep, CleanStep DEF IInv
<1>3. ScratchSpec => []IInv
      BY ScratchImplementsPipeline, Invariance, PTL
<1>4. CleanInv => JoinedRunsCleanUp
      BY DEF CleanInv, JoinedRunsCleanUp
<1>. QED  BY <1>1, <1>2, <1>3, <1>4, PTL DEF ScratchSpec

-----------------------------------------------------------------------------
(* With --keep-temp no finished file is lost.  A worker that fails removes *)
(* the name of the file it was on: that this is never a file of another    *)
(* worker, or one that was finished, is where the ledger is needed.        *)

\* the first n files of a chunk have names in the directory
Present(c, n) == {c} \X (0 .. n - 1) \subseteq entries

\* one file of every encoding and the merged one
AllPresent(c) == {c} \X (0 .. NumEncodings) \subseteq entries

\* What a worker has finished of its chunk, and the file it is on, is there.
Hand(w) ==
    /\ file[w] # "none" => NameOf(w) \in entries
    /\ wpc[w] \in {"encodings", "scanning", "merging"} /\ work[w].whole =>
           Present(work[w].chunk, scanned[w])
    /\ wpc[w] = "merging" /\ work[w].whole => scanned[w] = NumEncodings
    /\ wpc[w] \in {"recheck", "send"} /\ work[w].whole => AllPresent(work[w].chunk)

HandInv == \A w \in Workers : Hand(w)

\* the files that have left their worker
Travelling ==
    {chan[i] : i \in 1 .. Len(chan)} \cup pendingFiles \cup ({taken} \ {NoFile})
    \cup {written[i] : i \in 1 .. Len(written)}

TravelKept == \A f \in Travelling : AllPresent(f.chunk)

KeptInv == keepTemp => exists /\ guard # "removing" /\ HandInv /\ TravelKept

-----------------------------------------------------------------------------
(* Nobody else has a worker's chunk.                                       *)

\* Naturals that add up to at most one, a one among them, are zero.
LEMMA NothingBesideOne ==
    ASSUME NEW a \in Nat, NEW b \in Nat, NEW c \in Nat, NEW d \in Nat, NEW e \in Nat,
           (a + 1) + b + c + d + e <= 1
    PROVE  a = 0 /\ b = 0 /\ c = 0 /\ d = 0 /\ e = 0
OBVIOUS

\* The chunk a worker has is with no other one, and not among the files that travel.
LEMMA OneHolder ==
    ASSUME TypeOK, Ledger, NEW w \in Workers, work[w] \in Files
    PROVE  /\ \A v \in Workers \ {w} : work[v].chunk # work[w].chunk
           /\ \A f \in Travelling : f.chunk # work[w].chunk
<1>1. work[w].chunk \in ChunkIds /\ IsFiniteSet(pendingFiles)
      BY DEF Files, Ledger
<1>2. PICK c \in ChunkIds : c = work[w].chunk
      BY <1>1
<1>3. Copies(c) = 0 \/ Copies(c) = 1
  <2>1. c \in Int /\ nextChunk \in Int
        BY ChunkCountAssumption DEF ChunkIds, TypeOK, SharedTypeOK
  <2>. QED  BY <2>1 DEF Ledger
<1>4. /\ InHands(c) \in Nat /\ Queued(c) \in Nat /\ Stored(c) \in Nat
      /\ Taken(c) \in Nat /\ Logged(c) \in Nat
      BY <1>1, CopiesAreNat
<1>5. Copies(c) = InHands(c) + Queued(c) + Stored(c) + Taken(c) + Logged(c)
      BY DEF Copies
<1>6. w \in WorkersWith(c)
      BY <1>2 DEF WorkersWith, InHand
<1>7. /\ InHands(c) = Cardinality(WorkersWith(c) \ {w}) + 1
      /\ Cardinality(WorkersWith(c) \ {w}) \in Nat
      /\ IsFiniteSet(WorkersWith(c) \ {w})
  <2>1. IsFiniteSet(WorkersWith(c))
        BY WorkersFinite
  <2>. QED  BY <1>6, <2>1, CountWithout DEF InHands, Count
<1>8. /\ Cardinality(WorkersWith(c) \ {w}) = 0
      /\ Queued(c) = 0 /\ Stored(c) = 0 /\ Taken(c) = 0 /\ Logged(c) = 0
  <2>1. InHands(c) + Queued(c) + Stored(c) + Taken(c) + Logged(c) <= 1
        BY <1>3, <1>5
  <2>. QED  BY <1>4, <1>7, <2>1, NothingBesideOne
<1>9. WorkersWith(c) \ {w} = {}
      BY <1>7, <1>8, FS_EmptySet
<1>10. Positions(chan, c) = {} /\ PendingWith(c) = {} /\ Positions(written, c) = {}
  <2>1. /\ IsFiniteSet(Positions(chan, c)) /\ IsFiniteSet(Positions(written, c))
        /\ IsFiniteSet(PendingWith(c))
        BY <1>1, PositionsFinite, PendingFinite DEF TypeOK, SharedTypeOK, OutputTypeOK
  <2>. QED  BY <1>8, <2>1, FS_EmptySet DEF Queued, Stored, Logged
<1>11. taken.chunk # c
      BY <1>8 DEF Taken, Count, IsTaken
<1>12. \A v \in Workers \ {w} : work[v].chunk # c
      BY <1>9 DEF WorkersWith, InHand
<1>13. \A f \in Travelling : f.chunk # c
      BY <1>10, <1>11 DEF Travelling, Positions, PendingWith
<1>. QED  BY <1>2, <1>12, <1>13

-----------------------------------------------------------------------------
(* The names of what travels.                                              *)

\* If what travels was travelling already, under whatever name for whether it is whole, or
\* is new with all its names, and no name of it goes, then everything is still there.
LEMMA TravelGoesOn ==
    ASSUME TravelKept,
           \A f \in Travelling' :
               \/ \E g \in Travelling : f.chunk = g.chunk
               \/ AllPresent(f.chunk),
           \A name \in entries : name \in entries' \/ \A f \in Travelling' : name[1] # f.chunk
    PROVE  TravelKept'
<1>1. ASSUME NEW f \in Travelling', NEW n \in 0 .. NumEncodings
      PROVE  <<f.chunk, n>> \in entries'
  <2>1. <<f.chunk, n>> \in {f.chunk} \X (0 .. NumEncodings)
        OBVIOUS
  <2>2. AllPresent(f.chunk)
        BY DEF TravelKept
  <2>3. <<f.chunk, n>> \in entries
        BY <2>1, <2>2 DEF AllPresent
  <2>. QED  BY <2>3
<1>2. ASSUME NEW f \in Travelling' PROVE {f.chunk} \X (0 .. NumEncodings) \subseteq entries'
  <2>1. ASSUME NEW name \in {f.chunk} \X (0 .. NumEncodings) PROVE name \in entries'
    <3>1. PICK n \in 0 .. NumEncodings : name = <<f.chunk, n>>
          OBVIOUS
    <3>. QED  BY <1>1, <3>1
  <2>. QED  BY <2>1
<1>. QED  BY <1>2 DEF TravelKept, AllPresent

\* What a worker sends is what is new among the files that travel.
LEMMA WorkerTravel ==
    ASSUME IInv, NEW w \in Workers, WorkerStep(w)
    PROVE  \A f \in Travelling' :
               f \in Travelling \/ (wpc[w] = "send" /\ f = work[w])
<1>1. UNCHANGED <<pendingFiles, taken, written>>
      BY WorkerFrame DEF mainVars, outVars
<1>2. \/ chan' = chan
      \/ wpc[w] = "send" /\ chan' = Append(chan, work[w])
    BY DEF WorkerStep, WorkerTop, Claim, BeginScan, EndScan, EndMerge,
           WorkerFails, CancelSiblings, WorkerPanics, Recheck, Send, chanVars
<1>3. CASE chan' = chan
      BY <1>1, <1>3 DEF Travelling
<1>4. CASE wpc[w] = "send" /\ chan' = Append(chan, work[w])
  <2>1. work[w] \in Files /\ chan \in Seq(Files)
        BY <1>4 DEF IInv, WorkerInv, Busy, TypeOK, SharedTypeOK
  <2>2. /\ Len(chan') = Len(chan) + 1 /\ Len(chan) \in Nat
        /\ \A i \in 1 .. Len(chan) : chan'[i] = chan[i]
        /\ chan'[Len(chan) + 1] = work[w]
        BY <1>4, <2>1
  <2>3. \A i \in 1 .. Len(chan') : (i \in 1 .. Len(chan) /\ chan'[i] = chan[i]) \/ chan'[i] = work[w]
        BY <2>2
  <2>. QED  BY <1>1, <1>4, <2>3 DEF Travelling
<1>. QED  BY <1>2, <1>3, <1>4

\* The main thread moves files on; at most it cuts one short.
LEMMA MainTravel ==
    ASSUME IInv, MainStep \/ CtrlC
    PROVE  \A f \in Travelling' : \E g \in Travelling : f.chunk = g.chunk
<1>. USE DEF Travelling
<1>1. /\ chan \in Seq(Files) /\ written \in Seq(Files)
      /\ mpc = "write" => taken \in Files /\ taken # NoFile
      /\ mpc # "write" => taken = NoFile
      BY NoFileIsNone DEF IInv, TypeOK, SharedTypeOK, OutputTypeOK, TravelInv
<1>2. CASE Receive
  <2>1. /\ chan # <<>> /\ chan' = Tail(chan) /\ pendingFiles' = pendingFiles \cup {Head(chan)}
        /\ UNCHANGED <<taken, written>>
        BY <1>2 DEF Receive
  <2>2. /\ Head(chan) = chan[1] /\ 1 \in 1 .. Len(chan)
        /\ \A i \in 1 .. Len(chan') : i + 1 \in 1 .. Len(chan) /\ chan'[i] = chan[i + 1]
        BY <1>1, <2>1
  <2>3. \A i \in 1 .. Len(chan') : chan'[i] \in {chan[j] : j \in 1 .. Len(chan)}
        BY <2>2
  <2>. QED  BY <2>1, <2>2, <2>3
<1>3. CASE Take
  <2>1. UNCHANGED <<chan, written>>
        BY <1>3 DEF Take, chanVars
  <2>2. UNCHANGED <<pendingFiles, taken>>
        \/ \E f \in pendingFiles : pendingFiles' = pendingFiles \ {f} /\ taken' = f
        BY <1>3 DEF Take
  <2>. QED  BY <2>1, <2>2
<1>4. ASSUME NEW f \in Files, f.chunk = taken.chunk, written' = Append(written, f),
             mpc = "write", taken' = NoFile, UNCHANGED <<chan, pendingFiles>>
      PROVE  \A g \in Travelling' : \E h \in Travelling : g.chunk = h.chunk
  <2>1. \A i \in 1 .. Len(written') : (i \in 1 .. Len(written) /\ written'[i] = written[i])
                                      \/ written'[i] = f
        BY <1>1, <1>4
  <2>2. taken \in Travelling
        BY <1>1, <1>4
  <2>. QED  BY <1>4, <2>1, <2>2
<1>5. CASE WriteChunk
  <2>1. taken \in Files
        BY <1>1, <1>5 DEF WriteChunk
  <2>. QED  BY <1>4, <1>5, <2>1 DEF WriteChunk, chanVars
<1>6. ASSUME NEW e \in {"interrupted", "io"}, WriteStops(e)
      PROVE  \A g \in Travelling' : \E h \in Travelling : g.chunk = h.chunk
  <2>. DEFINE cut == [taken EXCEPT !.whole = FALSE]
  <2>1. mpc = "write" /\ taken' = NoFile /\ written' = Append(written, cut)
        /\ UNCHANGED <<chan, pendingFiles>>
        BY <1>6 DEF WriteStops, chanVars
  <2>2. cut \in Files /\ cut.chunk = taken.chunk
        BY <1>1, <2>1, CutFile
  <2>. HIDE DEF cut
  <2>. QED  BY <1>4, <2>1, <2>2
<1>7. CASE \/ OpenOutput \/ OpenFails \/ OutputTop \/ ReceiveTimeout \/ ReceiveDisconnected
           \/ ReceivedNext \/ FlushPending \/ FlushPendingFails \/ DropReceiver
           \/ JoinWorker \/ JoinedAll \/ Decide \/ Finish \/ ProcessExit \/ CtrlC
  <2>1. UNCHANGED <<chan, pendingFiles, taken, written>>
        BY <1>7 DEF OpenOutput, OpenFails, OutputTop, ReceiveTimeout, ReceiveDisconnected,
                    ReceivedNext, FlushPending, FlushPendingFails, DropReceiver,
                    JoinWorker, JoinedAll, Decide, Finish, ProcessExit, CtrlC,
                    chanVars, outVars, mainVars
  <2>. QED  BY <2>1
<1>. QED  BY <1>2, <1>3, <1>5, <1>6, <1>7 DEF MainStep

-----------------------------------------------------------------------------
(* The names of what is in hand.                                           *)

\* One worker moves; the others keep their names.
LEMMA OthersKeep ==
    ASSUME HandInv, NEW w \in Workers,
           \A v \in Workers \ {w} : Place(v)' = Place(v) /\ file'[v] = file[v],
           \A name \in entries :
               name \in entries' \/ \A v \in Workers \ {w} : name[1] # work[v].chunk,
           Hand(w)'
    PROVE  HandInv'
<1>1. ASSUME NEW v \in Workers \ {w} PROVE Hand(v)'
  <2>1. /\ wpc'[v] = wpc[v] /\ work'[v] = work[v] /\ scanned'[v] = scanned[v]
        /\ file'[v] = file[v] /\ NameOf(v)' = NameOf(v)
        BY DEF Place, NameOf
  <2>2. ASSUME NEW n PROVE <<work[v].chunk, n>> \in entries => <<work[v].chunk, n>> \in entries'
        OBVIOUS
  <2>3. NameOf(v) \in entries => NameOf(v) \in entries'
        BY <2>2 DEF NameOf
  <2>4. ASSUME NEW S, {work[v].chunk} \X S \subseteq entries
        PROVE  {work[v].chunk} \X S \subseteq entries'
    <3>1. ASSUME NEW name \in {work[v].chunk} \X S PROVE name \in entries'
      <4>1. PICK n \in S : name = <<work[v].chunk, n>>
            OBVIOUS
      <4>2. name \in entries
            BY <2>4
      <4>. QED  BY <2>2, <4>1, <4>2
    <3>. QED  BY <3>1
  <2>5. Hand(v)
        BY DEF HandInv
  <2>. QED  BY <2>1, <2>3, <2>4, <2>5 DEF Hand, Present, AllPresent
<1>. QED  BY <1>1 DEF HandInv

\* A scan or the merge ends: one more file is there, and after the merge all are.
LEMMA FinishKeeps ==
    ASSUME IInv, NEW w \in Workers, Hand(w), file[w] = "open", EndScan(w) \/ EndMerge(w),
           file' = [file EXCEPT ![w] = "none"], file \in [Workers -> FileStates],
           entries' = entries
    PROVE  Hand(w)'
<1>. DEFINE cut == [work[w] EXCEPT !.whole = FALSE]
            chunk == work[w].chunk
<1>1. /\ work[w] \in Files /\ scanned[w] \in Nat /\ file'[w] = "none"
      /\ TypeOK /\ WorkersTypeOK
      BY DEF EndScan, EndMerge, IInv, TypeOK, WorkersTypeOK, WorkerInv, Busy
<1>2. work'[w].chunk = chunk /\ (work'[w].whole => work[w].whole)
  <2>1. work' = work \/ work' = [work EXCEPT ![w] = cut]
        BY DEF EndScan, EndMerge, MayTruncate
  <2>2. cut.chunk = chunk /\ cut.whole = FALSE
        BY <1>1, CutFile
  <2>. HIDE DEF cut
  <2>. QED  BY <1>1, <2>1, <2>2 DEF WorkersTypeOK
<1>3. NameOf(w) \in entries
      BY DEF Hand
<1>4. ASSUME NEW n \in Nat, <<chunk, n>> \in entries, {chunk} \X (0 .. n - 1) \subseteq entries
      PROVE  {chunk} \X (0 .. n) \subseteq entries
  <2>1. ASSUME NEW name \in {chunk} \X (0 .. n) PROVE name \in entries
    <3>1. PICK i \in 0 .. n : name = <<chunk, i>>
          OBVIOUS
    <3>2. CASE i = n
          BY <1>4, <3>1, <3>2
    <3>3. CASE i # n
      <4>1. i \in 0 .. n - 1
            BY <3>3
      <4>2. name \in {chunk} \X (0 .. n - 1)
            BY <3>1, <4>1
      <4>. QED  BY <1>4, <4>2
    <3>. QED  BY <3>2, <3>3
  <2>. QED  BY <2>1
<1>5. CASE EndScan(w)
  <2>1. /\ wpc[w] = "scanning" /\ scanned'[w] = scanned[w] + 1
        /\ wpc'[w] = IF scanned[w] + 1 = NumEncodings THEN "merging" ELSE "encodings"
        BY <1>1, <1>5 DEF EndScan, GoTo, WorkersTypeOK
  <2>2. NameOf(w) = <<chunk, scanned[w]>>
        BY <2>1 DEF NameOf
  <2>3. work[w].whole => {chunk} \X (0 .. scanned[w] - 1) \subseteq entries
        BY <2>1 DEF Hand, Present
  <2>4. work[w].whole => {chunk} \X (0 .. scanned[w]) \subseteq entries
        BY <1>1, <1>3, <1>4, <2>2, <2>3
  <2>5. scanned[w] + 1 - 1 = scanned[w]
        BY <1>1
  <2>. QED  BY <1>1, <1>2, <2>1, <2>4, <2>5 DEF Hand, Present
<1>6. CASE EndMerge(w)
  <2>1. /\ wpc[w] = "merging" /\ wpc'[w] = "recheck"
        BY <1>1, <1>6 DEF EndMerge, GoTo, WorkersTypeOK
  <2>2. NameOf(w) = <<chunk, NumEncodings>>
        BY <2>1 DEF NameOf
  <2>3. work[w].whole => {chunk} \X (0 .. NumEncodings - 1) \subseteq entries
        BY <2>1 DEF Hand, Present
  <2>4. work[w].whole => {chunk} \X (0 .. NumEncodings) \subseteq entries
        BY <1>3, <1>4, <2>2, <2>3, NumEncodingsAssumption
  <2>. QED  BY <1>1, <1>2, <2>1, <2>4 DEF Hand, AllPresent
<1>. QED  BY <1>5, <1>6

\* A step that has nothing to do with the directory.
LEMMA OtherKeeps ==
    ASSUME IInv, NEW w \in Workers, Hand(w), OtherWorkerStep(w), file[w] = "none"
    PROVE  Hand(w)'
<1>1. /\ work[w] \in Files <=> wpc[w] \in Busy
      /\ WorkersTypeOK /\ file'[w] = "none" /\ entries' = entries
      BY DEF IInv, TypeOK, WorkerInv, OtherWorkerStep, scratchVars
<1>2. CASE wpc'[w] \notin {"encodings", "scanning", "merging", "recheck", "send"}
      BY <1>1, <1>2 DEF Hand
<1>3. CASE WorkerTop(w) \/ CancelSiblings(w) \/ Send(w)
  <2>1. wpc'[w] \in {"ok", "claim", "err", "top"}
        BY <1>1, <1>3 DEF WorkerTop, CancelSiblings, Send, FinishOk, GoTo, WorkersTypeOK
  <2>. QED  BY <1>2, <2>1
<1>4. CASE Claim(w)
  <2>1. wpc'[w] = "ok" \/ (wpc'[w] = "encodings" /\ scanned'[w] = 0)
        BY <1>1, <1>4 DEF Claim, FinishOk, GoTo, WorkersTypeOK
  <2>2. CASE wpc'[w] = "encodings" /\ scanned'[w] = 0
    <3>1. {work'[w].chunk} \X (0 .. 0 - 1) = {}
          OBVIOUS
    <3>. QED  BY <1>1, <2>2, <3>1 DEF Hand, Present
  <2>. QED  BY <1>2, <2>1, <2>2
<1>5. CASE BeginScan(w)
  <2>1. /\ wpc[w] = "encodings" /\ scanned'[w] = scanned[w]
        /\ \/ wpc'[w] = "merging" /\ work' = [work EXCEPT ![w] = [work[w] EXCEPT !.whole = FALSE]]
           \/ wpc'[w] = "scanning" /\ work' = work
        BY <1>1, <1>5 DEF BeginScan, GoTo, WorkersTypeOK
  <2>2. CASE wpc'[w] = "scanning" /\ work' = work
        BY <1>1, <2>1, <2>2 DEF Hand, Present
  <2>3. CASE wpc'[w] = "merging" /\ work' = [work EXCEPT ![w] = [work[w] EXCEPT !.whole = FALSE]]
    <3>. DEFINE cut == [work[w] EXCEPT !.whole = FALSE]
    <3>1. cut.whole = FALSE
          BY <1>1, <2>1, CutFile DEF Busy
    <3>. HIDE DEF cut
    <3>2. work'[w] = cut
          BY <1>1, <2>3 DEF WorkersTypeOK, cut
    <3>. QED  BY <1>1, <2>3, <3>1, <3>2 DEF Hand
  <2>. QED  BY <2>1, <2>2, <2>3
<1>6. CASE Recheck(w)
  <2>1. /\ wpc[w] = "recheck"
        /\ wpc'[w] = "ok" \/ (wpc'[w] = "send" /\ work' = work)
        BY <1>1, <1>6 DEF Recheck, FinishOk, GoTo, WorkersTypeOK
  <2>2. CASE wpc'[w] = "send" /\ work' = work
        BY <1>1, <2>1, <2>2 DEF Hand, AllPresent
  <2>. QED  BY <1>2, <2>1, <2>2
<1>. QED  BY <1>3, <1>4, <1>5, <1>6 DEF OtherWorkerStep

\* Whatever a worker does, no finished file goes and no other worker's.
LEMMA WorkerKeeps ==
    ASSUME IInv, Ledger, HeldOnlyAtWork, keepTemp, HandInv, TravelKept,
           NEW w \in Workers, ScratchWorkerStep(w)
    PROVE  HandInv' /\ TravelKept'
<1>1. TypeOK /\ file \in [Workers -> FileStates] /\ Hand(w)
      BY DEF IInv, HeldOnlyAtWork, HandInv
<1>2. ASSUME WorkerStep(w)
      PROVE  /\ \A v \in Workers \ {w} : Place(v)' = Place(v)
             /\ \A f \in Travelling' : f \in Travelling \/ AllPresent(f.chunk)
  <2>1. \A v \in Workers \ {w} : Place(v)' = Place(v)
        BY <1>1, <1>2, OthersStay DEF TypeOK
  <2>2. wpc[w] = "send" => AllPresent(work[w].chunk)
        BY <1>1 DEF IInv, WorkerInv, Hand
  <2>3. \A f \in Travelling' : f \in Travelling \/ (wpc[w] = "send" /\ f = work[w])
        BY <1>2, WorkerTravel
  <2>. QED  BY <2>1, <2>2, <2>3
<1>3. CASE CreateFile(w) \/ DetachFile(w)
  <2>1. /\ UNCHANGED vars /\ Works(w)
        /\ \E state \in FileStates : file' = [file EXCEPT ![w] = state]
        /\ \/ file[w] = "none" /\ entries' = entries \cup {NameOf(w)}
           \/ file[w] = "named" /\ entries' = entries
        BY <1>3 DEF CreateFile, DetachFile, FileStates
  <2>2. \A v \in Workers : Place(v)' = Place(v) /\ NameOf(v)' = NameOf(v)
        BY <2>1 DEF Place, NameOf, vars, workerVars
  <2>3. \A v \in Workers \ {w} : file'[v] = file[v]
        BY <1>1, <2>1
  <2>4. entries \subseteq entries' /\ NameOf(w) \in entries'
        BY <1>1, <2>1 DEF Hand
  <2>5. Hand(w)'
        BY <1>1, <2>2, <2>4 DEF Hand, Place, Present, AllPresent
  <2>6. HandInv'
        BY <2>2, <2>3, <2>4, <2>5, OthersKeep
  <2>7. TravelKept'
    <3>1. Travelling' = Travelling
          BY <2>1 DEF vars, mainVars, outVars, chanVars, Travelling
    <3>. QED  BY <2>4, <3>1 DEF TravelKept, AllPresent
  <2>. QED  BY <2>6, <2>7
<1>4. CASE FinishFile(w)
  <2>1. /\ WorkerStep(w) /\ entries' = entries /\ file' = [file EXCEPT ![w] = "none"]
        /\ file[w] = "open" /\ (EndScan(w) \/ EndMerge(w))
        BY <1>4 DEF FinishFile, WorkerStep
  <2>2. Hand(w)'
        BY <1>1, <2>1, FinishKeeps
  <2>3. \A v \in Workers \ {w} : file'[v] = file[v]
        BY <1>1, <2>1
  <2>4. HandInv'
        BY <1>2, <2>1, <2>2, <2>3, OthersKeep
  <2>5. TravelKept'
        BY <1>2, <2>1, TravelGoesOn
  <2>. QED  BY <2>4, <2>5
<1>5. CASE AbandonFile(w)
  <2>1. /\ WorkerStep(w) /\ file' = [file EXCEPT ![w] = "none"]
        /\ entries' = IF file[w] = "named" THEN entries \ {NameOf(w)} ELSE entries
        /\ wpc[w] \in {"scanning", "merging"}
        /\ wpc' = [wpc EXCEPT ![w] = "failing"] \/ wpc' = [wpc EXCEPT ![w] = "panicked"]
        BY <1>5 DEF AbandonFile, WorkerStep, WorkerFails, WorkerPanics, GoTo
  <2>2. file'[w] = "none" /\ wpc'[w] \in {"failing", "panicked"}
        /\ \A v \in Workers \ {w} : file'[v] = file[v]
        BY <1>1, <2>1 DEF TypeOK, WorkersTypeOK
  <2>3. Hand(w)'
        BY <2>2 DEF Hand
  <2>4. work[w] \in Files
        BY <2>1 DEF IInv, WorkerInv, Busy
  <2>5. /\ \A v \in Workers \ {w} : work[v].chunk # work[w].chunk
        /\ \A f \in Travelling : f.chunk # work[w].chunk
        BY <1>1, <2>4, OneHolder
  <2>6. NameOf(w)[1] = work[w].chunk
        BY DEF NameOf
  <2>7. HandInv'
    <3>1. \A name \in entries :
              name \in entries' \/ \A v \in Workers \ {w} : name[1] # work[v].chunk
          BY <2>1, <2>5, <2>6
    <3>. QED  BY <1>2, <2>1, <2>2, <2>3, <3>1, OthersKeep
  <2>8. TravelKept'
    <3>1. \A f \in Travelling' : f \in Travelling
          BY <2>1, WorkerTravel
    <3>2. \A name \in entries : name \in entries' \/ \A f \in Travelling' : name[1] # f.chunk
          BY <2>1, <2>5, <2>6, <3>1
    <3>. QED  BY <3>1, <3>2, TravelGoesOn
  <2>. QED  BY <2>7, <2>8
<1>6. CASE OtherWorkerStep(w)
  <2>1. UNCHANGED scratchVars /\ WorkerStep(w) /\ wpc[w] \notin {"scanning", "merging"}
        BY <1>6 DEF OtherWorkerStep, WorkerStep, WorkerTop, Claim, BeginScan,
                    CancelSiblings, Recheck, Send
  <2>2. file[w] = "none" /\ entries' = entries /\ file' = file
        BY <2>1 DEF HeldOnlyAtWork, scratchVars
  <2>3. Hand(w)'
        BY <1>1, <1>6, <2>2, OtherKeeps
  <2>4. HandInv'
        BY <1>2, <2>1, <2>2, <2>3, OthersKeep
  <2>5. TravelKept'
        BY <1>2, <2>1, <2>2, TravelGoesOn
  <2>. QED  BY <2>4, <2>5
<1>. QED  BY <1>3, <1>4, <1>5, <1>6 DEF ScratchWorkerStep

-----------------------------------------------------------------------------
(* The invariant, and what follows from it.                                *)

\* Every step keeps what --keep-temp asks for.
LEMMA KeptStep ==
    ASSUME IInv, Ledger, HeldOnlyAtWork, KeptInv, [ScratchNext]_allVars
    PROVE  KeptInv'
<1>. SUFFICES ASSUME keepTemp'
              PROVE  exists' /\ guard' # "removing" /\ HandInv' /\ TravelKept'
     BY DEF KeptInv
<1>1. keepTemp
      BY DEF ScratchNext, ScratchWorkerStep, ScratchMainStep, CreateFile, DetachFile,
             FinishFile, AbandonFile, OtherWorkerStep, DropGuard, RemoveEntry, RemoveDir,
             allVars, scratchVars
<1>2. exists /\ guard # "removing" /\ HandInv /\ TravelKept
      BY <1>1 DEF KeptInv
<1>3. ASSUME NEW w \in Workers, ScratchWorkerStep(w)
      PROVE  exists' /\ guard' # "removing" /\ HandInv' /\ TravelKept'
  <2>1. UNCHANGED <<guard, exists>>
        BY <1>3 DEF ScratchWorkerStep, CreateFile, DetachFile, FinishFile, AbandonFile,
                    OtherWorkerStep, scratchVars
  <2>. QED  BY <1>1, <1>2, <1>3, <2>1, WorkerKeeps
<1>4. ASSUME UNCHANGED <<workerVars, file, entries>>,
             \A f \in Travelling' : \E g \in Travelling : f.chunk = g.chunk
      PROVE  HandInv' /\ TravelKept'
  <2>1. HandInv'
        BY <1>2, <1>4 DEF HandInv, Hand, NameOf, Present, AllPresent, workerVars
  <2>2. TravelKept'
        BY <1>2, <1>4, TravelGoesOn
  <2>. QED  BY <2>1, <2>2
<1>5. UNCHANGED vars => Travelling' = Travelling
      BY DEF vars, mainVars, outVars, chanVars, Travelling
<1>6. CASE DropGuard
      BY <1>1, <1>2, <1>4, <1>5, <1>6 DEF DropGuard, vars
<1>7. CASE RemoveEntry \/ RemoveDir
      BY <1>2, <1>7 DEF RemoveEntry, RemoveDir
<1>8. CASE (MainStep \/ CtrlC) /\ UNCHANGED scratchVars
      BY <1>2, <1>4, <1>8, MainTravel, MainFrame DEF scratchVars
<1>9. CASE (Exited \/ UNCHANGED vars) /\ UNCHANGED scratchVars
      BY <1>2, <1>4, <1>5, <1>9 DEF Exited, scratchVars, vars
<1>. QED  BY <1>3, <1>6, <1>7, <1>8, <1>9 DEF ScratchNext, ScratchMainStep, allVars

\* When the output is complete every name is there.
LEMMA CompleteMeansAll ==
    ASSUME ScratchTypeOK, SuccessIsComplete, TravelKept, exit = "ok"
    PROVE  entries = Names
<1>1. ASSUME NEW c \in ChunkIds, NEW n \in 0 .. NumEncodings PROVE <<c, n>> \in entries
  <2>1. /\ c + 1 \in 1 .. ChunkCount
        /\ written = [i \in 1 .. ChunkCount |-> [chunk |-> i - 1, whole |-> TRUE]]
        BY ChunkCountAssumption DEF ChunkIds, SuccessIsComplete
  <2>2. written[c + 1].chunk = c /\ Len(written) = ChunkCount
        BY <2>1, ChunkCountAssumption DEF ChunkIds
  <2>3. written[c + 1] \in Travelling
        BY <2>1, <2>2 DEF Travelling
  <2>4. AllPresent(c)
        BY <2>2, <2>3 DEF TravelKept
  <2>. QED  BY <2>4 DEF AllPresent
<1>2. ASSUME NEW name \in Names PROVE name \in entries
  <2>1. PICK c \in ChunkIds, n \in 0 .. NumEncodings : name = <<c, n>>
        BY DEF Names
  <2>. QED  BY <1>1, <2>1
<1>. QED  BY <1>2 DEF ScratchTypeOK

\* A run with --keep-temp leaves every file of every chunk that it wrote, and all of them
\* when it succeeds (main.rs:515, tempfile_helper.rs:93): a worker that fails while another
\* one finishes takes only its own unfinished file with it.
THEOREM KeepTempKeeps == ScratchSpec => []KeptWhole
<1>1. ScratchInit => HeldOnlyAtWork /\ NamesAreTransient
      BY DEF ScratchInit, HeldOnlyAtWork, NamesAreTransient, FileStates
<1>2. ScratchInit => KeptInv
  <2>1. ScratchInit => Travelling = {}
        BY DEF ScratchInit, Init, Travelling
  <2>2. ScratchInit => HandInv
        BY DEF ScratchInit, Init, HandInv, Hand
  <2>. QED  BY <2>1, <2>2 DEF ScratchInit, KeptInv, TravelKept
<1>3. IInv /\ Ledger /\ HeldOnlyAtWork /\ NamesAreTransient /\ KeptInv /\ [ScratchNext]_allVars
      => HeldOnlyAtWork' /\ NamesAreTransient' /\ KeptInv'
      BY TransientStep, KeptStep DEF IInv
<1>4. ScratchSpec => [](IInv /\ Ledger)
      BY ScratchImplementsPipeline, Invariance, Accounts, PTL
<1>5. ScratchTypeOK /\ SuccessIsComplete /\ KeptInv => KeptWhole
  <2>. SUFFICES ASSUME ScratchTypeOK, SuccessIsComplete, exists, TravelKept
                PROVE  /\ mpc = "exited" /\ exit = "ok" => entries = Names
                       /\ \A c \in ChunkIds, i \in 1 .. Len(written) :
                              IsWritten(c, i) => {c} \X (0 .. NumEncodings) \subseteq entries
       BY DEF KeptInv, KeptWhole
  <2>1. exit = "ok" => entries = Names
        BY CompleteMeansAll
  <2>2. ASSUME NEW c \in ChunkIds, NEW i \in 1 .. Len(written), IsWritten(c, i)
        PROVE  {c} \X (0 .. NumEncodings) \subseteq entries
        BY <2>2 DEF TravelKept, AllPresent, Travelling, IsWritten
  <2>. QED  BY <2>1, <2>2
<1>. QED  BY <1>1, <1>2, <1>3, <1>4, <1>5, ScratchTypeCorrect, ScratchSuccess, PTL DEF ScratchSpec
=============================================================================
