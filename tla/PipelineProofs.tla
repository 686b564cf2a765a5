---------------------------- MODULE PipelineProofs ----------------------------
(***************************************************************************)
(* Proofs about Pipeline, for any number of workers, chunks and encodings. *)
(* First what the threads know of each other, and that the pipeline        *)
(* implements OrderedOutput.  Then the chunks are counted: every claimed   *)
(* chunk has exactly one copy, in a worker's hand, in the channel,         *)
(* pending, taken or written, or none, and then somebody has a reason to   *)
(* stop the run.  From that follow NoChunkLost and NoChunkTwice, that the  *)
(* right party is blamed, and that the threads never all wait for each     *)
(* other.                                                                  *)
(***************************************************************************)
EXTENDS Pipeline, TLAPS, SequenceTheorems, FiniteSetTheorems

Busy == {"encodings", "scanning", "merging", "recheck", "send"}

\* What a worker holds at each place of worker_loop; a file is truncated only
\* after the flag was set, and never when it is about to be sent.
WorkerInv ==
    \A w \in Workers :
        /\ work[w] \in Files <=> wpc[w] \in Busy
        /\ wpc[w] \in {"encodings", "scanning"} => scanned[w] < NumEncodings
        /\ wpc[w] \in Busy => work[w].whole \/ cancelled
        /\ wpc[w] = "send" => work[w].whole

\* Everything between the workers and the output is whole.
TravelInv ==
    /\ \A i \in 1 .. Len(chan) : chan[i].whole
    /\ \A f \in pendingFiles : f.whole
    /\ mpc = "write" => /\ taken \in Files
                        /\ taken.whole
                        /\ taken.chunk = nextOut
    /\ mpc # "write" => taken = NoFile

\* As long as the output stage saw no error, the output is the first nextOut chunks.
OutputInv ==
    /\ outputError = "none" =>
           /\ Len(written) = nextOut
           /\ \A i \in 1 .. nextOut : written[i] = [chunk |-> i - 1, whole |-> TRUE]
    /\ outputError # "none" => cancelled
    /\ mpc \in {"recv", "received", "write"} => nextOut < ChunkCount
    /\ mpc = "received" /\ ~cancelled => HasNext
    /\ mpc = "flush" /\ ~cancelled => nextOut = ChunkCount
    /\ tailFlushed => nextOut = ChunkCount /\ outputError = "none"
    /\ mpc \in {"open", "top", "recv", "received", "write", "flush"} => ~tailFlushed
    /\ mpc \in {"open", "top", "recv", "write"} => outputError = "none"

\* How run() ends.
EndInv ==
    /\ mpc \in {"drop", "join", "decide"} /\ ~cancelled => tailFlushed
    /\ \A w \in 1 .. joined : wpc[w] = "ok"
    /\ mpc \in {"decide", "finish"} => joined = Jobs
    /\ mpc = "finish" => tailFlushed
    /\ exit # "running" <=> mpc \in {"returned", "exited"}
    /\ exit = "ok" => tailFlushed /\ joined = Jobs

IInv == TypeOK /\ WorkerInv /\ TravelInv /\ OutputInv /\ EndInv

-----------------------------------------------------------------------------
(* What a file is.                                                         *)

\* NoFile is not the file of a chunk.
LEMMA NoFileIsNone == NoFile \notin Files
BY ChunkCountAssumption DEF NoFile, Files, ChunkIds

\* Truncating a file keeps its chunk.
LEMMA CutFile ==
    ASSUME NEW f \in Files
    PROVE  /\ [f EXCEPT !.whole = FALSE] \in Files
           /\ [f EXCEPT !.whole = FALSE].chunk = f.chunk
           /\ [f EXCEPT !.whole = FALSE].whole = FALSE
BY DEF Files

\* A chunk that is claimed below the last has a file, whole so far.
LEMMA ClaimedFile ==
    ASSUME nextChunk \in Nat, nextChunk < ChunkCount
    PROVE  /\ [chunk |-> nextChunk, whole |-> TRUE] \in Files
           /\ [chunk |-> nextChunk, whole |-> TRUE].whole
BY ChunkCountAssumption DEF Files, ChunkIds

-----------------------------------------------------------------------------
(* Who changes what.                                                       *)

\* Workers leave the main thread's state alone.
LEMMA WorkerFrame ==
    ASSUME NEW w \in Workers, WorkerStep(w)
    PROVE  UNCHANGED <<mainVars, rxOpen, ctrlC>>
BY DEF WorkerStep, WorkerTop, Claim, BeginScan, EndScan, EndMerge, WorkerFails,
       CancelSiblings, WorkerPanics, Recheck, Send, chanVars

\* The main thread and the Ctrl+C handler leave the workers' state alone.
LEMMA MainFrame ==
    ASSUME MainStep \/ CtrlC
    PROVE  UNCHANGED <<workerVars, nextChunk>>
BY DEF MainStep, OpenOutput, OpenFails, OutputTop, Receive, ReceiveTimeout,
       ReceiveDisconnected, ReceivedNext, Take, WriteChunk, WriteStops,
       FlushPending, FlushPendingFails, DropReceiver, JoinWorker, JoinedAll,
       Decide, Finish, ProcessExit, CtrlC

\* Nobody clears the flag.
LEMMA CancelledStays ==
    ASSUME [Next]_vars, cancelled
    PROVE  cancelled'
<1>1. ASSUME NEW w \in Workers, WorkerStep(w) PROVE cancelled'
    BY <1>1 DEF WorkerStep, WorkerTop, Claim, BeginScan, EndScan, EndMerge, WorkerFails,
                CancelSiblings, WorkerPanics, Recheck, Send
<1>2. CASE MainStep
    BY <1>2 DEF MainStep, OpenOutput, OpenFails, OutputTop, Receive, ReceiveTimeout,
                ReceiveDisconnected, ReceivedNext, Take, WriteChunk, WriteStops,
                FlushPending, FlushPendingFails, DropReceiver, JoinWorker, JoinedAll,
                Decide, Finish, ProcessExit
<1> QED
    BY <1>1, <1>2 DEF Next, CtrlC, Exited, vars

-----------------------------------------------------------------------------
(* The workers.                                                            *)

\* Every step of worker_loop moves one worker to a place pc with a file f and a
\* count n; the side conditions are what WorkerInv asks of the new place.
LEMMA WorkerMove ==
    ASSUME WorkersTypeOK, WorkerInv,
           NEW w \in Workers, NEW pc \in WorkerPC,
           NEW f \in Files \cup {NoFile}, NEW n \in 0 .. NumEncodings,
           wpc' = [wpc EXCEPT ![w] = pc],
           work' = [work EXCEPT ![w] = f],
           scanned' = [scanned EXCEPT ![w] = n],
           cancelled => cancelled',
           f \in Files <=> pc \in Busy,
           pc \in {"encodings", "scanning"} => n < NumEncodings,
           pc \in Busy => f.whole \/ cancelled',
           pc = "send" => f.whole
    PROVE  WorkersTypeOK' /\ WorkerInv'
<1>1. WorkersTypeOK'
    BY DEF WorkersTypeOK
<1>2. ASSUME NEW v \in Workers
      PROVE  /\ work'[v] \in Files <=> wpc'[v] \in Busy
             /\ wpc'[v] \in {"encodings", "scanning"} => scanned'[v] < NumEncodings
             /\ wpc'[v] \in Busy => work'[v].whole \/ cancelled'
             /\ wpc'[v] = "send" => work'[v].whole
    <2>1. CASE v = w
        BY <2>1 DEF WorkersTypeOK
    <2>2. CASE v # w
        <3>1. wpc'[v] = wpc[v] /\ work'[v] = work[v] /\ scanned'[v] = scanned[v]
            BY <2>2 DEF WorkersTypeOK
        <3> QED
            BY <3>1 DEF WorkerInv
    <2> QED
        BY <2>1, <2>2
<1> QED
    BY <1>1, <1>2 DEF WorkerInv

\* A worker that ends, for whatever reason, holds no file any more.
LEMMA WorkerEnds ==
    ASSUME WorkersTypeOK, WorkerInv, NEW w \in Workers, NEW pc \in Unwound,
           wpc' = [wpc EXCEPT ![w] = pc], work' = [work EXCEPT ![w] = NoFile],
           scanned' = scanned, cancelled => cancelled'
    PROVE  WorkersTypeOK' /\ WorkerInv'
<1>1. pc \in WorkerPC /\ pc \notin Busy
    BY DEF WorkerPC, Unwound, Busy
<1>2. scanned' = [scanned EXCEPT ![w] = scanned[w]] /\ scanned[w] \in 0 .. NumEncodings
    BY DEF WorkersTypeOK
<1> QED
    BY <1>1, <1>2, NoFileIsNone, WorkerMove DEF Busy

\* Every action of a worker keeps what is said of it.
LEMMA WorkerActions ==
    ASSUME WorkersTypeOK, SharedTypeOK, WorkerInv, NEW w \in Workers, WorkerStep(w)
    PROVE  WorkersTypeOK' /\ WorkerInv'
<1> DEFINE Keeps == scanned' = [scanned EXCEPT ![w] = scanned[w]]
<1>a. scanned[w] \in 0 .. NumEncodings /\ work[w] \in Files \cup {NoFile}
    BY DEF WorkersTypeOK
<1>b. scanned' = scanned => Keeps
    BY DEF WorkersTypeOK
<1>c. work' = work => work' = [work EXCEPT ![w] = work[w]]
    BY DEF WorkersTypeOK
<1>d. /\ work[w] \in Files <=> wpc[w] \in Busy
      /\ wpc[w] \in {"encodings", "scanning"} => scanned[w] < NumEncodings
      /\ wpc[w] \in Busy => work[w].whole \/ cancelled
    BY DEF WorkerInv
<1>e. cancelled \in BOOLEAN
    BY DEF SharedTypeOK
<1> DEFINE cut == [work[w] EXCEPT !.whole = FALSE]
<1>f. wpc[w] \in Busy => cut \in Files /\ cut.whole = FALSE
    BY <1>d, CutFile
<1>1. CASE WorkerTop(w)
    <2>1. CASE cancelled
        BY <1>1, <2>1, WorkerEnds DEF WorkerTop, FinishOk, GoTo, Unwound
    <2>2. CASE ~cancelled
        <3>1. /\ wpc' = [wpc EXCEPT ![w] = "claim"]
              /\ work' = work /\ scanned' = scanned /\ cancelled' = cancelled
              /\ wpc[w] = "top"
            BY <1>1, <2>2 DEF WorkerTop, GoTo
        <3> QED
            BY <3>1, <1>a, <1>b, <1>c, <1>d, WorkerMove DEF WorkerPC, Busy
    <2> QED
        BY <2>1, <2>2
<1>2. CASE Claim(w)
    <2>1. CASE nextChunk >= ChunkCount
        BY <1>2, <2>1, WorkerEnds DEF Claim, FinishOk, GoTo, Unwound
    <2>2. CASE ~(nextChunk >= ChunkCount)
        <3> DEFINE f == [chunk |-> nextChunk, whole |-> TRUE]
        <3>1. f \in Files /\ f.whole
            BY <2>2, ClaimedFile, ChunkCountAssumption DEF SharedTypeOK
        <3>2. /\ wpc' = [wpc EXCEPT ![w] = "encodings"]
              /\ work' = [work EXCEPT ![w] = f]
              /\ scanned' = [scanned EXCEPT ![w] = 0]
              /\ cancelled' = cancelled
            BY <1>2, <2>2 DEF Claim, GoTo
        <3>3. 0 \in 0 .. NumEncodings /\ 0 < NumEncodings
            BY NumEncodingsAssumption
        <3> HIDE DEF f
        <3> QED
            BY <3>1, <3>2, <3>3, WorkerMove DEF WorkerPC, Busy
    <2> QED
        BY <2>1, <2>2
<1>3. CASE BeginScan(w)
    <2>1. wpc[w] = "encodings" /\ wpc[w] \in Busy /\ scanned' = scanned /\ cancelled' = cancelled
        BY <1>3 DEF BeginScan, Busy
    <2>2. CASE cancelled
        <3>1. wpc' = [wpc EXCEPT ![w] = "merging"] /\ work' = [work EXCEPT ![w] = cut]
            BY <1>3, <2>2 DEF BeginScan, GoTo
        <3> HIDE DEF cut
        <3> QED
            BY <2>1, <2>2, <3>1, <1>a, <1>b, <1>f, WorkerMove DEF WorkerPC, Busy
    <2>3. CASE ~cancelled
        <3>1. wpc' = [wpc EXCEPT ![w] = "scanning"] /\ work' = work
            BY <1>3, <2>3 DEF BeginScan, GoTo
        <3> QED
            BY <2>1, <2>3, <3>1, <1>a, <1>b, <1>c, <1>d, WorkerMove DEF WorkerPC, Busy
    <2> QED
        BY <2>2, <2>3
<1>4. CASE EndScan(w)
    <2> DEFINE pc == IF scanned[w] + 1 = NumEncodings THEN "merging" ELSE "encodings"
    <2>1. /\ wpc[w] \in Busy /\ wpc[w] = "scanning" /\ cancelled' = cancelled
          /\ wpc' = [wpc EXCEPT ![w] = pc]
          /\ scanned' = [scanned EXCEPT ![w] = scanned[w] + 1]
        BY <1>4 DEF EndScan, GoTo, Busy
    <2>2. /\ scanned[w] + 1 \in 0 .. NumEncodings
          /\ pc = "encodings" => scanned[w] + 1 < NumEncodings
          /\ pc \in WorkerPC /\ pc \in Busy /\ pc \notin {"send", "scanning"}
        BY <2>1, <1>a, <1>d, NumEncodingsAssumption DEF WorkerPC, Busy
    <2>3. work' = work \/ (cancelled /\ work' = [work EXCEPT ![w] = cut])
        BY <1>4 DEF EndScan, MayTruncate
    <2> HIDE DEF pc, cut
    <2>4. CASE work' = work
        BY <2>1, <2>2, <2>4, <1>a, <1>c, <1>d, WorkerMove
    <2>5. CASE cancelled /\ work' = [work EXCEPT ![w] = cut]
        BY <2>1, <2>2, <2>5, <1>f, WorkerMove
    <2> QED
        BY <2>3, <2>4, <2>5
<1>5. CASE EndMerge(w)
    <2>1. /\ wpc[w] \in Busy /\ cancelled' = cancelled /\ scanned' = scanned
          /\ wpc' = [wpc EXCEPT ![w] = "recheck"]
        BY <1>5 DEF EndMerge, GoTo, Busy
    <2>2. work' = work \/ (cancelled /\ work' = [work EXCEPT ![w] = cut])
        BY <1>5 DEF EndMerge, MayTruncate
    <2> HIDE DEF cut
    <2>3. CASE work' = work
        BY <2>1, <2>3, <1>a, <1>b, <1>c, <1>d, WorkerMove DEF WorkerPC, Busy
    <2>4. CASE cancelled /\ work' = [work EXCEPT ![w] = cut]
        BY <2>1, <2>4, <1>a, <1>b, <1>f, WorkerMove DEF WorkerPC, Busy
    <2> QED
        BY <2>2, <2>3, <2>4
<1>6. CASE WorkerFails(w)
    BY <1>6, WorkerEnds DEF WorkerFails, GoTo, Unwound
<1>7. CASE CancelSiblings(w)
    <2>1. work' = work /\ wpc[w] = "failing" /\ work[w] = NoFile
        BY <1>7, <1>a, <1>d DEF CancelSiblings, Busy
    <2>2. work' = [work EXCEPT ![w] = NoFile]
        BY <2>1, <1>c
    <2> QED
        BY <1>7, <2>2, WorkerEnds DEF CancelSiblings, GoTo, Unwound
<1>8. CASE WorkerPanics(w)
    BY <1>8, WorkerEnds DEF WorkerPanics, GoTo, Unwound
<1>9. CASE Recheck(w)
    <2>1. CASE cancelled
        BY <1>9, <2>1, WorkerEnds DEF Recheck, FinishOk, GoTo, Unwound
    <2>2. CASE ~cancelled
        <3>1. /\ wpc' = [wpc EXCEPT ![w] = "send"] /\ wpc[w] \in Busy
              /\ work' = work /\ scanned' = scanned /\ cancelled' = cancelled
            BY <1>9, <2>2 DEF Recheck, GoTo, Busy
        <3> QED
            BY <2>2, <3>1, <1>a, <1>b, <1>c, <1>d, WorkerMove DEF WorkerPC, Busy
    <2> QED
        BY <2>1, <2>2
<1>10. CASE Send(w)
    <2>1. CASE wpc' = [wpc EXCEPT ![w] = "ok"]
        BY <1>10, <2>1, WorkerEnds DEF Send, FinishOk, GoTo, Unwound
    <2>2. CASE /\ wpc' = [wpc EXCEPT ![w] = "top"]
               /\ work' = [work EXCEPT ![w] = NoFile]
        <3>1. scanned' = scanned /\ cancelled' = cancelled
            BY <1>10 DEF Send
        <3> QED
            BY <2>2, <3>1, <1>a, <1>b, NoFileIsNone, WorkerMove DEF WorkerPC, Busy
    <2> QED
        BY <1>10, <2>1, <2>2 DEF Send, FinishOk, GoTo
<1> QED
    BY <1>1, <1>2, <1>3, <1>4, <1>5, <1>6, <1>7, <1>8, <1>9, <1>10 DEF WorkerStep

\* What workers do to the shared state: only a whole file is put in the channel.
LEMMA WorkerSharing ==
    ASSUME WorkersTypeOK, SharedTypeOK, WorkerInv, TravelInv,
           NEW w \in Workers, WorkerStep(w)
    PROVE  SharedTypeOK' /\ TravelInv'
<1>1. UNCHANGED <<pendingFiles, mpc, taken, nextOut, rxOpen, ctrlC>>
    BY WorkerFrame DEF mainVars, outVars
<1>a. /\ nextChunk' = nextChunk \/ nextChunk' = nextChunk + 1
      /\ cancelled' = cancelled \/ cancelled' = TRUE
    BY DEF WorkerStep, WorkerTop, Claim, BeginScan, EndScan, EndMerge,
           WorkerFails, CancelSiblings, WorkerPanics, Recheck, Send
<1>2. nextChunk' \in Nat /\ cancelled' \in BOOLEAN
    <2>1. nextChunk' \in Nat
        BY <1>a DEF SharedTypeOK
    <2>2. cancelled' \in BOOLEAN
        BY <1>a, Zenon DEF SharedTypeOK
    <2> QED
        BY <2>1, <2>2
<1>3. \/ chan' = chan
      \/ wpc[w] = "send" /\ chan' = Append(chan, work[w])
    BY DEF WorkerStep, WorkerTop, Claim, BeginScan, EndScan, EndMerge,
           WorkerFails, CancelSiblings, WorkerPanics, Recheck, Send, chanVars
<1>4. CASE chan' = chan
    BY <1>1, <1>2, <1>4 DEF SharedTypeOK, TravelInv
<1>5. CASE wpc[w] = "send" /\ chan' = Append(chan, work[w])
    <2>1. work[w] \in Files /\ work[w].whole
        BY <1>5 DEF WorkerInv, Busy
    <2>2. /\ chan' \in Seq(Files)
          /\ Len(chan') = Len(chan) + 1
          /\ \A i \in 1 .. Len(chan) : chan'[i] = chan[i]
          /\ chan'[Len(chan) + 1] = work[w]
        BY <1>5, <2>1 DEF SharedTypeOK
    <2>3. \A i \in 1 .. Len(chan') : chan'[i].whole
        BY <2>1, <2>2 DEF SharedTypeOK, TravelInv
    <2> QED
        BY <1>1, <1>2, <2>2, <2>3 DEF SharedTypeOK, TravelInv
<1> QED
    BY <1>3, <1>4, <1>5

-----------------------------------------------------------------------------
(* The main thread.                                                        *)

MainInv == /\ SharedTypeOK /\ OutputTypeOK /\ EndTypeOK
           /\ TravelInv /\ OutputInv /\ EndInv

\* The steps of the main thread that only move it on.
LEMMA MainMoves ==
    ASSUME MainInv, UNCHANGED <<workerVars, nextChunk, cancelled, chanVars, outVars, ctrlC>>,
           OpenOutput \/ OutputTop \/ ReceiveTimeout \/ ReceivedNext \/ JoinWorker
           \/ JoinedAll \/ Decide \/ Finish \/ ProcessExit
    PROVE  MainInv'
<1> USE DEF MainInv
<1>1. SharedTypeOK' /\ OutputTypeOK'
    BY DEF SharedTypeOK, OutputTypeOK, chanVars, outVars
<1>2. CASE OpenOutput
    BY <1>1, <1>2 DEF OpenOutput, EndTypeOK, TravelInv, OutputInv, EndInv, HasNext,
                      MainPC, chanVars, outVars, endVars, workerVars
<1>3. CASE OutputTop
    <2>1. mpc' = "recv" \/ mpc' = "flush"
        BY <1>3 DEF OutputTop
    <2>2. mpc' = "recv" => nextOut < ChunkCount
        BY <1>3 DEF OutputTop
    <2>3. mpc' = "flush" /\ ~cancelled => nextOut = ChunkCount
        BY <1>3, ChunkCountAssumption DEF OutputTop, OutputTypeOK
    <2>4. mpc = "top" /\ UNCHANGED <<joined, exit>>
        BY <1>3 DEF OutputTop, endVars
    <2> QED
        BY <1>1, <2>1, <2>2, <2>3, <2>4
           DEF EndTypeOK, TravelInv, OutputInv, EndInv, HasNext, MainPC,
               chanVars, outVars, workerVars
<1>4. CASE ReceiveTimeout
    BY <1>1, <1>4 DEF ReceiveTimeout, EndTypeOK, TravelInv, OutputInv, EndInv, HasNext,
                      MainPC, chanVars, outVars, endVars, workerVars
<1>5. CASE ReceivedNext
    BY <1>1, <1>5 DEF ReceivedNext, EndTypeOK, TravelInv, OutputInv, EndInv, HasNext,
                      MainPC, chanVars, outVars, endVars, workerVars
<1>6. CASE JoinWorker
    <2>1. /\ mpc = "join" /\ joined \in 0 .. Jobs /\ joined < Jobs
          /\ \/ joined' = joined + 1 /\ wpc[joined + 1] = "ok" /\ mpc' = mpc /\ exit' = exit
             \/ /\ joined' = joined /\ mpc' = "returned"
                /\ exit' \in {"worker failed", "worker panicked"}
        BY <1>6 DEF JoinWorker, Return, EndTypeOK, endVars
    <2>a. joined' = joined \/ (joined' = joined + 1 /\ wpc[joined + 1] = "ok")
        BY <2>1
    <2>b. joined \in 0 .. Jobs /\ joined < Jobs
        BY <2>1
    <2>2. joined' \in 0 .. Jobs
        <3> HIDE DEF MainInv
        <3>1. CASE joined' = joined
            BY <2>b, <3>1
        <3>2. CASE joined' = joined + 1
            BY <2>b, <3>2, JobsAssumption
        <3> QED
            BY <2>a, <3>1, <3>2
    <2>3. \A w \in 1 .. joined' : wpc[w] = "ok"
        <3> HIDE DEF MainInv
        <3>1. \A w \in 1 .. joined : wpc[w] = "ok"
            BY DEF MainInv, EndInv
        <3>2. CASE joined' = joined
            BY <3>1, <3>2
        <3>3. CASE joined' = joined + 1 /\ wpc[joined + 1] = "ok"
            BY <2>b, <3>1, <3>3
        <3> QED
            BY <2>a, <3>2, <3>3
    <2>4. EndTypeOK'
        BY <2>1, <2>2 DEF EndTypeOK, MainPC, ExitCodes
    <2>5. EndInv'
        BY <2>1, <2>3 DEF EndInv, outVars, workerVars
    <2> QED
        BY <1>1, <2>1, <2>4, <2>5 DEF TravelInv, OutputInv, HasNext, chanVars, outVars
<1>7. CASE JoinedAll
    BY <1>1, <1>7 DEF JoinedAll, EndTypeOK, TravelInv, OutputInv, EndInv, HasNext,
                      MainPC, chanVars, outVars, endVars, workerVars
<1>8. CASE Decide
    <2>1. /\ mpc = "decide" /\ UNCHANGED joined
          /\ \/ mpc' = "returned" /\ exit' \in OutputErrors \ {"none"}
             \/ mpc' = "returned" /\ exit' = "cancelled"
             \/ mpc' = "finish" /\ exit' = exit /\ ~cancelled
        BY <1>8 DEF Decide, Return, OutputTypeOK
    <2>2. EndTypeOK'
        BY <2>1 DEF EndTypeOK, MainPC, ExitCodes, OutputErrors
    <2>3. EndInv'
        BY <2>1 DEF EndInv, OutputErrors, outVars, workerVars
    <2> QED
        BY <1>1, <2>1, <2>2, <2>3 DEF TravelInv, OutputInv, HasNext, chanVars, outVars
<1>9. CASE Finish
    <2>1. /\ mpc = "finish" /\ UNCHANGED joined /\ mpc' = "returned"
          /\ exit' \in {"ok", "flush failed"}
        BY <1>9 DEF Finish, Return
    <2>2. EndTypeOK'
        BY <2>1 DEF EndTypeOK, MainPC, ExitCodes
    <2>3. EndInv'
        BY <2>1 DEF EndInv, outVars, workerVars
    <2> QED
        BY <1>1, <2>1, <2>2, <2>3 DEF TravelInv, OutputInv, HasNext, chanVars, outVars
<1>10. CASE ProcessExit
    BY <1>1, <1>10 DEF ProcessExit, EndTypeOK, TravelInv, OutputInv, EndInv, HasNext,
                       MainPC, chanVars, outVars, endVars, workerVars
<1> QED
    BY <1>2, <1>3, <1>4, <1>5, <1>6, <1>7, <1>8, <1>9, <1>10

\* An entry of the output log is the file that was taken, whole or torn.
LEMMA LogEntry ==
    ASSUME NEW log \in Seq(Files), NEW f \in Files
    PROVE  /\ Append(log, f) \in Seq(Files)
           /\ Len(Append(log, f)) = Len(log) + 1
           /\ \A i \in 1 .. Len(log) : Append(log, f)[i] = log[i]
           /\ Append(log, f)[Len(log) + 1] = f
OBVIOUS

\* Receiving: the head of the channel is a whole file and becomes a pending one.
LEMMA ReceiveStep ==
    ASSUME MainInv, Receive
    PROVE  MainInv'
<1>1. /\ Head(chan) \in Files
      /\ Tail(chan) \in Seq(Files)
      /\ Len(Tail(chan)) = Len(chan) - 1
      /\ \A i \in 1 .. Len(Tail(chan)) : Tail(chan)[i] = chan[i + 1]
      /\ Head(chan) = chan[1]
      /\ Len(chan) \in Nat /\ Len(chan) > 0
    BY DEF MainInv, SharedTypeOK, Receive
<1>2. /\ chan' = Tail(chan) /\ pendingFiles' = pendingFiles \cup {Head(chan)}
      /\ mpc = "recv"
      /\ UNCHANGED <<workerVars, nextChunk, cancelled, rxOpen, mpc, taken, nextOut,
                     written, tailFlushed, outputError, joined, exit, ctrlC>>
    BY DEF Receive, endVars
<1>3. \A i \in 1 .. Len(Tail(chan)) : i + 1 \in 1 .. Len(chan)
    BY <1>1
<1>4. /\ \A i \in 1 .. Len(chan') : chan'[i].whole
      /\ \A f \in pendingFiles' : f.whole
    BY <1>1, <1>2, <1>3 DEF MainInv, TravelInv
<1>5. SharedTypeOK' /\ OutputTypeOK' /\ EndTypeOK'
    BY <1>1, <1>2 DEF MainInv, SharedTypeOK, OutputTypeOK, EndTypeOK
<1>6. TravelInv'
    BY <1>2, <1>4 DEF MainInv, TravelInv
<1>7. OutputInv' /\ EndInv'
    BY <1>2 DEF MainInv, OutputInv, EndInv, HasNext, workerVars
<1> QED
    BY <1>5, <1>6, <1>7 DEF MainInv

\* The wanted file is taken.
LEMMA TakeStep ==
    ASSUME MainInv, Take
    PROVE  MainInv'
<1>1. mpc = "received"
      /\ UNCHANGED <<workerVars, nextChunk, cancelled, chan, rxOpen, nextOut, written,
                     tailFlushed, outputError, joined, exit, ctrlC>>
    BY DEF Take, chanVars, endVars
<1>2. CASE cancelled
    <2>1. mpc' = "flush" /\ UNCHANGED <<pendingFiles, taken>>
        BY <1>2 DEF Take
    <2> QED
        BY <1>1, <1>2, <2>1 DEF MainInv, SharedTypeOK, OutputTypeOK, EndTypeOK, MainPC,
                                TravelInv, OutputInv, EndInv, workerVars
<1>3. CASE ~cancelled
    <2>1. PICK f \in pendingFiles :
              /\ f.chunk = nextOut
              /\ mpc' = "write"
              /\ pendingFiles' = pendingFiles \ {f}
              /\ taken' = f
        BY <1>3 DEF Take
    <2>2. f \in Files /\ f.whole /\ nextOut < ChunkCount /\ outputError = "none"
        BY <1>1, <1>3 DEF MainInv, OutputTypeOK, TravelInv, OutputInv
    <2> QED
        BY <1>1, <2>1, <2>2 DEF MainInv, SharedTypeOK, OutputTypeOK, EndTypeOK, MainPC,
                                TravelInv, OutputInv, EndInv, workerVars
<1> QED
    BY <1>2, <1>3

\* A chunk is written whole.
LEMMA WriteChunkStep ==
    ASSUME MainInv, WriteChunk
    PROVE  MainInv'
<1>1. /\ mpc = "write" /\ mpc' = "top" /\ taken' = NoFile
      /\ nextOut' = nextOut + 1 /\ written' = Append(written, taken)
      /\ UNCHANGED <<workerVars, nextChunk, cancelled, chan, rxOpen, pendingFiles,
                     tailFlushed, outputError, joined, exit, ctrlC>>
    BY DEF WriteChunk, chanVars, endVars
<1>2. /\ taken \in Files /\ taken = [chunk |-> nextOut, whole |-> TRUE]
      /\ nextOut < ChunkCount /\ outputError = "none" /\ nextOut \in 0 .. ChunkCount
      /\ Len(written) = nextOut /\ written \in Seq(Files)
      /\ \A i \in 1 .. nextOut : written[i] = [chunk |-> i - 1, whole |-> TRUE]
    BY <1>1 DEF MainInv, TravelInv, OutputInv, OutputTypeOK, Files
<1>3. /\ written' \in Seq(Files)
      /\ Len(written') = nextOut + 1
      /\ \A i \in 1 .. nextOut : written'[i] = written[i]
      /\ written'[nextOut + 1] = taken
    BY <1>1, <1>2, LogEntry
<1>4. nextOut' \in 0 .. ChunkCount
    BY <1>1, <1>2, ChunkCountAssumption
<1>5. \A i \in 1 .. nextOut' : written'[i] = [chunk |-> i - 1, whole |-> TRUE]
    <2> SUFFICES ASSUME NEW i \in 1 .. nextOut + 1
                 PROVE  written'[i] = [chunk |-> i - 1, whole |-> TRUE]
        BY <1>1
    <2>1. CASE i \in 1 .. nextOut
        BY <1>2, <1>3, <2>1
    <2>2. CASE i = nextOut + 1
        <3>1. i - 1 = nextOut
            BY <1>2, <2>2
        <3> QED
            BY <1>2, <1>3, <2>2, <3>1
    <2> QED
        BY <1>2, <2>1, <2>2
<1>6. SharedTypeOK' /\ OutputTypeOK' /\ EndTypeOK'
    BY <1>1, <1>3, <1>4 DEF MainInv, SharedTypeOK, OutputTypeOK, EndTypeOK, MainPC
<1>7. ~tailFlushed
    BY <1>1 DEF MainInv, OutputInv
<1>8. OutputInv'
    BY <1>1, <1>2, <1>3, <1>5, <1>7 DEF OutputInv
<1> QED
    BY <1>1, <1>6, <1>8 DEF MainInv, TravelInv, EndInv, workerVars

\* Or its writing breaks off.
LEMMA WriteStopsStep ==
    ASSUME MainInv, NEW error \in {"interrupted", "io"}, WriteStops(error)
    PROVE  MainInv'
<1>1. /\ mpc = "write" /\ mpc' = "flush" /\ taken' = NoFile /\ outputError' = error
      /\ cancelled' = TRUE /\ written' = Append(written, [taken EXCEPT !.whole = FALSE])
      /\ UNCHANGED <<workerVars, nextChunk, chan, rxOpen, pendingFiles, nextOut,
                     tailFlushed, joined, exit, ctrlC>>
    BY DEF WriteStops, chanVars, endVars
<1>2. [taken EXCEPT !.whole = FALSE] \in Files /\ written \in Seq(Files)
    BY <1>1, CutFile DEF MainInv, TravelInv, OutputTypeOK
<1>3. written' \in Seq(Files)
    BY <1>1, <1>2, LogEntry
<1>4. ~tailFlushed
    BY <1>1 DEF MainInv, OutputInv
<1>5. OutputTypeOK'
    BY <1>1, <1>3 DEF MainInv, OutputTypeOK, OutputErrors
<1>6. OutputInv'
    BY <1>1, <1>4 DEF OutputInv
<1> QED
    BY <1>1, <1>5, <1>6 DEF MainInv, SharedTypeOK, EndTypeOK, MainPC, TravelInv, EndInv,
                            workerVars

\* The steps that set the flag, flush, or drop the Receiver.
LEMMA MainStops ==
    ASSUME MainInv,
           OpenFails \/ ReceiveDisconnected \/ FlushPending \/ FlushPendingFails
           \/ DropReceiver \/ CtrlC
    PROVE  MainInv'
<1> USE DEF MainInv
<1>1. CASE OpenFails
    <2>1. /\ mpc = "open" /\ mpc' = "returned" /\ exit' = "open failed" /\ rxOpen' = FALSE
          /\ UNCHANGED <<wpc, nextChunk, cancelled, chan, pendingFiles, taken, nextOut,
                         written, tailFlushed, outputError, joined, ctrlC>>
        BY <1>1 DEF OpenFails, Return, outVars, workerVars
    <2>2. SharedTypeOK' /\ OutputTypeOK' /\ EndTypeOK'
        BY <2>1 DEF SharedTypeOK, OutputTypeOK, EndTypeOK, MainPC, ExitCodes
    <2> QED
        BY <2>1, <2>2 DEF TravelInv, OutputInv, EndInv
<1>2. CASE ReceiveDisconnected
    <2>1. /\ mpc = "recv" /\ mpc' = "received" /\ outputError' = "channel closed"
          /\ cancelled' = TRUE
          /\ UNCHANGED <<wpc, nextChunk, chan, rxOpen, pendingFiles, taken, nextOut,
                         written, tailFlushed, joined, exit, ctrlC>>
        BY <1>2 DEF ReceiveDisconnected, chanVars, endVars, workerVars
    <2>2. SharedTypeOK' /\ OutputTypeOK' /\ EndTypeOK'
        BY <2>1 DEF SharedTypeOK, OutputTypeOK, OutputErrors, EndTypeOK, MainPC
    <2>3. ~tailFlushed
        BY <2>1 DEF OutputInv
    <2> QED
        BY <2>1, <2>2, <2>3 DEF TravelInv, OutputInv, EndInv
<1>3. CASE FlushPending
    <2>1. /\ mpc = "flush" /\ mpc' = "drop" /\ tailFlushed' = ~cancelled
          /\ UNCHANGED <<wpc, nextChunk, cancelled, chan, rxOpen, pendingFiles, taken,
                         nextOut, written, outputError, joined, exit, ctrlC>>
        BY <1>3 DEF FlushPending, chanVars, endVars, workerVars
    <2>2. SharedTypeOK' /\ OutputTypeOK' /\ EndTypeOK'
        BY <2>1 DEF SharedTypeOK, OutputTypeOK, EndTypeOK, MainPC
    <2>3. OutputInv' /\ EndInv'
        BY <2>1 DEF OutputInv, EndInv
    <2> QED
        BY <2>1, <2>2, <2>3 DEF TravelInv
<1>4. CASE FlushPendingFails
    <2>1. /\ mpc = "flush" /\ mpc' = "drop" /\ outputError' = "io" /\ cancelled' = TRUE
          /\ UNCHANGED <<wpc, nextChunk, chan, rxOpen, pendingFiles, taken, nextOut,
                         written, tailFlushed, joined, exit, ctrlC>>
        BY <1>4 DEF FlushPendingFails, chanVars, endVars, workerVars
    <2>2. SharedTypeOK' /\ OutputTypeOK' /\ EndTypeOK'
        BY <2>1 DEF SharedTypeOK, OutputTypeOK, OutputErrors, EndTypeOK, MainPC
    <2>3. ~tailFlushed
        BY <2>1 DEF OutputInv
    <2> QED
        BY <2>1, <2>2, <2>3 DEF TravelInv, OutputInv, EndInv
<1>5. CASE DropReceiver
    BY <1>5 DEF DropReceiver, SharedTypeOK, OutputTypeOK, EndTypeOK, MainPC,
                TravelInv, OutputInv, EndInv, HasNext, outVars, endVars, workerVars
<1>6. CASE CtrlC
    BY <1>6 DEF CtrlC, SharedTypeOK, OutputTypeOK, EndTypeOK, TravelInv, OutputInv, EndInv,
                HasNext, chanVars, mainVars, outVars, endVars, workerVars
<1> QED
    BY <1>1, <1>2, <1>3, <1>4, <1>5, <1>6

-----------------------------------------------------------------------------
(* The invariant and what follows from it.                                 *)

\* A worker that ended takes no further step.
LEMMA EndedStays ==
    ASSUME WorkersTypeOK, NEW w \in Workers, WorkerStep(w),
           NEW v \in Workers, wpc[v] = "ok"
    PROVE  wpc'[v] = "ok"
<1>1. CASE WorkerTop(w)
    BY <1>1 DEF WorkerTop, GoTo, FinishOk, WorkersTypeOK
<1>2. CASE Claim(w)
    BY <1>2 DEF Claim, GoTo, FinishOk, WorkersTypeOK
<1>3. CASE BeginScan(w)
    BY <1>3 DEF BeginScan, GoTo, FinishOk, WorkersTypeOK
<1>4. CASE EndScan(w)
    BY <1>4 DEF EndScan, GoTo, FinishOk, WorkersTypeOK
<1>5. CASE EndMerge(w)
    BY <1>5 DEF EndMerge, GoTo, FinishOk, WorkersTypeOK
<1>6. CASE WorkerFails(w)
    BY <1>6 DEF WorkerFails, GoTo, FinishOk, WorkersTypeOK
<1>7. CASE CancelSiblings(w)
    BY <1>7 DEF CancelSiblings, GoTo, FinishOk, WorkersTypeOK
<1>8. CASE WorkerPanics(w)
    BY <1>8 DEF WorkerPanics, GoTo, FinishOk, WorkersTypeOK
<1>9. CASE Recheck(w)
    BY <1>9 DEF Recheck, GoTo, FinishOk, WorkersTypeOK
<1>10. CASE Send(w)
    BY <1>10 DEF Send, GoTo, FinishOk, WorkersTypeOK
<1> QED
    BY <1>1, <1>2, <1>3, <1>4, <1>5, <1>6, <1>7, <1>8, <1>9, <1>10 DEF WorkerStep

\* A worker ending or moving does not undo what the main thread relies on.
LEMMA WorkerKeepsMain ==
    ASSUME IInv, NEW w \in Workers, WorkerStep(w), [Next]_vars
    PROVE  OutputTypeOK' /\ EndTypeOK' /\ OutputInv' /\ EndInv'
<1>1. UNCHANGED <<mpc, pendingFiles, taken, nextOut, written, tailFlushed, outputError,
                  joined, exit>>
    BY WorkerFrame DEF mainVars, outVars, endVars
<1>2. cancelled => cancelled'
    BY CancelledStays
<1>3. ASSUME NEW v \in 1 .. joined PROVE wpc'[v] = "ok"
    <2>1. wpc[v] = "ok"
        BY DEF IInv, EndInv
    <2>2. joined \in 0 .. Jobs
        BY DEF IInv, TypeOK, EndTypeOK
    <2>3. v \in Workers
        BY <2>2, JobsAssumption DEF Workers
    <2> QED
        BY <2>1, <2>3, EndedStays DEF IInv, TypeOK
<1> QED
    BY <1>1, <1>2, <1>3 DEF IInv, TypeOK, OutputTypeOK, EndTypeOK, OutputInv, EndInv, HasNext

\* The invariant holds at first.
LEMMA InitInv == Init => IInv
<1> SUFFICES ASSUME Init PROVE IInv
    OBVIOUS
<1>1. TypeOK
    <2>1. WorkersTypeOK
        <3>1. 0 \in 0 .. NumEncodings
            BY NumEncodingsAssumption
        <3> QED
            BY <3>1 DEF Init, WorkersTypeOK, WorkerPC
    <2>2. SharedTypeOK
        <3>1. chan \in Seq(Files)
            BY EmptySeq DEF Init
        <3>2. nextChunk \in Nat
            BY DEF Init
        <3> QED
            BY <3>1, <3>2, Zenon DEF Init, SharedTypeOK
    <2>3. OutputTypeOK
        <3>1. written \in Seq(Files)
            BY EmptySeq DEF Init
        <3>2. nextOut \in 0 .. ChunkCount
            BY ChunkCountAssumption DEF Init
        <3>3. outputError \in OutputErrors /\ pendingFiles \in SUBSET Files
            BY DEF Init, OutputErrors
        <3> QED
            BY <3>1, <3>2, <3>3, Zenon DEF Init, OutputTypeOK
    <2>4. EndTypeOK
        BY JobsAssumption DEF Init, EndTypeOK, MainPC, ExitCodes
    <2> QED
        BY <2>1, <2>2, <2>3, <2>4 DEF TypeOK
<1>2. WorkerInv
    BY NoFileIsNone DEF Init, WorkerInv, Busy
<1>3. TravelInv /\ OutputInv /\ EndInv
    BY DEF Init, TravelInv, OutputInv, EndInv
<1> QED
    BY <1>1, <1>2, <1>3 DEF IInv

\* Every step keeps it.
LEMMA NextInv == IInv /\ [Next]_vars => IInv'
<1> SUFFICES ASSUME IInv, [Next]_vars PROVE IInv'
    OBVIOUS
<1>1. ASSUME NEW w \in Workers, WorkerStep(w) PROVE IInv'
    BY <1>1, WorkerActions, WorkerSharing, WorkerKeepsMain DEF IInv, TypeOK
<1>2. CASE MainStep \/ CtrlC
    <2>1. MainInv
        BY DEF IInv, TypeOK, MainInv
    <2>2. MainInv'
        BY <1>2, <2>1, MainMoves, ReceiveStep, TakeStep, WriteChunkStep, WriteStopsStep,
           MainStops
           DEF MainStep, OpenOutput, OutputTop, ReceiveTimeout, ReceivedNext, JoinWorker,
               JoinedAll, Decide, Finish, ProcessExit, chanVars
    <2>3. WorkersTypeOK' /\ WorkerInv'
        BY <1>2, MainFrame, CancelledStays
           DEF IInv, TypeOK, WorkersTypeOK, WorkerInv, workerVars
    <2> QED
        BY <2>2, <2>3 DEF IInv, TypeOK, MainInv
<1>3. CASE UNCHANGED vars
    BY <1>3 DEF vars, workerVars, chanVars, mainVars, outVars, endVars, IInv, TypeOK,
                WorkersTypeOK, SharedTypeOK, OutputTypeOK, EndTypeOK, WorkerInv,
                TravelInv, OutputInv, EndInv, HasNext
<1> QED
    BY <1>1, <1>2, <1>3 DEF Next, Exited

\* The inductive invariant holds in every reachable state (main.rs:152-526).
THEOREM Invariance == Spec => []IInv
BY InitInv, NextInv, PTL DEF Spec

\* The variables keep their types.
THEOREM TypeCorrect == Spec => []TypeOK
<1>1. IInv => TypeOK
    BY DEF IInv
<1> QED
    BY <1>1, Invariance, PTL

\* What a scanner cut short is never sent, stored or written (main.rs:175).
THEOREM WholeFilesTravel == Spec => []OnlyWholeFilesTravel
<1>1. IInv => OnlyWholeFilesTravel
    BY DEF IInv, OnlyWholeFilesTravel, TravelInv, WorkerInv
<1> QED
    BY <1>1, Invariance, PTL

\* pending_files.remove(..).unwrap() does not panic (main.rs:291).
THEOREM UnwrapIsSafe == Spec => []NextFilePresent
<1>1. IInv => NextFilePresent
    BY DEF IInv, NextFilePresent, OutputInv
<1> QED
    BY <1>1, Invariance, PTL

\* An Ok from run() means the whole output is there (main.rs:505-525).
THEOREM SuccessMeansComplete == Spec => []SuccessIsComplete
<1>1. IInv => SuccessIsComplete
    <2> SUFFICES ASSUME IInv, exit = "ok" PROVE SuccessIsComplete
        BY DEF SuccessIsComplete
    <2>1. /\ tailFlushed /\ joined = Jobs /\ nextOut = ChunkCount /\ outputError = "none"
          /\ Len(written) = nextOut /\ written \in Seq(Files)
          /\ \A i \in 1 .. nextOut : written[i] = [chunk |-> i - 1, whole |-> TRUE]
        BY DEF IInv, TypeOK, OutputTypeOK, EndInv, OutputInv
    <2>2. \A w \in Workers : wpc[w] = "ok"
        BY <2>1 DEF IInv, EndInv, Workers
    <2>3. written = [i \in 1 .. ChunkCount |-> [chunk |-> i - 1, whole |-> TRUE]]
        BY <2>1
    <2> QED
        BY <2>1, <2>2, <2>3 DEF SuccessIsComplete
<1> QED
    BY <1>1, Invariance, PTL

-----------------------------------------------------------------------------
(* The pipeline implements OrderedOutput.                                  *)

\* A step that leaves the output log and how the run stands alone is a stutter.
LEMMA Stutters ==
    ASSUME UNCHANGED <<written, exit, outputError, tailFlushed>>
    PROVE  UNCHANGED Output!avars
BY DEF Output!avars, OutputStatus

\* run() giving up, from wherever the run stands, is the abstract failure.
LEMMA GivesUp ==
    ASSUME exit = "running", exit' \notin {"ok", "running"}, written' = written
    PROVE  Output!Fail
BY DEF Output!Fail, OutputStatus

\* Every step is one of OrderedOutput, or a stutter.
LEMMA StepRefines ==
    ASSUME IInv, [Next]_vars
    PROVE  [Output!ANext]_(Output!avars)
<1>1. ASSUME NEW w \in Workers, WorkerStep(w) PROVE UNCHANGED Output!avars
    BY <1>1, WorkerFrame, Stutters DEF mainVars, outVars, endVars
<1>2. CASE \/ OpenOutput \/ OutputTop \/ Receive \/ ReceiveTimeout \/ ReceivedNext
           \/ Take \/ DropReceiver \/ JoinedAll \/ ProcessExit \/ CtrlC
    <2>1. UNCHANGED <<written, exit, outputError, tailFlushed>>
        BY <1>2 DEF OpenOutput, OutputTop, Receive, ReceiveTimeout, ReceivedNext, Take,
                    DropReceiver, JoinedAll, ProcessExit, CtrlC, mainVars, outVars, endVars
    <2> QED
        BY <2>1, Stutters
<1>r. mpc \notin {"returned", "exited"} => exit = "running"
    BY DEF IInv, EndInv
<1>3. CASE OpenFails
    <2>1. exit' = "open failed" /\ written' = written /\ mpc = "open"
        BY <1>3 DEF OpenFails, Return, outVars
    <2> QED
        BY <1>r, <2>1, GivesUp DEF Output!ANext
<1>4. CASE ReceiveDisconnected
    <2>1. /\ mpc = "recv" /\ outputError' = "channel closed"
          /\ UNCHANGED <<written, exit, tailFlushed>>
        BY <1>4 DEF ReceiveDisconnected, endVars
    <2>2. exit = "running" /\ outputError = "none" /\ ~tailFlushed
        BY <1>r, <2>1 DEF IInv, OutputInv
    <2> QED
        BY <2>1, <2>2 DEF Output!ANext, Output!BreakOff, OutputStatus
<1>5. CASE WriteChunk
    <2>1. /\ mpc = "write" /\ written' = Append(written, taken)
          /\ UNCHANGED <<exit, outputError, tailFlushed>>
        BY <1>5 DEF WriteChunk, endVars
    <2>2. /\ exit = "running" /\ outputError = "none" /\ ~tailFlushed
          /\ Len(written) = nextOut /\ nextOut < ChunkCount
        BY <1>r, <2>1 DEF IInv, OutputInv
    <2>3. taken = [chunk |-> Len(written), whole |-> TRUE]
        BY <2>1, <2>2 DEF IInv, TravelInv, Files
    <2> QED
        BY <2>1, <2>2, <2>3 DEF Output!ANext, Output!Emit, Output!Chunk, OutputStatus
<1>6. ASSUME NEW e \in {"interrupted", "io"}, WriteStops(e) PROVE Output!ANext
    <2>1. /\ mpc = "write" /\ written' = Append(written, [taken EXCEPT !.whole = FALSE])
          /\ outputError' = e /\ UNCHANGED <<exit, tailFlushed>>
        BY <1>6 DEF WriteStops, endVars
    <2>2. /\ exit = "running" /\ outputError = "none" /\ ~tailFlushed
          /\ Len(written) = nextOut
        BY <1>r, <2>1 DEF IInv, OutputInv
    <2>3. [taken EXCEPT !.whole = FALSE] = [chunk |-> Len(written), whole |-> FALSE]
        <3>1. taken \in Files /\ taken.chunk = nextOut
            BY <2>1 DEF IInv, TravelInv
        <3> DEFINE torn == [taken EXCEPT !.whole = FALSE]
        <3>2. torn \in Files /\ torn.chunk = nextOut /\ torn.whole = FALSE
            BY <3>1, CutFile
        <3> HIDE DEF torn
        <3>3. torn = [chunk |-> nextOut, whole |-> FALSE]
            BY <3>2 DEF Files
        <3> QED
            BY <2>2, <3>3 DEF torn
    <2> QED
        BY <2>1, <2>2, <2>3, <1>6 DEF Output!ANext, Output!BreakOff, Output!Chunk, OutputStatus
<1>7. CASE FlushPending
    <2>1. /\ mpc = "flush" /\ tailFlushed' = ~cancelled
          /\ UNCHANGED <<written, exit, outputError>>
        BY <1>7 DEF FlushPending, endVars
    <2>2. exit = "running" /\ ~tailFlushed /\ (outputError # "none" => cancelled)
        BY <1>r, <2>1 DEF IInv, OutputInv
    <2>3. CASE cancelled
        BY <2>1, <2>2, <2>3 DEF Output!avars, OutputStatus
    <2>4. CASE ~cancelled
        <3>1. outputError = "none" /\ Len(written) = ChunkCount
            BY <2>1, <2>2, <2>4 DEF IInv, OutputInv
        <3> QED
            BY <2>1, <2>2, <2>4, <3>1 DEF Output!ANext, Output!FlushTail, OutputStatus
    <2> QED
        BY <2>3, <2>4
<1>8. CASE FlushPendingFails
    <2>1. /\ mpc = "flush" /\ ~cancelled /\ outputError' = "io"
          /\ UNCHANGED <<written, exit, tailFlushed>>
        BY <1>8 DEF FlushPendingFails, endVars
    <2>2. exit = "running" /\ ~tailFlushed /\ outputError = "none"
        BY <1>r, <2>1 DEF IInv, OutputInv
    <2> QED
        BY <2>1, <2>2 DEF Output!ANext, Output!BreakOff, OutputStatus
<1>9. CASE JoinWorker
    <2>1. /\ mpc = "join" /\ UNCHANGED <<written, outputError, tailFlushed>>
          /\ exit' = exit \/ exit' \in {"worker failed", "worker panicked"}
        BY <1>9 DEF JoinWorker, Return, outVars
    <2>2. CASE exit' = exit
        BY <2>1, <2>2, Stutters
    <2>3. CASE exit' \in {"worker failed", "worker panicked"}
        BY <1>r, <2>1, <2>3, GivesUp DEF Output!ANext
    <2> QED
        BY <2>1, <2>2, <2>3
<1>10. CASE Decide
    <2>1. /\ mpc = "decide" /\ UNCHANGED <<written, outputError, tailFlushed>>
          /\ exit' = exit \/ exit' = "cancelled"
             \/ (exit' = outputError /\ outputError \in OutputErrors \ {"none"})
        BY <1>10 DEF Decide, Return, outVars, IInv, TypeOK, OutputTypeOK
    <2>2. CASE exit' = exit
        BY <2>1, <2>2, Stutters
    <2>3. CASE exit' # exit
        BY <1>r, <2>1, <2>3, GivesUp DEF Output!ANext, OutputErrors
    <2> QED
        BY <2>2, <2>3
<1>11. CASE Finish
    <2>1. /\ mpc = "finish" /\ UNCHANGED <<written, outputError, tailFlushed>>
          /\ exit' \in {"ok", "flush failed"}
        BY <1>11 DEF Finish, Return, outVars
    <2>a. exit = "running" /\ tailFlushed
        BY <1>r, <2>1 DEF IInv, EndInv
    <2>2. exit = "running" /\ tailFlushed /\ outputError = "none"
        BY <2>a DEF IInv, OutputInv
    <2>3. CASE exit' = "ok"
        BY <2>1, <2>2, <2>3 DEF Output!ANext, Output!Succeed, OutputStatus
    <2>4. CASE exit' = "flush failed"
        BY <2>1, <2>2, <2>4, GivesUp DEF Output!ANext
    <2> QED
        BY <2>1, <2>3, <2>4
<1>12. CASE UNCHANGED vars
    BY <1>12, Stutters DEF vars, mainVars, outVars, endVars
<1> QED
    BY <1>1, <1>2, <1>3, <1>4, <1>5, <1>6, <1>7, <1>8, <1>9, <1>10, <1>11, <1>12
       DEF Next, MainStep, Exited

\* The output of the pipeline grows as OrderedOutput allows.
THEOREM Implements == Spec => Output!Safe
<1>1. Init => Output!AInit
    BY DEF Init, Output!AInit, OutputStatus
<1> QED
    BY <1>1, Invariance, StepRefines, PTL DEF Spec, Output!Safe
-----------------------------------------------------------------------------
(* Counting.                                                               *)

\* one or none
Count(condition) == IF condition THEN 1 ELSE 0

\* the positions at which a sequence of files holds a chunk
Positions(files, c) == {i \in 1 .. Len(files) : files[i].chunk = c}

WorkersWith(c) == {w \in Workers : InHand(c, w)}
PendingWith(c) == {f \in pendingFiles : f.chunk = c}

InHands(c) == Cardinality(WorkersWith(c))
Queued(c) == Cardinality(Positions(chan, c))
Stored(c) == Cardinality(PendingWith(c))
Taken(c) == Count(IsTaken(c))
Logged(c) == Cardinality(Positions(written, c))

\* how many copies of a chunk there are
Copies(c) == InHands(c) + Queued(c) + Stored(c) + Taken(c) + Logged(c)

\* a reason for the run to end early
SomebodyStops ==
    cancelled \/ ~rxOpen \/ \E w \in Workers : wpc[w] = "failing" \/ Panicked(w)

\* A claimed chunk has one copy, unless somebody stops; one not yet claimed has none.
Ledger ==
    /\ IsFiniteSet(pendingFiles)
    /\ \A c \in ChunkIds :
           /\ c < nextChunk => Copies(c) = 1 \/ (Copies(c) = 0 /\ SomebodyStops)
           /\ c >= nextChunk => Copies(c) = 0

\* An element more or less is one more or less.
LEMMA CountWithout ==
    ASSUME NEW S, IsFiniteSet(S), NEW x
    PROVE  /\ IsFiniteSet(S \ {x})
           /\ Cardinality(S) \in Nat
           /\ Cardinality(S \ {x}) \in Nat
           /\ Cardinality(S) = Cardinality(S \ {x}) + Count(x \in S)
<1>1. IsFiniteSet(S \ {x}) /\ Cardinality(S) \in Nat /\ Cardinality(S \ {x}) \in Nat
      BY FS_RemoveElement, FS_CardinalityType
<1>. QED  BY <1>1, FS_RemoveElement DEF Count

\* The workers that have a chunk can be counted.
LEMMA WorkersFinite ==
    ASSUME NEW c
    PROVE  IsFiniteSet(WorkersWith(c)) /\ InHands(c) \in Nat
<1>1. IsFiniteSet(Workers)
      BY FS_Interval, JobsAssumption DEF Workers
<1>2. WorkersWith(c) \in SUBSET Workers
      BY DEF WorkersWith
<1>. QED  BY <1>1, <1>2, FS_Subset, FS_CardinalityType DEF InHands

\* So can the places of a chunk in a sequence of files.
LEMMA PositionsFinite ==
    ASSUME NEW files \in Seq(Files), NEW c
    PROVE  IsFiniteSet(Positions(files, c)) /\ Cardinality(Positions(files, c)) \in Nat
<1>1. IsFiniteSet(1 .. Len(files))
      BY FS_Interval, LenProperties
<1>2. Positions(files, c) \in SUBSET (1 .. Len(files))
      BY DEF Positions
<1>. QED  BY <1>1, <1>2, FS_Subset, FS_CardinalityType

\* And those in pending_files.
LEMMA PendingFinite ==
    ASSUME IsFiniteSet(pendingFiles), NEW c
    PROVE  IsFiniteSet(PendingWith(c)) /\ Stored(c) \in Nat
<1>1. PendingWith(c) \in SUBSET pendingFiles
      BY DEF PendingWith
<1>. QED  BY <1>1, FS_Subset, FS_CardinalityType DEF Stored

\* So all the copies of a chunk can.
LEMMA CopiesAreNat ==
    ASSUME TypeOK, IsFiniteSet(pendingFiles), NEW c
    PROVE  /\ InHands(c) \in Nat /\ Queued(c) \in Nat /\ Stored(c) \in Nat
           /\ Taken(c) \in Nat /\ Logged(c) \in Nat /\ Copies(c) \in Nat
<1>1. Queued(c) \in Nat /\ Logged(c) \in Nat
      BY PositionsFinite DEF TypeOK, SharedTypeOK, OutputTypeOK, Queued, Logged
<1>2. InHands(c) \in Nat /\ Stored(c) \in Nat /\ Taken(c) \in Nat
      BY WorkersFinite, PendingFinite DEF Taken, Count
<1>. QED  BY <1>1, <1>2 DEF Copies

\* A worker exchanges the file it has for another one.
LEMMA HandsExchange ==
    ASSUME WorkersTypeOK, NEW c, NEW w \in Workers, NEW f \in Files \cup {NoFile},
           work' = [work EXCEPT ![w] = f]
    PROVE  InHands(c)' + Count(work[w].chunk = c) = InHands(c) + Count(f.chunk = c)
<1>. DEFINE before == WorkersWith(c)
            after == {v \in Workers : work'[v].chunk = c}
<1>1. IsFiniteSet(before) /\ IsFiniteSet(Workers) /\ after \in SUBSET Workers
      BY WorkersFinite, FS_Interval, JobsAssumption DEF Workers
<1>2. IsFiniteSet(after)
      BY <1>1, FS_Subset
<1>3. work'[w] = f /\ \A v \in Workers \ {w} : work'[v] = work[v]
      BY DEF WorkersTypeOK
<1>4. after \ {w} = before \ {w}
      BY <1>3 DEF WorkersWith, InHand
<1>5. (w \in before <=> work[w].chunk = c) /\ (w \in after <=> f.chunk = c)
      BY <1>3 DEF WorkersWith, InHand
<1>6. InHands(c) = Cardinality(before) /\ InHands(c)' = Cardinality(after)
      BY DEF InHands, WorkersWith, InHand
<1>. HIDE DEF before, after
<1>7. /\ Cardinality(before) = Cardinality(before \ {w}) + Count(w \in before)
      /\ Cardinality(after) = Cardinality(after \ {w}) + Count(w \in after)
      /\ Cardinality(before \ {w}) \in Nat
      BY <1>1, <1>2, CountWithout
<1>. QED  BY <1>4, <1>5, <1>6, <1>7 DEF Count

\* A file is put at the end of a sequence, or taken from its head.
LEMMA AppendCounts ==
    ASSUME NEW files \in Seq(Files), NEW f \in Files, NEW c
    PROVE  Cardinality(Positions(Append(files, f), c))
               = Cardinality(Positions(files, c)) + Count(f.chunk = c)
<1>. DEFINE longer == Append(files, f)
            last == Len(files) + 1
<1>1. /\ longer \in Seq(Files) /\ Len(longer) = last /\ longer[last] = f
      /\ \A i \in 1 .. Len(files) : longer[i] = files[i]
      /\ Len(files) \in Nat
      BY AppendProperties, LenProperties
<1>2. Positions(longer, c) \ {last} = Positions(files, c)
      BY <1>1 DEF Positions
<1>3. last \in Positions(longer, c) <=> f.chunk = c
      BY <1>1 DEF Positions
<1>4. IsFiniteSet(Positions(longer, c))
      BY <1>1, PositionsFinite
<1>5. Cardinality(Positions(longer, c))
          = Cardinality(Positions(longer, c) \ {last}) + Count(last \in Positions(longer, c))
      BY <1>4, CountWithout
<1>. QED  BY <1>2, <1>3, <1>5 DEF Count

\* A file taken from the front is one less.
LEMMA TailCounts ==
    ASSUME NEW files \in Seq(Files), files # <<>>, NEW c
    PROVE  Cardinality(Positions(files, c))
               = Cardinality(Positions(Tail(files), c)) + Count(Head(files).chunk = c)
<1>. DEFINE rest == Tail(files)
            here == Positions(rest, c)
            there == Positions(files, c) \ {1}
            shift == [i \in here |-> i + 1]
<1>1. /\ rest \in Seq(Files) /\ Len(rest) = Len(files) - 1
      /\ \A i \in 1 .. Len(rest) : rest[i] = files[i + 1]
      /\ Head(files) = files[1] /\ Len(files) \in Nat \ {0}
      BY HeadTailProperties, LenProperties, EmptySeq
<1>2. \A i : i \in here <=> i + 1 \in there /\ i \in 1 .. Len(rest)
      BY <1>1 DEF Positions
<1>3. \A j \in there : j - 1 \in here /\ j = (j - 1) + 1
      BY <1>1 DEF Positions
<1>4. here \subseteq Int
      BY DEF Positions
<1>. HIDE DEF here, there
<1>5. shift \in Bijection(here, there)
  <2>1. shift \in [here -> there]
        BY <1>2
  <2>2. \A i, j \in here : shift[i] = shift[j] => i = j
        BY <1>4
  <2>3. \A j \in there : \E i \in here : shift[i] = j
        BY <1>3
  <2>. QED  BY <2>1, <2>2, <2>3 DEF Bijection, Injection, Surjection, IsInjective
<1>6. IsFiniteSet(here) /\ IsFiniteSet(Positions(files, c))
      BY <1>1, PositionsFinite DEF here
<1>7. Cardinality(there) = Cardinality(here)
      BY <1>5, <1>6, FS_Bijection DEF ExistsBijection
<1>8. Cardinality(Positions(files, c)) = Cardinality(there) + Count(1 \in Positions(files, c))
      BY <1>6, CountWithout DEF there
<1>9. 1 \in Positions(files, c) <=> Head(files).chunk = c
      BY <1>1 DEF Positions
<1>. QED  BY <1>7, <1>8, <1>9 DEF Count, here

\* A file is put among those that wait, or taken out again.
LEMMA PendingGains ==
    ASSUME IsFiniteSet(pendingFiles), NEW f, f \notin pendingFiles,
           pendingFiles' = pendingFiles \cup {f}, NEW c
    PROVE  IsFiniteSet(pendingFiles') /\ Stored(c)' = Stored(c) + Count(f.chunk = c)
<1>. DEFINE after == {g \in pendingFiles' : g.chunk = c}
<1>1. IsFiniteSet(pendingFiles')
      BY FS_AddElement
<1>2. after \in SUBSET pendingFiles' /\ after \ {f} = PendingWith(c)
      BY DEF PendingWith
<1>3. IsFiniteSet(after)
      BY <1>1, <1>2, FS_Subset
<1>4. Cardinality(after) = Cardinality(after \ {f}) + Count(f \in after)
      BY <1>3, CountWithout
<1>5. f \in after <=> f.chunk = c
      OBVIOUS
<1>6. Stored(c)' = Cardinality(after)
      BY DEF Stored, PendingWith
<1>. QED  BY <1>1, <1>2, <1>4, <1>5, <1>6 DEF Stored, Count

\* A file taken from pending_files is one less.
LEMMA PendingLoses ==
    ASSUME IsFiniteSet(pendingFiles), NEW f \in pendingFiles,
           pendingFiles' = pendingFiles \ {f}, NEW c
    PROVE  IsFiniteSet(pendingFiles') /\ Stored(c)' + Count(f.chunk = c) = Stored(c)
<1>. DEFINE before == PendingWith(c)
<1>1. IsFiniteSet(pendingFiles')
      BY FS_RemoveElement
<1>2. Stored(c)' = Cardinality(before \ {f})
  <2>1. before \ {f} = {g \in pendingFiles' : g.chunk = c}
        BY DEF PendingWith
  <2>. QED  BY <2>1 DEF Stored, PendingWith
<1>3. Cardinality(before) = Cardinality(before \ {f}) + Count(f \in before)
      BY PendingFinite, CountWithout
<1>4. f \in before <=> f.chunk = c
      BY DEF PendingWith
<1>. QED  BY <1>1, <1>2, <1>3, <1>4 DEF Stored, Count

\* No chunk is where there is no file.
LEMMA NoFileCounts == ASSUME NEW c \in ChunkIds PROVE Count(NoFile.chunk = c) = 0
BY ChunkCountAssumption DEF NoFile, ChunkIds, Count

-----------------------------------------------------------------------------
(* The ledger is kept.                                                     *)

\* Nobody reopens the channel.
LEMMA ReceiverOnlyDropped ==
    ASSUME MainStep \/ CtrlC
    PROVE  rxOpen' = rxOpen \/ rxOpen' = FALSE
<1>1. CASE OpenFails \/ DropReceiver
      BY <1>1 DEF OpenFails, DropReceiver
<1>2. CASE ~(OpenFails \/ DropReceiver)
      BY <1>2 DEF MainStep, OpenOutput, OutputTop, Receive, ReceiveTimeout,
                  ReceiveDisconnected, ReceivedNext, Take, WriteChunk, WriteStops,
                  FlushPending, FlushPendingFails, JoinWorker, JoinedAll, Decide, Finish,
                  ProcessExit, CtrlC, chanVars
<1>. QED  BY <1>1, <1>2

\* Whoever stops the run does not change his mind: a worker that failed sets the flag.
LEMMA StopsStay ==
    ASSUME TypeOK, [Next]_vars, SomebodyStops
    PROVE  SomebodyStops'
<1>1. CASE cancelled
      BY <1>1, CancelledStays DEF SomebodyStops
<1>2. ASSUME NEW w \in Workers, WorkerStep(w), ~cancelled PROVE SomebodyStops'
  <2>1. CASE ~rxOpen
        BY <1>2, <2>1, WorkerFrame DEF SomebodyStops
  <2>2. ASSUME NEW v \in Workers, wpc[v] = "failing" \/ Panicked(v) PROVE SomebodyStops'
    <3>1. CASE CancelSiblings(w)
          BY <3>1 DEF CancelSiblings, SomebodyStops
    <3>2. CASE ~CancelSiblings(w)
      <4>1. wpc'[v] = wpc[v]
            BY <1>2, <2>2, <3>2
            DEF WorkerStep, WorkerTop, Claim, BeginScan, EndScan, EndMerge, WorkerFails,
                CancelSiblings, WorkerPanics, Recheck, Send, FinishOk, GoTo, Panicked,
                TypeOK, WorkersTypeOK
      <4>. QED  BY <2>2, <4>1 DEF SomebodyStops, Panicked
    <3>. QED  BY <3>1, <3>2
  <2>. QED  BY <1>2, <2>1, <2>2 DEF SomebodyStops
<1>3. CASE MainStep \/ CtrlC
  <2>1. UNCHANGED wpc
        BY <1>3, MainFrame DEF workerVars
  <2>2. rxOpen' = rxOpen \/ rxOpen' = FALSE
        BY <1>3, ReceiverOnlyDropped
  <2>3. cancelled => cancelled'
        BY CancelledStays
  <2>. QED  BY <2>1, <2>2, <2>3 DEF SomebodyStops, Panicked
<1>4. CASE UNCHANGED vars
      BY <1>4 DEF vars, workerVars, chanVars, SomebodyStops, Panicked
<1>. QED  BY <1>1, <1>2, <1>3, <1>4 DEF Next, Exited

\* A step that claims no chunk keeps the ledger if it loses no copy, or if it loses one
\* and somebody stops.
LEMMA LedgerKept ==
    ASSUME Ledger, TypeOK, nextChunk' = nextChunk, IsFiniteSet(pendingFiles'),
           SomebodyStops => SomebodyStops',
           \A c \in ChunkIds : \/ Copies(c)' = Copies(c)
                               \/ Copies(c)' \in Nat /\ Copies(c)' <= Copies(c) /\ SomebodyStops'
    PROVE  Ledger'
<1>1. ASSUME NEW c \in ChunkIds
      PROVE  /\ c < nextChunk => Copies(c)' = 1 \/ (Copies(c)' = 0 /\ SomebodyStops')
             /\ c >= nextChunk => Copies(c)' = 0
  <2>1. CASE Copies(c)' = Copies(c)
        BY <2>1 DEF Ledger
  <2>2. CASE Copies(c)' \in Nat /\ Copies(c)' <= Copies(c) /\ SomebodyStops'
    <3>1. c \in Int /\ nextChunk \in Int
          BY ChunkCountAssumption DEF ChunkIds, TypeOK, SharedTypeOK
    <3>2. /\ c < nextChunk => Copies(c) = 1 \/ Copies(c) = 0
          /\ c >= nextChunk => Copies(c) = 0
          BY DEF Ledger
    <3>. QED  BY <2>2, <3>1, <3>2
  <2>. QED  BY <2>1, <2>2
<1>. QED  BY <1>1 DEF Ledger

\* Copies move only with the variables that hold them.
LEMMA CopiesStay ==
    ASSUME UNCHANGED <<work, chan, pendingFiles, taken, written>>, NEW c
    PROVE  Copies(c)' = Copies(c)
BY DEF Copies, InHands, WorkersWith, InHand, Queued, Stored, PendingWith, Taken, IsTaken,
       Logged, Positions, Count

\* What a step of a worker does to the copies of a chunk.
LEMMA HandCopies ==
    ASSUME TypeOK, IsFiniteSet(pendingFiles), NEW c, NEW w \in Workers,
           NEW f \in Files \cup {NoFile}, work' = [work EXCEPT ![w] = f],
           UNCHANGED <<chan, mainVars>>
    PROVE  /\ Copies(c)' + Count(work[w].chunk = c) = Copies(c) + Count(f.chunk = c)
           /\ Copies(c)' \in Nat
<1>1. /\ Queued(c)' = Queued(c) /\ Stored(c)' = Stored(c)
      /\ Taken(c)' = Taken(c) /\ Logged(c)' = Logged(c)
      BY DEF Queued, Stored, PendingWith, Taken, IsTaken, Logged, Positions, Count,
             mainVars, outVars
<1>2. InHands(c)' + Count(work[w].chunk = c) = InHands(c) + Count(f.chunk = c)
      BY HandsExchange DEF TypeOK
<1>3. InHands(c)' \in Nat
  <2>1. {v \in Workers : work'[v].chunk = c} \in SUBSET Workers
        OBVIOUS
  <2>2. IsFiniteSet(Workers)
        BY FS_Interval, JobsAssumption DEF Workers
  <2>3. InHands(c)' = Cardinality({v \in Workers : work'[v].chunk = c})
        BY DEF InHands, WorkersWith, InHand
  <2>. QED  BY <2>1, <2>2, <2>3, FS_Subset, FS_CardinalityType
<1>4. Copies(c)' = InHands(c)' + Queued(c) + Stored(c) + Taken(c) + Logged(c)
      BY <1>1 DEF Copies
<1>5. Count(work[w].chunk = c) \in Nat /\ Count(f.chunk = c) \in Nat
      BY DEF Count
<1>. QED  BY <1>2, <1>3, <1>4, <1>5, CopiesAreNat DEF Copies

\* A worker goes on with the same chunk ...
LEMMA HandKeeps ==
    ASSUME TypeOK, Ledger, NEW w \in Workers, NEW f \in Files \cup {NoFile},
           work' = [work EXCEPT ![w] = f], f.chunk = work[w].chunk,
           UNCHANGED <<nextChunk, chan, mainVars>>, SomebodyStops => SomebodyStops'
    PROVE  Ledger'
<1>1. IsFiniteSet(pendingFiles) /\ pendingFiles' = pendingFiles
      BY DEF Ledger, mainVars, outVars
<1>2. ASSUME NEW c \in ChunkIds PROVE Copies(c)' = Copies(c)
  <2>1. Copies(c)' + Count(work[w].chunk = c) = Copies(c) + Count(f.chunk = c) /\ Copies(c)' \in Nat
        BY <1>1, HandCopies
  <2>2. Copies(c) \in Nat /\ Count(f.chunk = c) \in Nat
        BY <1>1, CopiesAreNat DEF Count
  <2>. QED  BY <2>1, <2>2
<1>. QED  BY <1>1, <1>2, LedgerKept

\* ... or drops its file, and then somebody stops.
LEMMA HandLoses ==
    ASSUME TypeOK, Ledger, NEW w \in Workers, work' = [work EXCEPT ![w] = NoFile],
           UNCHANGED <<nextChunk, chan, mainVars>>, SomebodyStops'
    PROVE  Ledger'
<1>1. IsFiniteSet(pendingFiles) /\ pendingFiles' = pendingFiles
      BY DEF Ledger, mainVars, outVars
<1>2. ASSUME NEW c \in ChunkIds PROVE Copies(c)' \in Nat /\ Copies(c)' <= Copies(c)
  <2>1. /\ Copies(c)' + Count(work[w].chunk = c) = Copies(c) + Count(NoFile.chunk = c)
        /\ Copies(c)' \in Nat
        BY <1>1, HandCopies
  <2>2. Copies(c) \in Nat /\ Count(work[w].chunk = c) \in Nat /\ Count(NoFile.chunk = c) = 0
        BY <1>1, CopiesAreNat, NoFileCounts DEF Count
  <2>. QED  BY <2>1, <2>2
<1>. QED  BY <1>1, <1>2, LedgerKept

\* The counter hands out a chunk of which there is no copy.
LEMMA ClaimLedger ==
    ASSUME IInv, Ledger, NEW w \in Workers, Claim(w), SomebodyStops => SomebodyStops'
    PROVE  Ledger'
<1>1. work[w] = NoFile /\ TypeOK /\ nextChunk \in Nat
      BY DEF Claim, IInv, TypeOK, WorkersTypeOK, SharedTypeOK, WorkerInv, Busy
<1>2. UNCHANGED <<chan, mainVars>> /\ nextChunk' = nextChunk + 1
      BY DEF Claim, chanVars
<1>3. IsFiniteSet(pendingFiles) /\ pendingFiles' = pendingFiles
      BY <1>2 DEF Ledger, mainVars, outVars
<1>. DEFINE f == IF nextChunk >= ChunkCount THEN NoFile ELSE [chunk |-> nextChunk, whole |-> TRUE]
<1>4. f \in Files \cup {NoFile} /\ work' = [work EXCEPT ![w] = f]
      BY <1>1, ClaimedFile, ChunkCountAssumption DEF Claim, FinishOk
<1>5. ASSUME NEW c \in ChunkIds PROVE f.chunk = c <=> nextChunk = c
      BY <1>1, <1>5, ChunkCountAssumption DEF ChunkIds, NoFile
<1>. HIDE DEF f
<1>6. ASSUME NEW c \in ChunkIds
      PROVE  Copies(c)' = IF nextChunk = c THEN Copies(c) + 1 ELSE Copies(c)
  <2>1. /\ Copies(c)' + Count(work[w].chunk = c) = Copies(c) + Count(f.chunk = c)
        /\ Copies(c)' \in Nat
        BY <1>1, <1>2, <1>3, <1>4, HandCopies
  <2>2. Count(work[w].chunk = c) = 0
        BY <1>1, NoFileCounts
  <2>3. Count(f.chunk = c) = IF nextChunk = c THEN 1 ELSE 0
        BY <1>5 DEF Count
  <2>4. Copies(c) \in Nat
        BY <1>1, <1>3, CopiesAreNat
  <2>. QED  BY <2>1, <2>2, <2>3, <2>4
<1>7. ASSUME NEW c \in ChunkIds
      PROVE  /\ c < nextChunk' => Copies(c)' = 1 \/ (Copies(c)' = 0 /\ SomebodyStops')
             /\ c >= nextChunk' => Copies(c)' = 0
  <2>1. c \in Int
        BY ChunkCountAssumption DEF ChunkIds
  <2>2. CASE c = nextChunk
    <3>1. Copies(c) = 0
          BY <1>1, <2>2 DEF Ledger
    <3>. QED  BY <1>1, <1>2, <1>6, <2>2, <3>1
  <2>3. CASE c # nextChunk
    <3>1. Copies(c)' = Copies(c)
          BY <1>6, <2>3
    <3>2. /\ c < nextChunk' => c < nextChunk
          /\ c >= nextChunk' => c >= nextChunk
          BY <1>1, <1>2, <2>1, <2>3
    <3>. QED  BY <3>1, <3>2 DEF Ledger
  <2>. QED  BY <2>2, <2>3
<1>. QED  BY <1>3, <1>7 DEF Ledger

\* A file changes hands: from its worker to the channel.
LEMMA SendLedger ==
    ASSUME IInv, Ledger, NEW w \in Workers, wpc[w] = "send",
           chan' = Append(chan, work[w]), work' = [work EXCEPT ![w] = NoFile],
           UNCHANGED <<nextChunk, mainVars>>, SomebodyStops => SomebodyStops'
    PROVE  Ledger'
<1>1. work[w] \in Files /\ TypeOK /\ WorkersTypeOK /\ chan \in Seq(Files)
      BY DEF IInv, TypeOK, SharedTypeOK, WorkerInv, Busy
<1>2. IsFiniteSet(pendingFiles) /\ pendingFiles' = pendingFiles
      BY DEF Ledger, mainVars, outVars
<1>3. ASSUME NEW c \in ChunkIds PROVE Copies(c)' = Copies(c)
  <2>1. InHands(c)' + Count(work[w].chunk = c) = InHands(c) + Count(NoFile.chunk = c)
    <3>1. \E f \in Files \cup {NoFile} : f = NoFile
          OBVIOUS
    <3>2. PICK f \in Files \cup {NoFile} : f = NoFile
          BY <3>1
    <3>3. work' = [work EXCEPT ![w] = f]
          BY <3>2
    <3>4. InHands(c)' + Count(work[w].chunk = c) = InHands(c) + Count(f.chunk = c)
          BY <1>1, <3>3, HandsExchange
    <3>. QED  BY <3>2, <3>4
  <2>2. Count(NoFile.chunk = c) = 0 /\ Count(work[w].chunk = c) \in Nat
        BY NoFileCounts DEF Count
  <2>3. Queued(c)' = Queued(c) + Count(work[w].chunk = c)
    <3>1. Queued(c)' = Cardinality(Positions(Append(chan, work[w]), c))
          BY DEF Queued, Positions
    <3>. QED  BY <1>1, <3>1, AppendCounts DEF Queued
  <2>4. Stored(c)' = Stored(c) /\ Taken(c)' = Taken(c) /\ Logged(c)' = Logged(c)
        BY DEF Stored, PendingWith, Taken, IsTaken, Logged, Positions, Count, mainVars, outVars
  <2>5. /\ InHands(c) \in Nat /\ Queued(c) \in Nat /\ Stored(c) \in Nat
        /\ Taken(c) \in Nat /\ Logged(c) \in Nat
        BY <1>1, <1>2, CopiesAreNat
  <2>6. InHands(c)' = InHands(c) - Count(work[w].chunk = c)
    <3>1. InHands(c)' \in Nat
      <4>1. {v \in Workers : work'[v].chunk = c} \in SUBSET Workers /\ IsFiniteSet(Workers)
            BY FS_Interval, JobsAssumption DEF Workers
      <4>2. InHands(c)' = Cardinality({v \in Workers : work'[v].chunk = c})
            BY DEF InHands, WorkersWith, InHand
      <4>. QED  BY <4>1, <4>2, FS_Subset, FS_CardinalityType
    <3>. QED  BY <2>1, <2>2, <2>5, <3>1
  <2>7. Copies(c)' = InHands(c)' + Queued(c)' + Stored(c)' + Taken(c)' + Logged(c)'
        BY DEF Copies
  <2>. QED  BY <2>2, <2>3, <2>4, <2>5, <2>6, <2>7 DEF Copies
<1>. QED  BY <1>1, <1>2, <1>3, LedgerKept

\* Every step of a worker keeps the ledger.
LEMMA WorkerLedger ==
    ASSUME IInv, Ledger, NEW w \in Workers, WorkerStep(w), [Next]_vars
    PROVE  Ledger'
<1>1. /\ TypeOK /\ work[w] \in Files \cup {NoFile} /\ cancelled \in BOOLEAN
      /\ work[w] \in Files <=> wpc[w] \in Busy
      /\ work' = work => work' = [work EXCEPT ![w] = work[w]]
      BY DEF IInv, TypeOK, WorkersTypeOK, SharedTypeOK, WorkerInv
<1>2. SomebodyStops => SomebodyStops'
      BY <1>1, StopsStay
<1>. DEFINE cut == [work[w] EXCEPT !.whole = FALSE]
<1>3. wpc[w] \in Busy => cut \in Files \cup {NoFile} /\ cut.chunk = work[w].chunk
      BY <1>1, CutFile
<1>4. cancelled => SomebodyStops'
      BY <1>2 DEF SomebodyStops
<1>. HIDE DEF cut
<1>5. CASE work' = work /\ UNCHANGED <<nextChunk, chan, mainVars>>
      BY <1>1, <1>2, <1>5, HandKeeps
<1>6. CASE WorkerTop(w)
  <2>1. work' = work \/ (cancelled /\ work' = [work EXCEPT ![w] = NoFile])
        BY <1>6 DEF WorkerTop, FinishOk
  <2>. QED  BY <1>1, <1>4, <1>5, <1>6, <2>1, HandLoses DEF WorkerTop, chanVars
<1>7. CASE Claim(w)
      BY <1>2, <1>7, ClaimLedger
<1>8. CASE BeginScan(w) \/ EndScan(w) \/ EndMerge(w)
  <2>1. wpc[w] \in Busy /\ UNCHANGED <<nextChunk, chan, mainVars>>
        BY <1>8 DEF BeginScan, EndScan, EndMerge, Busy, chanVars
  <2>2. work' = work \/ work' = [work EXCEPT ![w] = cut]
        BY <1>8 DEF BeginScan, EndScan, EndMerge, MayTruncate, cut
  <2>. QED  BY <1>1, <1>2, <1>3, <1>5, <2>1, <2>2, HandKeeps
<1>9. CASE WorkerFails(w) \/ WorkerPanics(w)
  <2>1. /\ UNCHANGED <<nextChunk, chan, mainVars>> /\ work' = [work EXCEPT ![w] = NoFile]
        /\ wpc' = [wpc EXCEPT ![w] = "failing"] \/ wpc' = [wpc EXCEPT ![w] = "panicked"]
        BY <1>9 DEF WorkerFails, WorkerPanics, GoTo, chanVars
  <2>2. wpc'[w] \in {"failing", "panicked"}
        BY <1>1, <2>1 DEF TypeOK, WorkersTypeOK
  <2>3. SomebodyStops'
        BY <2>2 DEF SomebodyStops, Panicked
  <2>. QED  BY <1>1, <2>1, <2>3, HandLoses
<1>10. CASE CancelSiblings(w)
      BY <1>5, <1>10 DEF CancelSiblings, chanVars
<1>11. CASE Recheck(w)
  <2>1. work' = work \/ (cancelled /\ work' = [work EXCEPT ![w] = NoFile])
        BY <1>11 DEF Recheck, FinishOk
  <2>. QED  BY <1>1, <1>4, <1>5, <1>11, <2>1, HandLoses DEF Recheck, chanVars
<1>12. CASE Send(w)
  <2>1. UNCHANGED <<nextChunk, mainVars, rxOpen>> /\ wpc[w] = "send"
        /\ work' = [work EXCEPT ![w] = NoFile]
        BY <1>12 DEF Send, FinishOk
  <2>2. (~rxOpen /\ chan' = chan) \/ chan' = Append(chan, work[w])
        BY <1>12 DEF Send
  <2>3. ~rxOpen => SomebodyStops'
        BY <1>2 DEF SomebodyStops
  <2>. QED  BY <1>1, <1>2, <2>1, <2>2, <2>3, SendLedger, HandLoses
<1>. QED  BY <1>6, <1>7, <1>8, <1>9, <1>10, <1>11, <1>12 DEF WorkerStep

\* The main thread takes a file from the channel: no other one has its chunk, so it is
\* not lost among the pending ones.
LEMMA ReceiveLedger ==
    ASSUME IInv, Ledger, Receive, SomebodyStops => SomebodyStops'
    PROVE  Ledger'
<1>. DEFINE f == Head(chan)
<1>1. /\ TypeOK /\ chan \in Seq(Files) /\ chan # <<>>
      /\ chan' = Tail(chan) /\ pendingFiles' = pendingFiles \cup {f}
      /\ UNCHANGED <<work, nextChunk, taken, written>>
      BY DEF Receive, IInv, TypeOK, SharedTypeOK, workerVars
<1>a. f \in Files
      BY <1>1, HeadTailProperties
<1>2. f.chunk \in ChunkIds /\ IsFiniteSet(pendingFiles)
      BY <1>a DEF Files, Ledger
<1>. HIDE DEF f
<1>3. ASSUME NEW c PROVE Queued(c) = Queued(c)' + Count(f.chunk = c)
  <2>1. Queued(c)' = Cardinality(Positions(Tail(chan), c))
        BY <1>1 DEF Queued, Positions
  <2>. QED  BY <1>1, <2>1, TailCounts DEF Queued, f
<1>4. ASSUME NEW c PROVE Queued(c)' \in Nat
  <2>1. Tail(chan) \in Seq(Files) /\ Queued(c)' = Cardinality(Positions(Tail(chan), c))
        BY <1>1, HeadTailProperties DEF Queued, Positions
  <2>. QED  BY <2>1, PositionsFinite
<1>5. f \notin pendingFiles
  <2>. SUFFICES ASSUME f \in pendingFiles PROVE FALSE
       OBVIOUS
  <2>a. PICK c \in ChunkIds : c = f.chunk
        BY <1>2
  <2>1. Copies(c) \in {0, 1}
    <3>1. nextChunk \in Int /\ c \in Int
          BY <1>1, ChunkCountAssumption DEF TypeOK, SharedTypeOK, ChunkIds
    <3>. QED  BY <3>1 DEF Ledger
  <2>2. Queued(c) = Queued(c)' + 1 /\ Queued(c)' \in Nat
        BY <1>3, <1>4, <2>a DEF Count
  <2>3. PendingWith(c) # {}
        BY <2>a DEF PendingWith
  <2>4. Stored(c) # 0
        BY <1>2, <2>3, PendingFinite, FS_EmptySet DEF Stored
  <2>5. /\ InHands(c) \in Nat /\ Queued(c) \in Nat /\ Stored(c) \in Nat
        /\ Taken(c) \in Nat /\ Logged(c) \in Nat
        BY <1>1, <1>2, CopiesAreNat
  <2>6. Queued(c) # 0
        BY <2>2
  <2>7. Copies(c) = InHands(c) + Queued(c) + Stored(c) + Taken(c) + Logged(c)
        BY DEF Copies
  <2>. QED  BY <2>1, <2>4, <2>5, <2>6, <2>7
<1>6. IsFiniteSet(pendingFiles') /\ \A c : Stored(c)' = Stored(c) + Count(f.chunk = c)
      BY <1>1, <1>2, <1>5, PendingGains
<1>7. ASSUME NEW c \in ChunkIds PROVE Copies(c)' = Copies(c)
  <2>1. InHands(c)' = InHands(c) /\ Taken(c)' = Taken(c) /\ Logged(c)' = Logged(c)
        BY <1>1 DEF InHands, WorkersWith, InHand, Taken, IsTaken, Count, Logged, Positions
  <2>2. /\ InHands(c) \in Nat /\ Queued(c) \in Nat /\ Stored(c) \in Nat
        /\ Taken(c) \in Nat /\ Logged(c) \in Nat /\ Count(f.chunk = c) \in Nat
        BY <1>1, <1>2, CopiesAreNat DEF Count
  <2>3. Copies(c)' = InHands(c)' + Queued(c)' + Stored(c)' + Taken(c)' + Logged(c)'
        BY DEF Copies
  <2>4. Queued(c) = Queued(c)' + Count(f.chunk = c) /\ Queued(c)' \in Nat
        BY <1>3, <1>4
  <2>5. Stored(c)' = Stored(c) + Count(f.chunk = c)
        BY <1>6
  <2>. QED  BY <2>1, <2>2, <2>3, <2>4, <2>5 DEF Copies
<1>. QED  BY <1>1, <1>6, <1>7, LedgerKept

\* The wanted file is taken out of the pending ones; the main thread had none.
LEMMA TakeLedger ==
    ASSUME IInv, Ledger, Take, SomebodyStops => SomebodyStops'
    PROVE  Ledger'
<1>1. /\ TypeOK /\ IsFiniteSet(pendingFiles) /\ taken = NoFile
      /\ UNCHANGED <<work, nextChunk, chan, written>>
      BY DEF Take, IInv, TravelInv, Ledger, workerVars, chanVars
<1>2. CASE UNCHANGED <<pendingFiles, taken>>
      BY <1>1, <1>2, CopiesStay, LedgerKept
<1>3. ASSUME NEW f \in pendingFiles, pendingFiles' = pendingFiles \ {f}, taken' = f
      PROVE  Ledger'
  <2>1. IsFiniteSet(pendingFiles') /\ \A c : Stored(c)' + Count(f.chunk = c) = Stored(c)
        BY <1>1, <1>3, PendingLoses
  <2>2. ASSUME NEW c \in ChunkIds PROVE Copies(c)' = Copies(c)
    <3>1. InHands(c)' = InHands(c) /\ Queued(c)' = Queued(c) /\ Logged(c)' = Logged(c)
          BY <1>1 DEF InHands, WorkersWith, InHand, Queued, Logged, Positions
    <3>2. Taken(c)' = Count(f.chunk = c) /\ Taken(c) = 0
          BY <1>1, <1>3, NoFileCounts DEF Taken, IsTaken
    <3>3. /\ InHands(c) \in Nat /\ Queued(c) \in Nat /\ Stored(c) \in Nat
          /\ Logged(c) \in Nat /\ Count(f.chunk = c) \in Nat
          BY <1>1, CopiesAreNat DEF Count
    <3>4. Stored(c)' + Count(f.chunk = c) = Stored(c) /\ Stored(c)' \in Nat
      <4>1. {g \in pendingFiles' : g.chunk = c} \in SUBSET pendingFiles'
            OBVIOUS
      <4>2. Stored(c)' = Cardinality({g \in pendingFiles' : g.chunk = c})
            BY DEF Stored, PendingWith
      <4>. QED  BY <2>1, <4>1, <4>2, FS_Subset, FS_CardinalityType
    <3>5. /\ Copies(c)' = InHands(c)' + Queued(c)' + Stored(c)' + Taken(c)' + Logged(c)'
          /\ Copies(c) = InHands(c) + Queued(c) + Stored(c) + Taken(c) + Logged(c)
          BY DEF Copies
    <3>. QED  BY <3>1, <3>2, <3>3, <3>4, <3>5
  <2>. QED  BY <1>1, <2>1, <2>2, LedgerKept
<1>. QED  BY <1>2, <1>3 DEF Take

\* The taken file goes to the output, all of it or a part.
LEMMA WriteLedger ==
    ASSUME IInv, Ledger, mpc = "write", taken' = NoFile, SomebodyStops => SomebodyStops',
           NEW f \in Files, f.chunk = taken.chunk, written' = Append(written, f),
           UNCHANGED <<work, nextChunk, chan, pendingFiles>>
    PROVE  Ledger'
<1>1. TypeOK /\ IsFiniteSet(pendingFiles) /\ written \in Seq(Files)
      BY DEF IInv, TypeOK, OutputTypeOK, Ledger
<1>2. ASSUME NEW c \in ChunkIds PROVE Copies(c)' = Copies(c)
  <2>1. InHands(c)' = InHands(c) /\ Queued(c)' = Queued(c) /\ Stored(c)' = Stored(c)
        BY DEF InHands, WorkersWith, InHand, Queued, Positions, Stored, PendingWith
  <2>2. Taken(c) = Count(f.chunk = c) /\ Taken(c)' = 0
        BY NoFileCounts DEF Taken, IsTaken
  <2>3. Logged(c)' = Logged(c) + Count(f.chunk = c)
    <3>1. Logged(c)' = Cardinality(Positions(Append(written, f), c))
          BY DEF Logged, Positions
    <3>. QED  BY <1>1, <3>1, AppendCounts DEF Logged
  <2>4. /\ InHands(c) \in Nat /\ Queued(c) \in Nat /\ Stored(c) \in Nat
        /\ Logged(c) \in Nat /\ Count(f.chunk = c) \in Nat
        BY <1>1, CopiesAreNat DEF Count
  <2>5. /\ Copies(c)' = InHands(c)' + Queued(c)' + Stored(c)' + Taken(c)' + Logged(c)'
        /\ Copies(c) = InHands(c) + Queued(c) + Stored(c) + Taken(c) + Logged(c)
        BY DEF Copies
  <2>. QED  BY <2>1, <2>2, <2>3, <2>4, <2>5
<1>. QED  BY <1>1, <1>2, LedgerKept

\* So does every step of the main thread, and Ctrl+C.
LEMMA MainLedger ==
    ASSUME IInv, Ledger, MainStep \/ CtrlC, [Next]_vars
    PROVE  Ledger'
<1>1. TypeOK /\ UNCHANGED <<work, nextChunk>>
      BY MainFrame DEF IInv, workerVars
<1>2. SomebodyStops => SomebodyStops'
      BY <1>1, StopsStay
<1>3. CASE Receive
      BY <1>2, <1>3, ReceiveLedger
<1>4. CASE Take
      BY <1>2, <1>4, TakeLedger
<1>5. CASE WriteChunk
  <2>1. taken \in Files /\ mpc = "write"
        BY <1>5 DEF WriteChunk, IInv, TravelInv
  <2>. QED  BY <1>1, <1>2, <1>5, <2>1, WriteLedger DEF WriteChunk, chanVars
<1>6. CASE \E e \in {"interrupted", "io"} : WriteStops(e)
  <2>. DEFINE cut == [taken EXCEPT !.whole = FALSE]
  <2>1. taken \in Files /\ mpc = "write"
        BY <1>6 DEF WriteStops, IInv, TravelInv
  <2>2. cut \in Files /\ cut.chunk = taken.chunk
        BY <2>1, CutFile
  <2>3. /\ taken' = NoFile /\ written' = Append(written, cut)
        /\ UNCHANGED <<chan, pendingFiles>>
        BY <1>6 DEF WriteStops, chanVars
  <2>. HIDE DEF cut
  <2>. QED  BY <1>1, <1>2, <2>1, <2>2, <2>3, WriteLedger
<1>7. CASE UNCHANGED <<chan, pendingFiles, taken, written>>
  <2>1. IsFiniteSet(pendingFiles')
        BY <1>7 DEF Ledger
  <2>. QED  BY <1>1, <1>2, <1>7, <2>1, CopiesStay, LedgerKept
<1>8. CASE \/ OpenOutput \/ OpenFails \/ OutputTop \/ ReceiveTimeout \/ ReceiveDisconnected
           \/ ReceivedNext \/ FlushPending \/ FlushPendingFails \/ DropReceiver
           \/ JoinWorker \/ JoinedAll \/ Decide \/ Finish \/ ProcessExit \/ CtrlC
  <2>1. UNCHANGED <<chan, pendingFiles, taken, written>>
        BY <1>8 DEF OpenOutput, OpenFails, OutputTop, ReceiveTimeout, ReceiveDisconnected,
                    ReceivedNext, FlushPending, FlushPendingFails, DropReceiver,
                    JoinWorker, JoinedAll, Decide, Finish, ProcessExit, CtrlC,
                    chanVars, outVars, mainVars
  <2>. QED  BY <1>7, <2>1
<1>. QED  BY <1>3, <1>4, <1>5, <1>6, <1>8 DEF MainStep

-----------------------------------------------------------------------------
(* The ledger, and what follows from it.                                   *)

\* At first there are no chunks.
LEMMA InitLedger == Init => Ledger
<1>. SUFFICES ASSUME Init PROVE Ledger
     OBVIOUS
<1>1. IsFiniteSet(pendingFiles)
      BY FS_EmptySet DEF Init
<1>2. ASSUME NEW c \in ChunkIds PROVE Copies(c) = 0 /\ ~(c < nextChunk)
  <2>1. c # -1 /\ c >= 0 /\ c \in Int
        BY ChunkCountAssumption DEF ChunkIds
  <2>2. WorkersWith(c) = {} /\ ~IsTaken(c)
        BY <2>1 DEF Init, WorkersWith, InHand, IsTaken, NoFile
  <2>3. Positions(chan, c) = {} /\ Positions(written, c) = {} /\ PendingWith(c) = {}
        BY DEF Init, Positions, PendingWith
  <2>4. /\ InHands(c) = 0 /\ Queued(c) = 0 /\ Stored(c) = 0
        /\ Taken(c) = 0 /\ Logged(c) = 0
        BY <2>2, <2>3, FS_EmptySet DEF InHands, Queued, Stored, Taken, Logged, Count
  <2>. QED  BY <2>1, <2>4 DEF Init, Copies
<1>3. nextChunk = 0
      BY DEF Init
<1>. QED  BY <1>1, <1>2, <1>3 DEF Ledger

\* Every step keeps it.
LEMMA NextLedger == IInv /\ Ledger /\ [Next]_vars => Ledger'
<1>. SUFFICES ASSUME IInv, Ledger, [Next]_vars PROVE Ledger'
     OBVIOUS
<1>1. ASSUME NEW w \in Workers, WorkerStep(w) PROVE Ledger'
      BY <1>1, WorkerLedger
<1>2. CASE MainStep \/ CtrlC
      BY <1>2, MainLedger
<1>3. CASE UNCHANGED vars
  <2>1. /\ UNCHANGED <<work, chan, pendingFiles, taken, written>> /\ nextChunk' = nextChunk
        /\ SomebodyStops => SomebodyStops'
        BY <1>3 DEF vars, workerVars, chanVars, mainVars, outVars, SomebodyStops, Panicked
  <2>2. IsFiniteSet(pendingFiles') /\ TypeOK
        BY <2>1 DEF Ledger, IInv
  <2>. QED  BY <2>1, <2>2, CopiesStay, LedgerKept
<1>. QED  BY <1>1, <1>2, <1>3 DEF Next, Exited

\* Every claimed chunk has one copy, or none and a reason; every other one has none
\* (main.rs:168-181, 264-291).
THEOREM Accounts == Spec => []Ledger
BY InitLedger, NextLedger, Invariance, PTL DEF Spec

\* A chunk with a copy is somewhere.
LEMMA CopyIsSomewhere ==
    ASSUME TypeOK, IsFiniteSet(pendingFiles), NEW c \in ChunkIds, Copies(c) # 0
    PROVE  \/ \E w \in Workers : InHand(c, w)
           \/ \E i \in 1 .. Len(chan) : InChannel(c, i)
           \/ IsPending(c)
           \/ IsTaken(c)
           \/ \E i \in 1 .. Len(written) : IsWritten(c, i)
<1>1. Cardinality({}) = 0
      BY FS_EmptySet
<1>2. \/ InHands(c) # 0 \/ Queued(c) # 0 \/ Stored(c) # 0
      \/ Taken(c) # 0 \/ Logged(c) # 0
      BY DEF Copies
<1>3. InHands(c) # 0 => \E w \in Workers : InHand(c, w)
  <2>1. InHands(c) # 0 => WorkersWith(c) # {}
        BY <1>1 DEF InHands
  <2>. QED  BY <2>1 DEF WorkersWith
<1>4. Queued(c) # 0 => \E i \in 1 .. Len(chan) : InChannel(c, i)
  <2>1. Queued(c) # 0 => Positions(chan, c) # {}
        BY <1>1 DEF Queued
  <2>. QED  BY <2>1 DEF Positions, InChannel
<1>5. Stored(c) # 0 => IsPending(c)
  <2>1. Stored(c) # 0 => PendingWith(c) # {}
        BY <1>1 DEF Stored
  <2>. QED  BY <2>1 DEF PendingWith, IsPending
<1>6. Taken(c) # 0 => IsTaken(c)
      BY DEF Taken, Count
<1>7. Logged(c) # 0 => \E i \in 1 .. Len(written) : IsWritten(c, i)
  <2>1. Logged(c) # 0 => Positions(written, c) # {}
        BY <1>1 DEF Logged
  <2>. QED  BY <2>1 DEF Positions, IsWritten
<1>. QED  BY <1>2, <1>3, <1>4, <1>5, <1>6, <1>7

\* A claimed chunk is lost only when somebody stops the run (main.rs:163-181).
THEOREM ChunksAreKept == Spec => []NoChunkLost
<1>1. IInv /\ Ledger => NoChunkLost
  <2>. SUFFICES ASSUME IInv, Ledger, NEW c \in ChunkIds, c < nextChunk, ~SomebodyStops
                PROVE  \/ \E w \in Workers : InHand(c, w)
                       \/ \E i \in 1 .. Len(chan) : InChannel(c, i)
                       \/ IsPending(c)
                       \/ IsTaken(c)
                       \/ \E i \in 1 .. Len(written) : IsWritten(c, i)
       BY DEF NoChunkLost, SomebodyStops
  <2>1. Copies(c) = 1 /\ TypeOK /\ IsFiniteSet(pendingFiles)
        BY DEF Ledger, IInv
  <2>. QED  BY <2>1, CopyIsSomewhere
<1>. QED  BY <1>1, Accounts, Invariance, PTL

\* No chunk is in two places: BTreeMap::insert never replaces a file (main.rs:168, 267).
THEOREM ChunksAreUnique == Spec => []NoChunkTwice
<1>1. IInv /\ Ledger => NoChunkTwice
  <2>. SUFFICES ASSUME IInv, Ledger, NEW c \in ChunkIds
                PROVE  Copies(c) <= 1
       BY DEF NoChunkTwice, Copies, InHands, WorkersWith, Queued, Positions, InChannel,
              Stored, PendingWith, Taken, Count, Logged, IsWritten
  <2>1. c \in Int /\ nextChunk \in Int
        BY ChunkCountAssumption DEF ChunkIds, IInv, TypeOK, SharedTypeOK
  <2>2. Copies(c) = 0 \/ Copies(c) = 1
        BY <2>1 DEF Ledger
  <2>. QED  BY <2>2
<1>. QED  BY <1>1, Accounts, Invariance, PTL

-----------------------------------------------------------------------------
(* Who is blamed: the error that run() reports names its cause.  The hard  *)
(* case is "channel closed": the ledger shows that the wanted chunk cannot *)
(* be missing when every worker has ended well.                            *)

\* a worker that did not end well
Unlucky(w) == wpc[w] \in {"failing", "err", "panicked"}
SomebodyUnlucky == \E w \in Workers : Unlucky(w)

Interruptions == {"cancelled", "interrupted", "channel closed"}

\* The Receiver is there as long as run_output_stage is.
ReceiverInv ==
    /\ mpc \in {"open", "top", "recv", "received", "write", "flush", "drop"} => rxOpen
    /\ mpc \notin {"open", "top", "recv", "received", "write", "flush", "drop"} => ~rxOpen

\* While the output stage has no error of its own, the flag was set by Ctrl+C or by a
\* worker that reports a failure; and its error, but for I/O, goes back to one of them.
FlagInv ==
    /\ cancelled /\ outputError = "none" => ctrlC \/ \E w \in Workers : wpc[w] = "err"
    /\ outputError \in {"interrupted", "channel closed"} => ctrlC \/ SomebodyUnlucky

\* A worker ends well before it is told to only when no chunk is left.
EndedWellInv ==
    ~cancelled /\ rxOpen /\ (\E w \in Workers : wpc[w] = "ok") => nextChunk >= ChunkCount

\* What run() returned, when it had joined whom.
ExitInv ==
    /\ exit \in Interruptions => ctrlC /\ joined = Jobs
    /\ exit = "worker failed" => \E w \in Workers : wpc[w] = "err"
    /\ exit = "worker panicked" => \E w \in Workers : Panicked(w)

BlameInv == ReceiverInv /\ FlagInv /\ EndedWellInv /\ ExitInv

-----------------------------------------------------------------------------
(* The workers.                                                            *)

\* The end of a worker is its end; one that is failing goes on to report it.
LEMMA EndsStay ==
    ASSUME WorkersTypeOK, NEW w \in Workers, WorkerStep(w), NEW v \in Workers
    PROVE  /\ wpc[v] \in {"ok", "err", "panicked"} => wpc'[v] = wpc[v]
           /\ wpc[v] = "failing" => wpc'[v] \in {"failing", "err"}
<1>1. ASSUME NEW pc, wpc' = [wpc EXCEPT ![w] = pc], wpc[w] \notin {"ok", "err", "panicked"},
             wpc[w] = "failing" => pc = "err"
      PROVE  /\ wpc[v] \in {"ok", "err", "panicked"} => wpc'[v] = wpc[v]
             /\ wpc[v] = "failing" => wpc'[v] \in {"failing", "err"}
      BY <1>1 DEF WorkersTypeOK
<1>2. CASE CancelSiblings(w)
      BY <1>1, <1>2 DEF CancelSiblings, GoTo
<1>3. CASE ~CancelSiblings(w)
  <2>1. /\ wpc[w] \notin {"ok", "err", "panicked", "failing"}
        /\ \E pc \in WorkerPC : wpc' = [wpc EXCEPT ![w] = pc]
        BY <1>3 DEF WorkerStep, WorkerTop, Claim, BeginScan, EndScan, EndMerge, WorkerFails,
                    WorkerPanics, Recheck, Send, FinishOk, GoTo, WorkerPC, Unwound
  <2>. QED  BY <1>1, <2>1
<1>. QED  BY <1>2, <1>3

\* Why a worker ends well, who sets the flag, and that the counter only counts up.
LEMMA WorkerEndsWell ==
    ASSUME TypeOK, NEW w \in Workers, WorkerStep(w)
    PROVE  /\ nextChunk' >= nextChunk
           /\ cancelled' = cancelled \/ wpc'[w] = "err"
           /\ wpc'[w] = "ok" => cancelled' \/ ~rxOpen \/ nextChunk' >= ChunkCount
<1>. USE DEF TypeOK, WorkersTypeOK, SharedTypeOK, GoTo, FinishOk
<1>1. CASE Claim(w)
      BY <1>1, ChunkCountAssumption DEF Claim
<1>2. CASE WorkerTop(w) \/ Recheck(w)
      BY <1>2 DEF WorkerTop, Recheck
<1>3. CASE Send(w)
      BY <1>3 DEF Send
<1>4. CASE CancelSiblings(w)
      BY <1>4 DEF CancelSiblings
<1>5. CASE BeginScan(w) \/ EndScan(w) \/ EndMerge(w) \/ WorkerFails(w) \/ WorkerPanics(w)
      BY <1>5 DEF BeginScan, EndScan, EndMerge, WorkerFails, WorkerPanics
<1>. QED  BY <1>1, <1>2, <1>3, <1>4, <1>5 DEF WorkerStep

\* Every step of a worker keeps what the blame rests on.
LEMMA WorkerBlame ==
    ASSUME IInv, BlameInv, NEW w \in Workers, WorkerStep(w)
    PROVE  BlameInv'
<1>1. TypeOK /\ WorkersTypeOK
      BY DEF IInv, TypeOK
<1>2. UNCHANGED <<mpc, rxOpen, ctrlC, outputError, exit, joined>>
      BY WorkerFrame DEF mainVars, outVars, endVars
<1>3. ASSUME NEW v \in Workers
      PROVE  /\ wpc[v] \in {"ok", "err", "panicked"} => wpc'[v] = wpc[v]
             /\ wpc[v] = "failing" => wpc'[v] \in {"failing", "err"}
      BY <1>1, EndsStay
<1>4. /\ nextChunk' >= nextChunk
      /\ cancelled' = cancelled \/ wpc'[w] = "err"
      /\ wpc'[w] = "ok" => cancelled' \/ ~rxOpen \/ nextChunk' >= ChunkCount
      BY <1>1, WorkerEndsWell
<1>5. ReceiverInv'
      BY <1>2 DEF BlameInv, ReceiverInv
<1>6. FlagInv'
  <2>1. (\E v \in Workers : wpc[v] = "err") => \E v \in Workers : wpc'[v] = "err"
        BY <1>3
  <2>2. SomebodyUnlucky => SomebodyUnlucky'
        BY <1>3 DEF SomebodyUnlucky, Unlucky
  <2>3. outputError = "none" /\ cancelled' => ctrlC \/ \E v \in Workers : wpc'[v] = "err"
    <3>1. CASE wpc'[w] = "err"
          BY <3>1
    <3>2. CASE cancelled' = cancelled
          BY <2>1, <3>2 DEF BlameInv, FlagInv
    <3>. QED  BY <1>4, <3>1, <3>2
  <2>4. outputError \in {"interrupted", "channel closed"} => ctrlC \/ SomebodyUnlucky'
        BY <2>2 DEF BlameInv, FlagInv
  <2>. QED  BY <1>2, <2>3, <2>4 DEF FlagInv
<1>7. EndedWellInv'
  <2>. SUFFICES ASSUME ~cancelled', rxOpen', NEW v \in Workers, wpc'[v] = "ok"
                PROVE  nextChunk' >= ChunkCount
       BY DEF EndedWellInv
  <2>1. CASE v = w
        BY <1>2, <1>4, <2>1
  <2>2. CASE v # w
    <3>1. wpc[v] = "ok"
      <4>1. \E pc : wpc' = [wpc EXCEPT ![w] = pc]
            BY DEF WorkerStep, WorkerTop, Claim, BeginScan, EndScan, EndMerge, WorkerFails,
                   CancelSiblings, WorkerPanics, Recheck, Send, FinishOk, GoTo
      <4>. QED  BY <1>1, <2>2, <4>1 DEF WorkersTypeOK
    <3>2. ~cancelled
          BY CancelledStays DEF Next
    <3>3. nextChunk >= ChunkCount
          BY <1>2, <3>1, <3>2 DEF BlameInv, EndedWellInv
    <3>4. nextChunk \in Int /\ nextChunk' \in Int
      <4>1. nextChunk' = nextChunk \/ nextChunk' = nextChunk + 1
            BY DEF WorkerStep, WorkerTop, Claim, BeginScan, EndScan, EndMerge, WorkerFails,
                   CancelSiblings, WorkerPanics, Recheck, Send
      <4>. QED  BY <1>1, <4>1 DEF TypeOK, SharedTypeOK
    <3>. QED  BY <1>4, <3>3, <3>4, ChunkCountAssumption
  <2>. QED  BY <2>1, <2>2
<1>8. ExitInv'
      BY <1>2, <1>3 DEF BlameInv, ExitInv, Panicked
<1>. QED  BY <1>5, <1>6, <1>7, <1>8 DEF BlameInv

-----------------------------------------------------------------------------
(* The main thread.                                                        *)

\* The channel does not run dry when all is well: with every chunk claimed and every
\* worker ended well, the wanted one would have to be nowhere.
LEMMA DisconnectHasACause ==
    ASSUME IInv, Ledger, BlameInv, ReceiveDisconnected
    PROVE  ctrlC \/ SomebodyUnlucky
<1>1. /\ mpc = "recv" /\ ~HasNext /\ chan = <<>> /\ Disconnected /\ rxOpen
      /\ outputError = "none"
      BY DEF ReceiveDisconnected, BlameInv, ReceiverInv, IInv, OutputInv
<1>2. CASE cancelled
      BY <1>1, <1>2 DEF BlameInv, FlagInv, SomebodyUnlucky, Unlucky
<1>3. CASE ~cancelled
  <2>. SUFFICES ASSUME ~SomebodyUnlucky PROVE FALSE
       OBVIOUS
  <2>1. \A w \in Workers : wpc[w] = "ok"
        BY <1>1 DEF Disconnected, Unwound, SomebodyUnlucky, Unlucky
  <2>2. nextChunk >= ChunkCount
    <3>1. 1 \in Workers
          BY JobsAssumption DEF Workers
    <3>. QED  BY <1>1, <1>3, <2>1, <3>1 DEF BlameInv, EndedWellInv
  <2>3. /\ nextOut \in ChunkIds /\ nextOut < nextChunk /\ nextOut \in Nat
        /\ TypeOK /\ IsFiniteSet(pendingFiles)
    <3>1. nextOut \in 0 .. ChunkCount /\ nextOut < ChunkCount /\ nextChunk \in Nat
          BY <1>1 DEF IInv, TypeOK, OutputTypeOK, SharedTypeOK, OutputInv
    <3>. QED  BY <2>2, <3>1, ChunkCountAssumption DEF ChunkIds, IInv, Ledger
  <2>4. PICK c \in ChunkIds : c = nextOut
        BY <2>3
  <2>5. Copies(c) # 0
    <3>1. ~SomebodyStops
          BY <1>1, <1>3, <2>1 DEF SomebodyStops, Panicked
    <3>2. Copies(c) = 1
          BY <2>3, <2>4, <3>1 DEF Ledger
    <3>. QED  BY <3>2
  <2>6. ~\E w \in Workers : InHand(c, w)
    <3>1. ASSUME NEW w \in Workers PROVE work[w] = NoFile
          BY <2>1 DEF IInv, TypeOK, WorkersTypeOK, WorkerInv, Busy
    <3>. QED  BY <2>3, <2>4, <3>1 DEF InHand, NoFile
  <2>7. ~\E i \in 1 .. Len(chan) : InChannel(c, i)
        BY <1>1
  <2>8. ~IsPending(c)
        BY <1>1, <2>4 DEF IsPending, HasNext
  <2>9. ~IsTaken(c)
        BY <1>1, <2>3, <2>4 DEF IInv, TravelInv, IsTaken, NoFile
  <2>10. ~\E i \in 1 .. Len(written) : IsWritten(c, i)
        BY <1>1, <2>3, <2>4 DEF IInv, OutputInv, IsWritten
  <2>. QED  BY <2>3, <2>5, <2>6, <2>7, <2>8, <2>9, <2>10, CopyIsSomewhere
<1>. QED  BY <1>2, <1>3

\* A write is interrupted only when the flag was set already.
LEMMA InterruptHasACause ==
    ASSUME IInv, BlameInv, WriteStops("interrupted")
    PROVE  ctrlC \/ SomebodyUnlucky
<1>1. cancelled /\ outputError = "none"
      BY DEF WriteStops, IInv, OutputInv
<1>. QED  BY <1>1 DEF BlameInv, FlagInv, SomebodyUnlucky, Unlucky

\* When all workers were joined, only Ctrl+C is left to blame.
LEMMA AllJoined ==
    ASSUME IInv, joined = Jobs
    PROVE  ~SomebodyUnlucky /\ ~\E w \in Workers : wpc[w] = "err"
BY DEF IInv, EndInv, Workers, SomebodyUnlucky, Unlucky

\* So does every step of the main thread, and Ctrl+C.
LEMMA MainBlame ==
    ASSUME IInv, Ledger, BlameInv, MainStep \/ CtrlC
    PROVE  BlameInv'
<1>1. UNCHANGED <<wpc, nextChunk>>
      BY MainFrame DEF workerVars
<1>2. /\ (\E w \in Workers : wpc'[w] = "err") <=> (\E w \in Workers : wpc[w] = "err")
      /\ (\E w \in Workers : Panicked(w)') <=> (\E w \in Workers : Panicked(w))
      /\ (\E w \in Workers : wpc'[w] = "ok") <=> (\E w \in Workers : wpc[w] = "ok")
      /\ SomebodyUnlucky' <=> SomebodyUnlucky
      BY <1>1 DEF Panicked, SomebodyUnlucky, Unlucky
<1>3. mpc \notin {"returned", "exited"} => exit = "running"
      BY DEF IInv, EndInv
<1>4. CASE OpenOutput \/ OutputTop \/ Receive \/ ReceiveTimeout \/ ReceivedNext \/ Take
           \/ WriteChunk \/ FlushPending \/ JoinedAll \/ ProcessExit
  <2>1. /\ UNCHANGED <<cancelled, rxOpen, outputError, exit, joined, ctrlC>>
        /\ ReceiverInv'
        BY <1>4 DEF OpenOutput, OutputTop, Receive, ReceiveTimeout, ReceivedNext, Take,
                    WriteChunk, FlushPending, JoinedAll, ProcessExit, chanVars, outVars,
                    endVars, BlameInv, ReceiverInv
  <2>. QED  BY <1>1, <1>2, <2>1 DEF BlameInv, FlagInv, EndedWellInv, ExitInv
<1>5. CASE OpenFails
  <2>1. /\ mpc' = "returned" /\ rxOpen' = FALSE /\ exit' = "open failed"
        /\ UNCHANGED <<cancelled, outputError, ctrlC>>
        BY <1>5 DEF OpenFails, Return, outVars
  <2>. QED  BY <1>2, <2>1 DEF BlameInv, ReceiverInv, FlagInv, EndedWellInv, ExitInv, Interruptions
<1>6. CASE ReceiveDisconnected
  <2>1. /\ mpc = "recv" /\ mpc' = "received" /\ outputError' = "channel closed" /\ cancelled'
        /\ UNCHANGED <<rxOpen, exit, joined, ctrlC>>
        BY <1>6 DEF ReceiveDisconnected, chanVars, endVars
  <2>2. ctrlC \/ SomebodyUnlucky
        BY <1>6, DisconnectHasACause
  <2>. QED  BY <1>2, <2>1, <2>2 DEF BlameInv, ReceiverInv, FlagInv, EndedWellInv, ExitInv
<1>7. ASSUME NEW e \in {"interrupted", "io"}, WriteStops(e) PROVE BlameInv'
  <2>1. /\ mpc = "write" /\ mpc' = "flush" /\ outputError' = e /\ cancelled'
        /\ UNCHANGED <<rxOpen, exit, joined, ctrlC>>
        BY <1>7 DEF WriteStops, chanVars, endVars
  <2>2. e = "interrupted" => ctrlC \/ SomebodyUnlucky
        BY <1>7, InterruptHasACause
  <2>. QED  BY <1>2, <2>1, <2>2 DEF BlameInv, ReceiverInv, FlagInv, EndedWellInv, ExitInv
<1>8. CASE FlushPendingFails
  <2>1. /\ mpc = "flush" /\ mpc' = "drop" /\ outputError' = "io" /\ cancelled'
        /\ UNCHANGED <<rxOpen, exit, joined, ctrlC>>
        BY <1>8 DEF FlushPendingFails, chanVars, endVars
  <2>. QED  BY <1>2, <2>1 DEF BlameInv, ReceiverInv, FlagInv, EndedWellInv, ExitInv
<1>9. CASE DropReceiver
  <2>1. /\ mpc' = "join" /\ rxOpen' = FALSE
        /\ UNCHANGED <<cancelled, outputError, exit, joined, ctrlC>>
        BY <1>9 DEF DropReceiver, outVars, endVars
  <2>. QED  BY <1>2, <2>1 DEF BlameInv, ReceiverInv, FlagInv, EndedWellInv, ExitInv
<1>10. CASE JoinWorker
  <2>1. /\ mpc = "join" /\ mpc' \in {"join", "returned"} /\ joined < Jobs
        /\ UNCHANGED <<cancelled, rxOpen, outputError, ctrlC>>
        BY <1>10 DEF JoinWorker, Return, chanVars, outVars
  <2>2. /\ exit = "running"
        /\ \/ exit' = exit
           \/ exit' = "worker failed" /\ wpc[joined + 1] = "err"
           \/ exit' = "worker panicked" /\ wpc[joined + 1] = "panicked"
        BY <1>3, <1>10, <2>1 DEF JoinWorker, Return
  <2>3. joined + 1 \in Workers
        BY <2>1, JobsAssumption DEF IInv, TypeOK, EndTypeOK, Workers
  <2>4. ExitInv'
        BY <1>2, <2>2, <2>3 DEF ExitInv, Interruptions, Panicked
  <2>. QED  BY <1>1, <1>2, <2>1, <2>4 DEF BlameInv, ReceiverInv, FlagInv, EndedWellInv
<1>11. CASE Decide
  <2>1. /\ mpc = "decide" /\ mpc' \in {"returned", "finish"}
        /\ UNCHANGED <<cancelled, rxOpen, outputError, joined, ctrlC>>
        /\ \/ exit' = exit
           \/ exit' = outputError
           \/ exit' = "cancelled" /\ outputError = "none" /\ cancelled
        BY <1>11 DEF Decide, Return, chanVars, outVars
  <2>2. exit = "running" /\ joined = Jobs
        BY <1>3, <2>1 DEF IInv, EndInv
  <2>3. ~SomebodyUnlucky /\ ~\E w \in Workers : wpc[w] = "err"
        BY <2>2, AllJoined
  <2>4. outputError \in OutputErrors
        BY DEF IInv, TypeOK, OutputTypeOK
  <2>5. ExitInv'
        BY <2>1, <2>2, <2>3, <2>4 DEF ExitInv, Interruptions, BlameInv, FlagInv, OutputErrors
  <2>. QED  BY <1>1, <1>2, <2>1, <2>5 DEF BlameInv, ReceiverInv, FlagInv, EndedWellInv
<1>12. CASE Finish
  <2>1. /\ mpc = "finish" /\ mpc' = "returned" /\ exit' \in {"ok", "flush failed"}
        /\ UNCHANGED <<cancelled, rxOpen, outputError, joined, ctrlC>>
        BY <1>12 DEF Finish, Return, chanVars, outVars
  <2>. QED  BY <1>1, <1>2, <2>1 DEF BlameInv, ReceiverInv, FlagInv, EndedWellInv, ExitInv, Interruptions
<1>13. CASE CtrlC
  <2>1. cancelled' /\ ctrlC' /\ UNCHANGED <<mpc, rxOpen, outputError, exit, joined>>
        BY <1>13 DEF CtrlC, chanVars, mainVars, outVars, endVars
  <2>. QED  BY <1>2, <2>1 DEF BlameInv, ReceiverInv, FlagInv, EndedWellInv, ExitInv
<1>. QED  BY <1>4, <1>5, <1>6, <1>7, <1>8, <1>9, <1>10, <1>11, <1>12, <1>13 DEF MainStep

-----------------------------------------------------------------------------
(* The invariant, and what follows from it.                                *)

\* At first nobody is blamed.
LEMMA InitBlame == Init => BlameInv
BY DEF Init, BlameInv, ReceiverInv, FlagInv, EndedWellInv, ExitInv, Interruptions, Panicked

\* Every step keeps it.
LEMMA NextBlame == IInv /\ Ledger /\ BlameInv /\ [Next]_vars => BlameInv'
<1>. SUFFICES ASSUME IInv, Ledger, BlameInv, [Next]_vars PROVE BlameInv'
     OBVIOUS
<1>1. CASE UNCHANGED vars
      BY <1>1 DEF vars, workerVars, chanVars, mainVars, outVars, endVars, BlameInv,
                  ReceiverInv, FlagInv, EndedWellInv, ExitInv, SomebodyUnlucky, Unlucky,
                  Panicked
<1>. QED  BY <1>1, WorkerBlame, MainBlame DEF Next, Exited

\* What makes BlameIsRight inductive: the flag, the Receiver, the error of the output stage
\* and the one that run keeps agree on who has failed, in every reachable state.
THEOREM BlameInvariance == Spec => []BlameInv
BY InitBlame, NextBlame, Invariance, Accounts, PTL DEF Spec

\* The error run() reports names the cause (main.rs:503-511): after a failure or a panic of a
\* worker it never says "channel closed" or "cancelled by Ctrl+C" instead.
THEOREM BlameIsEarned == Spec => []BlameIsRight
<1>1. IInv /\ BlameInv => BlameIsRight
      BY AllJoined DEF IInv, EndInv, BlameInv, ExitInv, Interruptions, BlameIsRight, Failed,
                       Workers
<1>. QED  BY <1>1, Invariance, BlameInvariance, PTL

\* While the output stage waits the channel is empty, so that no worker can be blocked in
\* send; while join_workers waits the Receiver is gone, so that none is either.
THEOREM NoCircularWait == Spec => []NobodyStuck
<1>1. IInv /\ BlameInv => NobodyStuck
  <2>. SUFFICES ASSUME IInv, BlameInv, MainWaits, \A w \in Workers : WorkerWaits(w)
                PROVE  FALSE
       BY DEF NobodyStuck
  <2>1. CASE mpc = "recv"
    <3>1. chan = <<>> /\ ~Disconnected
          BY <2>1 DEF MainWaits
    <3>3. \A w \in Workers : wpc[w] \in {"ok", "err", "panicked"}
      <4>1. ~(Len(chan) >= Capacity)
            BY <3>1, JobsAssumption, EmptySeq DEF Capacity
      <4>. QED  BY <4>1 DEF WorkerWaits
    <3>. QED  BY <3>1, <3>3 DEF Disconnected, Unwound
  <2>2. CASE mpc = "join"
    <3>1. ~rxOpen /\ joined < Jobs /\ wpc[joined + 1] \notin {"ok", "err", "panicked"}
          BY <2>2 DEF MainWaits, BlameInv, ReceiverInv
    <3>2. joined + 1 \in Workers
          BY <3>1, JobsAssumption DEF IInv, TypeOK, EndTypeOK, Workers
    <3>. QED  BY <3>1, <3>2 DEF WorkerWaits
  <2>. QED  BY <2>1, <2>2 DEF MainWaits
<1>. QED  BY <1>1, Invariance, BlameInvariance, PTL
=============================================================================
