------------------------------ MODULE Pipeline ------------------------------
(***************************************************************************)
(* The thread structure of pstrings: src/src/main.rs.                      *)
(*                                                                         *)
(* `Jobs' worker threads claim chunk indices from a shared counter, scan   *)
(* and merge each claimed chunk into a temporary file, and send the file   *)
(* through a bounded channel.  The main thread receives files in any       *)
(* order, writes them in chunk order, flushes what is pending, joins the   *)
(* workers and decides the exit status.  One flag, `cancelled', is shared  *)
(* by everybody: the Ctrl+C handler, a failing worker and the output stage *)
(* set it, and nobody ever clears it.                                      *)
(*                                                                         *)
(* A chunk's file is abstracted to its index and to whether it is whole: a *)
(* scanner or the merge that notices `cancelled' stops early and returns   *)
(* Ok with a truncated file.  Each thread's reads of `cancelled' are steps *)
(* of their own, interleaved with everything else.                         *)
(***************************************************************************)
EXTENDS Integers, Sequences, FiniteSets

CONSTANTS
    Jobs,           \* cfg.jobs(): number of worker threads
    ChunkCount,     \* number of chunks of the input file
    NumEncodings    \* cfg.encodings().len()

ASSUME JobsAssumption == Jobs \in Nat \ {0}                 \* main.rs:42
ASSUME ChunkCountAssumption == ChunkCount \in Nat \ {0}     \* main.rs:27
ASSUME NumEncodingsAssumption == NumEncodings \in Nat \ {0}

Workers == 1 .. Jobs
ChunkIds == 0 .. ChunkCount - 1
Capacity == 2 * Jobs

\* A merged chunk file: which chunk, and whether every record is in it.
Files == [chunk : ChunkIds, whole : BOOLEAN]
NoFile == [chunk |-> -1, whole |-> FALSE]

VARIABLES
    wpc,            \* where each worker is in worker_loop
    work,           \* the file each worker is producing, NoFile if none
    scanned,        \* encodings each worker has scanned of its chunk
    nextChunk,      \* the shared counter next_chunk
    cancelled,      \* the shared flag
    chan,           \* contents of the bounded channel, oldest first
    rxOpen,         \* FALSE once the Receiver is dropped
    mpc,            \* where the main thread is in run / run_output_stage
    pendingFiles,   \* received files waiting for their turn
    taken,          \* the file output_merged_chunk is working on, NoFile if none
    nextOut,        \* next_output_chunk
    written,        \* what reached the output, in order
    tailFlushed,    \* flush_pending succeeded
    outputError,    \* run_output_stage's result
    joined,         \* how many worker handles have been joined
    exit,           \* run()'s result
    ctrlC           \* the user pressed Ctrl+C

workerVars == <<wpc, work, scanned>>
chanVars == <<chan, rxOpen>>
outVars == <<pendingFiles, taken, nextOut, written, tailFlushed, outputError>>
endVars == <<joined, exit>>
mainVars == <<mpc, outVars, endVars>>
vars == <<workerVars, nextChunk, cancelled, chanVars, mainVars, ctrlC>>

\* thread states in which worker_loop has returned or unwound: its Sender is gone
Unwound == {"failing", "ok", "err", "panicked"}
WorkerPC == Unwound \cup
            {"top", "claim", "encodings", "scanning", "merging", "recheck", "send"}
MainPC == {"open", "top", "recv", "received", "write", "flush", "drop",
           "join", "decide", "finish", "returned", "exited"}
OutputErrors == {"none", "channel closed", "interrupted", "io"}
ExitCodes == {"running", "ok", "open failed", "worker failed", "worker panicked",
              "channel closed", "interrupted", "io", "cancelled", "flush failed"}

WorkersTypeOK ==
    /\ wpc \in [Workers -> WorkerPC]
    /\ work \in [Workers -> Files \cup {NoFile}]
    /\ scanned \in [Workers -> 0 .. NumEncodings]

SharedTypeOK ==
    /\ nextChunk \in Nat
    /\ cancelled \in BOOLEAN
    /\ chan \in Seq(Files)
    /\ rxOpen \in BOOLEAN
    /\ ctrlC \in BOOLEAN

OutputTypeOK ==
    /\ pendingFiles \in SUBSET Files
    /\ taken \in Files \cup {NoFile}
    /\ nextOut \in 0 .. ChunkCount
    /\ written \in Seq(Files)
    /\ tailFlushed \in BOOLEAN
    /\ outputError \in OutputErrors

EndTypeOK ==
    /\ mpc \in MainPC
    /\ joined \in 0 .. Jobs
    /\ exit \in ExitCodes

\* Every variable keeps its type: scanned stays within the encodings, joined within
\* the jobs, next_output_chunk within the chunks (main.rs:119, 348, 259).
TypeOK == WorkersTypeOK /\ SharedTypeOK /\ OutputTypeOK /\ EndTypeOK

Init ==
    /\ wpc = [w \in Workers |-> "top"]
    /\ work = [w \in Workers |-> NoFile]
    /\ scanned = [w \in Workers |-> 0]
    /\ nextChunk = 0
    /\ cancelled = FALSE
    /\ chan = <<>>
    /\ rxOpen = TRUE
    /\ mpc = "open"
    /\ pendingFiles = {}
    /\ taken = NoFile
    /\ nextOut = 0
    /\ written = <<>>
    /\ tailFlushed = FALSE
    /\ outputError = "none"
    /\ joined = 0
    /\ exit = "running"
    /\ ctrlC = FALSE

-----------------------------------------------------------------------------
(* Worker threads: worker_loop, process_chunk and the spawned closure.     *)

Alive == mpc # "exited"         \* process::exit stops every thread

GoTo(w, pc) == wpc' = [wpc EXCEPT ![w] = pc]

\* worker_loop returns Ok: the handle's result is Ok(()) and `tx' is dropped
FinishOk(w) ==
    /\ GoTo(w, "ok")
    /\ work' = [work EXCEPT ![w] = NoFile]

\* the cancellation check at the top of the loop
WorkerTop(w) ==
    /\ wpc[w] = "top"
    /\ IF cancelled THEN FinishOk(w) ELSE GoTo(w, "claim") /\ UNCHANGED work
    /\ UNCHANGED <<scanned, nextChunk, cancelled, chanVars, mainVars, ctrlC>>

\* Mutant: a load followed by a store instead of fetch_add; another worker's claim
\* in between is lost.
ClaimLoadThenStore(w) ==
    /\ wpc[w] = "claim"
    /\ nextChunk' = IF \E v \in Workers \ {w} : wpc[v] = "claim"
                    THEN nextChunk ELSE nextChunk + 1
    /\ IF nextChunk >= ChunkCount
       THEN FinishOk(w) /\ UNCHANGED scanned
       ELSE /\ GoTo(w, "encodings")
            /\ work' = [work EXCEPT ![w] = [chunk |-> nextChunk, whole |-> TRUE]]
            /\ scanned' = [scanned EXCEPT ![w] = 0]
    /\ UNCHANGED <<cancelled, chanVars, mainVars, ctrlC>>

\* Mutant: past the last chunk the loop continues instead of breaking.
ClaimContinues(w) ==
    /\ wpc[w] = "claim"
    /\ IF nextChunk >= ChunkCount
       THEN GoTo(w, "top") /\ UNCHANGED <<nextChunk, work, scanned>>
       ELSE /\ nextChunk' = nextChunk + 1
            /\ GoTo(w, "encodings")
            /\ work' = [work EXCEPT ![w] = [chunk |-> nextChunk, whole |-> TRUE]]
            /\ scanned' = [scanned EXCEPT ![w] = 0]
    /\ UNCHANGED <<cancelled, chanVars, mainVars, ctrlC>>

\* next_chunk.fetch_add(1), and the check that the chunk exists
Claim(w) ==
    /\ wpc[w] = "claim"
    /\ nextChunk' = nextChunk + 1
    /\ IF nextChunk >= ChunkCount
       THEN FinishOk(w) /\ UNCHANGED scanned
       ELSE /\ GoTo(w, "encodings")
            /\ work' = [work EXCEPT ![w] = [chunk |-> nextChunk, whole |-> TRUE]]
            /\ scanned' = [scanned EXCEPT ![w] = 0]
    /\ UNCHANGED <<cancelled, chanVars, mainVars, ctrlC>>

\* process_chunk's loop over the encodings: the check before each scan
BeginScan(w) ==
    /\ wpc[w] = "encodings"
    /\ IF cancelled
       THEN GoTo(w, "merging") /\ work' = [work EXCEPT ![w].whole = FALSE]
       ELSE GoTo(w, "scanning") /\ UNCHANGED work
    /\ UNCHANGED <<scanned, nextChunk, cancelled, chanVars, mainVars, ctrlC>>

\* a scan (or a merge) that polls `cancelled' may stop early, and still returns Ok
MayTruncate(w) ==
    \/ UNCHANGED work
    \/ cancelled /\ work' = [work EXCEPT ![w].whole = FALSE]

\* Mutant: one scan too many before the merge.
EndScanTooLate(w) ==
    /\ wpc[w] = "scanning"
    /\ MayTruncate(w)
    /\ scanned' = [scanned EXCEPT ![w] = @ + 1]
    /\ GoTo(w, IF scanned[w] = NumEncodings THEN "merging" ELSE "encodings")
    /\ UNCHANGED <<nextChunk, cancelled, chanVars, mainVars, ctrlC>>

EndScan(w) ==
    /\ wpc[w] = "scanning"
    /\ MayTruncate(w)
    /\ scanned' = [scanned EXCEPT ![w] = @ + 1]
    /\ GoTo(w, IF scanned[w] + 1 = NumEncodings THEN "merging" ELSE "encodings")
    /\ UNCHANGED <<nextChunk, cancelled, chanVars, mainVars, ctrlC>>

EndMerge(w) ==
    /\ wpc[w] = "merging"
    /\ MayTruncate(w)
    /\ GoTo(w, "recheck")
    /\ UNCHANGED <<scanned, nextChunk, cancelled, chanVars, mainVars, ctrlC>>

\* Mutant: the error is swallowed and the worker goes on with the next chunk.
WorkerFailsQuietly(w) ==
    /\ wpc[w] \in {"scanning", "merging"}
    /\ GoTo(w, "top")
    /\ work' = [work EXCEPT ![w] = NoFile]
    /\ UNCHANGED <<scanned, nextChunk, cancelled, chanVars, mainVars, ctrlC>>

\* an I/O error in scan or merge_chunk_encodings propagates out of worker_loop
WorkerFails(w) ==
    /\ wpc[w] \in {"scanning", "merging"}
    /\ GoTo(w, "failing")
    /\ work' = [work EXCEPT ![w] = NoFile]
    /\ UNCHANGED <<scanned, nextChunk, cancelled, chanVars, mainVars, ctrlC>>

\* the spawned closure: only now, after worker_loop dropped `tx', is the flag set
CancelSiblings(w) ==
    /\ wpc[w] = "failing"
    /\ GoTo(w, "err")
    /\ cancelled' = TRUE
    /\ UNCHANGED <<work, scanned, nextChunk, chanVars, mainVars, ctrlC>>

\* a panic unwinds past the closure: `tx' is dropped, the flag is not set
WorkerPanics(w) ==
    /\ wpc[w] \in {"scanning", "merging"}
    /\ GoTo(w, "panicked")
    /\ work' = [work EXCEPT ![w] = NoFile]
    /\ UNCHANGED <<scanned, nextChunk, cancelled, chanVars, mainVars, ctrlC>>

\* Mutant: no check between process_chunk and the send.
RecheckSkipped(w) ==
    /\ wpc[w] = "recheck"
    /\ GoTo(w, "send")
    /\ UNCHANGED <<work, scanned, nextChunk, cancelled, chanVars, mainVars, ctrlC>>

\* the second check: a file made while `cancelled' was being set is not sent
Recheck(w) ==
    /\ wpc[w] = "recheck"
    /\ IF cancelled THEN FinishOk(w) ELSE GoTo(w, "send") /\ UNCHANGED work
    /\ UNCHANGED <<scanned, nextChunk, cancelled, chanVars, mainVars, ctrlC>>

\* tx.send: blocks while the channel is full, fails once the Receiver is gone
Send(w) ==
    /\ wpc[w] = "send"
    /\ \/ /\ ~rxOpen
          /\ FinishOk(w)
          /\ UNCHANGED chan
       \/ /\ rxOpen
          /\ Len(chan) < Capacity
          /\ chan' = Append(chan, work[w])
          /\ GoTo(w, "top")
          /\ work' = [work EXCEPT ![w] = NoFile]
    /\ UNCHANGED <<scanned, nextChunk, cancelled, rxOpen, mainVars, ctrlC>>

WorkerStep(w) ==
    /\ Alive
    /\ \/ WorkerTop(w) \/ Claim(w) \/ BeginScan(w) \/ EndScan(w) \/ EndMerge(w)
       \/ WorkerFails(w) \/ CancelSiblings(w) \/ WorkerPanics(w)
       \/ Recheck(w) \/ Send(w)

-----------------------------------------------------------------------------
(* The main thread: run, run_output_stage and join_workers.                *)

Disconnected == \A w \in Workers : wpc[w] \in Unwound
HasNext == \E f \in pendingFiles : f.chunk = nextOut

Return(code) == mpc' = "returned" /\ exit' = code

\* make_output_writer, called when the workers are already running
OpenOutput ==
    /\ mpc = "open"
    /\ mpc' = "top"
    /\ UNCHANGED <<workerVars, nextChunk, cancelled, chanVars, outVars, endVars, ctrlC>>

\* ... and its `?': run returns, dropping the Receiver and detaching the workers
OpenFails ==
    /\ mpc = "open"
    /\ Return("open failed")
    /\ rxOpen' = FALSE
    /\ UNCHANGED <<workerVars, nextChunk, cancelled, chan, outVars, joined, ctrlC>>

\* the loop condition of run_output_stage and the check that follows it
OutputTop ==
    /\ mpc = "top"
    /\ mpc' = IF nextOut < ChunkCount /\ ~cancelled THEN "recv" ELSE "flush"
    /\ UNCHANGED <<workerVars, nextChunk, cancelled, chanVars, outVars, endVars, ctrlC>>

\* recv_timeout returns a file
Receive ==
    /\ mpc = "recv"
    /\ ~HasNext
    /\ chan # <<>>
    /\ pendingFiles' = pendingFiles \cup {Head(chan)}
    /\ chan' = Tail(chan)
    /\ UNCHANGED <<workerVars, nextChunk, cancelled, rxOpen, mpc, taken, nextOut,
                   written, tailFlushed, outputError, endVars, ctrlC>>

\* Mutant: every timeout leaves the inner loop.
ReceiveTimeoutAlwaysLeaves ==
    /\ mpc = "recv"
    /\ ~HasNext
    /\ chan = <<>>
    /\ ~Disconnected
    /\ mpc' = "received"
    /\ UNCHANGED <<workerVars, nextChunk, cancelled, chanVars, outVars, endVars, ctrlC>>

\* recv_timeout times out on an empty channel and the flag is set.  (A timeout
\* with the flag clear goes back to recv_timeout and changes nothing.)
ReceiveTimeout ==
    /\ mpc = "recv"
    /\ ~HasNext
    /\ chan = <<>>
    /\ ~Disconnected
    /\ cancelled
    /\ mpc' = "received"
    /\ UNCHANGED <<workerVars, nextChunk, cancelled, chanVars, outVars, endVars, ctrlC>>

\* recv_timeout finds the channel empty and every Sender gone
ReceiveDisconnected ==
    /\ mpc = "recv"
    /\ ~HasNext
    /\ chan = <<>>
    /\ Disconnected
    /\ outputError' = "channel closed"
    /\ cancelled' = TRUE
    /\ mpc' = "received"
    /\ UNCHANGED <<workerVars, nextChunk, chanVars, pendingFiles, taken, nextOut,
                   written, tailFlushed, endVars, ctrlC>>

\* the inner loop ends because the wanted chunk is there
ReceivedNext ==
    /\ mpc = "recv"
    /\ HasNext
    /\ mpc' = "received"
    /\ UNCHANGED <<workerVars, nextChunk, cancelled, chanVars, outVars, endVars, ctrlC>>

\* the check after the inner loop, then pending_files.remove(..).unwrap()
Take ==
    /\ mpc = "received"
    /\ IF cancelled
       THEN mpc' = "flush" /\ UNCHANGED <<pendingFiles, taken>>
       ELSE \E f \in pendingFiles :
                /\ f.chunk = nextOut
                /\ mpc' = "write"
                /\ pendingFiles' = pendingFiles \ {f}
                /\ taken' = f
    /\ UNCHANGED <<workerVars, nextChunk, cancelled, chanVars, nextOut, written,
                   tailFlushed, outputError, endVars, ctrlC>>

\* output_merged_chunk returns Ok: every record of the file went through
WriteChunk ==
    /\ mpc = "write"
    /\ written' = Append(written, taken)
    /\ taken' = NoFile
    /\ nextOut' = nextOut + 1
    /\ mpc' = "top"
    /\ UNCHANGED <<workerVars, nextChunk, cancelled, chanVars, pendingFiles,
                   tailFlushed, outputError, endVars, ctrlC>>

\* ... or Err, after some of them: an I/O error, or `cancelled' polled midway
WriteStops(error) ==
    /\ mpc = "write"
    /\ error = "interrupted" => cancelled
    /\ written' = Append(written, [taken EXCEPT !.whole = FALSE])
    /\ taken' = NoFile
    /\ outputError' = error
    /\ cancelled' = TRUE
    /\ mpc' = "flush"
    /\ UNCHANGED <<workerVars, nextChunk, chanVars, pendingFiles, nextOut,
                   tailFlushed, endVars, ctrlC>>

\* Mutant: the pending strings are flushed even when the loop was left early.
FlushPendingAlways ==
    /\ mpc = "flush"
    /\ tailFlushed' = TRUE
    /\ mpc' = "drop"
    /\ UNCHANGED <<workerVars, nextChunk, cancelled, chanVars, pendingFiles, taken,
                   nextOut, written, outputError, endVars, ctrlC>>

\* after the loop: flush_pending, unless cancelled
FlushPending ==
    /\ mpc = "flush"
    /\ tailFlushed' = ~cancelled
    /\ mpc' = "drop"
    /\ UNCHANGED <<workerVars, nextChunk, cancelled, chanVars, pendingFiles, taken,
                   nextOut, written, outputError, endVars, ctrlC>>

FlushPendingFails ==
    /\ mpc = "flush"
    /\ ~cancelled
    /\ outputError' = "io"
    /\ cancelled' = TRUE
    /\ mpc' = "drop"
    /\ UNCHANGED <<workerVars, nextChunk, chanVars, pendingFiles, taken, nextOut,
                   written, tailFlushed, endVars, ctrlC>>

\* Mutant: the output stage's error is returned before the workers are joined.
DropReceiverSkipsJoin ==
    /\ mpc = "drop"
    /\ rxOpen' = FALSE
    /\ mpc' = IF outputError = "none" THEN "join" ELSE "decide"
    /\ UNCHANGED <<workerVars, nextChunk, cancelled, chan, outVars, endVars, ctrlC>>

\* Mutant: run_output_stage borrows the Receiver and leaves it to run to drop it.
DropReceiverLater ==
    /\ mpc = "drop"
    /\ mpc' = "join"
    /\ UNCHANGED <<workerVars, nextChunk, cancelled, chanVars, outVars, endVars, ctrlC>>

\* run_output_stage returns and drops the Receiver it was given
DropReceiver ==
    /\ mpc = "drop"
    /\ rxOpen' = FALSE
    /\ mpc' = "join"
    /\ UNCHANGED <<workerVars, nextChunk, cancelled, chan, outVars, endVars, ctrlC>>

\* join_workers waits for the handles in order and stops at the first failure,
\* which detaches the workers behind it
JoinWorker ==
    /\ mpc = "join"
    /\ joined < Jobs
    /\ LET result == wpc[joined + 1] IN
       \/ /\ result = "ok"
          /\ joined' = joined + 1
          /\ UNCHANGED <<mpc, exit>>
       \/ /\ result = "err"
          /\ Return("worker failed")
          /\ UNCHANGED joined
       \/ /\ result = "panicked"
          /\ Return("worker panicked")
          /\ UNCHANGED joined
    /\ UNCHANGED <<workerVars, nextChunk, cancelled, chanVars, outVars, ctrlC>>

JoinedAll ==
    /\ mpc = "join"
    /\ joined = Jobs
    /\ mpc' = "decide"
    /\ UNCHANGED <<workerVars, nextChunk, cancelled, chanVars, outVars, endVars, ctrlC>>

\* Mutant: the flag is not looked at again.
DecideIgnoresCancel ==
    /\ mpc = "decide"
    /\ \/ /\ outputError # "none"
          /\ Return(outputError)
       \/ /\ outputError = "none"
          /\ mpc' = "finish"
          /\ UNCHANGED exit
    /\ UNCHANGED <<workerVars, nextChunk, cancelled, chanVars, outVars, joined, ctrlC>>

\* output_error first, then the flag, then the final output.flush()
Decide ==
    /\ mpc = "decide"
    /\ \/ /\ outputError # "none"
          /\ Return(outputError)
       \/ /\ outputError = "none"
          /\ cancelled
          /\ Return("cancelled")
       \/ /\ outputError = "none"
          /\ ~cancelled
          /\ mpc' = "finish"
          /\ UNCHANGED exit
    /\ UNCHANGED <<workerVars, nextChunk, cancelled, chanVars, outVars, joined, ctrlC>>

Finish ==
    /\ mpc = "finish"
    /\ \E code \in {"ok", "flush failed"} : Return(code)
    /\ UNCHANGED <<workerVars, nextChunk, cancelled, chanVars, outVars, joined, ctrlC>>

\* main returns or calls process::exit(1)
ProcessExit ==
    /\ mpc = "returned"
    /\ mpc' = "exited"
    /\ UNCHANGED <<workerVars, nextChunk, cancelled, chanVars, outVars, endVars, ctrlC>>

MainStep ==
    \/ OpenOutput \/ OpenFails \/ OutputTop
    \/ Receive \/ ReceiveTimeout \/ ReceiveDisconnected \/ ReceivedNext
    \/ Take \/ WriteChunk \/ (\E e \in {"interrupted", "io"} : WriteStops(e))
    \/ FlushPending \/ FlushPendingFails \/ DropReceiver
    \/ JoinWorker \/ JoinedAll \/ Decide \/ Finish \/ ProcessExit

-----------------------------------------------------------------------------
\* the Ctrl+C handler
CtrlC ==
    /\ Alive
    /\ ~ctrlC
    /\ ctrlC' = TRUE
    /\ cancelled' = TRUE
    /\ UNCHANGED <<workerVars, nextChunk, chanVars, mainVars>>

Exited == mpc = "exited" /\ UNCHANGED vars

Next ==
    \/ \E w \in Workers : WorkerStep(w)
    \/ MainStep
    \/ CtrlC
    \/ Exited

Spec == Init /\ [][Next]_vars

\* Every thread keeps running; nobody has to press Ctrl+C.
Fairness ==
    /\ \A w \in Workers : WF_vars(WorkerStep(w))
    /\ WF_vars(MainStep)

FairSpec == Spec /\ Fairness

-----------------------------------------------------------------------------
(* Properties.                                                             *)

Failed(w) == wpc[w] \in {"failing", "err"}
Panicked(w) == wpc[w] = "panicked"

\* A file that was cut short because `cancelled' was being set never leaves its
\* worker: the flag is never cleared, so the second check of worker_loop catches
\* what a scanner or the merge saw.  Everything in the channel, in pending_files
\* or being written is whole.
OnlyWholeFilesTravel ==
    /\ \A i \in 1 .. Len(chan) : chan[i].whole
    /\ \A f \in pendingFiles : f.whole
    /\ taken # NoFile => taken.whole
    /\ \A w \in Workers : wpc[w] = "send" => work[w].whole

\* pending_files.remove(&next_output_chunk).unwrap() finds the file: the inner
\* receive loop is left without it only when the flag is set, and then the check
\* in between sees the flag.
NextFilePresent == mpc = "received" /\ ~cancelled => HasNext

\* Where a chunk's file can be.
InHand(c, w) == work[w].chunk = c
InChannel(c, i) == chan[i].chunk = c
IsPending(c) == \E f \in pendingFiles : f.chunk = c
IsTaken(c) == taken.chunk = c
IsWritten(c, i) == written[i].chunk = c

\* A claimed chunk disappears only when somebody has a reason to stop the run:
\* cancellation, a worker that failed or panicked, or a Receiver that is gone.
\* (main.rs: a failing worker's file is lost before it sets the flag.)
NoChunkLost ==
    \A c \in ChunkIds : c < nextChunk =>
        \/ \E w \in Workers : InHand(c, w)
        \/ \E i \in 1 .. Len(chan) : InChannel(c, i)
        \/ IsPending(c)
        \/ IsTaken(c)
        \/ \E i \in 1 .. Len(written) : IsWritten(c, i)
        \/ cancelled
        \/ ~rxOpen
        \/ \E w \in Workers : wpc[w] = "failing" \/ Panicked(w)

\* No chunk is ever in two places: the counter hands every index to one worker,
\* and the file moves on, it is never copied.  (BTreeMap::insert would silently
\* drop one of two files of the same chunk.)
NoChunkTwice ==
    \A c \in ChunkIds :
        Cardinality({w \in Workers : InHand(c, w)})
        + Cardinality({i \in 1 .. Len(chan) : InChannel(c, i)})
        + Cardinality({f \in pendingFiles : f.chunk = c})
        + (IF IsTaken(c) THEN 1 ELSE 0)
        + Cardinality({i \in 1 .. Len(written) : IsWritten(c, i)}) <= 1

\* run() returns Ok only when every chunk went to the output whole and in order,
\* the pending strings were flushed after them, and every worker was joined and
\* ended well.  Ctrl+C at the very end does not change it.
SuccessIsComplete ==
    exit = "ok" =>
        /\ written = [i \in 1 .. ChunkCount |-> [chunk |-> i - 1, whole |-> TRUE]]
        /\ tailFlushed
        /\ outputError = "none"
        /\ \A w \in Workers : wpc[w] = "ok"

\* The error run() reports names the cause.  "cancelled by Ctrl+C", from the last
\* check or from a write that was interrupted, and "channel closed" only ever
\* follow a real Ctrl+C: when a worker failed or panicked, joining finds it
\* first.  A worker is reported only when one did fail or panic.
BlameIsRight ==
    /\ exit \in {"cancelled", "interrupted", "channel closed"} =>
           /\ ctrlC
           /\ \A w \in Workers : wpc[w] = "ok"
    /\ exit = "worker failed" => \E w \in Workers : Failed(w)
    /\ exit = "worker panicked" => \E w \in Workers : Panicked(w)

\* recv_timeout would go on waiting, or the handle to be joined next has no result yet
MainWaits ==
    \/ mpc = "recv" /\ ~HasNext /\ chan = <<>> /\ ~Disconnected /\ ~cancelled
    \/ mpc = "join" /\ joined < Jobs /\ wpc[joined + 1] \notin {"ok", "err", "panicked"}

\* blocked in send on a full channel, or ended
WorkerWaits(w) ==
    \/ wpc[w] = "send" /\ rxOpen /\ Len(chan) >= Capacity
    \/ wpc[w] \in {"ok", "err", "panicked"}

\* The threads never all wait for each other: the output stage takes from a full channel
\* before it waits, and a worker parked in send sees that the Receiver is gone before it is
\* joined (main.rs:500-502).
NobodyStuck == ~(MainWaits /\ \A w \in Workers : WorkerWaits(w))

\* The run ends: no worker stays blocked on the full channel, the main thread
\* never waits for a chunk nobody will send, nor for a worker that cannot end.
Terminates == <>(mpc = "exited")

\* The pipeline implements the ordered output.
OutputStatus ==
    IF exit = "ok" THEN "ok"
    ELSE IF exit # "running" THEN "failed"
    ELSE IF outputError # "none" THEN "broken"
    ELSE IF tailFlushed THEN "flushed"
    ELSE "writing"

Output == INSTANCE OrderedOutput WITH log <- written, status <- OutputStatus

\* Whatever the interleaving of workers, output stage and Ctrl+C, the output only
\* ever grows as OrderedOutput allows, and the run ends.
ImplementsOrderedOutput == Output!Promise
=============================================================================
