------------------------------ MODULE ScratchDir ------------------------------
(***************************************************************************)
(* The temporary directory under the threads of Pipeline:                  *)
(* tempfile_helper.rs, and its use by run, process_chunk, the scanners and *)
(* the merger.                                                             *)
(*                                                                         *)
(* A scan or a merge begins by creating a file in the directory of the     *)
(* run (two more, if it scans both parities of UTF-16LE: one stands here). *)
(* The name is removed again at once, unless `--keep-temp' is given, and   *)
(* the worker goes on with the open file.  When run returns, its           *)
(* TempDirGuard removes the directory, entry by entry.  A worker that has  *)
(* not been joined is still running then.                                  *)
(*                                                                         *)
(* Every step is one of Pipeline, with what it does to the directory, or   *)
(* leaves the variables of Pipeline alone.                                 *)
(***************************************************************************)
EXTENDS Pipeline

VARIABLES
    keepTemp,       \* --keep-temp
    entries,        \* the names in the directory
    exists,         \* FALSE once the directory is removed
    file,           \* the temporary file each worker is working on
    guard,          \* the TempDirGuard of run
    listed          \* what a removal has found in the directory and not yet removed

scratchVars == <<keepTemp, entries, exists, file, guard, listed>>
allVars == <<vars, scratchVars>>

\* one file per encoding and chunk, and one for the merge
Names == ChunkIds \X (0 .. NumEncodings)
NameOf(w) ==
    <<work[w].chunk, IF wpc[w] = "merging" THEN NumEncodings ELSE scanned[w]>>

FileStates == {"none", "named", "open"}
GuardStates == {"held", "removing", "dropped"}

ScratchInit ==
    /\ Init
    /\ keepTemp \in BOOLEAN
    /\ entries = {}
    /\ exists = TRUE
    /\ file = [w \in Workers |-> "none"]
    /\ guard = "held"
    /\ listed = {}

Works(w) == Alive /\ wpc[w] \in {"scanning", "merging"}

-----------------------------------------------------------------------------
(* create_temp_file, and the rest of a scan or a merge.                    *)

CreateFile(w) ==
    /\ Works(w)
    /\ file[w] = "none"
    /\ exists
    /\ entries' = entries \cup {NameOf(w)}
    /\ file' = [file EXCEPT ![w] = "named"]
    /\ UNCHANGED <<vars, keepTemp, exists, guard, listed>>

\* mutant: the name is left to the guard
NameIsLeft(w) ==
    /\ Works(w)
    /\ file[w] = "named"
    /\ file' = [file EXCEPT ![w] = "open"]
    /\ UNCHANGED <<vars, keepTemp, entries, exists, guard, listed>>

\* into_file, or keep
DetachFile(w) ==
    /\ Works(w)
    /\ file[w] = "named"
    /\ file' = [file EXCEPT ![w] = "open"]
    /\ entries' = IF keepTemp THEN entries ELSE entries \ {NameOf(w)}
    /\ UNCHANGED <<vars, keepTemp, exists, guard, listed>>

\* mutant: the file of one scan is used for the next
FileIsReused(w) ==
    /\ Alive
    /\ file[w] = "open"
    /\ EndScan(w) \/ EndMerge(w)
    /\ UNCHANGED scratchVars

\* the scan or the merge returns its file
FinishFile(w) ==
    /\ Alive
    /\ file[w] = "open"
    /\ EndScan(w) \/ EndMerge(w)
    /\ file' = [file EXCEPT ![w] = "none"]
    /\ UNCHANGED <<keepTemp, entries, exists, guard, listed>>

\* an I/O error or a panic, at any time, and the only way on if the directory is gone: a
\* NamedTempFile that is dropped removes its name
AbandonFile(w) ==
    /\ Alive
    /\ WorkerFails(w) \/ WorkerPanics(w)
    /\ file' = [file EXCEPT ![w] = "none"]
    /\ entries' = IF file[w] = "named" THEN entries \ {NameOf(w)} ELSE entries
    /\ UNCHANGED <<keepTemp, exists, guard, listed>>

\* the steps of a worker that have nothing to do with the directory
OtherWorkerStep(w) ==
    /\ Alive
    /\ \/ WorkerTop(w) \/ Claim(w) \/ BeginScan(w) \/ CancelSiblings(w)
       \/ Recheck(w) \/ Send(w)
    /\ UNCHANGED scratchVars

ScratchWorkerStep(w) ==
    \/ CreateFile(w) \/ DetachFile(w) \/ FinishFile(w)
    \/ AbandonFile(w) \/ OtherWorkerStep(w)

-----------------------------------------------------------------------------
(* Drop of TempDirGuard, when run has returned.                            *)

\* mutant: the flag is taken the wrong way round
DropGuardInverted ==
    /\ mpc = "returned"
    /\ guard = "held"
    /\ guard' = IF keepTemp THEN "removing" ELSE "dropped"
    /\ listed' = entries
    /\ UNCHANGED <<vars, keepTemp, entries, exists, file>>

\* temp_guard.keep(), or the drop of the guard: TempDir lists the directory, if it is to go
DropGuard ==
    /\ mpc = "returned"
    /\ guard = "held"
    /\ guard' = IF keepTemp THEN "dropped" ELSE "removing"
    /\ listed' = IF keepTemp THEN {} ELSE entries
    /\ UNCHANGED <<vars, keepTemp, entries, exists, file>>

\* remove_dir_all: an entry is unlinked; one made after the listing may be met as well
RemoveEntry ==
    /\ guard = "removing"
    /\ \E name \in entries :
           /\ entries' = entries \ {name}
           /\ listed' = listed \ {name}
    /\ UNCHANGED <<vars, keepTemp, exists, file, guard>>

\* ... and the directory, which fails if it is not empty; nobody looks at the result
RemoveDir ==
    /\ guard = "removing"
    /\ listed \cap entries = {}
    /\ exists' = (entries # {})
    /\ guard' = "dropped"
    /\ UNCHANGED <<vars, keepTemp, entries, file, listed>>

ScratchMainStep ==
    \/ DropGuard \/ RemoveEntry \/ RemoveDir
    \/ /\ mpc = "returned" => guard = "dropped"
       /\ MainStep
       /\ UNCHANGED scratchVars

ScratchNext ==
    \/ \E w \in Workers : ScratchWorkerStep(w)
    \/ ScratchMainStep
    \/ CtrlC /\ UNCHANGED scratchVars
    \/ Exited /\ UNCHANGED scratchVars

ScratchSpec == ScratchInit /\ [][ScratchNext]_allVars

-----------------------------------------------------------------------------
(* Properties.                                                             *)

\* The variables keep their types, and a worker has a file only while it scans or merges.
ScratchTypeOK ==
    /\ TypeOK
    /\ keepTemp \in BOOLEAN
    /\ entries \subseteq Names
    /\ exists \in BOOLEAN
    /\ file \in [Workers -> FileStates]
    /\ guard \in GuardStates
    /\ listed \subseteq Names
    /\ \A w \in Workers : file[w] # "none" => wpc[w] \in {"scanning", "merging"}

\* Without --keep-temp a name is in the directory only until its worker has unlinked it
\* (tempfile_helper.rs:102): however a worker ends, it leaves none behind.
NamesAreTransient ==
    ~keepTemp => \A name \in entries : \E w \in Workers : file[w] = "named" /\ NameOf(w) = name

\* When every worker has been joined, the directory is gone in the end, whether the run
\* succeeded, failed or was cancelled.
JoinedRunsCleanUp ==
    mpc = "exited" /\ ~keepTemp /\ joined = Jobs => ~exists

\* With --keep-temp a run that succeeds leaves every chunk's file of every encoding and
\* every merged file (main.rs:515), and no run loses one that was finished.
KeptWhole ==
    keepTemp =>
        /\ exists
        /\ mpc = "exited" /\ exit = "ok" => entries = Names
        /\ \A c \in ChunkIds, i \in 1 .. Len(written) :
               IsWritten(c, i) => {c} \X (0 .. NumEncodings) \subseteq entries

\* The directory and everything in it is deleted (tempfile_helper.rs:7).
NothingLeftBehind == mpc = "exited" /\ ~keepTemp => ~exists
=============================================================================
