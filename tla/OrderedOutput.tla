--------------------------- MODULE OrderedOutput ---------------------------
(***************************************************************************)
(* What the pipeline promises about its output, with no threads in it.     *)
(*                                                                         *)
(* `log' grows by whole chunks in chunk order.  It may break off: at most  *)
(* one torn chunk is added, and nothing after it.  Once all chunks are in  *)
(* the log the strings still pending at the end of the file are flushed,   *)
(* and only then may the run succeed.  It may fail at any time before.     *)
(***************************************************************************)
EXTENDS Integers, Sequences

CONSTANT ChunkCount

VARIABLES log, status

avars == <<log, status>>

Chunk(whole) == [chunk |-> Len(log), whole |-> whole]

AInit == log = <<>> /\ status = "writing"

Emit ==
    /\ status = "writing"
    /\ Len(log) < ChunkCount
    /\ log' = Append(log, Chunk(TRUE))
    /\ UNCHANGED status

BreakOff ==
    /\ status = "writing"
    /\ log' \in {log, Append(log, Chunk(FALSE))}
    /\ status' = "broken"

FlushTail ==
    /\ status = "writing"
    /\ Len(log) = ChunkCount
    /\ status' = "flushed"
    /\ UNCHANGED log

Succeed ==
    /\ status = "flushed"
    /\ status' = "ok"
    /\ UNCHANGED log

Fail ==
    /\ status \in {"writing", "broken", "flushed"}
    /\ status' = "failed"
    /\ UNCHANGED log

ANext == Emit \/ BreakOff \/ FlushTail \/ Succeed \/ Fail

Safe == AInit /\ [][ANext]_avars

\* The run ends.
Promise == Safe /\ WF_avars(ANext)
=============================================================================
