----------------------------- MODULE DbcsScanner -----------------------------
(***************************************************************************)
(* The scanning engine of the encodings that are not self-synchronizing:   *)
(* scanner/dbcs.rs with cp932.rs, gbk.rs, euckr.rs, big5.rs, gb18030.rs.   *)
(*                                                                         *)
(* A byte may be a lead, a trail and a character of its own, so only a     *)
(* scan from a known character boundary can tell which.  The runs touching *)
(* a chunk boundary are therefore passed on as raw bytes, and segmented    *)
(* when the output stage knows what they are joined to.                    *)
(***************************************************************************)
EXTENDS Scanners

CONSTANT
    Assigned        \* per encoding, the byte sequences encoding_rs has a character for

DbcsEncodings == {"Cp932", "Gbk", "EucKr", "Big5", "Gb18030"}
DeferredEncodings == DbcsEncodings \cup {"Iso2022Jp"}

ASSUME AssignedAssumption == DOMAIN Assigned = DeferredEncodings

IsLead(enc, b) ==
    CASE enc = "Cp932" -> b \in (129 .. 159) \cup (224 .. 252)
      [] enc = "EucKr" -> b \in 129 .. 253
      [] enc = "Big5"  -> b \in 135 .. 254
      [] enc \in {"Gbk", "Gb18030"} -> b \in 129 .. 254

IsTrail(enc, b) ==
    CASE enc = "Cp932" -> b \in (64 .. 126) \cup (128 .. 252)
      [] enc = "EucKr" -> b \in (65 .. 90) \cup (97 .. 122) \cup (129 .. 254)
      [] enc = "Big5"  -> b \in (64 .. 126) \cup (161 .. 254)
      [] enc \in {"Gbk", "Gb18030"} -> b \in (64 .. 126) \cup (128 .. 254)

IsSingle(enc, b) == IsAsciiText(b) \/ (enc = "Cp932" /\ b \in 161 .. 223)

\* a digit in second place announces the four-byte form of GB18030
StartsFourByte(enc, bytes) == enc = "Gb18030" /\ bytes[2] \in 48 .. 57

\* could b be any part of a character?
IsShaped(enc, b) == IsLead(enc, b) \/ IsTrail(enc, b) \/ IsSingle(enc, b)

\* mutant: a four-byte sequence cut short is not waited for
FourByteNotDeferred(enc, mode, bytes) ==
    LET step(kind, n) == [kind |-> kind, len |-> n, mode |-> mode]
        invalid == step("invalid", 1)
        defined(n) == SubSeq(bytes, 1, n) \in Assigned[enc]
    IN  IF IsSingle(enc, bytes[1]) THEN step("text", 1)
        ELSE IF ~IsLead(enc, bytes[1]) THEN invalid
        ELSE IF Len(bytes) = 1 THEN step("incomplete", 1)
        ELSE IF StartsFourByte(enc, bytes)
        THEN IF Len(bytes) >= 4 /\ defined(4) THEN step("text", 4) ELSE invalid
        ELSE IF IsTrail(enc, bytes[2]) /\ defined(2) THEN step("text", 2) ELSE invalid

DbcsStep(enc, mode, bytes) ==
    LET step(kind, n) == [kind |-> kind, len |-> n, mode |-> mode]
        invalid == step("invalid", 1)
        incomplete == step("incomplete", Len(bytes))
        complete(n) == step("text", n)
        defined(n) == SubSeq(bytes, 1, n) \in Assigned[enc]
    IN  IF IsSingle(enc, bytes[1]) THEN complete(1)
        ELSE IF ~IsLead(enc, bytes[1]) THEN invalid
        ELSE IF Len(bytes) = 1 THEN incomplete
        ELSE IF StartsFourByte(enc, bytes)
        THEN IF Len(bytes) < 4 THEN incomplete
             ELSE IF defined(4) THEN complete(4) ELSE invalid
        ELSE IF IsTrail(enc, bytes[2]) /\ defined(2) THEN complete(2) ELSE invalid

\* a walk over bytes in memory, and one over bytes that are read in blocks
DbcsWalk(enc, at, bytes) ==
    Walk(at, "Ascii", bytes, LAMBDA mode, left : DbcsStep(enc, mode, left))
DbcsBlockWalk(enc, at, bytes, firstRead) ==
    BlockWalk(at, bytes, firstRead, LAMBDA mode, left : DbcsStep(enc, mode, left))

\* count_chars: four two-byte sequences of Big5 decode to two characters each
CountChars(enc, chars) ==
    Len(chars)
    + (IF enc = "Big5"
       THEN Len(SelectSeq(chars, LAMBDA c : Len(c) = 2 /\ c[1] = 136
                                            /\ c[2] \in {98, 100, 163, 165}))
       ELSE 0)

\* a run decoded: close_as_text, push_fragment
DecodedRun(enc, run) ==
    LET rec == RunRecord(run, enc, FALSE, FALSE)
    IN  [rec EXCEPT !.cch = CountChars(enc, rec.data)]

DecodedRuns(enc, runs) == [n \in DOMAIN runs |-> DecodedRun(enc, runs[n])]

\* segment_raw: the decoded runs in `bytes', which start at file offset `at', and the
\* incomplete character they may end with
Segmented(enc, units, tail) ==
    [fragments |-> DecodedRuns(enc, Runs(units)), tail |-> tail]
SegmentWalk(enc, walk) == Segmented(enc, walk.units, walk.rest)
SegmentDbcs(enc, at, bytes) == SegmentWalk(enc, DbcsWalk(enc, at, bytes))

-----------------------------------------------------------------------------
(* A chunk in two parts: a leading region, which may belong to a run of    *)
(* the chunk before, and the interior.                                     *)

\* the leading bytes that may belong to a run at all
RunLen(bytes, MayBelong(_)) ==
    LET stop == SelectInSeq(bytes, LAMBDA b : ~MayBelong(b))
    IN  IF stop = 0 THEN Len(bytes) ELSE stop - 1

LeadingRecord(enc, file, first, leadEnd, end) ==
    IF leadEnd = first THEN <<>>
    ELSE <<RawRecord(first, enc, TRUE, leadEnd >= end, SubSeq(file, first + 1, leadEnd))>>

\* into_raw_record: the open run, and what could not be decided yet
TrailingRecord(enc, file, first, rawAt, end) ==
    IF rawAt = end THEN <<>>
    ELSE <<RawRecord(rawAt, enc, rawAt = first, TRUE, SubSeq(file, rawAt + 1, end))>>

\* what the block with the end of the leading region still holds
RestOfBlock(lead) == ReadBufferSize - (lead % ReadBufferSize)

\* mutant: a run that touches the end of the chunk is decoded at once
AllDecoded(enc, file, first, end, scanned, rest) ==
    LET decoded == DecodedRuns(enc, scanned.closed)
    IN  IF scanned.open = <<>> THEN decoded
        ELSE Append(decoded, [DecodedRun(enc, scanned.open) EXCEPT !.ends = TRUE])

\* the records of the interior of a chunk, from offset `at' on: closed runs are
\* decoded, a run that touches the chunk's end stays raw
LastDeferred(enc, file, first, end, scanned, rest) ==
    LET rawAt == IF scanned.open = <<>> THEN end - Len(rest) ELSE scanned.open[1].at
    IN  DecodedRuns(enc, scanned.closed) \o TrailingRecord(enc, file, first, rawAt, end)

InteriorOf(enc, file, first, end, walk) ==
    LastDeferred(enc, file, first, end, Scanned(walk.units), walk.rest)
Interior(enc, file, first, at, end) ==
    InteriorOf(enc, file, first, end,
               DbcsBlockWalk(enc, at, SubSeq(file, at + 1, end), RestOfBlock(at - first)))

\* leading_run_len
LeadingRunLen(enc, bytes) == RunLen(bytes, LAMBDA b : IsShaped(enc, b))

ScanDbcs(enc, file, first, end, minCch) ==
    LET lead == IF first = 0 THEN 0 ELSE LeadingRunLen(enc, SubSeq(file, first + 1, end))
        leadEnd == first + lead
        leading == LeadingRecord(enc, file, first, leadEnd, end)
    IN  Emit(IF leadEnd >= end THEN leading
             ELSE leading \o Interior(enc, file, first, leadEnd, end), minCch)
=============================================================================
