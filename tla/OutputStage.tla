----------------------------- MODULE OutputStage -----------------------------
(***************************************************************************)
(* What becomes of the bytes: scan, merge, and outputter.rs.               *)
(*                                                                         *)
(* The chunks of one input are scanned for every selected encoding, merged *)
(* by offset and handed, in chunk order, to output_merged_chunk.  A run    *)
(* that touches the end of its chunk is kept in `pending', one per         *)
(* encoding, until the start of the next chunk shows whether it goes on.   *)
(* After the last chunk flush_pending writes what is left.  (Pipeline      *)
(* models the threads that bring the chunks here in order.)                *)
(***************************************************************************)
EXTENDS Iso2022JpScanner, Utf16leScanner

CONSTANT
    Inputs          \* the inputs: [bytes, chunkSize, minCch, encodings, filters]

\* an input is a file of bytes, with the encodings to look for (--encodings) and a chunk
\* size that build_config has checked (main.rs:46-60)
ASSUME InputsAssumption ==
    \A in \in Inputs :
        /\ in.bytes \in Seq(0 .. 255)
        /\ in.encodings \in Seq(DOMAIN EncodingCode)
        /\ in.chunkSize \in Nat \ {0}

VARIABLES
    input,          \* the file, and the configuration
    chunk,          \* index of the chunk being written or to be written next
    phase,          \* where output_merged_chunk is
    stream,         \* the rest of the chunk's merged records
    boundary,       \* the records collected at the start of the chunk
    pending,        \* for some encodings, the record awaiting its continuation
    lines           \* the output so far

vars == <<input, chunk, phase, stream, boundary, pending, lines>>

Phases == {"idle", "boundary", "body", "flushed", "interrupted"}

ChunkCount == (Len(input.bytes) + input.chunkSize - 1) \div input.chunkSize
ChunkStart == chunk * input.chunkSize
ChunkEnd ==
    LET nominal == ChunkStart + input.chunkSize
    IN  IF nominal < Len(input.bytes) THEN nominal ELSE Len(input.bytes)

\* scan
Scan(enc, file, first, end, minCch) ==
    CASE enc = "Ascii"        -> ScanAscii(input.filters, file, first, end, minCch)
      [] enc = "Windows1251"  -> ScanWindows1251(input.filters, file, first, end, minCch)
      [] enc = "Utf16leAscii" -> ScanUtf16leAscii(input.filters, file, first, end, minCch)
      [] enc = "Utf16le"      -> ScanUtf16le(input.filters, file, first, end, minCch,
                                             ReadBufferSize \div 2)
      [] enc = "Utf8"         -> ScanUtf8(file, first, end, minCch)
      [] enc = "Iso2022Jp"    -> ScanIso2022Jp(file, first, end, minCch)
      [] enc \in DbcsEncodings -> ScanDbcs(enc, file, first, end, minCch)

\* segment_raw
SegmentRaw(enc, at, bytes) ==
    IF enc = "Iso2022Jp" THEN SegmentIso2022Jp(at, bytes) ELSE SegmentDbcs(enc, at, bytes)

\* process_chunk, undisturbed: a scan for every encoding, and their merge
ScanStreams ==
    [n \in DOMAIN input.encodings |->
        Scan(input.encodings[n], input.bytes, ChunkStart, ChunkEnd, input.minCch)]
ChunkRecords == MergeStreams(ScanStreams)

Init ==
    /\ input \in Inputs
    /\ chunk = 0
    /\ phase = "idle"
    /\ stream = <<>>
    /\ boundary = <<>>
    /\ pending = <<>>
    /\ lines = <<>>

-----------------------------------------------------------------------------
(* Resolving and writing records.                                          *)

Line(rec) == [offset |-> rec.offset, encoding |-> rec.encoding, text |-> rec.data]
LinesOf(recs) == [n \in DOMAIN recs |-> Line(recs[n])]

LongEnough(rec) == rec.cch >= input.minCch
Long(recs) == Those(recs, {rec \in ToSet(recs) : LongEnough(rec)})

\* resolve_for_output: the records to write, and the incomplete character left over
ResolveAs(rec, segmented) ==
    [written |-> Long(segmented.fragments),
     leftover |-> IF segmented.tail = <<>> THEN <<>>
                  ELSE <<RawRecord(End(rec) - Len(segmented.tail), rec.encoding, rec.starts, TRUE,
                                   segmented.tail)>>]
Resolve(rec) ==
    IF rec.raw
    THEN ResolveAs(rec, SegmentRaw(rec.encoding, rec.offset, rec.data))
    ELSE [written |-> Long(<<rec>>), leftover |-> <<>>]

\* HashMap::insert: a record of the same encoding is overwritten
Store(map, rec) ==
    [enc \in DOMAIN map \cup {rec.encoding} |-> IF enc = rec.encoding THEN rec ELSE map[enc]]
StoreAll(map, recs) == FoldLeft(Store, map, recs)
Without(map, enc) == [e \in DOMAIN map \ {enc} |-> map[e]]

\* the output so far and the pending records, as the functions below pass them on
OutState(map, out) == [pending |-> map, lines |-> out]

WriteResolved(st, resolved) ==
    OutState(StoreAll(st.pending, resolved.leftover), st.lines \o LinesOf(resolved.written))

\* mutant: a run that reaches the end of the chunk is resolved at once
WriteRecordAtOnce(st, rec) == WriteResolved(st, Resolve(rec))

\* process_chunk_record, and the hot loop of output_merged_chunk
WriteRecord(st, rec) ==
    IF rec.ends
    THEN [st EXCEPT !.pending = Store(@, rec)]
    ELSE WriteResolved(st, Resolve(rec))

\* drain_pending: leftovers are dropped
DrainRecord(drained, rec) == drained \o Resolve(rec).written
DrainedOf(recs) == FoldLeft(DrainRecord, <<>>, recs)
Drain(st) ==
    OutState(<<>>, st.lines \o LinesOf(Sorted(DrainedOf(SetToSeq(Range(st.pending))))))

\* the loop of process_boundary_records over the boundary records
SettleAs(acc, resolved) ==
    [acc EXCEPT !.toWrite = @ \o resolved.written,
                !.continued = StoreAll(@, resolved.leftover)]
SettleRecord(acc, rec) == SettleAs(acc, Resolve(rec))
Settle(acc, recs, remaining) ==
    [FoldLeft(SettleRecord, acc, recs) EXCEPT !.remaining = @ \o remaining]

\* mutant: whatever starts the chunk is taken for the continuation
JoinAcrossGap(acc, rec) ==
    IF rec.encoding \notin DOMAIN acc.old
    THEN [acc EXCEPT !.remaining = Append(@, rec)]
    ELSE LET joined == AppendData(acc.old[rec.encoding], rec)
             rest == [acc EXCEPT !.old = Without(@, rec.encoding)]
         IN  IF joined.ends
             THEN [rest EXCEPT !.continued = Store(@, joined)]
             ELSE Settle(rest, <<joined>>, <<>>)

JoinOrSettle(acc, rec) ==
    IF rec.encoding \notin DOMAIN acc.old
    THEN [acc EXCEPT !.remaining = Append(@, rec)]
    ELSE LET prev == acc.old[rec.encoding]
             joined == AppendData(prev, rec)
             rest == [acc EXCEPT !.old = Without(@, rec.encoding)]
         IN  IF End(prev) # rec.offset THEN Settle(rest, <<prev>>, <<rec>>)
             ELSE IF joined.ends
             THEN [rest EXCEPT !.continued = Store(@, joined)]
             ELSE Settle(rest, <<joined>>, <<>>)

Pristine(map) == [old |-> map, continued |-> <<>>, remaining |-> <<>>, toWrite |-> <<>>]

\* its first part: each boundary record is joined to what it continues
Meet(map, recs) == FoldLeft(JoinOrSettle, Pristine(map), recs)

\* its second: the pending records that nothing continued are resolved
SettleOrphans(met) == Settle(met, SetToSeq(Range(met.old)), <<>>)

\* its last: what was resolved is written, sorted, and then the other records
WriteSettled(acc, out) ==
    FoldLeft(WriteRecord,
             OutState(acc.continued, out \o LinesOf(Sorted(acc.toWrite))),
             acc.remaining)

\* mutant: a pending record that nothing continues is forgotten
OrphansForgotten(st, recs) == WriteSettled(Meet(st.pending, recs), st.lines)

\* mutant: what was pending stays pending after it has been written
PendingNotTaken(st, recs) ==
    WriteSettled([SettleOrphans(Meet(st.pending, recs)) EXCEPT !.continued = st.pending @@ @],
                 st.lines)

\* process_boundary_records
WriteBoundary(st, recs) ==
    WriteSettled(SettleOrphans(Meet(st.pending, recs)), st.lines)

\* chunk_fully_consumed: the pending records reach past the whole chunk
FullyConsumed == \A enc \in DOMAIN pending : End(pending[enc]) >= ChunkEnd

-----------------------------------------------------------------------------
(* output_merged_chunk, chunk by chunk, and flush_pending.                 *)

Current == OutState(pending, lines)

Becomes(st) == pending' = st.pending /\ lines' = st.lines

\* the next chunk's merged file arrives
BeginChunk ==
    /\ phase = "idle"
    /\ chunk < ChunkCount
    /\ stream' = ChunkRecords
    /\ boundary' = <<>>
    /\ phase' = IF pending = <<>> THEN "body" ELSE "boundary"
    /\ UNCHANGED <<input, chunk, pending, lines>>

IsCandidate(rec) == rec.starts /\ rec.offset >= ChunkStart

CollectBoundary ==
    /\ phase = "boundary"
    /\ stream # <<>>
    /\ IsCandidate(Head(stream))
    /\ boundary' = Append(boundary, Head(stream))
    /\ stream' = Tail(stream)
    /\ UNCHANGED <<input, chunk, phase, pending, lines>>

\* mutant: with no candidate, the pending records are left as they are
EndBoundaryKeepsOrphans ==
    /\ phase = "boundary"
    /\ stream # <<>>
    /\ ~IsCandidate(Head(stream))
    /\ Becomes(WriteRecord(IF boundary = <<>> THEN Current
                           ELSE WriteBoundary(Current, boundary), Head(stream)))
    /\ boundary' = <<>>
    /\ stream' = Tail(stream)
    /\ phase' = "body"
    /\ UNCHANGED <<input, chunk>>

\* the first record that is no candidate ends the boundary
EndBoundary ==
    /\ phase = "boundary"
    /\ stream # <<>>
    /\ ~IsCandidate(Head(stream))
    /\ Becomes(WriteRecord(WriteBoundary(Current, boundary), Head(stream)))
    /\ boundary' = <<>>
    /\ stream' = Tail(stream)
    /\ phase' = "body"
    /\ UNCHANGED <<input, chunk>>

\* mutant: an empty chunk always orphans what is pending
EmptyChunkDrains ==
    /\ phase = "boundary"
    /\ stream = <<>>
    /\ Becomes(IF boundary # <<>> THEN WriteBoundary(Current, boundary) ELSE Drain(Current))
    /\ boundary' = <<>>
    /\ phase' = "body"
    /\ UNCHANGED <<input, chunk, stream>>

\* the chunk has no other records
BoundaryExhausted ==
    /\ phase = "boundary"
    /\ stream = <<>>
    /\ \/ /\ boundary # <<>>
          /\ Becomes(WriteBoundary(Current, boundary))
       \/ /\ boundary = <<>>
          /\ FullyConsumed
          /\ UNCHANGED <<pending, lines>>
       \/ /\ boundary = <<>>
          /\ ~FullyConsumed
          /\ Becomes(Drain(Current))
    /\ boundary' = <<>>
    /\ phase' = "body"
    /\ UNCHANGED <<input, chunk, stream>>

BodyRecord ==
    /\ phase = "body"
    /\ stream # <<>>
    /\ Becomes(WriteRecord(Current, Head(stream)))
    /\ stream' = Tail(stream)
    /\ UNCHANGED <<input, chunk, phase, boundary>>

EndChunk ==
    /\ phase = "body"
    /\ stream = <<>>
    /\ chunk' = chunk + 1
    /\ phase' = "idle"
    /\ UNCHANGED <<input, stream, boundary, pending, lines>>

FlushPending ==
    /\ phase = "idle"
    /\ chunk = ChunkCount
    /\ Becomes(Drain(Current))
    /\ phase' = "flushed"
    /\ UNCHANGED <<input, chunk, stream, boundary>>

\* `cancelled' was polled, or a read or write failed
Interrupt ==
    /\ phase \in {"boundary", "body"}
    /\ phase' = "interrupted"
    /\ UNCHANGED <<input, chunk, stream, boundary, pending, lines>>

Over == phase \in {"flushed", "interrupted"} /\ UNCHANGED vars

Next ==
    \/ BeginChunk \/ CollectBoundary \/ EndBoundary \/ BoundaryExhausted
    \/ BodyRecord \/ EndChunk \/ FlushPending \/ Interrupt \/ Over

Spec == Init /\ [][Next]_vars

-----------------------------------------------------------------------------
(* What the output should be: one scan of the whole file, which knows no   *)
(* chunks and no blocks.                                                   *)

Selected == ToSet(input.encodings)

WholeFileUnits(enc) ==
    LET file == input.bytes
        length == Len(file)
        filters == input.filters
        parity(n) == IF length < n + 2 THEN <<>>
                     ELSE CodeUnits(filters, file, n, ParityLast(file, length, n))
        wide(n) == IF length < n + 2 THEN <<>>
                   ELSE ParityUnits(filters, file, n, ParityLast(file, length, n), length)
    IN  CASE enc = "Ascii"        -> {AsciiUnits(filters, file, 0, length)}
          [] enc = "Windows1251"  -> {Windows1251Units(filters, file, 0, length)}
          [] enc = "Utf16leAscii" -> {parity(0), parity(1)}
          [] enc = "Utf16le"      -> {wide(0), wide(1)}
          [] enc = "Utf8"         -> {Walk(0, "Ascii", file, Utf8Step).units}
          [] enc = "Iso2022Jp"    ->
                 {TakeEscapes(Walk(0, "Ascii", file, Iso2022JpStep)).units}
          [] enc \in DbcsEncodings -> {DbcsWalk(enc, 0, file).units}

\* all runs of one encoding
AllRuns(enc) ==
    UNION {{DecodedRun(enc, run) : run \in ToSet(Runs(units))} : units \in WholeFileUnits(enc)}

\* those to report, but for their length: of two overlapping runs of UTF-16LE, one
WholeFileRuns(enc) ==
    IF enc = "Utf16le"
    THEN ToSet(ScanUtf16le(input.filters, input.bytes, 0, Len(input.bytes), input.minCch,
                           Len(input.bytes)))
    ELSE AllRuns(enc)

\* what is to be printed, in file order
Strings(enc) ==
    LinesOf(Sorted(SetToSeq({rec \in WholeFileRuns(enc) : LongEnough(rec)})))

-----------------------------------------------------------------------------
(* Properties.                                                             *)

LinesIn(enc) == Those(lines, {line \in ToSet(lines) : line.encoding = enc})

ByteCount(chars) == FoldLeft(LAMBDA count, char : count + Len(char), 0, chars)

\* cb counts the bytes of the payload and, for text, cch its characters
WellFormed(rec) ==
    /\ rec.offset >= 0
    /\ End(rec) <= Len(input.bytes)
    /\ rec.encoding \in Selected
    /\ rec.raw => /\ rec.encoding \in DeferredEncodings
                  /\ rec.cb = Len(rec.data)
                  /\ rec.cch = 0
    /\ ~rec.raw => /\ rec.cb = ByteCount(rec.data)
                   /\ rec.cch = CountChars(rec.encoding, rec.data)

\* The variables keep their types, and every record in flight keeps its byte and
\* character counts in step with its payload, however often it was joined
\* (record.rs:141, and the assertions of write_record, record.rs:170-187).
TypeOK ==
    /\ input \in Inputs
    /\ chunk \in 0 .. ChunkCount
    /\ phase \in Phases
    /\ DOMAIN pending \subseteq Selected
    /\ \A enc \in DOMAIN pending : pending[enc].encoding = enc /\ pending[enc].ends
    /\ \A rec \in ToSet(stream) \cup ToSet(boundary) \cup Range(pending) : WellFormed(rec)

\* What the merge and the output stage take for granted of each scan: its records are in
\* order (merger.rs:9-13), of its encoding and of this chunk, one at the first byte of a
\* later chunk is flagged as starting it, so that the boundary phase collects it, one that is
\* flagged as reaching the chunk's end does, and those that touch the chunk's boundary are
\* raw bytes exactly if the encoding is not self-synchronizing (record.rs:135-141).
ScansDeliver ==
    phase = "idle" /\ chunk < ChunkCount =>
        \A n \in DOMAIN ScanStreams :
            LET enc == input.encodings[n]
                recs == ScanStreams[n]
            IN  /\ recs \in Seq(ToSet(recs)) /\ InOrder(recs)
                /\ \A rec \in ToSet(recs) :
                      /\ IsRecord(rec) /\ rec.encoding = enc
                      /\ rec.offset \in Nat /\ rec.offset >= ChunkStart
                      /\ chunk > 0 /\ rec.offset = ChunkStart => rec.starts
                      /\ rec.cb \in Int /\ rec.raw \in BOOLEAN
                      /\ rec.ends => End(rec) >= ChunkEnd
                      /\ rec.raw => enc \in DeferredEncodings
                      /\ rec.starts \/ rec.ends => rec.raw = (enc \in DeferredEncodings)

\* What output_merged_chunk collects and what it has yet to read are in the order of
\* the merge, whatever the number of encodings: the boundary phase can stop at the
\* first record that is no candidate (outputter.rs:171).
StreamInOrder == InOrder(boundary \o stream)

\* append_data never meets a raw and a decoded payload (its `unreachable!',
\* record.rs:155): what a record at the start of a chunk may be joined to is of its kind.
NoMixedJoin ==
    \A rec \in ToSet(stream) \cup ToSet(boundary) :
        rec.starts /\ rec.encoding \in DOMAIN pending
            => rec.raw = pending[rec.encoding].raw

\* Between chunks a pending record reaches the boundary, so that the next chunk can
\* go on with it.  One that does not (outputter.rs:656, a leftover inside its chunk)
\* holds nothing that would have to be written.
PendingIsLive ==
    phase = "idle" =>
        \A enc \in DOMAIN pending :
            End(pending[enc]) < ChunkStart /\ End(pending[enc]) < Len(input.bytes)
                => Resolve(pending[enc]).written = <<>>

\* The strings of an encoding are written whole, once and in file order: what has been
\* written is at any time a prefix of what one scan of the whole file finds.
WrittenIsPrefix == \A enc \in Selected : IsPrefix(LinesIn(enc), Strings(enc))

\* After flush_pending nothing is missing: what is found does not depend on the chunk
\* size (tests/chunk_size_invariance_tests.rs:4, main.rs:418).
FlushedIsComplete ==
    phase = "flushed" => \A enc \in Selected : LinesIn(enc) = Strings(enc)

\* the encodings of which every byte is a character of its own
ByteEncodings == {"Ascii", "Windows1251"}
\* selected with a single -e
Once(enc) ==
    enc \in Selected /\ \A m, n \in DOMAIN input.encodings :
                            input.encodings[m] = enc /\ input.encodings[n] = enc => m = n

\* The encodings of single bytes keep both promises next to any others: their strings go on
\* at the first byte of the next chunk, where every record is a candidate, so that nothing
\* ends the boundary phase (outputter.rs:171) before they are joined.
ByteStringsAreWhole ==
    \A enc \in Selected \cap ByteEncodings :
        Once(enc) => /\ IsPrefix(LinesIn(enc), Strings(enc))
                     /\ phase = "flushed" => LinesIn(enc) = Strings(enc)

LineEnd(line) == line.offset + ByteCount(line.text)
BytesOf(recs) == UNION {rec.offset .. LineEnd(rec) - 1 : rec \in recs}

\* Whatever the combination of encodings, no byte is reported twice in one encoding.
NoByteTwice ==
    \A enc \in Selected :
        LET own == LinesIn(enc)
        IN  \A i, j \in DOMAIN own : i < j => LineEnd(own[i]) <= own[j].offset

\* Nor is one reported that a scan of the whole file does not put in a run, and a line
\* never takes bytes from two runs.
LinesAreFragments ==
    \A enc \in Selected : \A line \in ToSet(LinesIn(enc)) :
        \E rec \in AllRuns(enc) :
            rec.offset <= line.offset /\ LineEnd(line) <= End(rec)

WideRecords == SelectSeq(stream, LAMBDA rec : rec.encoding = "Utf16le")

\* Within a chunk, no byte is in two records of UTF-16LE, so that a merge of the two
\* parities by offset sorts them (utf16le.rs:84, "no longer overlap each other").
ParitiesDisjoint ==
    \A i \in 1 .. Len(WideRecords) - 1 : End(WideRecords[i]) <= WideRecords[i + 1].offset

\* In a file of one chunk, the strings of UTF-16LE do not depend on the blocks it is read
\* in (utf16le.rs:379, "so a surrogate pair is never split between two separate reads").
BlocksMakeNoDifference ==
    phase = "flushed" /\ ChunkCount = 1 => LinesIn("Utf16le") = Strings("Utf16le")

\* what the scanner of UTF-16LE cannot put right: text after a high surrogate, paired
\* or not, that is the last unit of a chunk; a pair after a high surrogate that is the
\* last unit of a block; and two runs that share a byte
InRun(at) ==
    \E run \in AllRuns("Utf16le") :
        run.offset <= at /\ at < End(run) /\ (at - run.offset) % 2 = 0
TextAfterSurrogateAtCut ==
    \E c \in 1 .. ChunkCount - 1, back \in {1, 2} :
        LET at == c * input.chunkSize - back
        IN  /\ at + 2 <= Len(input.bytes)
            /\ UnitAt(input.bytes, at) \in HighSurrogates
            /\ InRun(IF InRun(at) THEN at + 4 ELSE at + 2)
PairAfterHighSurrogate ==
    /\ input.chunkSize > ReadBufferSize
    /\ \E at \in 0 .. Len(input.bytes) - 6 :
          /\ UnitAt(input.bytes, at) \in HighSurrogates
          /\ UnitAt(input.bytes, at + 2) \in HighSurrogates
          /\ UnitAt(input.bytes, at + 4) \in LowSurrogates
RunsOverlap == \E a, b \in AllRuns("Utf16le") : a # b /\ Overlap(a, b)

\* But for these, the strings of UTF-16LE depend neither on the chunk size nor on the
\* blocks, whatever unit or pair the boundary cuts.
CompleteIfUndisturbed ==
    /\ phase = "flushed"
    /\ ~TextAfterSurrogateAtCut
    /\ ~PairAfterHighSurrogate
    /\ ~RunsOverlap
    => LinesIn("Utf16le") = Strings("Utf16le")

\* With --min-length 1, every byte of every run is reported in the end.
NothingLost ==
    phase = "flushed" /\ input.minCch = 1 =>
        \A enc \in Selected :
            BytesOf(ToSet(LinesIn(enc))) = BytesOf(ToSet(LinesOf(SetToSeq(AllRuns(enc)))))
=============================================================================
