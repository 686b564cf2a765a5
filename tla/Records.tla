------------------------------- MODULE Records -------------------------------
(***************************************************************************)
(* The intermediate records of pstrings and what is done with them before  *)
(* the output stage: record.rs, merger.rs and emit_record of scanner/mod.rs. *)
(*                                                                         *)
(* A record is a run of text found in one chunk.  Its payload is either    *)
(* decoded text, a sequence of characters (each the tuple of its bytes),   *)
(* or, for an encoding that is not self-synchronizing, the raw bytes of a  *)
(* run that touches a chunk boundary.  The serialized form of a record is  *)
(* left out: what is written is what is read back.                         *)
(***************************************************************************)
EXTENDS Integers, FiniteSets, TLC, SequencesExt

\* InputEncoding as u16
EncodingCode ==
    [Ascii |-> 0, Utf16leAscii |-> 1, Utf16le |-> 2, Utf8 |-> 3, Iso2022Jp |-> 4,
     Cp932 |-> 5, Gbk |-> 6, EucKr |-> 7, Windows1251 |-> 8, Big5 |-> 9, Gb18030 |-> 10]

TextRecord(offset, cb, cch, encoding, starts, ends, chars) ==
    [offset |-> offset, cb |-> cb, cch |-> cch, encoding |-> encoding,
     starts |-> starts, ends |-> ends, raw |-> FALSE, data |-> chars]

\* cch is a placeholder: the characters of raw bytes are not known yet
RawRecord(offset, encoding, starts, ends, bytes) ==
    [offset |-> offset, cb |-> Len(bytes), cch |-> 0, encoding |-> encoding,
     starts |-> starts, ends |-> ends, raw |-> TRUE, data |-> bytes]

IsRecord(rec) ==
    rec = [offset |-> rec.offset, cb |-> rec.cb, cch |-> rec.cch, encoding |-> rec.encoding,
           starts |-> rec.starts, ends |-> rec.ends, raw |-> rec.raw, data |-> rec.data]

End(rec) == rec.offset + rec.cb

\* emit_record: a short run is kept only if a neighbouring chunk may extend it
EmitRecord(minCch, out, rec) ==
    IF rec.cch >= minCch \/ rec.starts \/ rec.ends THEN Append(out, rec) ELSE out
Emit(recs, minCch) == FoldLeft(LAMBDA out, rec : EmitRecord(minCch, out, rec), <<>>, recs)

\* mutant: the characters of the continuation are not counted
AppendKeepsCch(dst, src) ==
    [dst EXCEPT !.cb = @ + src.cb, !.ends = src.ends, !.data = @ \o src.data]

\* append_data, for two payloads of the same kind
AppendData(dst, src) ==
    [dst EXCEPT !.cb = @ + src.cb,
                !.ends = src.ends,
                !.cch = IF dst.raw THEN @ ELSE @ + src.cch,
                !.data = @ \o src.data]

\* the order of every merge and sort: by offset, then by encoding
Precedes(a, b) ==
    \/ a.offset < b.offset
    \/ a.offset = b.offset /\ EncodingCode[a.encoding] < EncodingCode[b.encoding]

\* the members of S in a sequence, in their order
KeepIn(S, kept, x) == IF x \in S THEN Append(kept, x) ELSE kept
Those(seq, S) == FoldLeft(LAMBDA kept, x : KeepIn(S, kept, x), <<>>, seq)

\* sort_by, which is stable: a record goes before the first one that it precedes
Place(sorted, rec) ==
    Min({n \in DOMAIN sorted : Precedes(rec, sorted[n])} \cup {Len(sorted) + 1})
Insert(sorted, rec) == InsertAt(sorted, Place(sorted, rec), rec)
Sorted(recs) == FoldLeft(Insert, <<>>, recs)

\* merger.rs:1-3: what every stream of records is to be
InOrder(recs) == \A i, j \in DOMAIN recs : i < j => ~Precedes(recs[j], recs[i])

\* mutant: the streams are taken one after the other
FirstOpen(streams) ==
    CHOOSE i \in DOMAIN streams :
        streams[i] # <<>> /\ \A j \in 1 .. i - 1 : streams[j] = <<>>

\* next_record picks the least head; of equal ones min_by_key takes the first
LeastHead(streams) ==
    LET open == {i \in DOMAIN streams : streams[i] # <<>>}
        least == {i \in open : \A j \in open :
                                   ~Precedes(Head(streams[j]), Head(streams[i]))}
    IN  CHOOSE i \in least : \A j \in least : i <= j

\* next_record: the least head is taken, and the next record of its stream read
MergeStep(st) ==
    LET i == LeastHead(st.left)
    IN  [left |-> [st.left EXCEPT ![i] = Tail(@)],
         merged |-> Append(st.merged, Head(st.left[i]))]

\* the places of the records in the streams
Places(streams) == UNION {{i} \X DOMAIN streams[i] : i \in DOMAIN streams}

\* merge_chunk_encodings and merge_sorted_record_files: until every stream is at its end
MergeStreams(streams) ==
    FoldLeft(LAMBDA st, n : MergeStep(st), [left |-> streams, merged |-> <<>>],
             [n \in 1 .. Cardinality(Places(streams)) |-> n]).merged
=============================================================================
