---------------------------- MODULE OutputProofs ----------------------------
(***************************************************************************)
(* Theorems about OutputStage, for files, chunks and streams of any size.  *)
(* What the scanners deliver is taken from the property ScansDeliver; what *)
(* the merge and the output stage make of it is proved: the stream is in   *)
(* order, a pending record is the one of its encoding and reaches its      *)
(* chunk's end, and append_data never meets two kinds of payload.          *)
(***************************************************************************)
EXTENDS OutputStage, ScannersProofs

\* the encodings whose records are text from the start
IsDecoded(rec) == rec.encoding \notin DeferredEncodings

\* what the output stage relies on in a record
Proper(rec) ==
    /\ IsRecord(rec)
    /\ rec.encoding \in Selected
    /\ rec.raw \in BOOLEAN
    /\ rec.raw => rec.encoding \in DeferredEncodings
    /\ rec.starts \/ rec.ends => rec.raw = (rec.encoding \in DeferredEncodings)
    /\ IsDecoded(rec) => rec.offset \in Nat /\ rec.cb \in Int

\* of text: it reaches the end of the current chunk (what is left over of raw bytes need not)
Reaches(rec) == IsDecoded(rec) => End(rec) >= ChunkEnd

\* a record that may be pending
Awaits(rec) == Proper(rec) /\ rec.ends

\* a record of the current chunk
Fresh(rec) == Proper(rec) /\ (rec.ends => Reaches(rec))

\* a map of pending records: under each encoding a record of that encoding
Keyed(map) ==
    /\ IsFiniteSet(DOMAIN map)
    /\ map = [enc \in DOMAIN map |-> map[enc]]
    /\ \A enc \in DOMAIN map : map[enc].encoding = enc /\ Awaits(map[enc])

\* one of records that the next chunk may continue
Continues(map) == Keyed(map) /\ \A enc \in DOMAIN map : Reaches(map[enc])

\* a boundary record, as the loop of process_boundary_records meets it
Candidate(rec) == rec \in ToSet(boundary) /\ Fresh(rec)

\* the loop's variables
AccOK(acc) ==
    /\ acc = [old |-> acc.old, continued |-> acc.continued,
              remaining |-> acc.remaining, toWrite |-> acc.toWrite]
    /\ Keyed(acc.old)
    /\ Continues(acc.continued)
    /\ acc.remaining \in Seq(ToSet(boundary))

StOK(st) == st = [pending |-> st.pending, lines |-> st.lines] /\ Continues(st.pending)

\* the four loops over records
Storing == INSTANCE LeftFold WITH Body <- LAMBDA c, map, rec : Store(map, rec),
                                  Kept <- LAMBDA c, n, map : Continues(map)
Settling == INSTANCE LeftFold WITH Body <- LAMBDA c, acc, rec : SettleRecord(acc, rec),
                                   Kept <- LAMBDA c, n, acc : AccOK(acc)
Meeting == INSTANCE LeftFold WITH Body <- LAMBDA c, acc, rec : JoinOrSettle(acc, rec),
                                  Kept <- LAMBDA c, n, acc : AccOK(acc)
Writing == INSTANCE LeftFold WITH Body <- LAMBDA c, st, rec : WriteRecord(st, rec),
                                  Kept <- LAMBDA c, n, st : StOK(st)

-----------------------------------------------------------------------------
(* The maps of pending records.                                            *)

\* At first nothing is pending.
LEMMA NothingIsKeyed == Keyed(<<>>) /\ Continues(<<>>)
BY FS_EmptySet DEF Keyed, Continues

\* A record that reaches the end of its chunk may be stored.
LEMMA StoreKeeps ==
    ASSUME NEW map, NEW rec, Continues(map), Awaits(rec), Reaches(rec)
    PROVE  Continues(Store(map, rec))
<1>1. IsFiniteSet(DOMAIN map \cup {rec.encoding})
    BY FS_AddElement DEF Keyed, Continues
<1>2. Keyed(Store(map, rec))
    BY <1>1 DEF Keyed, Continues, Store
<1> QED
    BY <1>2 DEF Continues, Store

\* And so may any number of them.
LEMMA StoreAllKeeps ==
    ASSUME NEW map, NEW recs, NEW N \in Nat, DOMAIN recs = 1 .. N, Continues(map),
           \A n \in 1 .. N : Awaits(recs[n]) /\ Reaches(recs[n])
    PROVE  Continues(StoreAll(map, recs))
<1>1. \A n \in 1 .. N : \A a : Continues(a) => Continues(Store(a, recs[n]))
    BY StoreKeeps
<1>2. Continues(Storing!Loop(0, map, recs))
    BY <1>1, Storing!FoldKeeps
<1>3. StoreAll(map, recs) = Storing!Loop(0, map, recs)
    BY DEF StoreAll, Storing!Loop, FoldLeft, Storing!FoldLeft, MapThenFoldSet, Storing!MapThenFoldSet,
            Max, Storing!Max
<1> QED
    BY <1>2, <1>3

\* Taking one out leaves the others as they are.
LEMMA WithoutKeeps ==
    ASSUME NEW map, NEW enc, Keyed(map)
    PROVE  Keyed(Without(map, enc))
<1>1. IsFiniteSet(DOMAIN map \ {enc})
    BY FS_RemoveElement DEF Keyed
<1> QED
    BY <1>1 DEF Keyed, Without

\* What Resolve leaves over is at most one record, raw like the one it is from.
LEMMA LeftoverAwaits ==
    ASSUME NEW rec, Proper(rec)
    PROVE  \E N \in Nat : /\ DOMAIN Resolve(rec).leftover = 1 .. N
                          /\ \A n \in 1 .. N : /\ Awaits(Resolve(rec).leftover[n])
                                               /\ Reaches(Resolve(rec).leftover[n])
<1> DEFINE segmented == SegmentRaw(rec.encoding, rec.offset, rec.data)
           left == RawRecord(End(rec) - Len(segmented.tail), rec.encoding, rec.starts, TRUE,
                             segmented.tail)
<1>1. CASE rec.raw /\ segmented.tail # <<>>
    <2>1. Resolve(rec).leftover = <<left>>
        BY <1>1 DEF Resolve, ResolveAs
    <2>2. Awaits(left) /\ Reaches(left)
        BY <1>1 DEF Awaits, Reaches, Proper, IsDecoded, RawRecord, IsRecord
    <2> HIDE DEF left
    <2>3. DOMAIN <<left>> = 1 .. 1 /\ \A n \in 1 .. 1 : <<left>>[n] = left
        OBVIOUS
    <2> QED
        BY <2>1, <2>2, <2>3
<1>2. CASE ~(rec.raw /\ segmented.tail # <<>>)
    <2>1. Resolve(rec).leftover = <<>>
        BY <1>2 DEF Resolve, ResolveAs
    <2>2. DOMAIN <<>> = 1 .. 0 /\ \A n \in 1 .. 0 : FALSE
        OBVIOUS
    <2> QED
        BY <2>1, <2>2
<1> QED
    BY <1>1, <1>2

\* A record is written or kept.
LEMMA WriteKeeps ==
    ASSUME NEW st, NEW rec, StOK(st), Fresh(rec)
    PROVE  StOK(WriteRecord(st, rec))
<1>1. CASE rec.ends
    BY <1>1, StoreKeeps DEF WriteRecord, StOK, Awaits, Fresh
<1>2. CASE ~rec.ends
    <2>1. PICK N \in Nat : /\ DOMAIN Resolve(rec).leftover = 1 .. N
                           /\ \A n \in 1 .. N : /\ Awaits(Resolve(rec).leftover[n])
                                                /\ Reaches(Resolve(rec).leftover[n])
        BY LeftoverAwaits DEF Fresh
    <2>2. Continues(StoreAll(st.pending, Resolve(rec).leftover))
        BY <2>1, StoreAllKeeps DEF StOK
    <2> QED
        BY <1>2, <2>2 DEF WriteRecord, WriteResolved, OutState, StOK
<1> QED
    BY <1>1, <1>2

-----------------------------------------------------------------------------
(* process_boundary_records.                                               *)

\* A record is resolved and settled.
LEMMA SettleRecordKeeps ==
    ASSUME NEW acc, NEW rec, AccOK(acc), Proper(rec)
    PROVE  AccOK(SettleRecord(acc, rec))
<1>1. PICK N \in Nat : /\ DOMAIN Resolve(rec).leftover = 1 .. N
                       /\ \A n \in 1 .. N : /\ Awaits(Resolve(rec).leftover[n])
                                            /\ Reaches(Resolve(rec).leftover[n])
    BY LeftoverAwaits
<1>2. Continues(StoreAll(acc.continued, Resolve(rec).leftover))
    BY <1>1, StoreAllKeeps DEF AccOK
<1> DEFINE kept == StoreAll(acc.continued, Resolve(rec).leftover)
           more == acc.toWrite \o Resolve(rec).written
<1>3. SettleRecord(acc, rec) = [acc EXCEPT !.toWrite = more, !.continued = kept]
    BY DEF SettleRecord, SettleAs
<1> HIDE DEF kept, more
<1>4. SettleRecord(acc, rec) = [old |-> acc.old, continued |-> kept,
                                remaining |-> acc.remaining, toWrite |-> more]
    BY <1>3 DEF AccOK
<1> QED
    BY <1>2, <1>4 DEF AccOK, kept

\* And so are any number of them.
LEMMA SettleKeeps ==
    ASSUME NEW acc, NEW recs, NEW N \in Nat, DOMAIN recs = 1 .. N, AccOK(acc),
           \A n \in 1 .. N : Proper(recs[n]), NEW rest \in Seq(ToSet(boundary))
    PROVE  AccOK(Settle(acc, recs, rest))
<1> DEFINE folded == FoldLeft(SettleRecord, acc, recs)
<1>1. folded = Settling!Loop(0, acc, recs)
    BY DEF Settling!Loop, FoldLeft, Settling!FoldLeft, MapThenFoldSet, Settling!MapThenFoldSet,
            Max, Settling!Max
<1>2. AccOK(folded)
    <2>1. \A n \in 1 .. N : \A a : AccOK(a) => AccOK(SettleRecord(a, recs[n]))
        BY SettleRecordKeeps
    <2>2. AccOK(Settling!Loop(0, acc, recs))
        BY <2>1, Settling!FoldKeeps
    <2> QED
        BY <1>1, <2>2
<1>3. Settle(acc, recs, rest) = [folded EXCEPT !.remaining = @ \o rest]
    BY DEF Settle
<1> HIDE DEF folded
<1>4. folded.remaining \o rest \in Seq(ToSet(boundary))
    BY <1>2 DEF AccOK
<1> QED
    BY <1>2, <1>3, <1>4 DEF AccOK

\* A record that is joined keeps its kind: the two records of one encoding that are pending
\* and flagged as starting a chunk are both raw, or both text.  It ends where the second does.
LEMMA JoinedIsProper ==
    ASSUME NEW prev, NEW rec, Awaits(prev), Fresh(rec), prev.encoding = rec.encoding,
           End(prev) = rec.offset
    PROVE  /\ Proper(AppendData(prev, rec))
           /\ rec.ends => Reaches(AppendData(prev, rec))
           /\ AppendData(prev, rec).ends = rec.ends
           /\ AppendData(prev, rec).encoding = prev.encoding
<1> DEFINE cch == IF prev.raw THEN prev.cch ELSE prev.cch + rec.cch
<1>1. AppendData(prev, rec) = [prev EXCEPT !.cb = @ + rec.cb, !.ends = rec.ends,
                                           !.cch = cch, !.data = @ \o rec.data]
    BY DEF AppendData
<1> HIDE DEF cch
<1>2. prev = [offset |-> prev.offset, cb |-> prev.cb, cch |-> prev.cch,
              encoding |-> prev.encoding, starts |-> prev.starts, ends |-> prev.ends,
              raw |-> prev.raw, data |-> prev.data]
    BY DEF Awaits, Proper, IsRecord
<1>3. AppendData(prev, rec) =
          [offset |-> prev.offset, cb |-> prev.cb + rec.cb, cch |-> cch,
           encoding |-> prev.encoding, starts |-> prev.starts, ends |-> rec.ends,
           raw |-> prev.raw, data |-> prev.data \o rec.data]
    BY <1>1, <1>2
<1>4. IsDecoded(prev) =>
          prev.offset \in Nat /\ prev.cb \in Int /\ rec.offset \in Nat /\ rec.cb \in Int
    BY DEF Awaits, Fresh, Proper, IsDecoded
<1>5. Proper(AppendData(prev, rec))
    BY <1>3, <1>4 DEF Awaits, Proper, IsRecord, IsDecoded
<1>6. rec.ends => Reaches(AppendData(prev, rec))
    <2> SUFFICES ASSUME rec.ends, IsDecoded(prev)
                 PROVE  End(AppendData(prev, rec)) >= ChunkEnd
        BY <1>3 DEF Reaches, IsDecoded
    <2>1. End(AppendData(prev, rec)) = End(rec)
        BY <1>3, <1>4 DEF End
    <2>2. End(rec) >= ChunkEnd
        BY DEF Fresh, Reaches, IsDecoded
    <2> QED
        BY <2>1, <2>2
<1> QED
    BY <1>3, <1>5, <1>6

\* A boundary record is joined to what it continues, or settles it.
LEMMA JoinKeeps ==
    ASSUME NEW acc, NEW rec, AccOK(acc), Candidate(rec)
    PROVE  AccOK(JoinOrSettle(acc, rec))
<1> DEFINE enc == rec.encoding
           prev == acc.old[enc]
           joined == AppendData(prev, rec)
           rest == [acc EXCEPT !.old = Without(@, enc)]
<1>1. CASE enc \notin DOMAIN acc.old
    <2>1. JoinOrSettle(acc, rec) = [acc EXCEPT !.remaining = Append(@, rec)]
        BY <1>1 DEF JoinOrSettle
    <2>2. Append(acc.remaining, rec) \in Seq(ToSet(boundary))
        BY DEF AccOK, Candidate
    <2> QED
        BY <2>1, <2>2 DEF AccOK
<1>2. CASE enc \in DOMAIN acc.old
    <2>1. Awaits(prev) /\ prev.encoding = enc /\ Proper(prev)
        BY <1>2 DEF AccOK, Keyed, Awaits
    <2>2. End(prev) = rec.offset =>
              Proper(joined) /\ joined.ends = rec.ends /\ (rec.ends => Reaches(joined))
        BY <2>1, JoinedIsProper DEF Candidate
    <2>3. AccOK(rest)
        BY WithoutKeeps DEF AccOK
    <2>4. JoinOrSettle(acc, rec) =
              IF End(prev) # rec.offset THEN Settle(rest, <<prev>>, <<rec>>)
              ELSE IF joined.ends THEN [rest EXCEPT !.continued = Store(@, joined)]
              ELSE Settle(rest, <<joined>>, <<>>)
        BY <1>2 DEF JoinOrSettle
    <2>5. \A x : DOMAIN <<x>> = 1 .. 1 /\ \A n \in 1 .. 1 : <<x>>[n] = x
        OBVIOUS
    <2>6. <<rec>> \in Seq(ToSet(boundary)) /\ <<>> \in Seq(ToSet(boundary))
        BY DEF Candidate
    <2> HIDE DEF rest, joined, prev
    <2>7. AccOK(Settle(rest, <<prev>>, <<rec>>))
        BY <2>1, <2>3, <2>5, <2>6, SettleKeeps
    <2>8. End(prev) = rec.offset => AccOK(Settle(rest, <<joined>>, <<>>))
        BY <2>2, <2>3, <2>5, <2>6, SettleKeeps
    <2>9. End(prev) = rec.offset /\ joined.ends =>
              AccOK([rest EXCEPT !.continued = Store(@, joined)])
        <3> SUFFICES ASSUME End(prev) = rec.offset, joined.ends
                     PROVE  AccOK([rest EXCEPT !.continued = Store(@, joined)])
            OBVIOUS
        <3>1. Continues(Store(rest.continued, joined))
            BY <2>2, <2>3, StoreKeeps DEF AccOK, Awaits
        <3> QED
            BY <2>3, <3>1 DEF AccOK
    <2> QED
        BY <2>4, <2>7, <2>8, <2>9
<1> QED
    BY <1>1, <1>2

\* The values of a finite map, in a sequence.
LEMMA ValuesInSequence ==
    ASSUME NEW map, Keyed(map)
    PROVE  \E N \in Nat : /\ DOMAIN SetToSeq(Range(map)) = 1 .. N
                          /\ \A n \in 1 .. N : SetToSeq(Range(map))[n] \in Range(map)
<1>1. map \in Surjection(DOMAIN map, Range(map))
    BY DEF Surjection, Range, Keyed
<1>2. IsFiniteSet(Range(map))
    BY <1>1, FS_Surjection DEF Keyed
<1> DEFINE N == Cardinality(Range(map))
<1>3. N \in Nat /\ \E f \in [1 .. N -> Range(map)] : IsInjective(f)
    BY <1>2, FS_CardinalityType DEF ExistsBijection, Bijection, Injection
<1>4. SetToSeq(Range(map)) \in [1 .. N -> Range(map)]
    BY <1>3 DEF SetToSeq
<1> QED
    BY <1>3, <1>4

\* And so are any number of them.
LEMMA WriteAllKeeps ==
    ASSUME NEW st, NEW recs, NEW N \in Nat, DOMAIN recs = 1 .. N, StOK(st),
           \A n \in 1 .. N : Fresh(recs[n])
    PROVE  StOK(FoldLeft(WriteRecord, st, recs))
<1>1. \A n \in 1 .. N : \A a : StOK(a) => StOK(WriteRecord(a, recs[n]))
    BY WriteKeeps
<1>2. StOK(Writing!Loop(0, st, recs))
    BY <1>1, Writing!FoldKeeps
<1>3. FoldLeft(WriteRecord, st, recs) = Writing!Loop(0, st, recs)
    BY DEF Writing!Loop, FoldLeft, Writing!FoldLeft, MapThenFoldSet, Writing!MapThenFoldSet,
            Max, Writing!Max
<1> QED
    BY <1>2, <1>3

\* After each boundary record was joined to what it continues, the maps are as they should be.
LEMMA MeetKeeps ==
    ASSUME NEW map, Keyed(map), boundary \in Seq(ToSet(boundary)),
           \A rec \in ToSet(boundary) : Fresh(rec)
    PROVE  AccOK(Meet(map, boundary))
<1>1. AccOK(Pristine(map))
    BY NothingIsKeyed DEF AccOK, Pristine
<1>2. PICK N \in Nat : DOMAIN boundary = 1 .. N
    OBVIOUS
<1>3. \A n \in 1 .. N : Candidate(boundary[n])
    BY <1>2 DEF Candidate, ToSet
<1>4. \A n \in 1 .. N : \A a : AccOK(a) => AccOK(JoinOrSettle(a, boundary[n]))
    BY <1>3, JoinKeeps
<1>5. AccOK(Meeting!Loop(0, Pristine(map), boundary))
    BY <1>1, <1>2, <1>4, Meeting!FoldKeeps
<1>6. Meet(map, boundary) = Meeting!Loop(0, Pristine(map), boundary)
    BY DEF Meet, Meeting!Loop, FoldLeft, Meeting!FoldLeft, MapThenFoldSet,
           Meeting!MapThenFoldSet, Max, Meeting!Max
<1> QED
    BY <1>5, <1>6

\* And so they are after the orphans were settled.
LEMMA OrphansKeep ==
    ASSUME NEW met, AccOK(met)
    PROVE  AccOK(SettleOrphans(met))
<1>1. Keyed(met.old)
    BY DEF AccOK
<1>2. PICK N \in Nat : /\ DOMAIN SetToSeq(Range(met.old)) = 1 .. N
                       /\ \A n \in 1 .. N : SetToSeq(Range(met.old))[n] \in Range(met.old)
    BY <1>1, ValuesInSequence
<1>3. \A x \in Range(met.old) : Proper(x)
    BY <1>1 DEF Keyed, Awaits, Range
<1>4. \A n \in 1 .. N : Proper(SetToSeq(Range(met.old))[n])
    BY <1>2, <1>3
<1>5. <<>> \in Seq(ToSet(boundary))
    OBVIOUS
<1> QED
    BY <1>2, <1>4, <1>5, SettleKeeps DEF SettleOrphans

\* The whole of it keeps the maps as they should be: whatever chunk a record was pending
\* from, what is pending afterwards is of this one.
LEMMA BoundaryKeeps ==
    ASSUME NEW st, Keyed(st.pending), boundary \in Seq(ToSet(boundary)),
           \A rec \in ToSet(boundary) : Fresh(rec)
    PROVE  StOK(WriteBoundary(st, boundary))
<1> DEFINE settled == SettleOrphans(Meet(st.pending, boundary))
<1>1. AccOK(settled)
    BY MeetKeeps, OrphansKeep
<1>2. WriteBoundary(st, boundary) = WriteSettled(settled, st.lines)
    BY DEF WriteBoundary
<1> HIDE DEF settled
<1> DEFINE before == OutState(settled.continued,
                              st.lines \o LinesOf(Sorted(settled.toWrite)))
<1>3. StOK(before)
    BY <1>1 DEF StOK, AccOK, OutState
<1>4. WriteBoundary(st, boundary) = FoldLeft(WriteRecord, before, settled.remaining)
    BY <1>2 DEF WriteSettled
<1> HIDE DEF before
<1>5. PICK N \in Nat : DOMAIN settled.remaining = 1 .. N
    BY <1>1 DEF AccOK
<1>6. \A n \in 1 .. N : Fresh(settled.remaining[n])
    BY <1>1, <1>5 DEF AccOK
<1> QED
    BY <1>3, <1>4, <1>5, <1>6, WriteAllKeeps

-----------------------------------------------------------------------------
(* The streams of a chunk, and sequences.                                  *)

\* what is said of a sequence of records that waits to be output
Waiting(recs) == recs \in Seq(ToSet(recs)) /\ \A rec \in ToSet(recs) : Fresh(rec)

\* What has been collected and what follows it, after the next record was collected.
LEMMA Collected ==
    ASSUME NEW R, NEW front \in Seq(R), NEW recs \in Seq(R), recs # <<>>
    PROVE  Append(front, Head(recs)) \o Tail(recs) = front \o recs
<1> DEFINE a == Append(front, Head(recs)) \o Tail(recs)
           b == front \o recs
<1>1. Append(front, Head(recs)) \in Seq(R) /\ Tail(recs) \in Seq(R)
    OBVIOUS
<1>2. a \in Seq(R) /\ b \in Seq(R) /\ Len(a) = Len(b)
    BY <1>1
<1>3. ASSUME NEW i \in 1 .. Len(b) PROVE a[i] = b[i]
    BY <1>1
<1> QED
    BY <1>2, <1>3

\* A suffix of what is in order is in order.
LEMMA SuffixInOrder ==
    ASSUME NEW R, NEW front \in Seq(R), NEW recs \in Seq(R), InOrder(front \o recs)
    PROVE  /\ InOrder(recs)
           /\ recs # <<>> => InOrder(Tail(recs))
<1>1. ASSUME NEW i \in DOMAIN recs
      PROVE  /\ Len(front) + i \in DOMAIN (front \o recs)
             /\ (front \o recs)[Len(front) + i] = recs[i]
    OBVIOUS
<1>2. InOrder(recs)
    <2> SUFFICES ASSUME NEW i \in DOMAIN recs, NEW j \in DOMAIN recs, i < j
                 PROVE  ~Precedes(recs[j], recs[i])
        BY DEF InOrder
    <2>1. Len(front) + i < Len(front) + j
        OBVIOUS
    <2> QED
        BY <1>1, <2>1 DEF InOrder
<1>3. ASSUME recs # <<>> PROVE InOrder(Tail(recs))
    <2> SUFFICES ASSUME NEW i \in DOMAIN Tail(recs), NEW j \in DOMAIN Tail(recs), i < j
                 PROVE  ~Precedes(Tail(recs)[j], Tail(recs)[i])
        BY DEF InOrder
    <2>1. /\ i \in Nat /\ i + 1 \in DOMAIN recs /\ Tail(recs)[i] = recs[i + 1]
          /\ j \in Nat /\ j + 1 \in DOMAIN recs /\ Tail(recs)[j] = recs[j + 1]
        BY <1>3, TailAt
    <2> QED
        BY <2>1, <1>2 DEF InOrder
<1> QED
    BY <1>2, <1>3

\* If the scans deliver what they should, the merged chunk is in order, and every record
\* of it is as the output stage needs it (merger.rs:9-13, scanner/mod.rs:163).
LEMMA ChunkIsInOrder ==
    ASSUME input \in Inputs, phase = "idle", chunk < ChunkCount, ScansDeliver
    PROVE  Waiting(ChunkRecords) /\ InOrder(ChunkRecords)
<1> DEFINE R == UNION {ToSet(ScanStreams[n]) : n \in DOMAIN ScanStreams}
<1>1. \A n \in DOMAIN ScanStreams :
          LET enc == input.encodings[n]
              recs == ScanStreams[n]
          IN  /\ recs \in Seq(ToSet(recs)) /\ InOrder(recs)
              /\ \A rec \in ToSet(recs) :
                    /\ IsRecord(rec) /\ rec.encoding = enc
                    /\ rec.offset \in Nat /\ rec.offset >= ChunkStart
                    /\ chunk > 0 /\ rec.offset = ChunkStart => rec.starts
                    /\ rec.cb \in Int /\ rec.raw \in BOOLEAN
                    /\ rec.ends => End(rec) >= ChunkEnd
                    /\ rec.raw => enc \in DeferredEncodings
                    /\ rec.starts \/ rec.ends => rec.raw = (enc \in DeferredEncodings)
    BY DEF ScansDeliver
<1>2. input.encodings \in Seq(DOMAIN EncodingCode)
    BY InputsAssumption
<1>3. PICK N \in Nat : DOMAIN ScanStreams = 1 .. N /\ DOMAIN input.encodings = 1 .. N
    BY <1>2 DEF ScanStreams
<1>4. ScanStreams = [n \in 1 .. N |-> ScanStreams[n]]
    BY <1>3 DEF ScanStreams
<1> HIDE DEF R
<1>5. \A n \in 1 .. N : ScanStreams[n] \in Seq(R)
    <2> TAKE n \in 1 .. N
    <2>1. ToSet(ScanStreams[n]) \subseteq R
        BY <1>3 DEF R
    <2>2. ScanStreams[n] \in Seq(ToSet(ScanStreams[n]))
        BY <1>1, <1>3
    <2> QED
        BY <2>1, <2>2
<1>6. ScanStreams \in Seq(Seq(R))
    BY <1>4, <1>5
<1>7. ASSUME NEW rec \in R
      PROVE  Fresh(rec) /\ rec.offset \in Nat /\ rec.encoding \in DOMAIN EncodingCode
    <2>1. PICK n \in DOMAIN ScanStreams : rec \in ToSet(ScanStreams[n])
        BY DEF R
    <2>2. /\ input.encodings[n] \in Selected
          /\ input.encodings[n] \in DOMAIN EncodingCode
        BY <1>2, <1>3, <2>1 DEF Selected, ToSet
    <2> QED
        BY <1>1, <2>1, <2>2 DEF Proper, Fresh, Reaches
<1>8. Comparable(R)
    BY <1>7 DEF Comparable
<1>9. ChunkRecords \in Seq(R)
    BY <1>6, <1>8, MergeTakesAll DEF ChunkRecords
<1>10. InOrder(ChunkRecords)
    BY <1>1, <1>6, <1>8, MergeIsInOrder DEF ChunkRecords
<1>11. Waiting(ChunkRecords)
    BY <1>7, <1>9, OverItsMembers DEF Waiting
<1> QED
    BY <1>10, <1>11

-----------------------------------------------------------------------------
(* The steps of the output stage.                                          *)

\* between two chunks, the text that is pending reaches the start of the next
PendingReaches ==
    \A enc \in DOMAIN pending \ DeferredEncodings :
        End(pending[enc]) >= ChunkStart \/ End(pending[enc]) >= Len(input.bytes)

\* the inductive invariant: StreamInOrder, and what it, NoMixedJoin and PendingIsLive need
StageInv ==
    /\ input \in Inputs
    /\ chunk \in Nat
    /\ Waiting(stream)
    /\ Waiting(boundary)
    /\ Keyed(pending)
    /\ phase = "body" => Continues(pending)
    /\ phase = "idle" => PendingReaches /\ stream = <<>>
    /\ boundary # <<>> => phase \in {"boundary", "interrupted"}
    /\ StreamInOrder

\* A step within a chunk keeps it, if it keeps what it says of the variables.
LEMMA StageOf ==
    ASSUME StageInv, input' = input, chunk' = chunk,
           Waiting(stream'), Waiting(boundary'), Keyed(pending'),
           phase' = "body" => Continues(pending'), phase' # "idle",
           boundary' # <<>> => phase' \in {"boundary", "interrupted"},
           InOrder(boundary' \o stream')
    PROVE  StageInv'
BY DEF StageInv, Waiting, Keyed, Continues, Awaits, Fresh, Proper, Reaches, IsDecoded, Selected,
       StreamInOrder, ChunkEnd, ChunkStart

\* At the start nothing waits.
LEMMA StageInit == Init => StageInv
<1> SUFFICES ASSUME Init PROVE StageInv
    OBVIOUS
<1>1. Waiting(<<>>) /\ InOrder(<<>> \o <<>>)
    BY DEF Waiting, ToSet, InOrder
<1> QED
    BY <1>1, NothingIsKeyed DEF Init, StageInv, StreamInOrder, PendingReaches

\* Before a record of the stream is read there is a first, and the rest is in order.
LEMMA RestWaits ==
    ASSUME StageInv, stream # <<>>
    PROVE  /\ Fresh(Head(stream))
           /\ Waiting(Tail(stream))
           /\ InOrder(<<>> \o Tail(stream))
<1> DEFINE R == ToSet(boundary) \cup ToSet(stream)
<1>1. boundary \in Seq(R) /\ stream \in Seq(R)
    BY DEF StageInv, Waiting
<1>2. InOrder(Tail(stream))
    <2> HIDE DEF R
    <2> QED
        BY <1>1, SuffixInOrder DEF StageInv, StreamInOrder
<1>3. Head(stream) \in ToSet(stream)
    BY DEF StageInv, Waiting, ToSet
<1>4. stream \in Seq(ToSet(stream)) /\ Tail(stream) \in Seq(ToSet(stream))
    BY DEF StageInv, Waiting
<1>5. Waiting(Tail(stream))
    BY <1>4, OverItsMembers DEF Waiting, StageInv
<1>6. <<>> \o Tail(stream) = Tail(stream)
    BY <1>4
<1> QED
    BY <1>2, <1>3, <1>5, <1>6 DEF StageInv, Waiting

\* What is pending is always fit to be passed on: to process_boundary_records, and in the
\* hot loop to the next chunk.
LEMMA CurrentOK == ASSUME StageInv PROVE Keyed(Current.pending) /\ (phase = "body" => StOK(Current))
BY DEF StageInv, StOK, Current, OutState

\* Every step of the output stage keeps the invariant.
LEMMA StageStep == StageInv /\ ScansDeliver /\ [Next]_vars => StageInv'
<1> SUFFICES ASSUME StageInv, ScansDeliver, [Next]_vars PROVE StageInv'
    OBVIOUS
<1> USE StageOf
<1>0. Waiting(<<>>) /\ \A s : Waiting(s) => <<>> \o s = s
    BY DEF Waiting, ToSet
<1>1. CASE BeginChunk
    <2>1. Waiting(ChunkRecords) /\ InOrder(ChunkRecords)
        BY <1>1, ChunkIsInOrder DEF BeginChunk, StageInv
    <2> QED
        BY <1>0, <1>1, <2>1, NothingIsKeyed DEF BeginChunk, StageInv
<1>2. CASE CollectBoundary
    <2>1. Fresh(Head(stream)) /\ Waiting(Tail(stream))
        BY <1>2, RestWaits DEF CollectBoundary
    <2> DEFINE R == ToSet(boundary) \cup ToSet(stream)
               more == Append(boundary, Head(stream))
    <2>2. boundary \in Seq(R) /\ stream \in Seq(R) /\ stream # <<>>
        BY <1>2 DEF CollectBoundary, StageInv, Waiting
    <2>3. InOrder(more \o Tail(stream))
        <3> HIDE DEF R
        <3> QED
            BY <2>2, Collected DEF StageInv, StreamInOrder
    <2>4. more \in Seq(R)
        BY <2>2
    <2>5. Waiting(more)
        <3>1. \A rec \in R : Fresh(rec)
            BY DEF StageInv, Waiting
        <3> HIDE DEF R, more
        <3> QED
            BY <2>4, <3>1, OverItsMembers DEF Waiting
    <2> QED
        BY <1>2, <2>1, <2>3, <2>5 DEF CollectBoundary, StageInv
<1>3. CASE EndBoundary
    <2>1. Fresh(Head(stream)) /\ Waiting(Tail(stream)) /\ InOrder(<<>> \o Tail(stream))
        BY <1>3, RestWaits DEF EndBoundary
    <2>2. StOK(WriteBoundary(Current, boundary))
        BY CurrentOK, BoundaryKeeps DEF StageInv, Waiting
    <2>3. StOK(WriteRecord(WriteBoundary(Current, boundary), Head(stream)))
        BY <2>1, <2>2, WriteKeeps
    <2>4. Keyed(pending') /\ Continues(pending')
        BY <1>3, <2>3 DEF EndBoundary, Becomes, StOK, Continues
    <2> QED
        BY <1>0, <1>3, <2>1, <2>4 DEF EndBoundary
<1>4. CASE BoundaryExhausted
    <2>1. StOK(WriteBoundary(Current, boundary)) /\ Continues(Drain(Current).pending)
        BY CurrentOK, BoundaryKeeps, NothingIsKeyed DEF StageInv, Waiting, Drain, OutState
    <2>2. FullyConsumed => Continues(pending)
        BY DEF FullyConsumed, StageInv, Continues, Reaches
    <2>3. Keyed(pending') /\ Continues(pending')
        BY <1>4, <2>1, <2>2 DEF BoundaryExhausted, Becomes, StOK, Continues
    <2>4. Waiting(stream) /\ InOrder(<<>> \o stream)
        BY <1>0, <1>4 DEF BoundaryExhausted, InOrder
    <2> QED
        BY <1>0, <1>4, <2>3, <2>4 DEF BoundaryExhausted
<1>5. CASE BodyRecord
    <2>1. Fresh(Head(stream)) /\ Waiting(Tail(stream)) /\ InOrder(<<>> \o Tail(stream))
        BY <1>5, RestWaits DEF BodyRecord
    <2>2. boundary = <<>> /\ Waiting(boundary)
        BY <1>5 DEF BodyRecord, StageInv
    <2>3. StOK(WriteRecord(Current, Head(stream)))
        BY <1>5, <2>1, CurrentOK, WriteKeeps DEF BodyRecord
    <2>4. Keyed(pending') /\ Continues(pending')
        BY <1>5, <2>3 DEF BodyRecord, Becomes, StOK, Continues
    <2> QED
        BY <1>5, <2>1, <2>2, <2>4 DEF BodyRecord, StageInv
<1>6. CASE EndChunk
    <2>1. /\ chunk' = chunk + 1 /\ chunk \in Nat /\ input' = input /\ input \in Inputs
          /\ pending' = pending /\ stream' = stream /\ boundary' = boundary
          /\ phase = "body" /\ phase' = "idle" /\ stream = <<>> /\ boundary = <<>>
        BY <1>6 DEF EndChunk, StageInv
    <2>2. input.chunkSize \in Nat /\ input.bytes \in Seq(0 .. 255)
        BY <2>1, InputsAssumption
    <2>3. ChunkStart' = ChunkStart + input.chunkSize /\ ChunkStart \in Nat
        <3>1. \A m, n \in Nat : m * n \in Nat /\ (m + 1) * n = m * n + n
            OBVIOUS
        <3> QED
            BY <2>1, <2>2, <3>1 DEF ChunkStart
    <2>4. ChunkEnd = ChunkStart' \/ ChunkEnd = Len(input.bytes)
        BY <2>2, <2>3 DEF ChunkEnd
    <2>5. PendingReaches'
        <3>1. \A enc \in DOMAIN pending \ DeferredEncodings : End(pending[enc]) >= ChunkEnd
            BY <2>1 DEF StageInv, Continues, Keyed, Reaches, IsDecoded
        <3> QED
            BY <2>1, <2>4, <3>1 DEF PendingReaches
    <2>6. Keyed(pending)'
        BY <2>1 DEF StageInv, Keyed, Awaits, Proper, Selected, IsDecoded
    <2> QED
        BY <1>0, <2>1, <2>5, <2>6 DEF StageInv, Waiting, StreamInOrder, InOrder, ToSet
<1>7. CASE FlushPending
    <2>1. Keyed(pending')
        BY <1>7, NothingIsKeyed DEF FlushPending, Becomes, Drain, OutState
    <2> QED
        BY <1>7, <2>1 DEF FlushPending, StageInv, StreamInOrder
<1>8. CASE Interrupt
    BY <1>8 DEF Interrupt, StageInv, StreamInOrder
<1>9. CASE UNCHANGED vars
    BY <1>9 DEF vars, StageInv, StreamInOrder, Waiting, Keyed, Continues, Awaits, Fresh, Proper,
              Reaches, IsDecoded, Selected, ChunkEnd, ChunkStart, PendingReaches
<1>10. CASE Over
    BY <1>9, <1>10 DEF Over
<1> QED
    BY <1>1, <1>2, <1>3, <1>4, <1>5, <1>6, <1>7, <1>8, <1>9, <1>10 DEF Next

-----------------------------------------------------------------------------
(* What it gives.                                                          *)

\* The invariant holds as long as the scans deliver what they should.
LEMMA StageInvariant == Spec /\ []ScansDeliver => []StageInv
<1> QED
    BY StageInit, StageStep, PTL DEF Spec

\* If every scan delivers its records in order, then so is what output_merged_chunk has
\* collected and has yet to read, whatever the encodings and the sizes: the merge of
\* merger.rs puts the streams in order, and neither the boundary phase nor the hot loop
\* loses that order (outputter.rs:171).
THEOREM StreamStaysInOrder == Spec /\ []ScansDeliver => []StreamInOrder
<1>1. StageInv => StreamInOrder
    BY DEF StageInv
<1> QED
    BY <1>1, StageInvariant, PTL

\* If every scan makes raw exactly the records of a deferred encoding that touch a boundary,
\* append_data never meets a raw and a decoded payload (record.rs:155): not for a pending
\* record that was joined over any number of chunks, nor for a leftover.
THEOREM KindsNeverMix == Spec /\ []ScansDeliver => []NoMixedJoin
<1>1. StageInv => NoMixedJoin
    BY DEF StageInv, NoMixedJoin, Waiting, Keyed, Awaits, Fresh, Proper
<1> QED
    BY <1>1, StageInvariant, PTL

\* If no encoding is deferred, a record that is pending between two chunks reaches the start
\* of the next: one that was joined over any number of chunks, or that reaches past a chunk in
\* which nothing was found (chunk_fully_consumed, outputter.rs:151), included.
THEOREM TextStaysLive ==
    ASSUME \A in \in Inputs : ToSet(in.encodings) \cap DeferredEncodings = {}
    PROVE  Spec /\ []ScansDeliver => []PendingIsLive
<1>1. StageInv => PendingIsLive
    <2> SUFFICES ASSUME StageInv, phase = "idle", NEW enc \in DOMAIN pending
                 PROVE  ~(End(pending[enc]) < ChunkStart /\ End(pending[enc]) < Len(input.bytes))
        BY DEF PendingIsLive
    <2>1. /\ Proper(pending[enc]) /\ pending[enc].encoding = enc
          /\ enc \in Selected \ DeferredEncodings
        BY DEF StageInv, Keyed, Awaits, Proper, Selected
    <2>2. End(pending[enc]) \in Int
        BY <2>1 DEF Proper, IsDecoded, End
    <2>3. input.chunkSize \in Nat /\ Len(input.bytes) \in Nat /\ chunk \in Nat
        BY InputsAssumption DEF StageInv
    <2>4. ChunkStart \in Nat
        <3>1. \A m, n \in Nat : m * n \in Nat
            OBVIOUS
        <3> QED
            BY <2>3, <3>1 DEF ChunkStart
    <2> QED
        BY <2>1, <2>2, <2>3, <2>4 DEF StageInv, PendingReaches
<1> QED
    BY <1>1, StageInvariant, PTL

-----------------------------------------------------------------------------
(* The encodings of which every byte or every aligned pair is decoded      *)
(* alone, among them the two that are the default: nothing is assumed of   *)
(* the scans.                                                              *)

UnitEncodings == {"Ascii", "Windows1251", "Utf16leAscii"}

UnitInputs == \A in \in Inputs : ToSet(in.encodings) \subseteq UnitEncodings

\* Their scans deliver.
LEMMA UnitScans ==
    ASSUME UnitInputs, input \in Inputs, chunk \in Nat
    PROVE  ScansDeliver
<1>1. input.bytes \in Seq(0 .. 255) /\ input.chunkSize \in Nat /\ Len(input.bytes) \in Nat
    BY InputsAssumption
<1>2. ChunkStart \in Nat /\ ChunkEnd \in Nat
    <2>1. \A m, n \in Nat : m * n \in Nat
        OBVIOUS
    <2>2. ChunkStart \in Nat
        BY <1>1, <2>1 DEF ChunkStart
    <2> QED
        BY <1>1, <2>2 DEF ChunkEnd
<1>3. ASSUME NEW n \in DOMAIN ScanStreams
      PROVE  Delivered(ScanStreams[n], input.encodings[n], ChunkStart, ChunkEnd)
    <2> DEFINE enc == input.encodings[n]
    <2>1. n \in DOMAIN input.encodings
        BY DEF ScanStreams
    <2>2. ScanStreams[n] = Scan(enc, input.bytes, ChunkStart, ChunkEnd, input.minCch)
        BY <2>1 DEF ScanStreams
    <2>3. enc \in UnitEncodings
        BY <2>1 DEF UnitInputs, ToSet
    <2> HIDE DEF enc
    <2>4. CASE enc = "Ascii"
        <3>1. ScanStreams[n] = ScanAscii(input.filters, input.bytes, ChunkStart, ChunkEnd,
                                         input.minCch)
            BY <2>2, <2>4 DEF Scan, DbcsEncodings
        <3> QED
            BY <1>2, <2>4, <3>1, ScanAsciiDelivers DEF enc
    <2>5. CASE enc = "Windows1251"
        <3>1. ScanStreams[n] = ScanWindows1251(input.filters, input.bytes, ChunkStart, ChunkEnd,
                                               input.minCch)
            BY <2>2, <2>5 DEF Scan, DbcsEncodings
        <3> QED
            BY <1>2, <2>5, <3>1, ScanWindows1251Delivers DEF enc
    <2>6. CASE enc = "Utf16leAscii"
        <3>1. ScanStreams[n] = ScanUtf16leAscii(input.filters, input.bytes, ChunkStart, ChunkEnd,
                                                input.minCch)
            BY <2>2, <2>6 DEF Scan, DbcsEncodings
        <3> QED
            BY <1>1, <1>2, <2>6, <3>1, ScanUtf16leAsciiDelivers DEF enc
    <2> QED
        BY <2>3, <2>4, <2>5, <2>6 DEF UnitEncodings
<1>4. \A n \in DOMAIN ScanStreams : input.encodings[n] \notin DeferredEncodings
    BY DEF ScanStreams, UnitInputs, UnitEncodings, ToSet, DeferredEncodings, DbcsEncodings
<1> QED
    BY <1>3, <1>4 DEF ScansDeliver, Delivered, TextOf

\* So they do in every state: in the streams of every chunk the records are in order, and
\* exactly those that are flagged reach its end (scanner/ascii.rs, win1251.rs,
\* utf16le_ascii.rs).
THEOREM UnitScansDeliver == ASSUME UnitInputs PROVE Spec => []ScansDeliver
<1> DEFINE Counts == input \in Inputs /\ chunk \in Nat
<1>1. Init => Counts
    BY DEF Init
<1>2. Counts /\ [Next]_vars => Counts'
    BY DEF Counts, Next, vars, BeginChunk, CollectBoundary, EndBoundary, BoundaryExhausted,
           BodyRecord, EndChunk, FlushPending, Interrupt, Over
<1>3. Counts => ScansDeliver
    BY UnitScans
<1> QED
    BY <1>1, <1>2, <1>3, PTL DEF Spec

\* With the default encodings, whatever the file, the chunk size, the filters and --min-length:
\* the records of a chunk are output in the order of the merge, and what is pending between
\* chunks reaches the next.
THEOREM UnitOutputIsSound ==
    ASSUME UnitInputs
    PROVE  Spec => []StreamInOrder /\ []PendingIsLive
<1>1. Spec => []ScansDeliver
    BY UnitScansDeliver
<1>2. \A in \in Inputs : ToSet(in.encodings) \cap DeferredEncodings = {}
    BY DEF UnitInputs, UnitEncodings, DeferredEncodings, DbcsEncodings
<1>3. Spec /\ []ScansDeliver => []PendingIsLive
    BY <1>2, TextStaysLive
<1> QED
    BY <1>1, <1>3, StreamStaysInOrder, PTL

-----------------------------------------------------------------------------
(* What is written of one record.                                          *)

\* the record, if it is long
IfLong(x) == {y \in {x} : LongEnough(y)}

\* Of a record alone, that is what is written.
LEMMA LongHolds ==
    ASSUME NEW E, NEW x, x.encoding = E => x.offset \in Nat
    PROVE  Holds(E, Long(<<x>>), IF x.encoding = E THEN IfLong(x) ELSE {})
<1> DEFINE s == <<x>>
           S == IF x.encoding = E THEN {x} ELSE {}
           set == {rec \in ToSet(s) : LongEnough(rec)}
           c == [seq |-> s, set |-> set]
<1>1. Holds(E, s, S)
    BY HoldsOne
<1>2. IsSeq(s) /\ x \in ToSet(s)
    BY <1>1 DEF Holds, ToSet
<1>3. Long(s) = Those(s, set)
    BY DEF Long
<1> HIDE DEF s, S, set
<1>4. KeptSoFar([seq |-> s, set |-> set], Len(s), Those(s, set))
    BY <1>2, ThoseAre
<1>5. Holds(E, Those(s, set), S \cap set)
    BY <1>1, <1>4, HoldsKept
<1>6. S \cap set = IF x.encoding = E THEN IfLong(x) ELSE {}
    BY <1>2 DEF S, set, IfLong
<1> QED
    BY <1>3, <1>5, <1>6 DEF s

\* Nothing is stored.
NothingStored == INSTANCE LeftFold WITH Body <- LAMBDA c, map, rec : Store(map, rec),
                                        Kept <- LAMBDA c, n, map : map = c

LEMMA StoreNone == ASSUME NEW map PROVE StoreAll(map, <<>>) = map
<1>1. DOMAIN <<>> = 1 .. 0 /\ 0 \in Nat
    OBVIOUS
<1>2. NothingStored!Loop(map, map, <<>>) = map
    BY <1>1, NothingStored!FoldKeeps
<1>3. StoreAll(map, <<>>) = NothingStored!Loop(map, map, <<>>)
    BY DEF StoreAll, NothingStored!Loop, FoldLeft, NothingStored!FoldLeft, MapThenFoldSet,
            NothingStored!MapThenFoldSet, Max, NothingStored!Max
<1> QED
    BY <1>2, <1>3

\* What becomes of a record that is text.
LEMMA ResolvedIs ==
    ASSUME NEW rec, ~rec.raw
    PROVE  Resolve(rec).written = Long(<<rec>>) /\ Resolve(rec).leftover = <<>>
BY DEF Resolve

\* what is output, and what is pending, as they are passed on
IsOut(st) == st = [pending |-> st.pending, lines |-> st.lines]

\* Of such a record nothing is pending after it was written.
LEMMA WrittenIs ==
    ASSUME NEW st, NEW rec, ~rec.raw, ~rec.ends
    PROVE  /\ WriteRecord(st, rec).pending = st.pending
           /\ WriteRecord(st, rec).lines = st.lines \o LinesOf(Long(<<rec>>))
           /\ IsOut(WriteRecord(st, rec))
<1>1. WriteRecord(st, rec) = OutState(StoreAll(st.pending, <<>>),
                                      st.lines \o LinesOf(Long(<<rec>>)))
    BY ResolvedIs DEF WriteRecord, WriteResolved
<1>2. StoreAll(st.pending, <<>>) = st.pending
    BY StoreNone
<1> QED
    BY <1>1, <1>2 DEF OutState, IsOut

\* The lines of records.
LEMMA HoldsLines ==
    ASSUME NEW E, NEW recs, NEW S, Holds(E, recs, S)
    PROVE  Holds(E, LinesOf(recs), {Line(rec) : rec \in S})
<1> DEFINE out == LinesOf(recs)
<1>1. DOMAIN out = DOMAIN recs /\ \A i \in DOMAIN recs : out[i] = Line(recs[i])
    BY DEF LinesOf
<1>2. DOMAIN recs = 1 .. Len(recs) /\ Len(recs) \in Nat
    BY DEF Holds, IsSeq
<1>3. IsSeq(out)
    <2>1. out = [i \in 1 .. Len(recs) |-> out[i]]
        BY <1>2 DEF LinesOf
    <2>2. \A i \in 1 .. Len(recs) : out[i] \in ToSet(out)
        BY <1>1, <1>2 DEF ToSet
    <2> HIDE DEF out
    <2> QED
        BY <1>2, <2>1, <2>2 DEF IsSeq
<1> HIDE DEF out
<1>4. \A rec : Line(rec).encoding = rec.encoding /\ Line(rec).offset = rec.offset
    BY DEF Line
<1> QED
    BY <1>1, <1>3, <1>4 DEF Holds, out

\* Lines of other encodings change nothing.
LEMMA OthersAdded ==
    ASSUME NEW E, NEW s, NEW S, Holds(E, s, S), NEW t, Holds(E, t, {})
    PROVE  Holds(E, s \o t, S) /\ Holds(E, s \o LinesOf(t), S)
<1>1. Holds(E, LinesOf(t), {Line(rec) : rec \in {}})
    BY HoldsLines
<1>2. {Line(rec) : rec \in {}} = {} /\ S \cup {} = S
    OBVIOUS
<1>3. \A x \in S : \A y \in {} : x.offset < y.offset
    OBVIOUS
<1>4. Holds(E, s \o LinesOf(t), S \cup {})
    BY <1>1, <1>2, <1>3, HoldsConcat
<1>5. Holds(E, s \o t, S \cup {})
    BY <1>3, HoldsConcat
<1> QED
    BY <1>2, <1>4, <1>5

-----------------------------------------------------------------------------
(* process_boundary_records, as one encoding sees it.                      *)

\* no encoding is deferred, so that every record is text
NoneDeferred == Selected \cap DeferredEncodings = {}

\* the record that is pending of an encoding
Of(E, map) == {map[e] : e \in DOMAIN map \cap {E}}

\* of a set of records, those to be written
LongOf(S) == {x \in S : LongEnough(x)}

\* the variables of process_boundary_records, as far as they are about the encoding E
SeenAs(E, acc, v) ==
    /\ Of(E, acc.old) = v.old
    /\ Of(E, acc.continued) = v.continued
    /\ Holds(E, acc.remaining, v.remaining)
    /\ Holds(E, acc.toWrite, v.toWrite)

\* A record is text.
LEMMA IsText ==
    ASSUME NoneDeferred, NEW rec, Proper(rec)
    PROVE  ~rec.raw /\ rec.offset \in Nat
BY DEF NoneDeferred, Proper, IsDecoded

\* What is pending of the encoding.
LEMMA OfIs ==
    ASSUME NEW E, NEW map
    PROVE  /\ E \in DOMAIN map => Of(E, map) = {map[E]}
           /\ E \notin DOMAIN map => Of(E, map) = {}
BY DEF Of

\* After a record was stored.
LEMMA OfStored ==
    ASSUME NEW E, NEW map, NEW rec
    PROVE  Of(E, Store(map, rec)) = IF rec.encoding = E THEN {rec} ELSE Of(E, map)
<1>1. CASE rec.encoding = E
    BY <1>1 DEF Of, Store
<1>2. CASE rec.encoding # E
    BY <1>2 DEF Of, Store
<1> QED
    BY <1>1, <1>2

\* After one was taken out.
LEMMA OfOthers ==
    ASSUME NEW E, NEW map, NEW enc
    PROVE  Of(E, Without(map, enc)) = IF enc = E THEN {} ELSE Of(E, map)
<1>1. CASE enc = E
    BY <1>1 DEF Of, Without
<1>2. CASE enc # E
    BY <1>2 DEF Of, Without
<1> QED
    BY <1>1, <1>2

\* A record that is text and settled is written if it is long.
LEMMA SettledIs ==
    ASSUME NoneDeferred, NEW acc, AccOK(acc), NEW rec, Proper(rec)
    PROVE  SettleRecord(acc, rec) = [old |-> acc.old, continued |-> acc.continued,
                                     remaining |-> acc.remaining,
                                     toWrite |-> acc.toWrite \o Long(<<rec>>)]
<1> DEFINE more == acc.toWrite \o Long(<<rec>>)
<1>1. Resolve(rec).written = Long(<<rec>>) /\ Resolve(rec).leftover = <<>>
    BY IsText, ResolvedIs
<1>2. StoreAll(acc.continued, <<>>) = acc.continued
    BY StoreNone
<1>3. SettleRecord(acc, rec) = [acc EXCEPT !.toWrite = more, !.continued = acc.continued]
    BY <1>1, <1>2 DEF SettleRecord, SettleAs
<1> HIDE DEF more
<1>4. SettleRecord(acc, rec) = [old |-> acc.old, continued |-> acc.continued,
                                remaining |-> acc.remaining, toWrite |-> more]
    BY <1>3 DEF AccOK
<1> QED
    BY <1>4 DEF more

\* of the first n records, those of the encoding have been settled: there is one at most
SettledSoFar(c, n, acc) ==
    /\ AccOK(acc)
    /\ acc.old = c.acc.old /\ acc.continued = c.acc.continued
    /\ acc.remaining = c.acc.remaining
    /\ Holds(c.enc, acc.toWrite,
             IF \E i \in 1 .. n : c.recs[i].encoding = c.enc THEN c.after ELSE c.before)

SettlingAll == INSTANCE LeftFold WITH Body <- LAMBDA c, acc, rec : SettleRecord(acc, rec),
                                      Kept <- SettledSoFar

\* One more is settled.
LEMMA SettleOne ==
    ASSUME NoneDeferred, NEW c, NEW O, Holds(c.enc, c.recs, O), \A x, y \in O : x = y,
           c.after = c.before \cup LongOf(O), O # {} => c.before = {},
           NEW n \in DOMAIN c.recs, Proper(c.recs[n]), NEW acc, SettledSoFar(c, n - 1, acc)
    PROVE  SettledSoFar(c, n, SettleRecord(acc, c.recs[n]))
<1> DEFINE rec == c.recs[n]
           E == c.enc
           new == SettleRecord(acc, rec)
           Met(k) == \E i \in 1 .. k : c.recs[i].encoding = E
<1>1. new = [old |-> acc.old, continued |-> acc.continued, remaining |-> acc.remaining,
             toWrite |-> acc.toWrite \o Long(<<rec>>)]
    BY SettledIs DEF SettledSoFar
<1>2. AccOK(new)
    BY SettleRecordKeeps DEF SettledSoFar
<1>3. rec.offset \in Nat
    BY IsText
<1>4. n \in Nat /\ n >= 1 /\ \A i \in 1 .. n : i \in DOMAIN c.recs
    BY DEF Holds, IsSeq
<1>5. CASE rec.encoding # E
    <2>1. Holds(E, Long(<<rec>>), {})
        BY <1>5, LongHolds
    <2>2. Met(n) <=> Met(n - 1)
        <3>1. \A i \in 1 .. n : i = n \/ i \in 1 .. n - 1
            BY <1>4
        <3>2. \A i \in 1 .. n - 1 : i \in 1 .. n
            BY <1>4
        <3> QED
            BY <1>5, <3>1, <3>2
    <2>3. Holds(E, acc.toWrite \o Long(<<rec>>), IF Met(n - 1) THEN c.after ELSE c.before)
        <3>1. Holds(E, acc.toWrite, IF Met(n - 1) THEN c.after ELSE c.before)
            BY DEF SettledSoFar
        <3> QED
            BY <2>1, <3>1, OthersAdded
    <2>4. Holds(E, acc.toWrite \o Long(<<rec>>), IF Met(n) THEN c.after ELSE c.before)
        BY <2>2, <2>3
    <2> QED
        BY <1>1, <1>2, <2>4 DEF SettledSoFar
<1>6. CASE rec.encoding = E
    <2>1. rec \in O /\ O = {rec}
        BY <1>6 DEF Holds
    <2>2. ~Met(n - 1)
        <3> SUFFICES ASSUME NEW i \in 1 .. n - 1, c.recs[i].encoding = E PROVE FALSE
            OBVIOUS
        <3>1. i < n /\ i \in DOMAIN c.recs
            BY <1>4
        <3>2. c.recs[i].offset < rec.offset
            BY <1>6, <3>1 DEF Holds
        <3>3. c.recs[i] = rec
            BY <2>1, <3>1 DEF Holds
        <3> QED
            BY <1>3, <3>2, <3>3
    <2>3. c.before = {} /\ c.after = IfLong(rec)
        BY <2>1 DEF LongOf, IfLong
    <2>4. Holds(E, acc.toWrite, {})
        BY <2>2, <2>3 DEF SettledSoFar
    <2>5. Holds(E, Long(<<rec>>), IfLong(rec))
        BY <1>3, <1>6, LongHolds
    <2>6. Holds(E, acc.toWrite \o Long(<<rec>>), {} \cup IfLong(rec))
        <3>1. \A x \in {} : \A y \in IfLong(rec) : x.offset < y.offset
            OBVIOUS
        <3> QED
            BY <2>4, <2>5, <3>1, HoldsConcat
    <2>7. {} \cup IfLong(rec) = c.after /\ Met(n)
        BY <1>4, <1>6, <2>3
    <2>8. Holds(E, acc.toWrite \o Long(<<rec>>), IF Met(n) THEN c.after ELSE c.before)
        BY <2>6, <2>7
    <2> QED
        BY <1>1, <1>2, <2>8 DEF SettledSoFar
<1> QED
    BY <1>5, <1>6

\* Records are settled, and the rest of what the loop keeps is as before.
LEMMA SettleSeen ==
    ASSUME NoneDeferred, NEW E, NEW acc, AccOK(acc), NEW v, SeenAs(E, acc, v),
           NEW recs, \A i \in DOMAIN recs : Proper(recs[i]),
           NEW O, Holds(E, recs, O), \A x, y \in O : x = y, O # {} => v.toWrite = {},
           NEW rest, Holds(E, rest, {}),
           NEW w, w.old = v.old, w.continued = v.continued, w.remaining = v.remaining,
           w.toWrite = v.toWrite \cup LongOf(O)
    PROVE  SeenAs(E, Settle(acc, recs, rest), w)
<1> DEFINE c == [enc |-> E, acc |-> acc, recs |-> recs, before |-> v.toWrite, after |-> w.toWrite]
           N == Len(recs)
           folded == FoldLeft(SettleRecord, acc, recs)
<1>1. N \in Nat /\ DOMAIN recs = 1 .. N
    BY DEF Holds, IsSeq
<1>2. /\ c.enc = E /\ c.acc = acc /\ c.recs = recs
      /\ c.before = v.toWrite /\ c.after = w.toWrite
    OBVIOUS
<1> HIDE DEF c, N
<1>3. SettledSoFar(c, 0, acc)
    BY <1>2 DEF SettledSoFar, SeenAs
<1>4. ASSUME NEW n \in 1 .. N, NEW a, SettledSoFar(c, n - 1, a)
      PROVE  SettledSoFar(c, n, SettleRecord(a, recs[n]))
    <2>1. n \in DOMAIN c.recs /\ Proper(c.recs[n]) /\ c.recs[n] = recs[n]
        BY <1>1, <1>2
    <2>2. Holds(c.enc, c.recs, O) /\ c.after = c.before \cup LongOf(O)
        BY <1>2
    <2>3. O # {} => c.before = {}
        BY <1>2
    <2>4. SettledSoFar(c, n, SettleRecord(a, c.recs[n]))
        BY <1>4, <2>1, <2>2, <2>3, SettleOne
    <2> QED
        BY <2>1, <2>4
<1>5. folded = SettlingAll!Loop(c, acc, recs)
    BY DEF SettlingAll!Loop, FoldLeft, SettlingAll!FoldLeft, MapThenFoldSet,
            SettlingAll!MapThenFoldSet, Max, SettlingAll!Max
<1>6. SettledSoFar(c, N, SettlingAll!Loop(c, acc, recs))
    BY <1>1, <1>3, <1>4, SettlingAll!FoldKeeps
<1>7. SettledSoFar(c, N, folded)
    BY <1>5, <1>6
<1>8. Settle(acc, recs, rest) = [folded EXCEPT !.remaining = @ \o rest]
    BY DEF Settle
<1> HIDE DEF folded
<1>9. Settle(acc, recs, rest) = [old |-> acc.old, continued |-> acc.continued,
                                 remaining |-> acc.remaining \o rest,
                                 toWrite |-> folded.toWrite]
    BY <1>2, <1>7, <1>8 DEF SettledSoFar, AccOK
<1>10. Holds(E, folded.toWrite, w.toWrite)
    <2>1. CASE \E i \in 1 .. N : recs[i].encoding = E
        BY <1>2, <1>7, <2>1 DEF SettledSoFar
    <2>2. CASE ~\E i \in 1 .. N : recs[i].encoding = E
        <3>1. O = {}
            BY <1>1, <2>2 DEF Holds
        <3>2. w.toWrite = v.toWrite
            BY <3>1 DEF LongOf
        <3> QED
            BY <1>2, <1>7, <2>2, <3>2 DEF SettledSoFar
    <2> QED
        BY <2>1, <2>2
<1>11. Holds(E, acc.remaining \o rest, w.remaining)
    BY OthersAdded DEF SeenAs
<1> QED
    BY <1>9, <1>10, <1>11 DEF SeenAs

\* And one record alone.
LEMMA SettleSeenOne ==
    ASSUME NoneDeferred, NEW E, NEW acc, AccOK(acc), NEW v, SeenAs(E, acc, v),
           NEW rec, Proper(rec), rec.encoding = E => v.toWrite = {},
           NEW rest, Holds(E, rest, {}),
           NEW w, w.old = v.old, w.continued = v.continued, w.remaining = v.remaining,
           w.toWrite = IF rec.encoding = E THEN IfLong(rec) ELSE v.toWrite
    PROVE  SeenAs(E, Settle(acc, <<rec>>, rest), w)
<1> DEFINE O == IF rec.encoding = E THEN {rec} ELSE {}
           recs == <<rec>>
<1>1. \A i \in DOMAIN recs : Proper(recs[i])
    OBVIOUS
<1>2. Holds(E, recs, O)
    BY IsText, HoldsOne
<1>3. \A x, y \in O : x = y
    OBVIOUS
<1>4. O # {} => v.toWrite = {}
    OBVIOUS
<1>5. w.toWrite = v.toWrite \cup LongOf(O)
    BY DEF LongOf, IfLong
<1> HIDE DEF O, recs
<1>6. SeenAs(E, Settle(acc, recs, rest), w)
    BY <1>1, <1>2, <1>3, <1>4, <1>5, SettleSeen
<1> QED
    BY <1>6 DEF recs

\* before the record of the encoding has been met, and after it, if it is not joined, if what
\* it was joined to goes on, and if that ends with it
NotMet(o) == [old |-> o, continued |-> {}, remaining |-> {}, toWrite |-> {}]

Alone(x) == [old |-> {}, continued |-> {}, remaining |-> {x}, toWrite |-> {}]

GoesOn(x) == [old |-> {}, continued |-> {x}, remaining |-> {}, toWrite |-> {}]

EndsHere(x) == [old |-> {}, continued |-> {}, remaining |-> {}, toWrite |-> IfLong(x)]

\* A boundary record of another encoding changes nothing.
LEMMA JoinOther ==
    ASSUME NoneDeferred, NEW E, NEW acc, AccOK(acc), NEW rec, Candidate(rec), rec.encoding # E,
           NEW v, SeenAs(E, acc, v)
    PROVE  SeenAs(E, JoinOrSettle(acc, rec), v)
<1> DEFINE enc == rec.encoding
           prev == acc.old[enc]
           joined == AppendData(prev, rec)
           rest == [acc EXCEPT !.old = Without(@, enc)]
<1>1. CASE enc \notin DOMAIN acc.old
    <2>1. JoinOrSettle(acc, rec) = [acc EXCEPT !.remaining = Append(@, rec)]
        BY <1>1 DEF JoinOrSettle
    <2>2. Holds(E, Append(acc.remaining, rec), v.remaining \cup (IF enc = E THEN {rec} ELSE {}))
        BY HoldsAppend DEF SeenAs
    <2>3. v.remaining \cup (IF enc = E THEN {rec} ELSE {}) = v.remaining
        OBVIOUS
    <2> QED
        BY <2>1, <2>2, <2>3 DEF SeenAs, AccOK
<1>2. CASE enc \in DOMAIN acc.old
    <2>1. Awaits(prev) /\ prev.encoding = enc /\ Proper(prev)
        BY <1>2 DEF AccOK, Keyed, Awaits
    <2>2. End(prev) = rec.offset => Proper(joined) /\ joined.encoding = enc
        BY <2>1, JoinedIsProper DEF Candidate
    <2>3. AccOK(rest)
        BY WithoutKeeps DEF AccOK
    <2>4. JoinOrSettle(acc, rec) =
              IF End(prev) # rec.offset THEN Settle(rest, <<prev>>, <<rec>>)
              ELSE IF joined.ends THEN [rest EXCEPT !.continued = Store(@, joined)]
              ELSE Settle(rest, <<joined>>, <<>>)
        BY <1>2 DEF JoinOrSettle
    <2>5. Of(E, Without(acc.old, enc)) = Of(E, acc.old)
        BY OfOthers
    <2>6. SeenAs(E, rest, v)
        BY <2>5 DEF SeenAs, AccOK
    <2>7. Holds(E, <<rec>>, {})
        BY HoldsOne
    <2>8. Holds(E, <<>>, {})
        BY HoldsNothing
    <2> HIDE DEF rest, joined, prev
    <2>9. SeenAs(E, Settle(rest, <<prev>>, <<rec>>), v)
        BY <2>1, <2>3, <2>6, <2>7, SettleSeenOne
    <2>10. End(prev) = rec.offset => SeenAs(E, Settle(rest, <<joined>>, <<>>), v)
        BY <2>2, <2>3, <2>6, <2>8, SettleSeenOne
    <2>11. End(prev) = rec.offset => SeenAs(E, [rest EXCEPT !.continued = Store(@, joined)], v)
        <3> SUFFICES ASSUME End(prev) = rec.offset
                     PROVE  SeenAs(E, [rest EXCEPT !.continued = Store(@, joined)], v)
            OBVIOUS
        <3>1. Of(E, Store(rest.continued, joined)) = Of(E, rest.continued)
            BY <2>2, OfStored
        <3> QED
            BY <2>3, <2>6, <3>1 DEF SeenAs, AccOK
    <2> QED
        BY <2>4, <2>9, <2>10, <2>11
<1> QED
    BY <1>1, <1>2

\* One of the encoding, if nothing of it is pending.
LEMMA JoinNothing ==
    ASSUME NoneDeferred, NEW E, NEW acc, AccOK(acc), NEW rec, Candidate(rec), rec.encoding = E,
           SeenAs(E, acc, NotMet({}))
    PROVE  SeenAs(E, JoinOrSettle(acc, rec), Alone(rec))
<1>1. E \notin DOMAIN acc.old
    <2>1. Of(E, acc.old) = {}
        BY DEF SeenAs, NotMet
    <2> QED
        BY <2>1, OfIs
<1>2. JoinOrSettle(acc, rec) = [acc EXCEPT !.remaining = Append(@, rec)]
    BY <1>1 DEF JoinOrSettle
<1>3. rec.offset \in Nat
    BY IsText DEF Candidate, Fresh
<1>4. Holds(E, acc.remaining, {})
    BY DEF SeenAs, NotMet
<1>5. Holds(E, Append(acc.remaining, rec), {} \cup (IF rec.encoding = E THEN {rec} ELSE {}))
    BY <1>3, <1>4, HoldsAppend
<1>6. {} \cup (IF rec.encoding = E THEN {rec} ELSE {}) = {rec}
    OBVIOUS
<1> QED
    BY <1>2, <1>5, <1>6 DEF SeenAs, AccOK, NotMet, Alone

\* One of the encoding that is joined to the one that is pending.
LEMMA JoinPending ==
    ASSUME NoneDeferred, NEW E, NEW acc, AccOK(acc), NEW rec, Candidate(rec), rec.encoding = E,
           NEW prev, SeenAs(E, acc, NotMet({prev})), End(prev) = rec.offset
    PROVE  SeenAs(E, JoinOrSettle(acc, rec), IF rec.ends THEN GoesOn(AppendData(prev, rec))
                                             ELSE EndsHere(AppendData(prev, rec)))
<1> DEFINE joined == AppendData(prev, rec)
           rest == [acc EXCEPT !.old = Without(@, E)]
<1>1. E \in DOMAIN acc.old /\ acc.old[E] = prev
    <2>1. Of(E, acc.old) = {prev}
        BY DEF SeenAs, NotMet
    <2> QED
        BY <2>1, OfIs
<1>2. Awaits(prev) /\ prev.encoding = E
    BY <1>1 DEF AccOK, Keyed
<1>3. Proper(joined) /\ joined.encoding = E /\ joined.ends = rec.ends
    BY <1>2, JoinedIsProper DEF Candidate
<1>4. AccOK(rest)
    BY WithoutKeeps DEF AccOK
<1>5. JoinOrSettle(acc, rec) = IF joined.ends THEN [rest EXCEPT !.continued = Store(@, joined)]
                               ELSE Settle(rest, <<joined>>, <<>>)
    BY <1>1 DEF JoinOrSettle
<1>6. SeenAs(E, rest, NotMet({}))
    <2>1. Of(E, Without(acc.old, E)) = {}
        BY OfOthers
    <2> QED
        BY <2>1 DEF SeenAs, AccOK, NotMet
<1> HIDE DEF joined, rest
<1>7. CASE rec.ends
    <2>1. JoinOrSettle(acc, rec) = [rest EXCEPT !.continued = Store(@, joined)]
        BY <1>3, <1>5, <1>7
    <2>2. Of(E, Store(rest.continued, joined)) = {joined}
        BY <1>3, OfStored
    <2>3. SeenAs(E, JoinOrSettle(acc, rec), GoesOn(joined))
        BY <1>4, <1>6, <2>1, <2>2 DEF SeenAs, AccOK, NotMet, GoesOn
    <2> QED
        BY <1>7, <2>3 DEF joined
<1>8. CASE ~rec.ends
    <2>1. JoinOrSettle(acc, rec) = Settle(rest, <<joined>>, <<>>)
        BY <1>3, <1>5, <1>8
    <2>2. Holds(E, <<>>, {})
        BY HoldsNothing
    <2> DEFINE v == NotMet({})
               w == EndsHere(joined)
    <2>3. /\ w.old = v.old /\ w.continued = v.continued /\ w.remaining = v.remaining
          /\ w.toWrite = IF joined.encoding = E THEN IfLong(joined) ELSE v.toWrite
          /\ v.toWrite = {}
        BY <1>3 DEF NotMet, EndsHere
    <2> HIDE DEF v, w
    <2>4. SeenAs(E, rest, v)
        BY <1>6 DEF v
    <2>5. SeenAs(E, Settle(rest, <<joined>>, <<>>), w)
        BY <1>3, <1>4, <2>2, <2>3, <2>4, SettleSeenOne
    <2> QED
        BY <1>8, <2>1, <2>5 DEF joined, w
<1> QED
    BY <1>7, <1>8

\* what becomes of the record that is pending of the encoding when x is met
TurnsInto(E, o, x, u) ==
    \A acc : AccOK(acc) /\ SeenAs(E, acc, NotMet(o)) => SeenAs(E, JoinOrSettle(acc, x), u)

\* of the first n boundary records, the one of the encoding has been met
MetSoFar(c, n, acc) ==
    /\ AccOK(acc)
    /\ SeenAs(c.enc, acc, IF \E i \in 1 .. n : boundary[i].encoding = c.enc THEN c.met
                          ELSE NotMet(c.old))

MeetingAll == INSTANCE LeftFold WITH Body <- LAMBDA c, acc, rec : JoinOrSettle(acc, rec),
                                     Kept <- MetSoFar

\* One more is met.
LEMMA MeetOne ==
    ASSUME NoneDeferred, NEW c, NEW B, Holds(c.enc, boundary, B), \A x, y \in B : x = y,
           \A x \in B : TurnsInto(c.enc, c.old, x, c.met),
           \A rec \in ToSet(boundary) : Fresh(rec),
           NEW n \in DOMAIN boundary, NEW acc, MetSoFar(c, n - 1, acc)
    PROVE  MetSoFar(c, n, JoinOrSettle(acc, boundary[n]))
<1> DEFINE rec == boundary[n]
           E == c.enc
           new == JoinOrSettle(acc, rec)
           Met(k) == \E i \in 1 .. k : boundary[i].encoding = E
<1>1. Candidate(rec)
    BY DEF Candidate, ToSet
<1>2. AccOK(acc) /\ AccOK(new)
    BY <1>1, JoinKeeps DEF MetSoFar
<1>3. rec.offset \in Nat
    BY <1>1, IsText DEF Candidate, Fresh
<1>4. n \in Nat /\ n >= 1 /\ \A i \in 1 .. n : i \in DOMAIN boundary
    BY DEF Holds, IsSeq
<1>5. CASE rec.encoding # E
    <2>1. Met(n) <=> Met(n - 1)
        <3>1. \A i \in 1 .. n : i = n \/ i \in 1 .. n - 1
            BY <1>4
        <3>2. \A i \in 1 .. n - 1 : i \in 1 .. n
            BY <1>4
        <3> QED
            BY <1>5, <3>1, <3>2
    <2> DEFINE v == IF Met(n - 1) THEN c.met ELSE NotMet(c.old)
    <2>2. SeenAs(E, acc, v)
        BY DEF MetSoFar
    <2>3. v = IF Met(n) THEN c.met ELSE NotMet(c.old)
        BY <2>1
    <2> HIDE DEF v, new
    <2>4. SeenAs(E, JoinOrSettle(acc, rec), v)
        BY <1>1, <1>2, <1>5, <2>2, JoinOther
    <2> QED
        BY <1>2, <2>3, <2>4 DEF MetSoFar, new
<1>6. CASE rec.encoding = E
    <2>1. rec \in B
        BY <1>6 DEF Holds
    <2>2. ~Met(n - 1)
        <3> SUFFICES ASSUME NEW i \in 1 .. n - 1, boundary[i].encoding = E PROVE FALSE
            OBVIOUS
        <3>1. i < n /\ i \in DOMAIN boundary
            BY <1>4
        <3>2. boundary[i].offset < rec.offset
            BY <1>6, <3>1 DEF Holds
        <3>3. boundary[i] = rec
            BY <2>1, <3>1 DEF Holds
        <3> QED
            BY <1>3, <3>2, <3>3
    <2>3. SeenAs(E, acc, NotMet(c.old))
        BY <2>2 DEF MetSoFar
    <2>4. SeenAs(E, new, c.met)
        BY <1>2, <2>1, <2>3 DEF TurnsInto
    <2>5. Met(n)
        BY <1>4, <1>6
    <2> HIDE DEF new
    <2> QED
        BY <1>2, <2>4, <2>5 DEF MetSoFar, new
<1> QED
    BY <1>5, <1>6

\* So all are.
LEMMA MeetSeen ==
    ASSUME NoneDeferred, NEW E, NEW map, Keyed(map), NEW B, Holds(E, boundary, B),
           \A x, y \in B : x = y, \A rec \in ToSet(boundary) : Fresh(rec),
           NEW u, \A x \in B : TurnsInto(E, Of(E, map), x, u)
    PROVE  /\ AccOK(Meet(map, boundary))
           /\ SeenAs(E, Meet(map, boundary), IF B = {} THEN NotMet(Of(E, map)) ELSE u)
<1> DEFINE c == [enc |-> E, old |-> Of(E, map), met |-> u]
           N == Len(boundary)
<1>1. N \in Nat /\ DOMAIN boundary = 1 .. N
    BY DEF Holds, IsSeq
<1>2. c.enc = E /\ c.old = Of(E, map) /\ c.met = u
    OBVIOUS
<1> HIDE DEF c, N
<1>3. MetSoFar(c, 0, Pristine(map))
    <2>1. AccOK(Pristine(map))
        BY NothingIsKeyed DEF AccOK, Pristine
    <2>2. Of(E, <<>>) = {}
        BY DEF Of
    <2>3. SeenAs(E, Pristine(map), NotMet(Of(E, map)))
        BY <2>2, HoldsNothing DEF SeenAs, Pristine, NotMet
    <2> QED
        BY <1>2, <2>1, <2>3 DEF MetSoFar
<1>4. ASSUME NEW n \in 1 .. N, NEW a, MetSoFar(c, n - 1, a)
      PROVE  MetSoFar(c, n, JoinOrSettle(a, boundary[n]))
    BY <1>1, <1>2, <1>4, MeetOne
<1>5. MetSoFar(c, N, MeetingAll!Loop(c, Pristine(map), boundary))
    BY <1>1, <1>3, <1>4, MeetingAll!FoldKeeps
<1>6. Meet(map, boundary) = MeetingAll!Loop(c, Pristine(map), boundary)
    BY DEF Meet, MeetingAll!Loop, FoldLeft, MeetingAll!FoldLeft, MapThenFoldSet,
            MeetingAll!MapThenFoldSet, Max, MeetingAll!Max
<1>7. (\E i \in 1 .. N : boundary[i].encoding = E) <=> B # {}
    <2>1. ASSUME NEW i \in 1 .. N, boundary[i].encoding = E PROVE B # {}
        BY <1>1, <2>1 DEF Holds
    <2>2. ASSUME NEW x \in B PROVE \E i \in 1 .. N : boundary[i].encoding = E
        BY <1>1 DEF Holds
    <2> QED
        BY <2>1, <2>2
<1> QED
    BY <1>2, <1>5, <1>6, <1>7 DEF MetSoFar

\* The values of a map, of which one is of the encoding at most.
LEMMA ValuesHold ==
    ASSUME NoneDeferred, NEW E, NEW map, Keyed(map)
    PROVE  /\ Holds(E, SetToSeq(Range(map)), Of(E, map))
           /\ \A i \in DOMAIN SetToSeq(Range(map)) : Proper(SetToSeq(Range(map))[i])
           /\ \A x, y \in Of(E, map) : x = y
<1> DEFINE F == Range(map)
           s == SetToSeq(F)
<1>1. map \in Surjection(DOMAIN map, F)
    BY DEF Surjection, Range, Keyed
<1>2. IsFiniteSet(F)
    BY <1>1, FS_Surjection DEF Keyed
<1>3. ASSUME NEW x \in F PROVE Proper(x) /\ x.offset \in Nat /\ x = map[x.encoding]
    <2>1. PICK e \in DOMAIN map : x = map[e]
        BY DEF Range
    <2>2. Proper(x) /\ x.encoding = e
        BY <2>1 DEF Keyed, Awaits
    <2> QED
        BY <2>1, <2>2, IsText
<1>4. {x \in F : x.encoding = E} = Of(E, map)
    <2>1. ASSUME NEW x \in F, x.encoding = E PROVE x \in Of(E, map)
        <3>1. PICK e \in DOMAIN map : x = map[e]
            BY DEF Range
        <3>2. e = E
            BY <2>1, <3>1 DEF Keyed
        <3> QED
            BY <3>1, <3>2 DEF Of
    <2>2. ASSUME NEW x \in Of(E, map) PROVE x \in F /\ x.encoding = E
        BY DEF Of, Range, Keyed
    <2> QED
        BY <2>1, <2>2
<1>5. \A x, y \in Of(E, map) : x = y
    BY DEF Of
<1> HIDE DEF F
<1>6. \A x \in F : x.encoding = E => x.offset \in Nat
    BY <1>3
<1>7. \A x, y \in F : x.encoding = E /\ y.encoding = E /\ x # y => x.offset # y.offset
    BY <1>3
<1>8. Lists(E, SetToSeq(F), {x \in F : x.encoding = E})
    BY <1>2, <1>6, <1>7, ListsSet
<1>9. Lists(E, s, Of(E, map))
    BY <1>4, <1>8
<1>10. \A i \in DOMAIN s : s[i] \in F
    BY <1>2, InSomeOrder
<1> HIDE DEF s
<1>11. Holds(E, s, Of(E, map))
    <2>1. ASSUME NEW i \in DOMAIN s, NEW j \in DOMAIN s, i < j,
                 s[i].encoding = E, s[j].encoding = E
          PROVE  FALSE
        <3>1. i # j
            BY <1>9, <2>1 DEF Lists, IsSeq
        <3>2. s[i].offset # s[j].offset
            BY <1>9, <2>1, <3>1 DEF Lists
        <3>3. s[i] = s[j]
            BY <1>5, <1>9, <2>1 DEF Lists
        <3> QED
            BY <3>2, <3>3
    <2> QED
        BY <1>9, <2>1 DEF Lists, Holds
<1> QED
    BY <1>3, <1>5, <1>10, <1>11 DEF s, F

\* What nothing continued is written if it is long.
LEMMA OrphansSeen ==
    ASSUME NoneDeferred, NEW E, NEW met, AccOK(met), NEW v, SeenAs(E, met, v),
           v.old # {} => v.toWrite = {},
           NEW w, w.old = v.old, w.continued = v.continued, w.remaining = v.remaining,
           w.toWrite = v.toWrite \cup LongOf(v.old)
    PROVE  SeenAs(E, SettleOrphans(met), w)
<1> DEFINE recs == SetToSeq(Range(met.old))
<1>1. Keyed(met.old) /\ Of(E, met.old) = v.old
    BY DEF AccOK, SeenAs
<1>2. /\ Holds(E, recs, v.old) /\ \A i \in DOMAIN recs : Proper(recs[i])
      /\ \A x, y \in v.old : x = y
    BY <1>1, ValuesHold
<1>3. Holds(E, <<>>, {})
    BY HoldsNothing
<1>4. SettleOrphans(met) = Settle(met, recs, <<>>)
    BY DEF SettleOrphans
<1> HIDE DEF recs
<1> QED
    BY <1>2, <1>3, <1>4, SettleSeen

-----------------------------------------------------------------------------
(* drain_pending, as one encoding sees it.                                 *)

\* of the first n pending records, the one of the encoding has been drained
DrainedSoFar(c, n, out) ==
    Holds(c.enc, out, IF \E i \in 1 .. n : c.recs[i].encoding = c.enc THEN c.after ELSE {})

Draining == INSTANCE LeftFold WITH Body <- LAMBDA c, out, rec : DrainRecord(out, rec),
                                   Kept <- DrainedSoFar

\* One more is drained.
LEMMA DrainOne ==
    ASSUME NoneDeferred, NEW c, NEW O, Holds(c.enc, c.recs, O), \A x, y \in O : x = y,
           c.after = LongOf(O), NEW n \in Nat, n \in DOMAIN c.recs, Proper(c.recs[n]),
           NEW out, DrainedSoFar(c, n - 1, out)
    PROVE  DrainedSoFar(c, n, DrainRecord(out, c.recs[n]))
<1> DEFINE rec == c.recs[n]
           E == c.enc
           Met(k) == \E i \in 1 .. k : c.recs[i].encoding = E
<1>1. DrainRecord(out, rec) = out \o Long(<<rec>>)
    BY IsText, ResolvedIs DEF DrainRecord
<1>2. rec.offset \in Nat
    BY IsText
<1>3. n \in Nat /\ n >= 1 /\ \A i \in 1 .. n : i \in DOMAIN c.recs
    BY DEF Holds, IsSeq
<1>4. CASE rec.encoding # E
    <2>1. Holds(E, Long(<<rec>>), {})
        BY <1>4, LongHolds
    <2>2. Met(n) <=> Met(n - 1)
        <3>1. \A i \in 1 .. n : i = n \/ i \in 1 .. n - 1
            BY <1>3
        <3>2. \A i \in 1 .. n - 1 : i \in 1 .. n
            BY <1>3
        <3> QED
            BY <1>4, <3>1, <3>2
    <2>3. Holds(E, out, IF Met(n - 1) THEN c.after ELSE {})
        BY DEF DrainedSoFar
    <2>4. Holds(E, out \o Long(<<rec>>), IF Met(n - 1) THEN c.after ELSE {})
        BY <2>1, <2>3, OthersAdded
    <2>5. Holds(E, out \o Long(<<rec>>), IF Met(n) THEN c.after ELSE {})
        BY <2>2, <2>4
    <2> QED
        BY <1>1, <2>5 DEF DrainedSoFar
<1>5. CASE rec.encoding = E
    <2>1. rec \in O /\ O = {rec}
        BY <1>5 DEF Holds
    <2>2. ~Met(n - 1)
        <3> SUFFICES ASSUME NEW i \in 1 .. n - 1, c.recs[i].encoding = E PROVE FALSE
            OBVIOUS
        <3>1. i < n /\ i \in DOMAIN c.recs
            BY <1>3
        <3>2. c.recs[i].offset < rec.offset
            BY <1>5, <3>1 DEF Holds
        <3>3. c.recs[i] = rec
            BY <2>1, <3>1 DEF Holds
        <3> QED
            BY <1>2, <3>2, <3>3
    <2>3. c.after = IfLong(rec)
        BY <2>1 DEF LongOf, IfLong
    <2>4. Holds(E, out, {})
        BY <2>2 DEF DrainedSoFar
    <2>5. Holds(E, Long(<<rec>>), IfLong(rec))
        BY <1>2, <1>5, LongHolds
    <2>6. Holds(E, out \o Long(<<rec>>), {} \cup IfLong(rec))
        <3>1. \A x \in {} : \A y \in IfLong(rec) : x.offset < y.offset
            OBVIOUS
        <3> QED
            BY <2>4, <2>5, <3>1, HoldsConcat
    <2>7. {} \cup IfLong(rec) = c.after /\ Met(n)
        BY <1>3, <1>5, <2>3
    <2>8. Holds(E, out \o Long(<<rec>>), IF Met(n) THEN c.after ELSE {})
        BY <2>6, <2>7
    <2> QED
        BY <1>1, <2>8 DEF DrainedSoFar
<1> QED
    BY <1>4, <1>5

\* So all are.
LEMMA DrainEach ==
    ASSUME NoneDeferred, NEW c, NEW O, Holds(c.enc, c.recs, O), \A x, y \in O : x = y,
           c.after = LongOf(O), \A i \in DOMAIN c.recs : Proper(c.recs[i])
    PROVE  Holds(c.enc, DrainedOf(c.recs), c.after)
<1>1. PICK N \in Nat : DOMAIN c.recs = 1 .. N
    BY DEF Holds, IsSeq
<1>2. DrainedSoFar(c, 0, <<>>)
    BY HoldsNothing DEF DrainedSoFar
<1>3. ASSUME NEW n \in 1 .. N, NEW out, DrainedSoFar(c, n - 1, out)
      PROVE  DrainedSoFar(c, n, DrainRecord(out, c.recs[n]))
    <2>1. n \in Nat /\ n \in DOMAIN c.recs /\ Proper(c.recs[n])
        BY <1>1
    <2> QED
        BY <1>3, <2>1, DrainOne
<1>4. DrainedSoFar(c, N, Draining!Loop(c, <<>>, c.recs))
    BY <1>1, <1>2, <1>3, Draining!FoldKeeps
<1>5. DrainedOf(c.recs) = Draining!Loop(c, <<>>, c.recs)
    BY DEF DrainedOf, Draining!Loop, FoldLeft, Draining!FoldLeft, MapThenFoldSet,
            Draining!MapThenFoldSet, Max, Draining!Max
<1>6. CASE \E i \in 1 .. N : c.recs[i].encoding = c.enc
    BY <1>4, <1>5, <1>6 DEF DrainedSoFar
<1>7. CASE ~\E i \in 1 .. N : c.recs[i].encoding = c.enc
    <2>1. O = {}
        BY <1>1, <1>7 DEF Holds
    <2>2. c.after = {}
        BY <2>1 DEF LongOf
    <2> QED
        BY <1>4, <1>5, <1>7, <2>2 DEF DrainedSoFar
<1> QED
    BY <1>6, <1>7

\* And for records and an encoding that are given.
LEMMA DrainAll ==
    ASSUME NoneDeferred, NEW E, NEW recs, NEW O, Holds(E, recs, O), \A x, y \in O : x = y,
           \A i \in DOMAIN recs : Proper(recs[i])
    PROVE  Holds(E, DrainedOf(recs), LongOf(O))
<1> DEFINE c == [enc |-> E, recs |-> recs, after |-> LongOf(O)]
<1>1. c.enc = E /\ c.recs = recs /\ c.after = LongOf(O)
    OBVIOUS
<1> HIDE DEF c
<1>2. Holds(c.enc, c.recs, O) /\ \A i \in DOMAIN c.recs : Proper(c.recs[i])
    BY <1>1
<1>3. Holds(c.enc, DrainedOf(c.recs), c.after)
    BY <1>1, <1>2, DrainEach
<1> QED
    BY <1>1, <1>3

\* So the pending record of the encoding is drained, if it is long.
LEMMA DrainHolds ==
    ASSUME NoneDeferred, NEW E, NEW map, Keyed(map)
    PROVE  Holds(E, Sorted(DrainedOf(SetToSeq(Range(map)))), LongOf(Of(E, map)))
<1> DEFINE recs == SetToSeq(Range(map))
           O == Of(E, map)
           W == LongOf(O)
<1>1. /\ Holds(E, recs, O) /\ \A i \in DOMAIN recs : Proper(recs[i])
      /\ \A x, y \in O : x = y
    BY ValuesHold
<1> HIDE DEF recs, O
<1>2. Holds(E, DrainedOf(recs), W)
    BY <1>1, DrainAll
<1>3. \A x, y \in W : x = y
    BY <1>1 DEF LongOf
<1> HIDE DEF W
<1>4. Holds(E, Sorted(DrainedOf(recs)), W)
    BY <1>2, <1>3, SortedHoldsOne
<1> QED
    BY <1>4 DEF recs, O, W

=============================================================================
