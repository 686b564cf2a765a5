-------------------------- MODULE WholeOutputProofs --------------------------
(***************************************************************************)
(* The strings of an encoding of single bytes are output whole, once and   *)
(* in file order, whatever the chunk size and whatever else is looked for: *)
(* the output is at any time a prefix of what one scan of the whole file   *)
(* finds, and in the end all of it.                                        *)
(***************************************************************************)
EXTENDS OutputProofs, WholeFileProofs

-----------------------------------------------------------------------------
(* The strings of the file.                                                *)

\* What is to be printed of the file are the lines of its long runs.
LEMMA StringsHold ==
    ASSUME input.bytes \in Seq(0 .. 255), NEW E \in ByteEncodings
    PROVE  /\ Holds(E, Strings(E), WholeLines(E, input.bytes, Text(input, E), input.minCch,
                                              Len(input.bytes)))
           /\ \A i \in DOMAIN Strings(E) : Strings(E)[i].encoding = E
<1> DEFINE file == input.bytes
           L == Len(file)
           T == Text(input, E)
           F == {rec \in WholeFileRuns(E) : LongEnough(rec)}
           recs == Sorted(SetToSeq(F))
           W == WholeLines(E, file, T, input.minCch, L)
<1>1. L \in Nat /\ T \subseteq 0 .. L - 1
    BY DEF Text
<1>2. WholeFileRuns(E) = AllRuns(E)
    BY DEF WholeFileRuns, ByteEncodings
<1>3. \A a, b : /\ RecordOf(E, file, a, b, FALSE, FALSE).encoding = E
                /\ RecordOf(E, file, a, b, FALSE, FALSE).offset = a
                /\ RecordOf(E, file, a, b, FALSE, FALSE).cch = b - a
    BY DEF RecordOf, TextRecord
<1> HIDE DEF T
<1>4. IsFiniteSet(F)
    BY <1>2, WholeFileRunsAre, FS_Subset
<1>5. \A x \in F : \E a, b \in Nat : /\ Whole(T, a, b) /\ b - a >= input.minCch
                                     /\ x = RecordOf(E, file, a, b, FALSE, FALSE)
    <2> SUFFICES ASSUME NEW x \in F
                 PROVE  \E a, b \in Nat : /\ Whole(T, a, b) /\ b - a >= input.minCch
                                          /\ x = RecordOf(E, file, a, b, FALSE, FALSE)
        OBVIOUS
    <2>1. PICK a \in Nat, b \in Nat :
              Whole(T, a, b) /\ x = RecordOf(E, file, a, b, FALSE, FALSE)
        BY <1>2, WholeFileRunsAre DEF T
    <2>2. b - a >= input.minCch
        BY <1>3, <2>1 DEF LongEnough
    <2>3. WITNESS a \in Nat, b \in Nat
    <2> QED
        BY <2>1, <2>2
<1>6. \A a, b \in Nat : Whole(T, a, b) /\ b - a >= input.minCch =>
          RecordOf(E, file, a, b, FALSE, FALSE) \in F
    BY <1>2, <1>3, WholeFileRunsAre DEF LongEnough, T
<1> HIDE DEF F
<1>7. \A x \in F : x.encoding = E /\ x.offset \in Nat
    <2> SUFFICES ASSUME NEW x \in F PROVE x.encoding = E /\ x.offset \in Nat
        OBVIOUS
    <2>1. PICK a \in Nat, b \in Nat :
              Whole(T, a, b) /\ x = RecordOf(E, file, a, b, FALSE, FALSE)
        BY <1>5
    <2> QED
        BY <2>1 DEF RecordOf, TextRecord
<1>8. \A x, y \in F : x # y => x.offset # y.offset
    <2> SUFFICES ASSUME NEW x \in F, NEW y \in F, x.offset = y.offset PROVE x = y
        OBVIOUS
    <2>1. PICK a \in Nat, b \in Nat :
              Whole(T, a, b) /\ x = RecordOf(E, file, a, b, FALSE, FALSE)
        BY <1>5
    <2>2. PICK d \in Nat, g \in Nat :
              Whole(T, d, g) /\ y = RecordOf(E, file, d, g, FALSE, FALSE)
        BY <1>5
    <2>3. a = d
        BY <2>1, <2>2 DEF RecordOf, TextRecord
    <2>4. b = g
        BY <2>1, <2>2, <2>3 DEF Whole
    <2> QED
        BY <2>1, <2>2, <2>3, <2>4
<1>9. Lists(E, SetToSeq(F), F)
    <2>1. Lists(E, SetToSeq(F), {x \in F : x.encoding = E})
        BY <1>4, <1>7, <1>8, ListsSet
    <2>2. {x \in F : x.encoding = E} = F
        BY <1>7
    <2> QED
        BY <2>1, <2>2
<1>10. \A i \in DOMAIN SetToSeq(F) : SetToSeq(F)[i].encoding = E
    BY <1>4, <1>7, InSomeOrder
<1>11. Holds(E, recs, F) /\ \A i \in DOMAIN recs : recs[i].encoding = E
    <2>1. PICK pure \in BOOLEAN : pure = TRUE
        OBVIOUS
    <2> QED
        BY <1>9, <1>10, <2>1, SortedHolds
<1> HIDE DEF recs
<1>12. Strings(E) = LinesOf(recs)
    BY DEF Strings, recs, F
<1>13. Holds(E, LinesOf(recs), {Line(rec) : rec \in F})
    BY <1>11, HoldsLines
<1>14. {Line(rec) : rec \in F} = W
    <2>1. ASSUME NEW x \in F PROVE Line(x) \in W
        <3>1. PICK a \in Nat, b \in Nat :
                  /\ Whole(T, a, b) /\ b - a >= input.minCch
                  /\ x = RecordOf(E, file, a, b, FALSE, FALSE)
            BY <1>5
        <3>2. Line(x) = LineAt(E, file, a, b)
            BY <3>1, LineOfRecord
        <3>3. a < L
            <4>1. a \in T
                BY <3>1 DEF Whole
            <4> QED
                BY <1>1, <4>1
        <3> QED
            BY <3>1, <3>2, <3>3, WholeLinesAre
    <2>2. ASSUME NEW x \in W PROVE x \in {Line(rec) : rec \in F}
        <3>1. PICK a \in Nat, b \in Nat :
                  Whole(T, a, b) /\ b - a >= input.minCch /\ x = LineAt(E, file, a, b)
            BY WholeLinesAre
        <3>2. x = Line(RecordOf(E, file, a, b, FALSE, FALSE))
            BY <3>1, LineOfRecord
        <3> QED
            BY <1>6, <3>1, <3>2
    <2> QED
        BY <2>1, <2>2
<1>15. \A i \in DOMAIN LinesOf(recs) : LinesOf(recs)[i].encoding = E
    BY <1>11 DEF LinesOf, Line
<1> QED
    BY <1>12, <1>13, <1>14, <1>15 DEF T

-----------------------------------------------------------------------------
(* What is written of one record.                                          *)

\* A run that was pending is closed, and if it is long its line is added.
LEMMA LineAdded ==
    ASSUME NEW E, NEW q \in Nat, NEW b \in Nat, Frontier(Text(input, E), q, b), q < b,
           b \notin Text(input, E), NEW out, Holds(E, out, LinesBefore(E, q)),
           NEW s, NEW t, NEW recs, Holds(E, recs, IfLong(TheRecord(E, q, b, s, t)))
    PROVE  /\ Holds(E, out \o LinesOf(recs), LinesBefore(E, b + 1))
           /\ Frontier(Text(input, E), b + 1, b + 1)
<1> DEFINE x == TheRecord(E, q, b, s, t)
           new == LineAt(E, input.bytes, q, b)
           W == LinesBefore(E, q)
<1>1. x.cch = b - q /\ Line(x) = new
    BY LineOfRecord DEF RecordOf, TextRecord, TheRecord
<1>2. LongEnough(x) <=> b - q >= input.minCch
    BY <1>1 DEF LongEnough
<1>3. /\ Frontier(Text(input, E), b + 1, b + 1)
      /\ b - q >= input.minCch => LinesBefore(E, b + 1) = W \cup {new}
      /\ ~(b - q >= input.minCch) => LinesBefore(E, b + 1) = W
    BY RunClosed DEF LinesBefore
<1> HIDE DEF x
<1>4. Holds(E, LinesOf(recs), {Line(rec) : rec \in IfLong(x)})
    BY HoldsLines DEF x
<1>5. \A y \in W : y.offset < q
    <2> SUFFICES ASSUME NEW y \in W PROVE y.offset < q
        OBVIOUS
    <2>1. PICK c \in Nat, d \in Nat : c < q /\ y = LineAt(E, input.bytes, c, d)
        BY WholeLinesAre DEF LinesBefore
    <2> QED
        BY <2>1 DEF LineAt
<1>6. new.offset = q
    BY DEF LineAt
<1> HIDE DEF W, new
<1>7. CASE LongEnough(x)
    <2>1. {Line(rec) : rec \in IfLong(x)} = {new}
        BY <1>1, <1>7 DEF IfLong
    <2>2. Holds(E, LinesOf(recs), {new})
        BY <1>4, <2>1
    <2>3. \A y \in W : \A z \in {new} : y.offset < z.offset
        BY <1>5, <1>6
    <2>4. Holds(E, out \o LinesOf(recs), W \cup {new})
        BY <2>2, <2>3, HoldsConcat DEF W
    <2> QED
        BY <1>2, <1>3, <1>7, <2>4
<1>8. CASE ~LongEnough(x)
    <2>1. {Line(rec) : rec \in IfLong(x)} = {}
        BY <1>8 DEF IfLong
    <2>2. Holds(E, LinesOf(recs), {})
        BY <1>4, <2>1
    <2>3. \A y \in W : \A z \in {} : y.offset < z.offset
        OBVIOUS
    <2>4. Holds(E, out \o LinesOf(recs), W \cup {})
        BY <2>2, <2>3, HoldsConcat DEF W
    <2>5. W \cup {} = W
        OBVIOUS
    <2> QED
        BY <1>2, <1>3, <1>8, <2>4, <2>5
<1> QED
    BY <1>7, <1>8

-----------------------------------------------------------------------------
(* The records of the chunk, one after the other.                          *)

\* A record of another encoding changes nothing.
LEMMA OtherWritten ==
    ASSUME NEW E, NEW st, NEW rec, rec.encoding # E, ~rec.raw, IsOut(st),
           NEW q, NEW p, Reached(E, st, q, p)
    PROVE  Reached(E, WriteRecord(st, rec), q, p) /\ IsOut(WriteRecord(st, rec))
<1>1. CASE rec.ends
    <2> DEFINE map == Store(st.pending, rec)
    <2>1. WriteRecord(st, rec) = [pending |-> map, lines |-> st.lines]
        BY <1>1 DEF WriteRecord, IsOut
    <2>2. /\ E \in DOMAIN map <=> E \in DOMAIN st.pending
          /\ E \in DOMAIN map => map[E] = st.pending[E]
        BY DEF Store
    <2> HIDE DEF map
    <2>3. WriteRecord(st, rec).pending = map /\ WriteRecord(st, rec).lines = st.lines
        BY <2>1
    <2>4. IsOut(WriteRecord(st, rec))
        BY <2>1 DEF IsOut
    <2>5. PendingIs(E, st.pending, q, p) => PendingIs(E, map, q, p)
        BY <2>2 DEF PendingIs
    <2> QED
        BY <2>2, <2>3, <2>4, <2>5 DEF Reached
<1>2. CASE ~rec.ends
    <2>1. /\ WriteRecord(st, rec).pending = st.pending
          /\ WriteRecord(st, rec).lines = st.lines \o LinesOf(Long(<<rec>>))
          /\ IsOut(WriteRecord(st, rec))
        BY <1>2, WrittenIs
    <2>2. Holds(E, Long(<<rec>>), {})
        BY LongHolds
    <2>3. Holds(E, st.lines \o LinesOf(Long(<<rec>>)), LinesBefore(E, q))
        BY <2>2, OthersAdded DEF Reached
    <2> QED
        BY <2>1, <2>3 DEF Reached
<1> QED
    BY <1>1, <1>2

\* Whatever the next record, the output goes on as it should.
LEMMA WriteNext ==
    ASSUME input \in Inputs, chunk \in Nat, NEW E, NEW st, IsOut(st), NEW recs, recs # <<>>,
           InChunk(E, st, recs), NEW rec, rec = Head(recs), ~rec.raw
    PROVE  InChunk(E, WriteRecord(st, rec), Tail(recs)) /\ IsOut(WriteRecord(st, rec))
<1> DEFINE T == Text(input, E)
           after == WriteRecord(st, rec)
<1>1. PICK q \in Nat, p \in Nat :
          /\ Reached(E, st, q, p)
          /\ ChunkStart <= p /\ p <= ChunkEnd /\ (q < p => p = ChunkEnd)
          /\ Holds(E, recs, RecordsLeft(E, p))
    BY DEF InChunk
<1>2. /\ Holds(E, Tail(recs), RecordsLeft(E, p) \ {rec})
      /\ rec.encoding = E =>
            rec \in RecordsLeft(E, p) /\ \A y \in RecordsLeft(E, p) \ {rec} : rec.offset < y.offset
    BY <1>1, HoldsTail
<1>3. ChunkStart \in Nat /\ ChunkEnd \in Nat
    BY ChunkAt
<1> HIDE DEF T, after
<1>4. CASE rec.encoding # E
    <2>1. Reached(E, after, q, p) /\ IsOut(after)
        BY <1>1, <1>4, OtherWritten DEF after
    <2>2. rec \notin RecordsLeft(E, p)
        BY <1>1, <1>4 DEF Holds
    <2>3. RecordsLeft(E, p) \ {rec} = RecordsLeft(E, p)
        BY <2>2
    <2>4. Holds(E, Tail(recs), RecordsLeft(E, p))
        BY <1>2, <2>3
    <2> QED
        BY <1>1, <2>1, <2>4 DEF InChunk, after
<1>5. CASE rec.encoding = E
    <2>1. PICK a \in Nat, b \in Nat : \E s, t \in BOOLEAN :
              /\ Piece(T, ChunkStart, ChunkEnd, a, b)
              /\ Flagged(ChunkStart, ChunkEnd, a, b, s, t)
              /\ rec = TheRecord(E, a, b, s, t)
              /\ a >= p
        BY <1>2, <1>5, RecordsFromAre DEF RecordsLeft, TheRecord, T
    <2>2. PICK s \in BOOLEAN, t \in BOOLEAN :
              Flagged(ChunkStart, ChunkEnd, a, b, s, t) /\ rec = TheRecord(E, a, b, s, t)
        BY <2>1
    <2>3. rec.offset = a /\ rec.ends = t
        BY <2>2 DEF TheRecord, RecordOf, TextRecord
    <2>4. a < b /\ b <= ChunkEnd /\ (b # ChunkEnd => b \notin T)
        BY <2>1 DEF Piece
    <2>5. q = p /\ E \notin DOMAIN st.pending /\ Frontier(T, p, p)
        <3>1. ~(q < p)
            BY <1>1, <1>3, <2>1, <2>4
        <3>2. q <= p
            BY <1>1 DEF Reached, Frontier
        <3>3. q = p
            BY <3>1, <3>2
        <3> QED
            BY <1>1, <3>1, <3>3 DEF Reached, T
    <2>6. \A y \in RecordsLeft(E, p) : ~(y.offset < a)
        <3>1. \A y \in RecordsLeft(E, p) : y = rec \/ a < y.offset
            BY <1>2, <1>5, <2>3
        <3>2. \A y \in RecordsLeft(E, p) : y.offset \in Nat
            BY <1>1 DEF Holds
        <3> QED
            BY <2>3, <3>1, <3>2
    <2>7. Frontier(T, a, b) /\ LinesBefore(E, a) = LinesBefore(E, p)
        BY <1>1, <1>3, <2>1, <2>5, <2>6, NoneBeforeNext DEF LinesBefore, RecordsLeft, T
    <2>8. Holds(E, st.lines, LinesBefore(E, a))
        BY <1>1, <2>5, <2>7 DEF Reached
    <2>9. IsNext(RecordsLeft(E, p), rec)
        BY <1>2, <1>5 DEF IsNext
    <2>10. RecordsLeft(E, p) \ {rec} = RecordsLeft(E, b + 1)
        <3>1. Piece(Text(input, E), ChunkStart, ChunkEnd, a, b) /\ p <= a /\ rec.offset = a
            BY <2>1, <2>3 DEF T
        <3> QED
            BY <1>3, <2>9, <3>1, BehindNext DEF RecordsLeft
    <2>11. CASE t
        <3>1. b = ChunkEnd
            BY <2>2, <2>11 DEF Flagged
        <3>2. after = [pending |-> Store(st.pending, rec), lines |-> st.lines]
            BY <2>3, <2>11 DEF after, WriteRecord, IsOut
        <3>3. IsOut(after) /\ after.pending = Store(st.pending, rec) /\ after.lines = st.lines
            BY <3>2 DEF IsOut
        <3>4. PendingIs(E, after.pending, a, b)
            BY <1>5, <2>2, <2>11, <3>3 DEF PendingIs, Store
        <3>5. Reached(E, after, a, b)
            BY <2>4, <2>7, <2>8, <3>3, <3>4 DEF Reached, T
        <3>6. Holds(E, Tail(recs), RecordsLeft(E, b))
            <4>1. RecordsLeft(E, b) = {} /\ RecordsLeft(E, b + 1) = {}
                BY <1>3, <3>1, NoneFromEnd DEF RecordsLeft
            <4> QED
                BY <1>2, <2>10, <4>1
        <3>7. ChunkStart <= b
            BY <1>1, <1>3, <3>1
        <3> QED
            BY <2>4, <3>1, <3>3, <3>5, <3>6, <3>7 DEF InChunk, after
    <2>12. CASE ~t
        <3>1. b # ChunkEnd /\ b \notin T
            BY <2>2, <2>4, <2>12 DEF Flagged
        <3>2. /\ after.pending = st.pending
              /\ after.lines = st.lines \o LinesOf(Long(<<rec>>))
              /\ IsOut(after)
            BY <2>3, <2>12, WrittenIs DEF after
        <3>3. Holds(E, Long(<<rec>>), IfLong(TheRecord(E, a, b, s, t)))
            BY <1>5, <2>2, <2>3, LongHolds
        <3>4. /\ Holds(E, after.lines, LinesBefore(E, b + 1))
              /\ Frontier(T, b + 1, b + 1)
            BY <2>4, <2>7, <2>8, <3>1, <3>2, <3>3, LineAdded DEF T
        <3>5. Reached(E, after, b + 1, b + 1)
            BY <2>5, <3>2, <3>4 DEF Reached, T
        <3>6. Holds(E, Tail(recs), RecordsLeft(E, b + 1))
            BY <1>2, <2>10
        <3>7. ChunkStart <= b + 1 /\ b + 1 <= ChunkEnd /\ b + 1 \in Nat
            BY <1>1, <1>3, <2>1, <2>4, <3>1
        <3> QED
            BY <3>2, <3>5, <3>6, <3>7 DEF InChunk, after
    <2> QED
        BY <2>11, <2>12
<1> QED
    BY <1>4, <1>5

\* after n of all records have been written, the others are left
WrittenSoFar(c, n, st) == IsOut(st) /\ InChunk(c.enc, st, SubSeq(c.all, n + 1, Len(c.all)))

WritingAll == INSTANCE LeftFold WITH Body <- LAMBDA c, st, rec : WriteRecord(st, rec),
                                     Kept <- WrittenSoFar

\* And so for the records that process_boundary_records writes in the end.
LEMMA WriteAll ==
    ASSUME input \in Inputs, chunk \in Nat, NEW E, NEW st, IsOut(st),
           NEW recs, NEW rest, IsSeq(recs), IsSeq(rest),
           \A i \in DOMAIN recs : ~recs[i].raw, InChunk(E, st, recs \o rest)
    PROVE  /\ InChunk(E, FoldLeft(WriteRecord, st, recs), rest)
           /\ IsOut(FoldLeft(WriteRecord, st, recs))
<1> DEFINE all == recs \o rest
           c == [enc |-> E, all |-> all]
           N == Len(recs)
<1>1. N \in Nat /\ DOMAIN recs = 1 .. N
    BY DEF IsSeq
<1>2. IsSeq(all) /\ \A i \in 1 .. N : i \in DOMAIN all /\ all[i] = recs[i]
    BY <1>1, ConcatAt
<1>3. SubSeq(all, 1, Len(all)) = all /\ SubSeq(all, N + 1, Len(all)) = rest
    BY SuffixOfConcat
<1> HIDE DEF all, N
<1>4. c.enc = E /\ c.all = all
    OBVIOUS
<1> HIDE DEF c
<1>5. WrittenSoFar(c, 0, st)
    <2>1. 0 + 1 = 1
        OBVIOUS
    <2>2. InChunk(E, st, SubSeq(all, 1, Len(all)))
        BY <1>3 DEF all
    <2> QED
        BY <1>4, <2>1, <2>2 DEF WrittenSoFar
<1>6. ASSUME NEW n \in 1 .. N, NEW a, WrittenSoFar(c, n - 1, a)
      PROVE  WrittenSoFar(c, n, WriteRecord(a, recs[n]))
    <2> DEFINE left == SubSeq(all, n, Len(all))
    <2>1. left # <<>> /\ Head(left) = recs[n] /\ Tail(left) = SubSeq(all, n + 1, Len(all))
        BY <1>2, SuffixIs
    <2>2. IsOut(a) /\ InChunk(E, a, left)
        BY <1>1, <1>4, <1>6 DEF WrittenSoFar
    <2> HIDE DEF left
    <2>3. ~recs[n].raw
        BY <1>1
    <2>4. InChunk(E, WriteRecord(a, recs[n]), Tail(left)) /\ IsOut(WriteRecord(a, recs[n]))
        BY <2>1, <2>2, <2>3, WriteNext
    <2> QED
        BY <1>4, <2>1, <2>4 DEF WrittenSoFar
<1>7. WrittenSoFar(c, N, WritingAll!Loop(c, st, recs))
    BY <1>1, <1>5, <1>6, WritingAll!FoldKeeps
<1>8. FoldLeft(WriteRecord, st, recs) = WritingAll!Loop(c, st, recs)
    BY DEF WritingAll!Loop, FoldLeft, WritingAll!FoldLeft, MapThenFoldSet,
            WritingAll!MapThenFoldSet, Max, WritingAll!Max
<1> QED
    BY <1>3, <1>4, <1>7, <1>8 DEF WrittenSoFar

-----------------------------------------------------------------------------
(* What was pending at the start of the chunk is continued or not.         *)

\* the lines and the pending records once what was settled has been written
AfterSettled(acc, out) == OutState(acc.continued, out \o LinesOf(Sorted(acc.toWrite)))

\* Then the other records are written.
LEMMA SettledInChunk ==
    ASSUME input \in Inputs, chunk \in Nat, NoneDeferred, NEW E, NEW acc, AccOK(acc),
           Waiting(boundary), NEW out, NEW q \in Nat, NEW p \in Nat,
           ChunkStart <= p, p <= ChunkEnd, q < p => p = ChunkEnd,
           Reached(E, AfterSettled(acc, out), q, p),
           NEW rest, IsSeq(rest), Holds(E, acc.remaining \o rest, RecordsLeft(E, p))
    PROVE  InChunk(E, WriteSettled(acc, out), rest) /\ IsOut(WriteSettled(acc, out))
<1> DEFINE st == AfterSettled(acc, out)
           recs == acc.remaining
<1>1. InChunk(E, st, recs \o rest) /\ IsOut(st)
    BY DEF InChunk, IsOut, AfterSettled, OutState
<1>2. recs \in Seq(ToSet(boundary))
    BY DEF AccOK
<1>3. IsSeq(recs) /\ ToSet(recs) \subseteq ToSet(boundary)
    BY <1>2, OverItsMembers DEF IsSeq
<1>4. ASSUME NEW i \in DOMAIN recs PROVE ~recs[i].raw
    <2>1. recs[i] \in ToSet(boundary)
        BY <1>2
    <2>2. Proper(recs[i])
        BY <2>1 DEF Waiting, Fresh
    <2> QED
        BY <2>2, IsText
<1>5. WriteSettled(acc, out) = FoldLeft(WriteRecord, st, recs)
    BY DEF WriteSettled, AfterSettled
<1> HIDE DEF st, recs
<1> QED
    BY <1>1, <1>3, <1>4, <1>5, WriteAll

\* If nothing of the encoding is pending, its record that starts the chunk is written like
\* the others.
LEMMA BoundaryFirst ==
    ASSUME input \in Inputs, chunk \in Nat, NoneDeferred, NEW E, ChunkStart < ChunkEnd,
           NEW st, Keyed(st.pending), Reached(E, st, ChunkStart, ChunkStart),
           Waiting(boundary), NEW B, Holds(E, boundary, B), StartApart(E, B),
           NEW rest, Holds(E, rest, RecordsLeft(E, ChunkStart) \ B)
    PROVE  InChunk(E, WriteBoundary(st, boundary), rest) /\ IsOut(WriteBoundary(st, boundary))
<1> DEFINE met == Meet(st.pending, boundary)
           acc == SettleOrphans(met)
           S == RecordsLeft(E, ChunkStart)
           x == CHOOSE y \in B : TRUE
           v == IF B = {} THEN NotMet({}) ELSE Alone(x)
<1>1. ChunkStart \in Nat /\ ChunkEnd \in Nat
    BY ChunkAt
<1>2. /\ \A y, z \in B : y = z
      /\ \A y \in B : IsNext(S, y)
    BY StartIsNext
<1>3. E \notin DOMAIN st.pending /\ Of(E, st.pending) = {}
    <2>1. E \notin DOMAIN st.pending
        BY <1>1 DEF Reached
    <2> QED
        BY <2>1, OfIs
<1>4. ASSUME NEW y \in B PROVE TurnsInto(E, {}, y, Alone(x))
    <2>1. y = x
        BY <1>2
    <2>2. y.encoding = E /\ y \in ToSet(boundary)
        BY DEF Holds, ToSet
    <2>3. Candidate(y)
        BY <2>2 DEF Candidate, Waiting
    <2> HIDE DEF x
    <2>4. ASSUME NEW a, AccOK(a), SeenAs(E, a, NotMet({}))
          PROVE  SeenAs(E, JoinOrSettle(a, y), Alone(y))
        BY <2>2, <2>3, <2>4, JoinNothing
    <2> QED
        BY <2>1, <2>4 DEF TurnsInto
<1> HIDE DEF x
<1>5. AccOK(met) /\ SeenAs(E, met, v)
    <2> DEFINE u == Alone(x)
    <2>1. \A y \in B : TurnsInto(E, Of(E, st.pending), y, u)
        BY <1>3, <1>4
    <2>2. \A rec \in ToSet(boundary) : Fresh(rec)
        BY DEF Waiting
    <2> HIDE DEF u
    <2>3. /\ AccOK(met)
          /\ SeenAs(E, met, IF B = {} THEN NotMet(Of(E, st.pending)) ELSE u)
        BY <1>2, <2>1, <2>2, MeetSeen
    <2> QED
        BY <1>3, <2>3 DEF u
<1>6. v.old = {} /\ v.continued = {} /\ v.toWrite = {} /\ v.remaining = B
    BY <1>2 DEF NotMet, Alone, x
<1> HIDE DEF v
<1>7. SeenAs(E, acc, v)
    <2>1. v.toWrite = v.toWrite \cup LongOf(v.old)
        BY <1>6 DEF LongOf
    <2> HIDE DEF met
    <2> QED
        BY <1>5, <1>6, <2>1, OrphansSeen
<1>8. AccOK(acc)
    BY <1>5, OrphansKeep
<1>9. WriteBoundary(st, boundary) = WriteSettled(acc, st.lines)
    BY DEF WriteBoundary
<1> HIDE DEF acc
<1>10. Reached(E, AfterSettled(acc, st.lines), ChunkStart, ChunkStart)
    <2>1. E \notin DOMAIN acc.continued
        <3>1. Of(E, acc.continued) = {}
            BY <1>6, <1>7 DEF SeenAs
        <3> QED
            BY <3>1, OfIs
    <2>2. Holds(E, acc.toWrite, {})
        BY <1>6, <1>7 DEF SeenAs
    <2>3. Holds(E, Sorted(acc.toWrite), {})
        BY <2>2, SortedHoldsOne
    <2>4. Holds(E, st.lines \o LinesOf(Sorted(acc.toWrite)), LinesBefore(E, ChunkStart))
        BY <2>3, OthersAdded DEF Reached
    <2> QED
        BY <1>1, <2>1, <2>4 DEF Reached, AfterSettled, OutState
<1>11. Holds(E, acc.remaining \o rest, S)
    <2>1. Holds(E, acc.remaining, B)
        BY <1>6, <1>7 DEF SeenAs
    <2>2. \A y \in B : \A z \in S \ B : y.offset < z.offset
        BY <1>2 DEF IsNext
    <2>3. Holds(E, acc.remaining \o rest, B \cup (S \ B))
        BY <2>1, <2>2, HoldsConcat
    <2>4. B \cup (S \ B) = S
        BY DEF StartApart
    <2> QED
        BY <2>3, <2>4
<1>12. IsSeq(rest)
    BY DEF Holds
<1>13. InChunk(E, WriteSettled(acc, st.lines), rest) /\ IsOut(WriteSettled(acc, st.lines))
    BY <1>1, <1>8, <1>10, <1>11, <1>12, SettledInChunk
<1> QED
    BY <1>9, <1>13

\* The text that is pending, as a record.
LEMMA PendingRecord ==
    ASSUME NEW E, NEW map, NEW q \in Nat, NEW p \in Nat, PendingIs(E, map, q, p)
    PROVE  \E s \in BOOLEAN, t \in BOOLEAN :
               /\ Of(E, map) = {TheRecord(E, q, p, s, t)}
               /\ End(TheRecord(E, q, p, s, t)) = p
<1>1. PICK s \in BOOLEAN, t \in BOOLEAN : map[E] = TheRecord(E, q, p, s, t)
    BY DEF PendingIs
<1>2. Of(E, map) = {map[E]}
    BY OfIs DEF PendingIs
<1>3. TheRecord(E, q, p, s, t).offset = q /\ TheRecord(E, q, p, s, t).cb = p - q
    BY DEF TheRecord, RecordOf, TextRecord
<1>4. End(TheRecord(E, q, p, s, t)) = p
    BY <1>3 DEF End
<1> QED
    BY <1>1, <1>2, <1>4

\* If text is pending and a record starts the chunk, the two are one run.
LEMMA BoundaryJoined ==
    ASSUME input \in Inputs, chunk \in Nat, NoneDeferred, NEW E, ChunkStart < ChunkEnd,
           NEW st, Keyed(st.pending), NEW q \in Nat, q < ChunkStart,
           Reached(E, st, q, ChunkStart),
           Waiting(boundary), NEW B, Holds(E, boundary, B), StartApart(E, B), NEW x \in B,
           NEW rest, Holds(E, rest, RecordsLeft(E, ChunkStart) \ B)
    PROVE  InChunk(E, WriteBoundary(st, boundary), rest) /\ IsOut(WriteBoundary(st, boundary))
<1> DEFINE met == Meet(st.pending, boundary)
           acc == SettleOrphans(met)
           S == RecordsLeft(E, ChunkStart)
<1>1. ChunkStart \in Nat /\ ChunkEnd \in Nat
    BY ChunkAt
<1>2. B = {x}
    BY StartIsNext
<1>3. PICK b \in Nat : \E s1, t1 \in BOOLEAN :
          /\ Piece(Text(input, E), ChunkStart, ChunkEnd, ChunkStart, b)
          /\ ChunkStart < b /\ b <= ChunkEnd /\ (t1 <=> b = ChunkEnd)
          /\ x = TheRecord(E, ChunkStart, b, s1, t1) /\ x.ends = t1
          /\ S \ {x} = RecordsLeft(E, b + 1)
    BY StartRecord
<1>4. PICK s1 \in BOOLEAN, t1 \in BOOLEAN :
          /\ Piece(Text(input, E), ChunkStart, ChunkEnd, ChunkStart, b)
          /\ ChunkStart < b /\ b <= ChunkEnd /\ (t1 <=> b = ChunkEnd)
          /\ x = TheRecord(E, ChunkStart, b, s1, t1) /\ x.ends = t1
          /\ S \ {x} = RecordsLeft(E, b + 1)
    BY <1>3
<1>5. PendingIs(E, st.pending, q, ChunkStart)
    BY DEF Reached
<1>6. PICK s \in BOOLEAN, t \in BOOLEAN :
          /\ Of(E, st.pending) = {TheRecord(E, q, ChunkStart, s, t)}
          /\ End(TheRecord(E, q, ChunkStart, s, t)) = ChunkStart
    BY <1>1, <1>5, PendingRecord
<1> DEFINE prev == TheRecord(E, q, ChunkStart, s, t)
           joined == TheRecord(E, q, b, s, t1)
           u == IF t1 THEN GoesOn(joined) ELSE EndsHere(joined)
<1>7. AppendData(prev, x) = joined
    <2>1. q <= ChunkStart /\ ChunkStart <= b
        BY <1>1, <1>4
    <2>2. AppendData(TheRecord(E, q, ChunkStart, s, t), TheRecord(E, ChunkStart, b, s1, t1)) =
              TheRecord(E, q, b, s, t1)
        BY <1>1, <2>1, JoinedIs DEF TheRecord
    <2> QED
        BY <1>4, <2>2
<1>8. x.encoding = E /\ Candidate(x) /\ x.offset = ChunkStart
    <2>1. x.encoding = E /\ x \in ToSet(boundary)
        BY DEF Holds, ToSet
    <2> QED
        BY <2>1 DEF Candidate, Waiting, StartApart
<1>9. Of(E, st.pending) = {prev} /\ End(prev) = x.offset
    BY <1>6, <1>8
<1> HIDE DEF prev, joined
<1>10. ASSUME NEW y \in B PROVE TurnsInto(E, Of(E, st.pending), y, u)
    <2>1. y = x
        BY <1>2
    <2>2. ASSUME NEW a, AccOK(a), SeenAs(E, a, NotMet({prev}))
          PROVE  SeenAs(E, JoinOrSettle(a, x), u)
        <3>1. SeenAs(E, JoinOrSettle(a, x), IF x.ends THEN GoesOn(AppendData(prev, x))
                                            ELSE EndsHere(AppendData(prev, x)))
            BY <1>8, <1>9, <2>2, JoinPending
        <3> QED
            BY <1>4, <1>7, <3>1
    <2> QED
        BY <1>9, <2>1, <2>2 DEF TurnsInto
<1>11. u.old = {} /\ u.remaining = {} /\ u.continued = (IF t1 THEN {joined} ELSE {})
       /\ u.toWrite = (IF t1 THEN {} ELSE IfLong(joined))
    BY DEF GoesOn, EndsHere
<1> HIDE DEF u
<1>12. AccOK(met) /\ SeenAs(E, met, u)
    <2>1. \A y \in B : TurnsInto(E, Of(E, st.pending), y, u)
        BY <1>10
    <2>2. \A rec \in ToSet(boundary) : Fresh(rec)
        BY DEF Waiting
    <2>3. \A y, z \in B : y = z
        BY <1>2
    <2>4. /\ AccOK(met)
          /\ SeenAs(E, met, IF B = {} THEN NotMet(Of(E, st.pending)) ELSE u)
        BY <2>1, <2>2, <2>3, MeetSeen
    <2> QED
        BY <2>4
<1>13. SeenAs(E, acc, u) /\ AccOK(acc)
    <2>1. u.toWrite = u.toWrite \cup LongOf(u.old)
        BY <1>11 DEF LongOf
    <2> HIDE DEF met
    <2> QED
        BY <1>11, <1>12, <2>1, OrphansSeen, OrphansKeep
<1>14. WriteBoundary(st, boundary) = WriteSettled(acc, st.lines)
    BY DEF WriteBoundary
<1> HIDE DEF acc, S
<1>15. IsSeq(rest) /\ Holds(E, rest, RecordsLeft(E, b + 1))
    BY <1>2, <1>4 DEF Holds, S
<1>16. Holds(E, acc.remaining, {})
    BY <1>11, <1>13 DEF SeenAs
<1>17. Holds(E, Sorted(acc.toWrite), u.toWrite)
    <2>1. Holds(E, acc.toWrite, u.toWrite)
        BY <1>13 DEF SeenAs
    <2>2. \A y, z \in u.toWrite : y = z
        BY <1>11 DEF IfLong
    <2> QED
        BY <2>1, <2>2, SortedHoldsOne
<1>18. /\ AfterSettled(acc, st.lines).pending = acc.continued
       /\ AfterSettled(acc, st.lines).lines = st.lines \o LinesOf(Sorted(acc.toWrite))
    BY DEF AfterSettled, OutState
<1>19. Frontier(Text(input, E), q, b)
    <2>1. \A i \in q .. b - 1 : i \in q .. ChunkStart - 1 \/ i \in ChunkStart .. b - 1
        BY <1>1
    <2> QED
        BY <1>1, <1>4, <2>1 DEF Reached, Frontier, Piece, OpensAt
<1>20. Holds(E, st.lines, LinesBefore(E, q))
    BY DEF Reached
<1>21. ASSUME NEW p \in Nat, RecordsLeft(E, b + 1) = RecordsLeft(E, p)
       PROVE  Holds(E, acc.remaining \o rest, RecordsLeft(E, p))
    <2>1. \A y \in {} : \A z \in RecordsLeft(E, p) : y.offset < z.offset
        OBVIOUS
    <2>2. Holds(E, rest, RecordsLeft(E, p))
        BY <1>15, <1>21
    <2>3. Holds(E, acc.remaining \o rest, {} \cup RecordsLeft(E, p))
        BY <1>16, <2>1, <2>2, HoldsConcat
    <2>4. {} \cup RecordsLeft(E, p) = RecordsLeft(E, p)
        OBVIOUS
    <2> QED
        BY <2>3, <2>4
<1>22. CASE t1
    <2>1. b = ChunkEnd
        BY <1>4, <1>22
    <2>2. PendingIs(E, acc.continued, q, b)
        <3>1. Of(E, acc.continued) = {joined}
            BY <1>11, <1>13, <1>22 DEF SeenAs
        <3>2. E \in DOMAIN acc.continued /\ acc.continued[E] = joined
            BY <3>1, OfIs
        <3> QED
            BY <1>22, <3>2 DEF PendingIs, joined
    <2>3. Holds(E, st.lines \o LinesOf(Sorted(acc.toWrite)), LinesBefore(E, q))
        <3>1. Holds(E, Sorted(acc.toWrite), {})
            BY <1>11, <1>17, <1>22
        <3> QED
            BY <1>20, <3>1, OthersAdded
    <2>4. Reached(E, AfterSettled(acc, st.lines), q, b)
        BY <1>1, <1>4, <1>18, <1>19, <2>2, <2>3 DEF Reached
    <2>5. RecordsLeft(E, b + 1) = RecordsLeft(E, b)
        BY <1>1, <2>1, NoneFromEnd DEF RecordsLeft
    <2>6. Holds(E, acc.remaining \o rest, RecordsLeft(E, b))
        BY <1>21, <2>5
    <2>7. /\ InChunk(E, WriteSettled(acc, st.lines), rest)
          /\ IsOut(WriteSettled(acc, st.lines))
        <3>1. ChunkStart <= b /\ b <= ChunkEnd /\ (q < b => b = ChunkEnd)
            BY <1>1, <1>4, <2>1
        <3> QED
            BY <1>13, <1>15, <2>4, <2>6, <3>1, SettledInChunk
    <2> QED
        BY <1>14, <2>7
<1>23. CASE ~t1
    <2>1. b # ChunkEnd /\ b \notin Text(input, E)
        BY <1>4, <1>23 DEF Piece
    <2>2. E \notin DOMAIN acc.continued
        <3>1. Of(E, acc.continued) = {}
            BY <1>11, <1>13, <1>23 DEF SeenAs
        <3> QED
            BY <3>1, OfIs
    <2>3. Holds(E, Sorted(acc.toWrite), IfLong(TheRecord(E, q, b, s, t1)))
        BY <1>11, <1>17, <1>23 DEF joined
    <2>4. /\ Holds(E, st.lines \o LinesOf(Sorted(acc.toWrite)), LinesBefore(E, b + 1))
          /\ Frontier(Text(input, E), b + 1, b + 1)
        <3>1. q < b
            BY <1>1, <1>4
        <3> QED
            BY <1>19, <1>20, <2>1, <2>3, <3>1, LineAdded
    <2>5. Reached(E, AfterSettled(acc, st.lines), b + 1, b + 1)
        BY <1>18, <2>2, <2>4 DEF Reached
    <2>6. b + 1 \in Nat /\ ChunkStart <= b + 1 /\ b + 1 <= ChunkEnd /\ ~(b + 1 < b + 1)
        BY <1>1, <1>4, <2>1
    <2>7. Holds(E, acc.remaining \o rest, RecordsLeft(E, b + 1))
        BY <1>21, <2>6
    <2> DEFINE k == b + 1
    <2>8. /\ k \in Nat /\ ChunkStart <= k /\ k <= ChunkEnd /\ (k < k => k = ChunkEnd)
          /\ Reached(E, AfterSettled(acc, st.lines), k, k)
          /\ Holds(E, acc.remaining \o rest, RecordsLeft(E, k))
        BY <2>5, <2>6, <2>7
    <2> HIDE DEF k
    <2>9. /\ InChunk(E, WriteSettled(acc, st.lines), rest)
          /\ IsOut(WriteSettled(acc, st.lines))
        BY <1>13, <1>15, <2>8, SettledInChunk
    <2> QED
        BY <1>14, <2>9
<1> QED
    BY <1>22, <1>23

\* Then it is written.
LEMMA BoundaryOrphan ==
    ASSUME input \in Inputs, chunk \in Nat, NoneDeferred, NEW E, ChunkStart < ChunkEnd,
           NEW st, Keyed(st.pending), NEW q \in Nat, q < ChunkStart,
           Reached(E, st, q, ChunkStart),
           Waiting(boundary), Holds(E, boundary, {}), StartApart(E, {}),
           NEW rest, Holds(E, rest, RecordsLeft(E, ChunkStart))
    PROVE  InChunk(E, WriteBoundary(st, boundary), rest) /\ IsOut(WriteBoundary(st, boundary))
<1> DEFINE met == Meet(st.pending, boundary)
           acc == SettleOrphans(met)
           k == ChunkStart + 1
<1>1. ChunkStart \in Nat /\ ChunkEnd \in Nat
    BY ChunkAt
<1>2. PendingIs(E, st.pending, q, ChunkStart)
    BY DEF Reached
<1>3. PICK s \in BOOLEAN, t \in BOOLEAN :
          /\ Of(E, st.pending) = {TheRecord(E, q, ChunkStart, s, t)}
          /\ End(TheRecord(E, q, ChunkStart, s, t)) = ChunkStart
    BY <1>1, <1>2, PendingRecord
<1> DEFINE prev == TheRecord(E, q, ChunkStart, s, t)
           v == NotMet({prev})
           w == [old |-> {prev}, continued |-> {}, remaining |-> {}, toWrite |-> IfLong(prev)]
<1>4. AccOK(met) /\ SeenAs(E, met, v)
    <2> DEFINE none == {}
    <2>1. \A y \in none : TurnsInto(E, Of(E, st.pending), y, v)
        OBVIOUS
    <2>2. \A rec \in ToSet(boundary) : Fresh(rec)
        BY DEF Waiting
    <2>3. \A y, z \in none : y = z
        OBVIOUS
    <2>4. Holds(E, boundary, none)
        OBVIOUS
    <2> HIDE DEF v, prev
    <2>5. /\ AccOK(met)
          /\ SeenAs(E, met, IF none = {} THEN NotMet(Of(E, st.pending)) ELSE v)
        <3> HIDE DEF none
        <3> QED
            BY <2>1, <2>2, <2>3, <2>4, MeetSeen
    <2> QED
        BY <1>3, <2>5 DEF v, prev
<1>5. SeenAs(E, acc, w) /\ AccOK(acc)
    <2>1. /\ w.old = v.old /\ w.continued = v.continued /\ w.remaining = v.remaining
          /\ w.toWrite = v.toWrite \cup LongOf(v.old)
          /\ v.toWrite = {}
        BY DEF NotMet, LongOf, IfLong
    <2> HIDE DEF met, v, w
    <2> QED
        BY <1>4, <2>1, OrphansSeen, OrphansKeep
<1>6. WriteBoundary(st, boundary) = WriteSettled(acc, st.lines)
    BY DEF WriteBoundary
<1>7. w.continued = {} /\ w.remaining = {} /\ w.toWrite = IfLong(prev)
    OBVIOUS
<1> HIDE DEF acc, w
<1>8. E \notin DOMAIN acc.continued
    <2>1. Of(E, acc.continued) = {}
        BY <1>5, <1>7 DEF SeenAs
    <2> QED
        BY <2>1, OfIs
<1>9. Holds(E, Sorted(acc.toWrite), IfLong(prev))
    <2>1. Holds(E, acc.toWrite, IfLong(prev))
        BY <1>5, <1>7 DEF SeenAs
    <2>2. \A y, z \in IfLong(prev) : y = z
        BY DEF IfLong
    <2> QED
        BY <2>1, <2>2, SortedHoldsOne
<1>10. ChunkStart \notin Text(input, E) /\ RecordsLeft(E, k) = RecordsLeft(E, ChunkStart)
    BY PendingEnds
<1>11. /\ Holds(E, st.lines \o LinesOf(Sorted(acc.toWrite)), LinesBefore(E, k))
       /\ Frontier(Text(input, E), k, k)
    <2>1. Frontier(Text(input, E), q, ChunkStart) /\ Holds(E, st.lines, LinesBefore(E, q))
        BY DEF Reached
    <2> QED
        BY <1>1, <1>9, <1>10, <2>1, LineAdded
<1>12. k \in Nat /\ ChunkStart <= k /\ k <= ChunkEnd
    BY <1>1
<1> HIDE DEF k
<1>13. Reached(E, AfterSettled(acc, st.lines), k, k)
    <2>1. /\ AfterSettled(acc, st.lines).pending = acc.continued
          /\ AfterSettled(acc, st.lines).lines = st.lines \o LinesOf(Sorted(acc.toWrite))
        BY DEF AfterSettled, OutState
    <2>2. ~(k < k)
        BY <1>12
    <2> QED
        BY <1>8, <1>11, <2>1, <2>2 DEF Reached
<1>14. Holds(E, acc.remaining \o rest, RecordsLeft(E, k))
    <2>1. Holds(E, acc.remaining, {})
        BY <1>5, <1>7 DEF SeenAs
    <2>2. \A y \in {} : \A z \in RecordsLeft(E, k) : y.offset < z.offset
        OBVIOUS
    <2>3. Holds(E, rest, RecordsLeft(E, k))
        BY <1>10
    <2>4. Holds(E, acc.remaining \o rest, {} \cup RecordsLeft(E, k))
        BY <2>1, <2>2, <2>3, HoldsConcat
    <2>5. {} \cup RecordsLeft(E, k) = RecordsLeft(E, k)
        OBVIOUS
    <2> QED
        BY <2>4, <2>5
<1>15. IsSeq(rest) /\ (k < k => k = ChunkEnd)
    BY <1>12 DEF Holds
<1>16. InChunk(E, WriteSettled(acc, st.lines), rest) /\ IsOut(WriteSettled(acc, st.lines))
    BY <1>5, <1>12, <1>13, <1>14, <1>15, SettledInChunk
<1> QED
    BY <1>6, <1>16

\* Whatever was pending, the boundary records take the output as far as they should.
LEMMA BoundaryInChunk ==
    ASSUME input \in Inputs, chunk \in Nat, NoneDeferred, NEW E, ChunkStart < ChunkEnd,
           NEW st, Keyed(st.pending), NEW q \in Nat, Reached(E, st, q, ChunkStart),
           Waiting(boundary), NEW B, Holds(E, boundary, B), StartApart(E, B),
           NEW rest, Holds(E, rest, RecordsLeft(E, ChunkStart) \ B)
    PROVE  InChunk(E, WriteBoundary(st, boundary), rest) /\ IsOut(WriteBoundary(st, boundary))
<1>1. ChunkStart \in Nat /\ q <= ChunkStart
    BY ChunkAt DEF Reached, Frontier
<1>2. CASE q = ChunkStart
    BY <1>2, BoundaryFirst
<1>3. CASE q < ChunkStart /\ B = {}
    <2>1. RecordsLeft(E, ChunkStart) \ B = RecordsLeft(E, ChunkStart)
        BY <1>3
    <2>2. Holds(E, boundary, {}) /\ StartApart(E, {}) /\ Holds(E, rest, RecordsLeft(E, ChunkStart))
        BY <1>3, <2>1
    <2> QED
        BY <1>3, <2>2, BoundaryOrphan
<1>4. CASE q < ChunkStart /\ B # {}
    <2>1. PICK x : x \in B
        BY <1>4
    <2> QED
        BY <1>4, <2>1, BoundaryJoined
<1> QED
    BY <1>1, <1>2, <1>3, <1>4

-----------------------------------------------------------------------------
(* Or it is drained.                                                       *)

\* If the text at p is none, the output goes on behind it, with nothing pending.
LEMMA DrainReaches ==
    ASSUME NoneDeferred, NEW E, NEW st, Keyed(st.pending), NEW q \in Nat, NEW p \in Nat,
           Reached(E, st, q, p), q < p, p \notin Text(input, E)
    PROVE  Reached(E, Drain(st), p + 1, p + 1) /\ IsOut(Drain(st))
<1> DEFINE new == Sorted(DrainedOf(SetToSeq(Range(st.pending))))
<1>1. Holds(E, new, LongOf(Of(E, st.pending)))
    BY DrainHolds
<1>2. PendingIs(E, st.pending, q, p)
    BY DEF Reached
<1>3. PICK s \in BOOLEAN, t \in BOOLEAN : Of(E, st.pending) = {TheRecord(E, q, p, s, t)}
    BY <1>2, PendingRecord
<1>4. Drain(st) = [pending |-> <<>>, lines |-> st.lines \o LinesOf(new)]
    BY DEF Drain, OutState
<1> HIDE DEF new
<1>5. Holds(E, new, IfLong(TheRecord(E, q, p, s, t)))
    BY <1>1, <1>3 DEF LongOf, IfLong
<1>6. Frontier(Text(input, E), q, p) /\ Holds(E, st.lines, LinesBefore(E, q))
    BY DEF Reached
<1>7. /\ Holds(E, st.lines \o LinesOf(new), LinesBefore(E, p + 1))
      /\ Frontier(Text(input, E), p + 1, p + 1)
    BY <1>5, <1>6, LineAdded
<1>8. E \notin DOMAIN <<>> /\ ~(p + 1 < p + 1)
    OBVIOUS
<1> QED
    BY <1>4, <1>7, <1>8 DEF Reached, IsOut

\* And if nothing of the encoding is pending, it stays where it was.
LEMMA DrainStays ==
    ASSUME NoneDeferred, NEW E, NEW st, Keyed(st.pending), NEW q \in Nat, Reached(E, st, q, q)
    PROVE  Reached(E, Drain(st), q, q) /\ IsOut(Drain(st))
<1> DEFINE new == Sorted(DrainedOf(SetToSeq(Range(st.pending))))
<1>1. Holds(E, new, LongOf(Of(E, st.pending)))
    BY DrainHolds
<1>2. E \notin DOMAIN st.pending
    BY DEF Reached
<1>3. LongOf(Of(E, st.pending)) = {}
    BY <1>2, OfIs DEF LongOf
<1>4. Drain(st) = [pending |-> <<>>, lines |-> st.lines \o LinesOf(new)]
    BY DEF Drain, OutState
<1> HIDE DEF new
<1>5. Holds(E, st.lines \o LinesOf(new), LinesBefore(E, q))
    BY <1>1, <1>3, OthersAdded DEF Reached
<1>6. E \notin DOMAIN <<>> /\ ~(q < q)
    OBVIOUS
<1> QED
    BY <1>4, <1>5, <1>6 DEF Reached, IsOut

-----------------------------------------------------------------------------
(* Where the output is between the steps.                                  *)

\* between two chunks: what is before the next chunk was output, or is pending
AtRest(E) ==
    \E q, p \in Nat :
        /\ Reached(E, Current, q, p)
        /\ p = IF ChunkStart < Len(input.bytes) THEN ChunkStart ELSE Len(input.bytes)

\* while the boundary records are collected: the same, and the records of the chunk are there
AtStart(E) ==
    /\ chunk > 0
    /\ \E q \in Nat : Reached(E, Current, q, ChunkStart)
    /\ Holds(E, boundary \o stream, RecordsLeft(E, ChunkStart))
    /\ \A rec \in ToSet(boundary) : rec.starts
    /\ \A rec \in ToSet(stream) : Placed(rec)

\* whenever it stops: the lines up to some point
SoFar(E) == \E q \in Nat : Holds(E, lines, LinesBefore(E, q))

\* the inductive invariant, for one encoding
WholeInv(E) ==
    /\ phase \in Phases
    /\ phase \in {"boundary", "body"} => ChunkStart < Len(input.bytes)
    /\ phase = "idle" => AtRest(E) /\ (chunk = 0 => pending = <<>>)
    /\ phase = "boundary" => AtStart(E)
    /\ phase = "body" => InChunk(E, Current, stream)
    /\ phase = "interrupted" => SoFar(E)
    /\ phase = "flushed" => Holds(E, lines, LinesBefore(E, Len(input.bytes)))

\* What is known in any state of the output stage.
LEMMA StageSays ==
    ASSUME StageInv
    PROVE  /\ input \in Inputs /\ chunk \in Nat
           /\ IsSeq(stream) /\ IsSeq(boundary)
           /\ Keyed(Current.pending) /\ IsOut(Current)
           /\ Current.pending = pending /\ Current.lines = lines
BY DEF StageInv, Waiting, IsSeq, Current, OutState, IsOut

-----------------------------------------------------------------------------
(* The steps, as one encoding sees them.                                   *)

\* A chunk begins.
LEMMA ChunkBegins ==
    ASSUME StageInv, ScansDeliver, NoneDeferred, NEW E \in ByteEncodings, Once(E),
           phase = "idle", chunk < ChunkCount, AtRest(E)
    PROVE  /\ ChunkStart < Len(input.bytes)
           /\ \E q \in Nat : Reached(E, Current, q, ChunkStart)
           /\ Holds(E, ChunkRecords, RecordsLeft(E, ChunkStart))
           /\ \A rec \in ToSet(ChunkRecords) : Placed(rec)
           /\ pending = <<>> => InChunk(E, Current, ChunkRecords)
<1>1. input \in Inputs /\ chunk \in Nat
    BY StageSays
<1>2. ChunkStart < Len(input.bytes)
    BY <1>1, ChunksStart
<1>3. PICK q \in Nat : Reached(E, Current, q, ChunkStart)
    BY <1>2 DEF AtRest
<1>4. /\ Holds(E, ChunkRecords, RecordsLeft(E, ChunkStart))
      /\ \A rec \in ToSet(ChunkRecords) : Placed(rec)
    BY <1>1, ChunkHolds DEF RecordsLeft, NoneDeferred
<1>5. ASSUME pending = <<>> PROVE InChunk(E, Current, ChunkRecords)
    <2>1. E \notin DOMAIN Current.pending
        BY <1>5, StageSays
    <2>2. ~(q < ChunkStart)
        BY <1>3, <2>1 DEF Reached, PendingIs
    <2>3. ChunkStart \in Nat /\ ChunkEnd \in Nat /\ ChunkStart < ChunkEnd
        BY <1>1, <1>2, ChunkIsNotEmpty
    <2>4. ChunkStart <= ChunkStart /\ ChunkStart <= ChunkEnd
        BY <2>3
    <2> QED
        BY <1>3, <1>4, <2>2, <2>3, <2>4 DEF InChunk
<1> QED
    BY <1>2, <1>3, <1>4, <1>5

\* After the first record that is no candidate, none starts the chunk.
LEMMA NoneStarts ==
    ASSUME StageInv, NEW E, AtStart(E), stream # <<>>, ~IsCandidate(Head(stream)),
           NEW rec \in ToSet(stream)
    PROVE  rec.offset # ChunkStart
<1> DEFINE head == Head(stream)
           R == ToSet(boundary) \cup ToSet(stream)
<1>1. stream \in Seq(R) /\ boundary \in Seq(R)
    BY StageSays DEF IsSeq
<1>2. InOrder(stream)
    <2> HIDE DEF R
    <2> QED
        BY <1>1, SuffixInOrder DEF StageInv, StreamInOrder
<1>3. 1 \in DOMAIN stream /\ head = stream[1] /\ head \in ToSet(stream)
    BY <1>1 DEF ToSet
<1>4. ChunkStart \in Nat
    BY StageSays, ChunkAt
<1>5. Placed(head) /\ Placed(rec)
    BY <1>3 DEF AtStart
<1>6. head.offset \in Nat /\ head.offset >= ChunkStart /\ ~head.starts
    BY <1>5 DEF Placed, IsCandidate
<1>7. head.offset > ChunkStart
    <2>1. head.offset # ChunkStart
        BY <1>5, <1>6 DEF Placed, AtStart
    <2> QED
        BY <1>4, <1>6, <2>1
<1>8. rec.offset \in Nat
    BY <1>5 DEF Placed
<1>9. PICK j \in DOMAIN stream : rec = stream[j]
    BY DEF ToSet
<1>10. CASE j = 1
    BY <1>3, <1>4, <1>6, <1>7, <1>9, <1>10
<1>11. CASE j # 1
    <2>1. 1 < j
        BY <1>1, <1>11
    <2>2. ~Precedes(stream[j], stream[1])
        BY <1>2, <1>3, <2>1 DEF InOrder
    <2>3. ~(rec.offset < head.offset)
        BY <1>3, <1>9, <2>2 DEF Precedes
    <2> HIDE DEF head
    <2> QED
        BY <1>4, <1>6, <1>7, <1>8, <2>3
<1> QED
    BY <1>10, <1>11

\* Of the records, those that were collected are the ones that start the chunk.
LEMMA CollectedApart ==
    ASSUME StageInv, NEW E, AtStart(E), \A rec \in ToSet(stream) : rec.offset # ChunkStart
    PROVE  \E B : /\ Holds(E, boundary, B) /\ StartApart(E, B)
                  /\ Holds(E, stream, RecordsLeft(E, ChunkStart) \ B)
<1> DEFINE S == RecordsLeft(E, ChunkStart)
<1>1. IsSeq(boundary) /\ IsSeq(stream) /\ Holds(E, boundary \o stream, S)
    BY StageSays DEF AtStart
<1> HIDE DEF S
<1>2. PICK B : /\ B \subseteq S /\ Holds(E, boundary, B) /\ Holds(E, stream, S \ B)
               /\ \A x \in B : \E i \in DOMAIN boundary : boundary[i] = x
               /\ \A x \in S \ B : \E i \in DOMAIN stream : stream[i] = x
    BY <1>1, HoldsSplit
<1>3. ASSUME NEW x \in B PROVE x.offset = ChunkStart
    <2>1. x \in ToSet(boundary)
        BY <1>2 DEF ToSet
    <2>2. x.starts
        BY <2>1 DEF AtStart
    <2>3. x \in RecordsFrom(E, input.bytes, Text(input, E), input.minCch, ChunkStart, ChunkEnd,
                            ChunkStart)
        BY <1>2 DEF RecordsLeft, S
    <2>4. PICK a \in Nat, b \in Nat : \E s, t \in BOOLEAN :
              /\ Flagged(ChunkStart, ChunkEnd, a, b, s, t)
              /\ x = RecordOf(E, input.bytes, a, b, s, t)
        BY <2>3, RecordsFromAre
    <2>5. PICK s \in BOOLEAN, t \in BOOLEAN :
              /\ Flagged(ChunkStart, ChunkEnd, a, b, s, t)
              /\ x = RecordOf(E, input.bytes, a, b, s, t)
        BY <2>4
    <2>6. x.offset = a /\ x.starts = s
        BY <2>5 DEF RecordOf, TextRecord
    <2>7. s <=> a = ChunkStart
        BY <2>5 DEF Flagged
    <2> QED
        BY <2>2, <2>6, <2>7
<1>4. ASSUME NEW x \in S \ B PROVE x.offset # ChunkStart
    <2>1. x \in ToSet(stream)
        BY <1>2 DEF ToSet
    <2> QED
        BY <2>1
<1>5. StartApart(E, B)
    BY <1>2, <1>3, <1>4 DEF StartApart, S
<1> QED
    BY <1>2, <1>5 DEF S

\* Then they are written.
LEMMA BoundaryGoesOn ==
    ASSUME StageInv, NoneDeferred, NEW E, AtStart(E), ChunkStart < Len(input.bytes),
           \A rec \in ToSet(stream) : rec.offset # ChunkStart
    PROVE  /\ InChunk(E, WriteBoundary(Current, boundary), stream)
           /\ IsOut(WriteBoundary(Current, boundary))
<1>1. PICK B : /\ Holds(E, boundary, B) /\ StartApart(E, B)
               /\ Holds(E, stream, RecordsLeft(E, ChunkStart) \ B)
    BY CollectedApart
<1>2. PICK q \in Nat : Reached(E, Current, q, ChunkStart)
    BY DEF AtStart
<1>3. input \in Inputs /\ chunk \in Nat /\ Keyed(Current.pending)
    BY StageSays
<1>4. ChunkStart < ChunkEnd
    BY <1>3, ChunkIsNotEmpty
<1>5. Waiting(boundary)
    BY DEF StageInv
<1> QED
    BY <1>1, <1>2, <1>3, <1>4, <1>5, BoundaryInChunk

\* If the chunk has no records at all, it is passed over or what is pending is drained.
LEMMA NothingCollected ==
    ASSUME StageInv, NoneDeferred, NEW E, AtStart(E), ChunkStart < Len(input.bytes),
           boundary = <<>>, stream = <<>>
    PROVE  /\ FullyConsumed => InChunk(E, Current, <<>>)
           /\ InChunk(E, Drain(Current), <<>>) /\ IsOut(Drain(Current))
<1>1. PICK q \in Nat : Reached(E, Current, q, ChunkStart)
    BY DEF AtStart
<1>2. /\ input \in Inputs /\ chunk \in Nat /\ Keyed(Current.pending)
      /\ Current.pending = pending
    BY StageSays
<1>3. /\ ChunkStart \in Nat /\ ChunkEnd \in Nat /\ ChunkStart < ChunkEnd
    BY <1>2, ChunkIsNotEmpty
<1>4. <<>> \o <<>> = <<>>
    OBVIOUS
<1>5. Holds(E, <<>>, RecordsLeft(E, ChunkStart))
    BY <1>4 DEF AtStart
<1>6. RecordsLeft(E, ChunkStart) = {}
    BY <1>5 DEF Holds
<1>7. q <= ChunkStart
    BY <1>1 DEF Reached, Frontier
<1>8. CASE q < ChunkStart
    <2>1. PendingIs(E, pending, q, ChunkStart)
        BY <1>1, <1>2, <1>8 DEF Reached
    <2>2. ~FullyConsumed
        <3>1. PICK s \in BOOLEAN, t \in BOOLEAN :
                  /\ Of(E, pending) = {TheRecord(E, q, ChunkStart, s, t)}
                  /\ End(TheRecord(E, q, ChunkStart, s, t)) = ChunkStart
            BY <1>3, <2>1, PendingRecord
        <3>2. E \in DOMAIN pending /\ Of(E, pending) = {pending[E]}
            BY <2>1, OfIs DEF PendingIs
        <3>3. End(pending[E]) = ChunkStart
            BY <3>1, <3>2
        <3>4. ~(ChunkStart >= ChunkEnd)
            BY <1>3
        <3> QED
            BY <3>2, <3>3, <3>4 DEF FullyConsumed
    <2>3. StartApart(E, {})
        BY <1>6 DEF StartApart
    <2> DEFINE k == ChunkStart + 1
    <2>4. ChunkStart \notin Text(input, E) /\ RecordsLeft(E, k) = {}
        BY <1>2, <1>3, <1>6, <2>3, PendingEnds
    <2>5. Reached(E, Drain(Current), k, k) /\ IsOut(Drain(Current))
        BY <1>1, <1>2, <1>3, <1>8, <2>4, DrainReaches
    <2>6. k \in Nat /\ ChunkStart <= k /\ k <= ChunkEnd /\ (k < k => k = ChunkEnd)
        BY <1>3
    <2>7. Holds(E, <<>>, RecordsLeft(E, k))
        BY <1>5, <1>6, <2>4
    <2> HIDE DEF k
    <2>8. InChunk(E, Drain(Current), <<>>)
        BY <2>5, <2>6, <2>7 DEF InChunk
    <2> QED
        BY <2>2, <2>5, <2>8
<1>9. CASE q = ChunkStart
    <2> DEFINE k == ChunkStart
    <2>1. k \in Nat /\ ChunkStart <= k /\ k <= ChunkEnd /\ (k < k => k = ChunkEnd)
        BY <1>3
    <2>2. Reached(E, Current, k, k) /\ Holds(E, <<>>, RecordsLeft(E, k))
        BY <1>1, <1>5, <1>9
    <2>3. Reached(E, Drain(Current), k, k) /\ IsOut(Drain(Current))
        BY <1>2, <1>3, <2>2, DrainStays
    <2> HIDE DEF k
    <2>4. InChunk(E, Current, <<>>) /\ InChunk(E, Drain(Current), <<>>)
        BY <2>1, <2>2, <2>3 DEF InChunk
    <2> QED
        BY <2>3, <2>4
<1> QED
    BY <1>3, <1>7, <1>8, <1>9

\* A record of the hot loop.
LEMMA RecordGoesOn ==
    ASSUME StageInv, NoneDeferred, NEW E, stream # <<>>,
           NEW st, IsOut(st), InChunk(E, st, stream)
    PROVE  InChunk(E, WriteRecord(st, Head(stream)), Tail(stream))
<1>1. Proper(Head(stream))
    BY RestWaits DEF Fresh
<1>2. ~Head(stream).raw
    BY <1>1, IsText
<1>3. input \in Inputs /\ chunk \in Nat
    BY StageSays
<1> QED
    BY <1>2, <1>3, WriteNext

\* And when the last was flushed, all lines have been written.
LEMMA AllFlushed ==
    ASSUME StageInv, NoneDeferred, NEW E, chunk = ChunkCount, AtRest(E)
    PROVE  Holds(E, Drain(Current).lines, LinesBefore(E, Len(input.bytes)))
<1>1. input \in Inputs /\ chunk \in Nat /\ Keyed(Current.pending)
    BY StageSays
<1>2. ~(ChunkStart < Len(input.bytes))
    BY <1>1, ChunksStart
<1> DEFINE n == Len(input.bytes)
<1>3. n \in Nat
    BY <1>1, InputsAssumption
<1>4. n \notin Text(input, E)
    BY <1>3 DEF Text
<1>5. PICK q \in Nat : Reached(E, Current, q, n)
    BY <1>2 DEF AtRest
<1> HIDE DEF n
<1>6. q <= n
    BY <1>5 DEF Reached, Frontier
<1>7. CASE q < n
    <2>1. Reached(E, Drain(Current), n + 1, n + 1)
        BY <1>1, <1>3, <1>4, <1>5, <1>7, DrainReaches
    <2>2. n + 1 \in Nat /\ n + 1 >= n
        BY <1>3
    <2>3. LinesBefore(E, n + 1) = LinesBefore(E, n)
        BY <1>1, <2>2, AllLines DEF n
    <2> QED
        BY <2>1, <2>3 DEF Reached, n
<1>8. CASE q = n
    <2>1. Reached(E, Drain(Current), n, n)
        BY <1>1, <1>3, <1>5, <1>8, DrainStays
    <2> QED
        BY <2>1 DEF Reached, n
<1> QED
    BY <1>3, <1>6, <1>7, <1>8

-----------------------------------------------------------------------------
(* Every step keeps the invariant.                                         *)

\* What was reached is reached in the next state.
LEMMA ReachedNext ==
    ASSUME NEW E, NEW st, NEW q, NEW p, Reached(E, st, q, p),
           input' = input, pending' = st.pending, lines' = st.lines
    PROVE  Reached(E, Current, q, p)'
<1>1. Current'.pending = st.pending /\ Current'.lines = st.lines
    BY DEF Current, OutState
<1>2. LinesBefore(E, q)' = LinesBefore(E, q) /\ Text(input, E)' = Text(input, E)
    BY DEF LinesBefore
<1>3. PendingIs(E, st.pending, q, p) => PendingIs(E, Current.pending, q, p)'
    BY <1>1 DEF PendingIs, TheRecord
<1> QED
    BY <1>1, <1>2, <1>3 DEF Reached

\* So within a chunk.
LEMMA InChunkNext ==
    ASSUME NEW E, NEW st, NEW recs, InChunk(E, st, recs), input' = input, chunk' = chunk,
           pending' = st.pending, lines' = st.lines, stream' = recs
    PROVE  InChunk(E, Current, stream)'
<1>1. PICK q \in Nat, p \in Nat :
          /\ Reached(E, st, q, p)
          /\ ChunkStart <= p /\ p <= ChunkEnd /\ (q < p => p = ChunkEnd)
          /\ Holds(E, recs, RecordsLeft(E, p))
    BY DEF InChunk
<1>2. Reached(E, Current, q, p)'
    BY <1>1, ReachedNext
<1>3. /\ ChunkStart' = ChunkStart /\ ChunkEnd' = ChunkEnd
      /\ RecordsLeft(E, p)' = RecordsLeft(E, p)
    BY DEF ChunkStart, ChunkEnd, RecordsLeft
<1> QED
    BY <1>1, <1>2, <1>3 DEF InChunk

\* Nothing is output before the first chunk.
LEMMA WholeInit == ASSUME Init, NEW E \in ByteEncodings PROVE WholeInv(E)
<1>1. /\ input \in Inputs /\ chunk = 0 /\ phase = "idle" /\ pending = <<>> /\ lines = <<>>
      /\ Len(input.bytes) \in Nat /\ input.chunkSize \in Nat
    BY InputsAssumption DEF Init
<1>2. ChunkStart = 0
    <2>1. \A n \in Nat : 0 * n = 0
        OBVIOUS
    <2> QED
        BY <1>1, <2>1 DEF ChunkStart
<1>3. 0 = IF ChunkStart < Len(input.bytes) THEN ChunkStart ELSE Len(input.bytes)
    BY <1>1, <1>2
<1>4. Frontier(Text(input, E), 0, 0)
    BY DEF Frontier, Text
<1>5. Holds(E, <<>>, LinesBefore(E, 0))
    <2>1. LinesBefore(E, 0) = {}
        BY DEF LinesBefore, WholeLines
    <2> QED
        BY <2>1 DEF Holds, IsSeq, ToSet
<1>6. Current.pending = <<>> /\ Current.lines = <<>> /\ E \notin DOMAIN Current.pending
    BY <1>1 DEF Current, OutState, ByteEncodings
<1>7. Reached(E, Current, 0, 0)
    BY <1>4, <1>5, <1>6 DEF Reached
<1>8. AtRest(E)
    BY <1>3, <1>7 DEF AtRest
<1> QED
    BY <1>1, <1>8 DEF WholeInv, Phases

\* A chunk's records are there.
LEMMA BeginChunkKeeps ==
    ASSUME StageInv, ScansDeliver, NoneDeferred, NEW E \in ByteEncodings, Once(E),
           WholeInv(E), BeginChunk
    PROVE  WholeInv(E)'
<1>1. /\ phase = "idle" /\ chunk < ChunkCount /\ AtRest(E) /\ (chunk = 0 => pending = <<>>)
      /\ input' = input /\ chunk' = chunk /\ pending' = pending /\ lines' = lines
      /\ stream' = ChunkRecords /\ boundary' = <<>>
      /\ phase' = IF pending = <<>> THEN "body" ELSE "boundary"
      /\ chunk \in Nat
    BY StageSays DEF WholeInv, BeginChunk
<1>2. /\ ChunkStart < Len(input.bytes)
      /\ \E q \in Nat : Reached(E, Current, q, ChunkStart)
      /\ Holds(E, ChunkRecords, RecordsLeft(E, ChunkStart))
      /\ \A rec \in ToSet(ChunkRecords) : Placed(rec)
      /\ pending = <<>> => InChunk(E, Current, ChunkRecords)
    BY <1>1, ChunkBegins
<1>3. Current.pending = pending /\ Current.lines = lines
    BY StageSays
<1>4. PICK st : st = Current
    OBVIOUS
<1>5. PICK recs : recs = ChunkRecords
    OBVIOUS
<1>6. (ChunkStart < Len(input.bytes))'
    BY <1>1, <1>2 DEF ChunkStart
<1>7. CASE pending = <<>>
    <2>1. InChunk(E, st, recs)
        BY <1>2, <1>4, <1>5, <1>7
    <2>2. InChunk(E, Current, stream)'
        BY <1>1, <1>3, <1>4, <1>5, <2>1, InChunkNext
    <2> QED
        BY <1>1, <1>6, <1>7, <2>2 DEF WholeInv, Phases
<1>8. CASE pending # <<>>
    <2>1. PICK q \in Nat : Reached(E, Current, q, ChunkStart)
        BY <1>2
    <2>2. PICK at : at = ChunkStart
        OBVIOUS
    <2>3. ChunkStart' = at /\ RecordsLeft(E, at)' = RecordsLeft(E, at)
        BY <1>1, <2>2 DEF ChunkStart, ChunkEnd, RecordsLeft
    <2>4. Reached(E, Current, q, at)'
        BY <1>1, <1>3, <1>4, <2>1, <2>2, ReachedNext
    <2>5. recs \in Seq(ToSet(recs))
        BY <1>2, <1>5 DEF Holds, IsSeq
    <2>6. boundary' \o stream' = recs
        BY <1>1, <1>5, <2>5
    <2>7. Holds(E, recs, RecordsLeft(E, at))
        BY <1>2, <1>5, <2>2
    <2>8. Holds(E, boundary \o stream, RecordsLeft(E, ChunkStart))'
        BY <2>3, <2>6, <2>7
    <2>9. \A rec \in ToSet(recs) : Placed(rec)'
        BY <1>1, <1>2, <1>5 DEF Placed, ChunkStart
    <2>10. (\A rec \in ToSet(stream) : Placed(rec))'
        BY <1>1, <1>5, <2>9
    <2>11. (\A rec \in ToSet(boundary) : rec.starts)'
        BY <1>1 DEF ToSet
    <2>12. (chunk > 0)'
        BY <1>1, <1>8
    <2>13. AtStart(E)'
        BY <2>3, <2>4, <2>8, <2>10, <2>11, <2>12 DEF AtStart
    <2> QED
        BY <1>1, <1>6, <1>8, <2>13 DEF WholeInv, Phases
<1> QED
    BY <1>7, <1>8

\* A boundary record is collected.
LEMMA CollectKeeps ==
    ASSUME StageInv, NEW E, WholeInv(E), CollectBoundary
    PROVE  WholeInv(E)'
<1> DEFINE R == ToSet(boundary) \cup ToSet(stream)
<1>1. /\ phase = "boundary" /\ stream # <<>> /\ IsCandidate(Head(stream))
      /\ boundary' = Append(boundary, Head(stream)) /\ stream' = Tail(stream)
      /\ input' = input /\ chunk' = chunk /\ phase' = phase /\ pending' = pending
      /\ lines' = lines /\ AtStart(E) /\ ChunkStart < Len(input.bytes)
    BY DEF WholeInv, CollectBoundary
<1>2. boundary \in Seq(R) /\ stream \in Seq(R)
    BY StageSays DEF IsSeq
<1>3. Current.pending = pending /\ Current.lines = lines
    BY StageSays
<1>4. PICK q \in Nat : Reached(E, Current, q, ChunkStart)
    BY <1>1 DEF AtStart
<1>5. PICK at : at = ChunkStart
    OBVIOUS
<1>6. PICK st : st = Current
    OBVIOUS
<1>7. ChunkStart' = at /\ RecordsLeft(E, at)' = RecordsLeft(E, at)
    BY <1>1, <1>5 DEF ChunkStart, ChunkEnd, RecordsLeft
<1>8. Reached(E, Current, q, at)'
    BY <1>1, <1>3, <1>4, <1>5, <1>6, ReachedNext
<1>9. boundary' \o stream' = boundary \o stream
    <2> HIDE DEF R
    <2> QED
        BY <1>1, <1>2
<1>10. Holds(E, boundary \o stream, RecordsLeft(E, ChunkStart))'
    BY <1>1, <1>5, <1>7, <1>9 DEF AtStart
<1>11. ToSet(boundary') \subseteq ToSet(boundary) \cup {Head(stream)}
    <2> HIDE DEF R
    <2>1. PICK r \in R, s \in Seq(R) : r = Head(stream) /\ s = boundary
        BY <1>1, <1>2
    <2>2. \A i \in DOMAIN Append(s, r) : (i \in DOMAIN s /\ Append(s, r)[i] = s[i]) \/ Append(s, r)[i] = r
        BY <2>1
    <2> QED
        BY <1>1, <2>1, <2>2 DEF ToSet
<1>12. ToSet(stream') \subseteq ToSet(stream)
    <2> HIDE DEF R
    <2>1. PICK s \in Seq(R) : s = stream /\ s # <<>>
        BY <1>1, <1>2
    <2>2. \A i \in DOMAIN Tail(s) : i + 1 \in DOMAIN s /\ Tail(s)[i] = s[i + 1]
        BY <2>1
    <2> QED
        BY <1>1, <2>1, <2>2 DEF ToSet
<1>13. (\A rec \in ToSet(boundary) : rec.starts)'
    BY <1>1, <1>11 DEF AtStart, IsCandidate
<1>14. (\A rec \in ToSet(stream) : Placed(rec))'
    BY <1>1, <1>12 DEF AtStart, Placed, ChunkStart
<1>15. AtStart(E)'
    BY <1>1, <1>7, <1>8, <1>10, <1>13, <1>14 DEF AtStart
<1>16. (ChunkStart < Len(input.bytes))'
    BY <1>1, <1>5, <1>7
<1> QED
    BY <1>1, <1>15, <1>16 DEF WholeInv, Phases

\* The records collected are written, and the first that is no candidate.
LEMMA EndBoundaryKeeps ==
    ASSUME StageInv, NoneDeferred, NEW E, WholeInv(E), EndBoundary
    PROVE  WholeInv(E)'
<1>1. /\ phase = "boundary" /\ stream # <<>> /\ ~IsCandidate(Head(stream))
      /\ AtStart(E) /\ ChunkStart < Len(input.bytes)
      /\ Becomes(WriteRecord(WriteBoundary(Current, boundary), Head(stream)))
      /\ boundary' = <<>> /\ stream' = Tail(stream) /\ phase' = "body"
      /\ input' = input /\ chunk' = chunk
    BY DEF WholeInv, EndBoundary
<1>2. \A rec \in ToSet(stream) : rec.offset # ChunkStart
    BY <1>1, NoneStarts
<1>3. /\ InChunk(E, WriteBoundary(Current, boundary), stream)
      /\ IsOut(WriteBoundary(Current, boundary))
    BY <1>1, <1>2, BoundaryGoesOn
<1>4. PICK written : written = WriteBoundary(Current, boundary)
    OBVIOUS
<1>5. InChunk(E, WriteRecord(written, Head(stream)), Tail(stream))
    BY <1>1, <1>3, <1>4, RecordGoesOn
<1>6. PICK st : st = WriteRecord(written, Head(stream))
    OBVIOUS
<1>7. PICK recs : recs = Tail(stream)
    OBVIOUS
<1>8. InChunk(E, st, recs)
    BY <1>5, <1>6, <1>7
<1>9. pending' = st.pending /\ lines' = st.lines
    BY <1>1, <1>4, <1>6 DEF Becomes
<1>10. InChunk(E, Current, stream)'
    BY <1>1, <1>7, <1>8, <1>9, InChunkNext
<1>11. (ChunkStart < Len(input.bytes))'
    BY <1>1 DEF ChunkStart
<1> QED
    BY <1>1, <1>10, <1>11 DEF WholeInv, Phases

\* The chunk has no other records.
LEMMA ExhaustedKeeps ==
    ASSUME StageInv, NoneDeferred, NEW E, WholeInv(E), BoundaryExhausted
    PROVE  WholeInv(E)'
<1>1. /\ phase = "boundary" /\ stream = <<>> /\ AtStart(E) /\ ChunkStart < Len(input.bytes)
      /\ stream' = stream /\ phase' = "body" /\ input' = input /\ chunk' = chunk
    BY DEF WholeInv, BoundaryExhausted
<1>2. \E st : InChunk(E, st, <<>>) /\ pending' = st.pending /\ lines' = st.lines
    <2>1. CASE boundary # <<>>
        <3>1. \A rec \in ToSet(stream) : rec.offset # ChunkStart
            BY <1>1 DEF ToSet
        <3>2. InChunk(E, WriteBoundary(Current, boundary), <<>>)
            BY <1>1, <3>1, BoundaryGoesOn
        <3>3. Becomes(WriteBoundary(Current, boundary))
            BY <2>1 DEF BoundaryExhausted
        <3> QED
            BY <3>2, <3>3 DEF Becomes
    <2>2. CASE boundary = <<>> /\ FullyConsumed
        <3>1. InChunk(E, Current, <<>>)
            BY <1>1, <2>2, NothingCollected
        <3>2. pending' = Current.pending /\ lines' = Current.lines
            BY <2>2, StageSays DEF BoundaryExhausted
        <3> QED
            BY <3>1, <3>2
    <2>3. CASE boundary = <<>> /\ ~FullyConsumed
        <3>1. InChunk(E, Drain(Current), <<>>)
            BY <1>1, <2>3, NothingCollected
        <3>2. Becomes(Drain(Current))
            BY <2>3 DEF BoundaryExhausted
        <3> QED
            BY <3>1, <3>2 DEF Becomes
    <2> QED
        BY <2>1, <2>2, <2>3
<1>3. PICK st : InChunk(E, st, <<>>) /\ pending' = st.pending /\ lines' = st.lines
    BY <1>2
<1>4. InChunk(E, Current, stream)'
    BY <1>1, <1>3, InChunkNext
<1>5. (ChunkStart < Len(input.bytes))'
    BY <1>1 DEF ChunkStart
<1> QED
    BY <1>1, <1>4, <1>5 DEF WholeInv, Phases

\* A record of the hot loop.
LEMMA BodyKeeps ==
    ASSUME StageInv, NoneDeferred, NEW E, WholeInv(E), BodyRecord
    PROVE  WholeInv(E)'
<1>1. /\ phase = "body" /\ stream # <<>> /\ InChunk(E, Current, stream)
      /\ ChunkStart < Len(input.bytes)
      /\ Becomes(WriteRecord(Current, Head(stream))) /\ stream' = Tail(stream)
      /\ phase' = phase /\ input' = input /\ chunk' = chunk
    BY DEF WholeInv, BodyRecord
<1>2. InChunk(E, WriteRecord(Current, Head(stream)), Tail(stream))
    BY <1>1, StageSays, RecordGoesOn
<1>3. PICK st : st = WriteRecord(Current, Head(stream))
    OBVIOUS
<1>4. PICK recs : recs = Tail(stream)
    OBVIOUS
<1>5. InChunk(E, st, recs)
    BY <1>2, <1>3, <1>4
<1>6. pending' = st.pending /\ lines' = st.lines
    BY <1>1, <1>3 DEF Becomes
<1>7. InChunk(E, Current, stream)'
    BY <1>1, <1>4, <1>5, <1>6, InChunkNext
<1>8. (ChunkStart < Len(input.bytes))'
    BY <1>1 DEF ChunkStart
<1> QED
    BY <1>1, <1>7, <1>8 DEF WholeInv, Phases

\* A chunk is done.
LEMMA EndChunkKeeps ==
    ASSUME StageInv, NEW E, WholeInv(E), EndChunk
    PROVE  WholeInv(E)'
<1>1. /\ phase = "body" /\ stream = <<>> /\ InChunk(E, Current, <<>>)
      /\ ChunkStart < Len(input.bytes) /\ chunk' = chunk + 1 /\ phase' = "idle"
      /\ input' = input /\ pending' = pending /\ lines' = lines
      /\ input \in Inputs /\ chunk \in Nat
      /\ Current.pending = pending /\ Current.lines = lines
    BY StageSays DEF WholeInv, EndChunk
<1>2. PICK q \in Nat : Reached(E, Current, q, ChunkEnd)
    BY <1>1, ChunkDone
<1>3. /\ ChunkStart \in Nat /\ ChunkEnd \in Nat /\ input.chunkSize \in Nat
      /\ ChunkEnd = IF ChunkStart + input.chunkSize < Len(input.bytes)
                    THEN ChunkStart + input.chunkSize ELSE Len(input.bytes)
    BY <1>1, ChunkAt
<1>4. ChunkStart' = ChunkStart + input.chunkSize
    <2>1. \A m, n \in Nat : (m + 1) * n = m * n + n
        OBVIOUS
    <2> QED
        BY <1>1, <1>3, <2>1 DEF ChunkStart
<1>5. PICK end \in Nat : end = ChunkEnd
    BY <1>3
<1>6. PICK st : st = Current
    OBVIOUS
<1>7. Reached(E, Current, q, end)'
    BY <1>1, <1>2, <1>5, <1>6, ReachedNext
<1>8. end = IF ChunkStart' < Len(input'.bytes) THEN ChunkStart' ELSE Len(input'.bytes)
    BY <1>1, <1>3, <1>4, <1>5
<1>9. AtRest(E)'
    BY <1>7, <1>8 DEF AtRest
<1>10. chunk' # 0
    BY <1>1
<1> QED
    BY <1>1, <1>9, <1>10 DEF WholeInv, Phases

\* The last was flushed.
LEMMA FlushKeeps ==
    ASSUME StageInv, NoneDeferred, NEW E, WholeInv(E), FlushPending
    PROVE  WholeInv(E)'
<1>1. /\ phase = "idle" /\ chunk = ChunkCount /\ AtRest(E) /\ phase' = "flushed"
      /\ input' = input /\ Becomes(Drain(Current))
    BY DEF WholeInv, FlushPending
<1>2. Holds(E, Drain(Current).lines, LinesBefore(E, Len(input.bytes)))
    BY <1>1, AllFlushed
<1>3. lines' = Drain(Current).lines
    BY <1>1 DEF Becomes
<1>4. LinesBefore(E, Len(input.bytes))' = LinesBefore(E, Len(input.bytes))
    BY <1>1 DEF LinesBefore
<1> QED
    BY <1>1, <1>2, <1>3, <1>4 DEF WholeInv, Phases

\* At any time the lines up to some point have been written.
LEMMA AlwaysSoFar ==
    ASSUME StageInv, NEW E, WholeInv(E)
    PROVE  SoFar(E)
<1>1. Current.lines = lines /\ input \in Inputs /\ Len(input.bytes) \in Nat
    BY StageSays, InputsAssumption
<1>2. ASSUME NEW q \in Nat, NEW p, Reached(E, Current, q, p) PROVE SoFar(E)
    BY <1>1, <1>2 DEF Reached, SoFar
<1>3. phase \in {"idle", "boundary", "body", "interrupted", "flushed"} => SoFar(E)
    <2>1. CASE phase = "idle"
        BY <1>2, <2>1 DEF WholeInv, AtRest
    <2>2. CASE phase = "boundary"
        BY <1>2, <2>2 DEF WholeInv, AtStart
    <2>3. CASE phase = "body"
        BY <1>2, <2>3 DEF WholeInv, InChunk
    <2>4. CASE phase = "interrupted"
        BY <2>4 DEF WholeInv
    <2>5. CASE phase = "flushed"
        BY <1>1, <2>5 DEF WholeInv, SoFar
    <2> QED
        BY <2>1, <2>2, <2>3, <2>4, <2>5
<1> QED
    BY <1>3 DEF WholeInv, Phases

\* Every step of the output stage keeps the invariant.
LEMMA WholeStep ==
    ASSUME StageInv, ScansDeliver, NoneDeferred, NEW E \in ByteEncodings, Once(E),
           WholeInv(E), [Next]_vars
    PROVE  WholeInv(E)'
<1>1. CASE BeginChunk
    BY <1>1, BeginChunkKeeps
<1>2. CASE CollectBoundary
    BY <1>2, CollectKeeps
<1>3. CASE EndBoundary
    BY <1>3, EndBoundaryKeeps
<1>4. CASE BoundaryExhausted
    BY <1>4, ExhaustedKeeps
<1>5. CASE BodyRecord
    BY <1>5, BodyKeeps
<1>6. CASE EndChunk
    BY <1>6, EndChunkKeeps
<1>7. CASE FlushPending
    BY <1>7, FlushKeeps
<1>8. CASE Interrupt
    <2>1. SoFar(E)
        BY AlwaysSoFar
    <2> QED
        BY <1>8, <2>1 DEF Interrupt, WholeInv, Phases, SoFar, LinesBefore
<1>9. CASE UNCHANGED vars
    BY <1>9 DEF vars, WholeInv, AtRest, AtStart, InChunk, SoFar, Reached, LinesBefore, PendingIs,
              TheRecord, Current, OutState, RecordsLeft, Placed, ChunkStart, ChunkEnd
<1>10. CASE Over
    BY <1>9, <1>10 DEF Over
<1> QED
    BY <1>1, <1>2, <1>3, <1>4, <1>5, <1>6, <1>7, <1>8, <1>9, <1>10 DEF Next

-----------------------------------------------------------------------------
(* What follows from it.                                                   *)

\* The lines of the encoding alone.
LEMMA HoldsOwn ==
    ASSUME NEW E, NEW q \in Nat, Holds(E, lines, LinesBefore(E, q))
    PROVE  /\ Holds(E, LinesIn(E), LinesBefore(E, q))
           /\ \A i \in DOMAIN LinesIn(E) : LinesIn(E)[i].encoding = E
<1> DEFINE own == {line \in ToSet(lines) : line.encoding = E}
<1>1. IsSeq(lines)
    BY DEF Holds
<1>2. KeptSoFar([seq |-> lines, set |-> own], Len(lines), LinesIn(E))
    BY <1>1, ThoseAre DEF LinesIn
<1>3. LinesBefore(E, q) \cap own = LinesBefore(E, q)
    BY DEF Holds, ToSet
<1> HIDE DEF own
<1>4. /\ Holds(E, LinesIn(E), LinesBefore(E, q) \cap own)
      /\ \A i \in DOMAIN LinesIn(E) : LinesIn(E)[i] \in own
    BY <1>2, HoldsKept
<1> QED
    BY <1>3, <1>4 DEF own

\* What has been written of the encoding is a prefix of its strings, and in the end all.
LEMMA WrittenAre ==
    ASSUME StageInv, NEW E \in ByteEncodings, WholeInv(E)
    PROVE  /\ IsPrefix(LinesIn(E), Strings(E))
           /\ phase = "flushed" => LinesIn(E) = Strings(E)
<1> DEFINE n == Len(input.bytes)
           T == Text(input, E)
<1>1. /\ input \in Inputs /\ input.bytes \in Seq(0 .. 255) /\ n \in Nat
    BY InputsAssumption DEF StageInv
<1>2. /\ Holds(E, Strings(E), LinesBefore(E, n))
      /\ \A i \in DOMAIN Strings(E) : Strings(E)[i].encoding = E
    BY <1>1, StringsHold DEF LinesBefore
<1>3. ASSUME NEW q \in Nat, Holds(E, lines, LinesBefore(E, q))
      PROVE  /\ Holds(E, LinesIn(E), LinesBefore(E, q))
             /\ \A i \in DOMAIN LinesIn(E) : LinesIn(E)[i].encoding = E
    BY <1>3, HoldsOwn
<1>4. PICK q \in Nat : Holds(E, lines, LinesBefore(E, q))
    BY AlwaysSoFar DEF SoFar
<1>5. IsPrefix(LinesIn(E), Strings(E))
    <2>1. CASE q >= n
        <3>1. LinesBefore(E, q) = LinesBefore(E, n)
            BY <1>1, <2>1, AllLines
        <3>2. LinesIn(E) = Strings(E)
            BY <1>2, <1>3, <1>4, <3>1, HoldsSame
        <3>3. \A x, y \in LinesBefore(E, n) : y.offset < x.offset => y \in LinesBefore(E, n)
            OBVIOUS
        <3> QED
            BY <1>2, <3>2, <3>3, HoldsPrefix
    <2>2. CASE q < n
        <3>1. LinesBefore(E, q) \subseteq LinesBefore(E, n)
            BY <1>1, <2>2 DEF LinesBefore, WholeLines
        <3>2. ASSUME NEW x \in LinesBefore(E, q), NEW y \in LinesBefore(E, n),
                     y.offset < x.offset
              PROVE  y \in LinesBefore(E, q)
            <4>1. PICK z \in Nat \X Nat :
                      /\ Whole(T, z[1], z[2]) /\ z[2] - z[1] >= input.minCch /\ z[1] < q
                      /\ x = LineAt(E, input.bytes, z[1], z[2])
                BY DEF LinesBefore, WholeLines
            <4>2. PICK w \in Nat \X Nat :
                      /\ Whole(T, w[1], w[2]) /\ w[2] - w[1] >= input.minCch
                      /\ y = LineAt(E, input.bytes, w[1], w[2])
                BY DEF LinesBefore, WholeLines
            <4>3. x.offset = z[1] /\ y.offset = w[1]
                BY <4>1, <4>2 DEF LineAt
            <4>4. w[1] < q
                BY <1>4, <3>2, <4>1, <4>3
            <4> QED
                BY <4>2, <4>4 DEF LinesBefore, WholeLines
        <3> QED
            BY <1>2, <1>3, <1>4, <3>1, <3>2, HoldsPrefix
    <2> QED
        BY <1>1, <2>1, <2>2
<1>6. ASSUME phase = "flushed" PROVE LinesIn(E) = Strings(E)
    <2>1. Holds(E, lines, LinesBefore(E, n))
        BY <1>6 DEF WholeInv
    <2> QED
        BY <1>1, <1>2, <1>3, <2>1, HoldsSame
<1> QED
    BY <1>5, <1>6

\* The lines that were written of an encoding.
LEMMA LinesHeld ==
    ASSUME StageInv, NEW E \in ByteEncodings, WholeInv(E)
    PROVE  \E q \in Nat : /\ Holds(E, LinesIn(E), LinesBefore(E, q))
                          /\ \A i \in DOMAIN LinesIn(E) : LinesIn(E)[i].encoding = E
<1>1. PICK q \in Nat : Holds(E, lines, LinesBefore(E, q))
    BY AlwaysSoFar DEF SoFar
<1> QED
    BY <1>1, HoldsOwn

\* Each is a run of the file.
LEMMA LineIs ==
    ASSUME StageInv, NEW E \in ByteEncodings, WholeInv(E), NEW i \in DOMAIN LinesIn(E)
    PROVE  \E a, b \in Nat :
               /\ Whole(Text(input, E), a, b)
               /\ LinesIn(E)[i] = LineAt(E, input.bytes, a, b)
<1>1. PICK q \in Nat : /\ Holds(E, LinesIn(E), LinesBefore(E, q))
                       /\ \A j \in DOMAIN LinesIn(E) : LinesIn(E)[j].encoding = E
    BY LinesHeld
<1>2. LinesIn(E)[i] \in LinesBefore(E, q)
    BY <1>1 DEF Holds
<1> QED
    BY <1>2, WholeLinesAre DEF LinesBefore

\* They are apart.
LEMMA LinesApart ==
    ASSUME StageInv, NEW E \in ByteEncodings, WholeInv(E),
           NEW i \in DOMAIN LinesIn(E), NEW j \in DOMAIN LinesIn(E), i < j
    PROVE  LineEnd(LinesIn(E)[i]) <= LinesIn(E)[j].offset
<1> DEFINE T == Text(input, E)
<1>1. PICK a \in Nat, b \in Nat :
          Whole(T, a, b) /\ LinesIn(E)[i] = LineAt(E, input.bytes, a, b)
    BY LineIs
<1>2. PICK d \in Nat, e \in Nat :
          Whole(T, d, e) /\ LinesIn(E)[j] = LineAt(E, input.bytes, d, e)
    BY LineIs
<1>3. LinesIn(E)[i].offset < LinesIn(E)[j].offset
    BY LinesHeld DEF Holds
<1>4. LinesIn(E)[i].offset = a /\ LinesIn(E)[j].offset = d
    BY <1>1, <1>2 DEF LineAt
<1>5. LineEnd(LinesIn(E)[i]) = b
    BY <1>1, LineEndIs DEF Whole
<1>6. b <= d
    <2> SUFFICES ASSUME d < b PROVE FALSE
        OBVIOUS
    <2>1. d - 1 \in a .. b - 1
        BY <1>3, <1>4
    <2> HIDE DEF T
    <2> QED
        BY <1>1, <1>2, <2>1 DEF Whole
<1> QED
    BY <1>4, <1>5, <1>6

\* And each is one of the runs that a scan of the whole file finds.
LEMMA LineIsRun ==
    ASSUME StageInv, NEW E \in ByteEncodings, WholeInv(E), NEW i \in DOMAIN LinesIn(E)
    PROVE  \E rec \in AllRuns(E) :
               rec.offset <= LinesIn(E)[i].offset /\ LineEnd(LinesIn(E)[i]) <= End(rec)
<1> DEFINE line == LinesIn(E)[i]
<1>1. PICK a \in Nat, b \in Nat :
          Whole(Text(input, E), a, b) /\ line = LineAt(E, input.bytes, a, b)
    BY LineIs
<1> HIDE DEF line
<1> DEFINE rec == RecordOf(E, input.bytes, a, b, FALSE, FALSE)
<1>2. input.bytes \in Seq(0 .. 255)
    BY InputsAssumption DEF StageInv
<1>3. rec \in AllRuns(E)
    BY <1>1, <1>2, WholeFileRunsAre
<1>4. LineEnd(line) = b /\ line.offset = a
    BY <1>1, LineEndIs DEF Whole, LineAt
<1>5. rec.offset = a /\ rec.cb = b - a
    BY DEF RecordOf, TextRecord
<1>6. rec.offset <= line.offset /\ LineEnd(line) <= End(rec)
    <2> HIDE DEF rec
    <2>1. End(rec) = b
        BY <1>5 DEF End
    <2> QED
        BY <1>4, <1>5, <2>1
<1> QED
    BY <1>3, <1>6 DEF line

\* With --min-length 1 they have all been written in the end.
LEMMA AllLinesHeld ==
    ASSUME StageInv, NEW E \in ByteEncodings, WholeInv(E), phase = "flushed", input.minCch = 1
    PROVE  ToSet(LinesIn(E)) = ToSet(LinesOf(SetToSeq(AllRuns(E))))
<1> DEFINE n == Len(input.bytes)
           T == Text(input, E)
<1>1. input.bytes \in Seq(0 .. 255) /\ n \in Nat
    BY InputsAssumption DEF StageInv
<1>2. \A a, b \in Nat : Whole(T, a, b) => a < n /\ b - a >= 1
    BY <1>1 DEF Whole, Text
<1>3. /\ Holds(E, LinesIn(E), LinesBefore(E, n))
      /\ \A i \in DOMAIN LinesIn(E) : LinesIn(E)[i].encoding = E
    BY <1>1, HoldsOwn DEF WholeInv
<1>4. \A x : x \in ToSet(LinesIn(E)) <=> x \in LinesBefore(E, n)
    BY <1>3 DEF Holds, ToSet
<1>5. ASSUME NEW x
      PROVE  x \in LinesBefore(E, n) <=>
                 \E a, b \in Nat : Whole(T, a, b) /\ x = LineAt(E, input.bytes, a, b)
    <2>1. x \in LinesBefore(E, n) <=>
              \E a, b \in Nat : /\ Whole(T, a, b) /\ b - a >= 1 /\ a < n
                                /\ x = LineAt(E, input.bytes, a, b)
        BY WholeLinesAre DEF LinesBefore
    <2> HIDE DEF T, n
    <2> QED
        BY <1>2, <2>1
<1>6. \A x : x \in ToSet(LinesOf(SetToSeq(AllRuns(E)))) <=>
                 \E a, b \in Nat : Whole(T, a, b) /\ x = LineAt(E, input.bytes, a, b)
    BY <1>1, RunsHaveLines
<1> QED
    BY <1>4, <1>5, <1>6

-----------------------------------------------------------------------------
(* The theorems.                                                           *)

\* the invariant, for all of them
BytesInv ==
    /\ StageInv
    /\ NoneDeferred
    /\ \A E \in ByteEncodings : Once(E) => WholeInv(E)

TextInputs == \A in \in Inputs : ToSet(in.encodings) \cap DeferredEncodings = {}

\* It holds as long as the scans deliver what they should.
LEMMA BytesInvariance == ASSUME TextInputs PROVE Spec /\ []ScansDeliver => []BytesInv
<1>1. Init => BytesInv
    BY StageInit, WholeInit DEF BytesInv, NoneDeferred, Selected, TextInputs, Init
<1>2. BytesInv /\ ScansDeliver /\ [Next]_vars => BytesInv'
    <2> SUFFICES ASSUME BytesInv, ScansDeliver, [Next]_vars PROVE BytesInv'
        OBVIOUS
    <2>1. StageInv'
        BY StageStep DEF BytesInv
    <2>2. input' = input
        BY DEF Next, vars, BeginChunk, CollectBoundary, EndBoundary, BoundaryExhausted,
               BodyRecord, EndChunk, FlushPending, Interrupt, Over
    <2>3. NoneDeferred'
        BY <2>2 DEF BytesInv, NoneDeferred, Selected
    <2>4. ASSUME NEW E \in ByteEncodings, Once(E)' PROVE WholeInv(E)'
        <3>1. Once(E)
            BY <2>2, <2>4 DEF Once, Selected
        <3>2. WholeInv(E)
            BY <3>1 DEF BytesInv
        <3> QED
            BY <3>1, <3>2, WholeStep DEF BytesInv
    <2> QED
        BY <2>1, <2>3, <2>4 DEF BytesInv
<1> QED
    BY <1>1, <1>2, PTL DEF Spec

\* If no encoding is deferred and the scans deliver, the strings of the encodings of single
\* bytes come out as if there were no chunks: whatever the file, the chunk size, the filters,
\* --min-length, and whatever else is looked for (outputter.rs:104-230, merger.rs).
THEOREM ByteStringsStayWhole ==
    ASSUME TextInputs
    PROVE  Spec /\ []ScansDeliver => []ByteStringsAreWhole
<1>1. BytesInv => ByteStringsAreWhole
    BY WrittenAre DEF BytesInv, ByteStringsAreWhole
<1> QED
    BY <1>1, BytesInvariance, PTL

\* Next to UTF-16LE restricted to Latin-1, the other encoding that is the default, they do so
\* without an assumption about the scans.
THEOREM DefaultStringsAreWhole == ASSUME UnitInputs PROVE Spec => []ByteStringsAreWhole
<1>1. TextInputs
    BY DEF TextInputs, UnitInputs, UnitEncodings, DeferredEncodings, DbcsEncodings
<1> QED
    BY <1>1, ByteStringsStayWhole, UnitScansDeliver, PTL

\* inputs for which only encodings of single bytes are looked for, each once
ByteInputs ==
    \A in \in Inputs : ToSet(in.encodings) \subseteq ByteEncodings /\ IsInjective(in.encodings)

\* Of these all is said.
LEMMA BytesAlone ==
    ASSUME ByteInputs, BytesInv, NEW enc \in Selected
    PROVE  enc \in ByteEncodings /\ WholeInv(enc) /\ StageInv
<1>1. input \in Inputs /\ StageInv
    BY DEF BytesInv, StageInv
<1>2. enc \in ByteEncodings
    BY <1>1 DEF ByteInputs, Selected
<1>3. Once(enc)
    BY <1>1 DEF ByteInputs, Once, IsInjective
<1> QED
    BY <1>1, <1>2, <1>3 DEF BytesInv

\* And in every state.
LEMMA ByteInputsInvariance == ASSUME ByteInputs PROVE Spec => []BytesInv
<1>1. UnitInputs
    BY DEF ByteInputs, UnitInputs, UnitEncodings, ByteEncodings
<1>2. TextInputs
    BY <1>1 DEF TextInputs, UnitInputs, UnitEncodings, DeferredEncodings, DbcsEncodings
<1> QED
    BY <1>1, <1>2, BytesInvariance, UnitScansDeliver, PTL

\* When ASCII, windows-1251 or both are looked for, what has been written is at any time a prefix
\* of what one scan of the whole file finds, and after flush_pending all of it: what is found
\* does not depend on the chunk size (tests/chunk_size_invariance_tests.rs:4).
THEOREM ByteOutputIsWhole ==
    ASSUME ByteInputs
    PROVE  Spec => []WrittenIsPrefix /\ []FlushedIsComplete
<1>1. BytesInv => WrittenIsPrefix
    BY BytesAlone, WrittenAre DEF WrittenIsPrefix
<1>2. BytesInv => FlushedIsComplete
    BY BytesAlone, WrittenAre DEF FlushedIsComplete
<1> QED
    BY <1>1, <1>2, ByteInputsInvariance, PTL

\* No byte of them is reported twice, and every line is of one run of the file.
THEOREM ByteLinesAreSound ==
    ASSUME ByteInputs
    PROVE  Spec => []NoByteTwice /\ []LinesAreFragments
<1>1. BytesInv => NoByteTwice
    BY BytesAlone, LinesApart DEF NoByteTwice
<1>2. BytesInv => LinesAreFragments
    <2> SUFFICES ASSUME BytesInv, NEW enc \in Selected, NEW line \in ToSet(LinesIn(enc))
                 PROVE  \E rec \in AllRuns(enc) :
                            rec.offset <= line.offset /\ LineEnd(line) <= End(rec)
        BY DEF LinesAreFragments
    <2>1. PICK i \in DOMAIN LinesIn(enc) : line = LinesIn(enc)[i]
        BY DEF ToSet
    <2> QED
        BY <2>1, BytesAlone, LineIsRun
<1> QED
    BY <1>1, <1>2, ByteInputsInvariance, PTL

\* With --min-length 1 every byte of text is reported in the end.
THEOREM NoByteIsLost == ASSUME ByteInputs PROVE Spec => []NothingLost
<1>1. BytesInv => NothingLost
    BY BytesAlone, AllLinesHeld DEF NothingLost
<1> QED
    BY <1>1, ByteInputsInvariance, PTL

-----------------------------------------------------------------------------
(* The types.                                                              *)

\* every record in flight is
InFlight == ToSet(stream) \cup ToSet(boundary) \cup Range(pending)
FlightInv == \A rec \in InFlight : WellFormed(rec)

\* Within and between the chunks the invariant says so.
LEMMA InFlightIsWellFormed ==
    ASSUME ByteInputs, BytesInv, phase \in {"idle", "boundary", "body"}
    PROVE  FlightInv
<1>1. /\ input \in Inputs /\ chunk \in Nat /\ Keyed(pending)
      /\ Waiting(stream) /\ Waiting(boundary)
      /\ phase = "idle" => stream = <<>>
      /\ phase # "boundary" => boundary = <<>>
    BY DEF BytesInv, StageInv
<1>2. Len(input.bytes) \in Nat
    BY <1>1, ChunkAt
<1>3. ASSUME NEW E \in Selected
      PROVE  E \in ByteEncodings /\ WholeInv(E)
    BY <1>3, BytesAlone
<1>4. ASSUME NEW rec \in ToSet(stream) PROVE WellFormed(rec)
    <2>1. rec.encoding \in Selected /\ phase # "idle"
        BY <1>1, <1>4 DEF Waiting, Fresh, Proper, ToSet
    <2> DEFINE E == rec.encoding
    <2>2. PICK i \in DOMAIN stream : rec = stream[i]
        BY DEF ToSet
    <2>3. \E p : rec \in RecordsLeft(E, p)
        <3>1. CASE phase = "body"
            <4>1. InChunk(E, Current, stream)
                BY <1>3, <2>1, <3>1 DEF WholeInv
            <4>2. PICK p \in Nat : Holds(E, stream, RecordsLeft(E, p))
                BY <4>1 DEF InChunk
            <4> QED
                BY <2>2, <4>2 DEF Holds
        <3>2. CASE phase = "boundary"
            <4>1. Holds(E, boundary \o stream, RecordsLeft(E, ChunkStart))
                BY <1>3, <2>1, <3>2 DEF WholeInv, AtStart
            <4>2. /\ Len(boundary) + i \in DOMAIN (boundary \o stream)
                  /\ (boundary \o stream)[Len(boundary) + i] = rec
                BY <1>1, <2>2 DEF Waiting
            <4> QED
                BY <4>1, <4>2 DEF Holds
        <3> QED
            BY <2>1, <3>1, <3>2
    <2> QED
        BY <1>1, <1>3, <2>1, <2>3, LeftIsWellFormed
<1>5. ASSUME NEW rec \in ToSet(boundary) PROVE WellFormed(rec)
    <2>1. rec.encoding \in Selected /\ phase = "boundary"
        BY <1>1, <1>5 DEF Waiting, Fresh, Proper, ToSet
    <2> DEFINE E == rec.encoding
    <2>2. PICK i \in DOMAIN boundary : rec = boundary[i]
        BY DEF ToSet
    <2>3. Holds(E, boundary \o stream, RecordsLeft(E, ChunkStart))
        BY <1>3, <2>1 DEF WholeInv, AtStart
    <2>4. i \in DOMAIN (boundary \o stream) /\ (boundary \o stream)[i] = rec
        BY <1>1, <2>2 DEF Waiting
    <2>5. rec \in RecordsLeft(E, ChunkStart)
        BY <2>3, <2>4 DEF Holds
    <2> QED
        BY <1>1, <1>3, <2>1, <2>5, LeftIsWellFormed
<1>6. ASSUME NEW rec \in Range(pending) PROVE WellFormed(rec)
    <2>1. PICK E \in DOMAIN pending : rec = pending[E]
        BY DEF Range
    <2>2. E \in Selected
        BY <1>1, <2>1 DEF Keyed, Awaits, Proper
    <2>3. E \in ByteEncodings /\ WholeInv(E)
        BY <1>3, <2>2
    <2>4. Current.pending = pending
        BY DEF Current, OutState
    <2>5. PICK q \in Nat, p \in Nat : Reached(E, Current, q, p) /\ p <= Len(input.bytes)
        <3>1. CASE phase = "idle"
            BY <1>2, <2>3, <3>1 DEF WholeInv, AtRest
        <3>2. CASE phase = "boundary"
            <4>1. ChunkStart < Len(input.bytes) /\ AtStart(E)
                BY <2>3, <3>2 DEF WholeInv
            <4>2. ChunkStart \in Nat
                BY <1>1, ChunkAt
            <4> QED
                BY <1>2, <4>1, <4>2 DEF AtStart
        <3>3. CASE phase = "body"
            <4>1. InChunk(E, Current, stream)
                BY <2>3, <3>3 DEF WholeInv
            <4>2. ChunkEnd \in Nat /\ ChunkEnd <= Len(input.bytes)
                BY <1>1, ChunkAt
            <4> QED
                BY <1>2, <4>1, <4>2 DEF InChunk
        <3> QED
            BY <3>1, <3>2, <3>3
    <2> QED
        BY <1>2, <2>1, <2>2, <2>3, <2>4, <2>5, PendingIsWellFormed
<1> QED
    BY <1>4, <1>5, <1>6 DEF FlightInv, InFlight

\* where the chunks are counted, and what is left after the last step
TypeInv ==
    /\ phase \in Phases
    /\ chunk \in 0 .. ChunkCount
    /\ phase \in {"boundary", "body"} => chunk < ChunkCount
    /\ phase = "flushed" => stream = <<>> /\ boundary = <<>> /\ pending = <<>>
    /\ phase = "interrupted" => FlightInv

LEMMA ChunkCountIs == ASSUME input \in Inputs PROVE ChunkCount \in Nat
<1>1. Len(input.bytes) \in Nat /\ input.chunkSize \in Nat \ {0}
    BY InputsAssumption
<1> DEFINE L == Len(input.bytes)
           size == input.chunkSize
<1> HIDE DEF L, size
<1>2. L \in Nat /\ size \in Nat \ {0} /\ ChunkCount = (L + size - 1) \div size
    BY <1>1 DEF ChunkCount, L, size
<1>3. PICK k \in Nat : /\ k = (L + size - 1) \div size
                      /\ size * k <= L + size - 1 /\ L + size - 1 < size * k + size
    BY <1>2
<1> QED
    BY <1>2, <1>3

LEMMA TypeStep ==
    ASSUME ByteInputs, BytesInv, TypeInv, [Next]_vars
    PROVE  TypeInv'
<1> USE DEF Phases
<1>1. input \in Inputs /\ ChunkCount \in Nat /\ chunk \in Nat
    BY ChunkCountIs DEF BytesInv, StageInv
<1>2. ChunkCount' = ChunkCount /\ input' = input
    BY DEF Next, vars, BeginChunk, CollectBoundary, EndBoundary, BoundaryExhausted, BodyRecord,
           EndChunk, FlushPending, Interrupt, Over, ChunkCount
<1>3. CASE BeginChunk
    BY <1>1, <1>2, <1>3 DEF BeginChunk, TypeInv
<1>4. CASE CollectBoundary
    BY <1>1, <1>2, <1>4 DEF CollectBoundary, TypeInv
<1>5. CASE EndBoundary
    BY <1>1, <1>2, <1>5 DEF EndBoundary, TypeInv
<1>6. CASE BoundaryExhausted
    BY <1>1, <1>2, <1>6 DEF BoundaryExhausted, TypeInv
<1>7. CASE BodyRecord
    BY <1>1, <1>2, <1>7 DEF BodyRecord, TypeInv
<1>8. CASE EndChunk
    BY <1>1, <1>2, <1>8 DEF EndChunk, TypeInv
<1>9. CASE FlushPending
    <2>1. stream' = <<>> /\ boundary' = <<>>
        BY <1>9 DEF FlushPending, BytesInv, StageInv
    <2>2. pending' = <<>>
        BY <1>9 DEF FlushPending, Becomes, Drain, OutState
    <2>3. phase' = "flushed" /\ chunk' = chunk
        BY <1>9 DEF FlushPending
    <2> QED
        BY <1>1, <1>2, <2>1, <2>2, <2>3 DEF TypeInv
<1>10. CASE Interrupt
    <2>1. FlightInv
        BY <1>10, InFlightIsWellFormed DEF Interrupt
    <2>2. UNCHANGED <<input, chunk, stream, boundary, pending, lines>> /\ phase' = "interrupted"
        BY <1>10 DEF Interrupt
    <2>3. FlightInv'
        BY <2>1, <2>2 DEF FlightInv, InFlight, WellFormed, Selected
    <2> QED
        BY <1>1, <1>2, <2>2, <2>3 DEF TypeInv
<1>11. CASE UNCHANGED vars
    <2>1. FlightInv => FlightInv'
        BY <1>11 DEF vars, FlightInv, InFlight, WellFormed, Selected
    <2> QED
        BY <1>2, <1>11, <2>1 DEF vars, TypeInv
<1> QED
    BY <1>3, <1>4, <1>5, <1>6, <1>7, <1>8, <1>9, <1>10, <1>11 DEF Next, Over

\* When only encodings of single bytes are looked for, every record in flight keeps its counts
\* of bytes and of characters in step with its text, however often it was joined
\* (record.rs:141).
THEOREM ByteTypeCorrect == ASSUME ByteInputs PROVE Spec => []TypeOK
<1>1. Init => TypeInv
    BY ChunkCountIs DEF Init, TypeInv, Phases
<1>2. BytesInv /\ TypeInv /\ [Next]_vars => TypeInv'
    BY TypeStep
<1>3. BytesInv /\ TypeInv => TypeOK
    <2> SUFFICES ASSUME BytesInv, TypeInv PROVE TypeOK
        OBVIOUS
    <2>1. FlightInv
        <3>1. CASE phase \in {"idle", "boundary", "body"}
            BY <3>1, InFlightIsWellFormed
        <3>2. CASE phase = "interrupted"
            BY <3>2 DEF TypeInv
        <3>3. CASE phase = "flushed"
            BY <3>3 DEF TypeInv, FlightInv, InFlight, ToSet, Range
        <3> QED
            BY <3>1, <3>2, <3>3 DEF TypeInv, Phases
    <2>2. input \in Inputs /\ Keyed(pending)
        BY DEF BytesInv, StageInv
    <2>3. DOMAIN pending \subseteq Selected
        BY <2>2 DEF Keyed, Awaits, Proper
    <2>4. \A enc \in DOMAIN pending : pending[enc].encoding = enc /\ pending[enc].ends
        BY <2>2 DEF Keyed, Awaits
    <2> QED
        BY <2>1, <2>2, <2>3, <2>4 DEF TypeOK, TypeInv, FlightInv, InFlight
<1> QED
    BY <1>1, <1>2, <1>3, ByteInputsInvariance, PTL DEF Spec
=============================================================================
