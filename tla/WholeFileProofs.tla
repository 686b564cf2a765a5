--------------------------- MODULE WholeFileProofs ---------------------------
(***************************************************************************)
(* Of an encoding of single bytes: what a scan of the whole file finds,    *)
(* what a scan of one chunk delivers, and how the strings of the file are  *)
(* put together from the records of its chunks.                            *)
(***************************************************************************)
EXTENDS OutputStage, ScannersProofs

-----------------------------------------------------------------------------
(* A scan of bytes, each of which is text or not.                          *)

\* the text at a .. b - 1 of the file, as a run, and as a record
RunAt(file, a, b) == [k \in 1 .. b - a |-> Unit(a + k - 1, "text", <<file[a + k]>>)]
CharsAt(file, a, b) == [k \in 1 .. b - a |-> <<file[a + k]>>]
RecordOf(E, file, a, b, starts, ends) ==
    TextRecord(a, b - a, b - a, E, starts, ends, CharsAt(file, a, b))

\* the units of a chunk, if T are the offsets of text
UnitsAt(file, T, first, end) ==
    [k \in 1 .. end - first |->
        Unit(first + k - 1, IF first + k - 1 \in T THEN "text" ELSE "other", <<file[first + k]>>)]

\* between two cuts there is text that starts at a, and no text just before it
OpensAt(T, a, b, first) == first <= a /\ (a = first \/ a - 1 \notin T) /\ \A p \in a .. b - 1 : p \in T

\* a run that has been closed before offset x
IsClosed(T, first, x, a, b) == OpensAt(T, a, b, first) /\ a < b /\ b < x /\ b \notin T

\* a run of text of the chunk
Piece(T, first, end, a, b) ==
    OpensAt(T, a, b, first) /\ a < b /\ b <= end /\ (b = end \/ b \notin T)

\* At offset x the runs before it have been closed, and only they; another is open if the
\* last byte is text.
BytesAt(c, x, acc) ==
    /\ acc = [closed |-> acc.closed, open |-> acc.open]
    /\ IsSeq(acc.closed)
    /\ \E a \in Nat : /\ OpensAt(c.text, a, x, c.first) /\ a <= x
                      /\ acc.open = RunAt(c.file, a, x)
    /\ \A k \in DOMAIN acc.closed : \E a, b \in Nat :
          IsClosed(c.text, c.first, x, a, b) /\ acc.closed[k] = RunAt(c.file, a, b)
    /\ \A a, b \in Nat :
          IsClosed(c.text, c.first, x, a, b) =>
              \E k \in DOMAIN acc.closed : acc.closed[k] = RunAt(c.file, a, b)

BytesSoFar(c, n, acc) == BytesAt(c, c.first + n, acc)

ScanningBytes == INSTANCE LeftFold WITH Body <- LAMBDA c, acc, unit : TakeUnit(acc, unit),
                                        Kept <- BytesSoFar

\* A run is opened at one place only.
LEMMA OneOpening ==
    ASSUME NEW T, NEW first \in Nat, NEW a \in Nat, NEW b \in Nat, NEW x \in Nat,
           OpensAt(T, a, x, first), OpensAt(T, b, x, first), a <= x, b <= x
    PROVE  a = b
<1>1. ASSUME NEW c \in Nat, NEW d \in Nat, c < d, d <= x, OpensAt(T, c, x, first),
             OpensAt(T, d, x, first)
      PROVE  FALSE
    <2>1. d - 1 \in c .. x - 1
        BY <1>1
    <2>2. d - 1 \in T
        BY <1>1, <2>1 DEF OpensAt
    <2> QED
        BY <1>1, <2>2 DEF OpensAt
<1> QED
    BY <1>1

\* What a run is.
LEMMA RunIs ==
    ASSUME NEW file, NEW a \in Nat, NEW b \in Nat, a <= b
    PROVE  /\ RunAt(file, a, b) \in Seq(ToSet(RunAt(file, a, b))) /\ Len(RunAt(file, a, b)) = b - a
           /\ RunAt(file, a, b) = <<>> => a = b
           /\ a = b => RunAt(file, a, b) = <<>>
           /\ a < b => RunAt(file, a, b)[1].at = a
<1> DEFINE run == RunAt(file, a, b)
           N == b - a
<1>1. N \in Nat /\ (N = 0 <=> a = b) /\ (a < b <=> 1 \in 1 .. N)
    OBVIOUS
<1>2. run = [k \in 1 .. N |-> run[k]] /\ \A k \in 1 .. N : run[k] \in ToSet(run)
    BY DEF RunAt, ToSet
<1>3. 1 \in 1 .. N => run[1].at = a + 1 - 1
    BY DEF RunAt, Unit
<1> HIDE DEF run, N
<1>4. run \in Seq(ToSet(run)) /\ Len(run) = N
    BY <1>1, <1>2
<1>5. run = <<>> <=> N = 0
    BY <1>1, <1>4
<1> QED
    BY <1>1, <1>3, <1>4, <1>5 DEF run, N

\* A run that goes on.
LEMMA RunGoesOn ==
    ASSUME NEW file, NEW a \in Nat, NEW b \in Nat, a <= b
    PROVE  Append(RunAt(file, a, b), Unit(b, "text", <<file[b + 1]>>)) = RunAt(file, a, b + 1)
<1> DEFINE run == RunAt(file, a, b)
           unit == Unit(b, "text", <<file[b + 1]>>)
           more == RunAt(file, a, b + 1)
           N == b - a
<1>1. N \in Nat /\ (b + 1) - a = N + 1 /\ a + (N + 1) - 1 = b /\ a + (N + 1) = b + 1
    OBVIOUS
<1>2. /\ more = [k \in 1 .. N + 1 |-> more[k]] /\ run = [k \in 1 .. N |-> run[k]]
      /\ \A k \in 1 .. N : more[k] = run[k]
    BY <1>1 DEF RunAt
<1>3. more[N + 1] = unit
    BY <1>1 DEF RunAt
<1> DEFINE R == ToSet(run) \cup {unit}
<1>4. \A k \in 1 .. N : run[k] \in R
    BY <1>2 DEF ToSet
<1>5. unit \in R
    OBVIOUS
<1> HIDE DEF run, unit, more, N, R
<1>10. run = [k \in 1 .. N |-> run[k]]
    BY <1>2
<1>6. run \in Seq(R) /\ Len(run) = N
    BY <1>1, <1>4, <1>10
<1>7. /\ Append(run, unit) = [k \in 1 .. N + 1 |-> Append(run, unit)[k]]
      /\ \A k \in 1 .. N : Append(run, unit)[k] = run[k]
      /\ Append(run, unit)[N + 1] = unit
    <2>1. /\ Append(run, unit) \in Seq(R) /\ Len(Append(run, unit)) = N + 1
          /\ \A k \in 1 .. N : Append(run, unit)[k] = run[k]
          /\ Append(run, unit)[N + 1] = unit
        BY <1>5, <1>6, AppendAt
    <2> DEFINE w == Append(run, unit)
    <2> HIDE DEF w
    <2>2. w \in Seq(R) /\ Len(w) = N + 1
        BY <2>1 DEF w
    <2>3. w = [k \in 1 .. N + 1 |-> w[k]]
        BY <2>2
    <2> QED
        BY <2>1, <2>3 DEF w
<1>8. \A k \in 1 .. N + 1 : Append(run, unit)[k] = more[k]
    <2>1. \A k \in 1 .. N + 1 : k \in 1 .. N \/ k = N + 1
        BY <1>1
    <2>2. \A k \in 1 .. N : more[k] = run[k]
        BY <1>2
    <2> QED
        BY <1>3, <1>7, <2>1, <2>2
<1>9. Append(run, unit) = more
    BY <1>2, <1>7, <1>8
<1> QED
    BY <1>9 DEF run, unit, more

\* What it takes to be so.
LEMMA BytesAtIs ==
    ASSUME NEW c, NEW x, NEW runs, NEW open, IsSeq(runs),
           NEW a \in Nat, OpensAt(c.text, a, x, c.first), a <= x, open = RunAt(c.file, a, x),
           \A k \in DOMAIN runs : \E b, d \in Nat :
              IsClosed(c.text, c.first, x, b, d) /\ runs[k] = RunAt(c.file, b, d),
           \A b, d \in Nat : IsClosed(c.text, c.first, x, b, d) =>
              \E k \in DOMAIN runs : runs[k] = RunAt(c.file, b, d)
    PROVE  BytesAt(c, x, [closed |-> runs, open |-> open])
<1> DEFINE acc == [closed |-> runs, open |-> open]
<1>1. acc = [closed |-> acc.closed, open |-> acc.open] /\ acc.closed = runs /\ acc.open = open
    OBVIOUS
<1> HIDE DEF acc
<1> QED
    BY <1>1 DEF BytesAt, acc

\* One byte is taken.
LEMMA TakeByteKeeps ==
    ASSUME NEW c, c.first \in Nat, NEW n \in Nat \ {0}, NEW acc, BytesSoFar(c, n - 1, acc),
           NEW unit, unit = Unit(c.first + n - 1,
                                 IF c.first + n - 1 \in c.text THEN "text" ELSE "other",
                                 <<c.file[c.first + n]>>)
    PROVE  BytesSoFar(c, n, TakeUnit(acc, unit))
<1> DEFINE x == c.first + n - 1
<1>1. x \in Nat /\ c.first + n = x + 1 /\ c.first + (n - 1) = x /\ c.first <= x
    OBVIOUS
<1> HIDE DEF x
<1> SUFFICES BytesAt(c, x + 1, TakeUnit(acc, unit))
    BY <1>1 DEF BytesSoFar
<1>0. BytesAt(c, x, acc)
    BY <1>1 DEF BytesSoFar
<1>2. PICK a \in Nat : OpensAt(c.text, a, x, c.first) /\ a <= x /\ acc.open = RunAt(c.file, a, x)
    BY <1>0 DEF BytesAt
<1>3. /\ acc = [closed |-> acc.closed, open |-> acc.open]
      /\ IsSeq(acc.closed)
      /\ \A k \in DOMAIN acc.closed : \E b, d \in Nat :
            IsClosed(c.text, c.first, x, b, d) /\ acc.closed[k] = RunAt(c.file, b, d)
      /\ \A b, d \in Nat : IsClosed(c.text, c.first, x, b, d) =>
            \E k \in DOMAIN acc.closed : acc.closed[k] = RunAt(c.file, b, d)
    BY <1>0 DEF BytesAt
<1>4. \A b, d \in Nat : IsClosed(c.text, c.first, x, b, d) => IsClosed(c.text, c.first, x + 1, b, d)
    BY <1>1 DEF IsClosed
<1>5. acc.open = <<>> <=> a = x
    <2>1. RunAt(c.file, a, x) = <<>> <=> a = x
        BY <1>1, <1>2, RunIs
    <2> QED
        BY <1>2, <2>1
<1>6. CASE x \in c.text
    <2>1. unit = Unit(x, "text", <<c.file[x + 1]>>) /\ unit.kind = "text"
        BY <1>1, <1>6 DEF x, Unit
    <2>2. TakeUnit(acc, unit) = [closed |-> acc.closed, open |-> Append(acc.open, unit)]
        BY <1>3, <2>1 DEF TakeUnit
    <2>3. Append(acc.open, unit) = RunAt(c.file, a, x + 1)
        BY <1>1, <1>2, <2>1, RunGoesOn
    <2>4. OpensAt(c.text, a, x + 1, c.first) /\ a <= x + 1
        BY <1>1, <1>2, <1>6 DEF OpensAt
    <2>5. \A b, d \in Nat : IsClosed(c.text, c.first, x + 1, b, d) => IsClosed(c.text, c.first, x, b, d)
        BY <1>1, <1>6 DEF IsClosed
    <2>6. x + 1 \in Nat
        BY <1>1
    <2>7. \A k \in DOMAIN acc.closed : \E b, d \in Nat :
              IsClosed(c.text, c.first, x + 1, b, d) /\ acc.closed[k] = RunAt(c.file, b, d)
        BY <1>3, <1>4
    <2>8. \A b, d \in Nat : IsClosed(c.text, c.first, x + 1, b, d) =>
              \E k \in DOMAIN acc.closed : acc.closed[k] = RunAt(c.file, b, d)
        BY <1>3, <2>5
    <2>9. BytesAt(c, x + 1, [closed |-> acc.closed, open |-> Append(acc.open, unit)])
        BY <1>3, <2>3, <2>4, <2>7, <2>8, BytesAtIs
    <2> QED
        BY <2>2, <2>9
<1>7. CASE x \notin c.text
    <2>1. unit.kind # "text"
        BY <1>1, <1>7 DEF x, Unit
    <2>2. /\ OpensAt(c.text, x + 1, x + 1, c.first) /\ x + 1 \in Nat /\ x + 1 <= x + 1
          /\ RunAt(c.file, x + 1, x + 1) = <<>>
        BY <1>1, <1>7, RunIs DEF OpensAt
    <2>3. ASSUME NEW b \in Nat, NEW d \in Nat, IsClosed(c.text, c.first, x + 1, b, d)
          PROVE  IsClosed(c.text, c.first, x, b, d) \/ (a < x /\ b = a /\ d = x)
        <3>1. CASE d = x
            <4>1. OpensAt(c.text, b, x, c.first) /\ b < x
                BY <2>3, <3>1 DEF IsClosed
            <4>2. b = a
                BY <1>1, <1>2, <4>1, OneOpening
            <4> QED
                BY <3>1, <4>1, <4>2
        <3>2. CASE d # x
            BY <1>1, <2>3, <3>2 DEF IsClosed
        <3> QED
            BY <3>1, <3>2
    <2>4. CASE a = x
        <3>1. TakeUnit(acc, unit) = acc /\ acc.open = <<>>
            BY <1>5, <2>1, <2>4 DEF TakeUnit
        <3>2. acc.open = RunAt(c.file, x + 1, x + 1)
            BY <2>2, <3>1
        <3>3. \A b, d \in Nat : IsClosed(c.text, c.first, x + 1, b, d) =>
                                    IsClosed(c.text, c.first, x, b, d)
            BY <1>1, <1>2, <2>3, <2>4
        <3>4. \A k \in DOMAIN acc.closed : \E b, d \in Nat :
                  IsClosed(c.text, c.first, x + 1, b, d) /\ acc.closed[k] = RunAt(c.file, b, d)
            BY <1>3, <1>4
        <3>5. \A b, d \in Nat : IsClosed(c.text, c.first, x + 1, b, d) =>
                  \E k \in DOMAIN acc.closed : acc.closed[k] = RunAt(c.file, b, d)
            BY <1>3, <3>3
        <3>6. BytesAt(c, x + 1, [closed |-> acc.closed, open |-> acc.open])
            BY <1>3, <2>2, <3>2, <3>4, <3>5, BytesAtIs
        <3> QED
            BY <1>3, <3>1, <3>6
    <2>5. CASE a # x
        <3> DEFINE more == Append(acc.closed, acc.open)
                   R == ToSet(acc.closed) \cup {acc.open}
        <3>1. TakeUnit(acc, unit) = [closed |-> more, open |-> <<>>]
            BY <1>5, <2>1, <2>5 DEF TakeUnit
        <3>2. acc.closed \in Seq(R) /\ acc.open \in R
            BY <1>3 DEF IsSeq
        <3> HIDE DEF R
        <3>3. /\ more \in Seq(R) /\ Len(acc.closed) \in Nat
              /\ \A k \in DOMAIN acc.closed : k \in DOMAIN more /\ more[k] = acc.closed[k]
              /\ Len(acc.closed) + 1 \in DOMAIN more /\ more[Len(acc.closed) + 1] = acc.open
              /\ \A k \in DOMAIN more : k \in DOMAIN acc.closed \/ k = Len(acc.closed) + 1
            BY <3>2
        <3>4. IsSeq(more)
            BY <3>3, OverItsMembers DEF IsSeq
        <3> HIDE DEF more
        <3>5. a < x /\ IsClosed(c.text, c.first, x + 1, a, x)
            BY <1>1, <1>2, <1>7, <2>5 DEF IsClosed
        <3>6. ASSUME NEW k \in DOMAIN more
              PROVE  \E b, d \in Nat : IsClosed(c.text, c.first, x + 1, b, d)
                                       /\ more[k] = RunAt(c.file, b, d)
            <4>1. CASE k \in DOMAIN acc.closed
                BY <1>3, <1>4, <3>3, <4>1
            <4>2. CASE k = Len(acc.closed) + 1
                BY <1>1, <1>2, <3>3, <3>5, <4>2
            <4> QED
                BY <3>3, <4>1, <4>2
        <3>7. ASSUME NEW b \in Nat, NEW d \in Nat, IsClosed(c.text, c.first, x + 1, b, d)
              PROVE  \E k \in DOMAIN more : more[k] = RunAt(c.file, b, d)
            <4>1. CASE IsClosed(c.text, c.first, x, b, d)
                <5>1. PICK k \in DOMAIN acc.closed : acc.closed[k] = RunAt(c.file, b, d)
                    BY <1>3, <4>1
                <5> QED
                    BY <3>3, <5>1
            <4>2. CASE b = a /\ d = x
                BY <1>2, <3>3, <4>2
            <4> QED
                BY <2>3, <3>7, <4>1, <4>2
        <3>8. BytesAt(c, x + 1, [closed |-> more, open |-> <<>>])
            BY <2>2, <3>4, <3>6, <3>7, BytesAtIs
        <3> QED
            BY <3>1, <3>8
    <2> QED
        BY <2>4, <2>5
<1> QED
    BY <1>6, <1>7

\* So the scan of a chunk finds its runs.
LEMMA BytesScanned ==
    ASSUME NEW file, NEW T, NEW first \in Nat, NEW end \in Nat, first <= end
    PROVE  BytesAt([file |-> file, text |-> T, first |-> first], end,
                   Scanned(UnitsAt(file, T, first, end)))
<1> DEFINE c == [file |-> file, text |-> T, first |-> first]
           units == UnitsAt(file, T, first, end)
           base == [closed |-> <<>>, open |-> <<>>]
           N == end - first
<1>1. /\ c.file = file /\ c.text = T /\ c.first = first
      /\ N \in Nat /\ first + N = end /\ first + 0 = first
    OBVIOUS
<1>2. /\ DOMAIN units = 1 .. N
      /\ \A n \in 1 .. N : units[n] = Unit(first + n - 1,
                                           IF first + n - 1 \in T THEN "text" ELSE "other",
                                           <<file[first + n]>>)
    BY DEF UnitsAt
<1> HIDE DEF c, units, N
<1>3. BytesSoFar(c, 0, base)
    <2>4. first <= first /\ first .. first - 1 = {}
        OBVIOUS
    <2>1. OpensAt(c.text, first, first, c.first)
        BY <1>1, <2>4 DEF OpensAt
    <2>6. RunAt(c.file, first, first) = <<>>
        BY <2>4, RunIs
    <2>2. \A a, b \in Nat : ~IsClosed(c.text, c.first, first, a, b)
        BY <1>1 DEF IsClosed, OpensAt
    <2>3. IsSeq(<<>>) /\ \A k \in DOMAIN <<>> : FALSE
        BY DEF IsSeq, ToSet
    <2>5. BytesAt(c, first, base)
        BY <2>1, <2>2, <2>3, <2>4, <2>6, BytesAtIs
    <2> QED
        BY <1>1, <2>5 DEF BytesSoFar
<1>4. \A n \in 1 .. N : \A a : BytesSoFar(c, n - 1, a) => BytesSoFar(c, n, TakeUnit(a, units[n]))
    <2> SUFFICES ASSUME NEW n \in 1 .. N, NEW a, BytesSoFar(c, n - 1, a)
                 PROVE  BytesSoFar(c, n, TakeUnit(a, units[n]))
        OBVIOUS
    <2>1. n \in Nat \ {0}
        BY <1>1
    <2>2. units[n] = Unit(c.first + n - 1, IF c.first + n - 1 \in c.text THEN "text" ELSE "other",
                          <<c.file[c.first + n]>>)
        BY <1>1, <1>2
    <2>3. c.first \in Nat
        BY <1>1
    <2> QED
        BY <2>1, <2>2, <2>3, TakeByteKeeps
<1>5. BytesSoFar(c, N, ScanningBytes!Loop(c, base, units))
    BY <1>1, <1>2, <1>3, <1>4, ScanningBytes!FoldKeeps
<1>6. Scanned(units) = ScanningBytes!Loop(c, base, units)
    BY DEF Scanned, ScanningBytes!Loop, FoldLeft, ScanningBytes!FoldLeft, MapThenFoldSet,
           ScanningBytes!MapThenFoldSet, Max, ScanningBytes!Max
<1> QED
    BY <1>1, <1>5, <1>6 DEF BytesSoFar, c, units

\* the flags of the record of a piece
Flagged(first, end, a, b, starts, ends) ==
    starts \in BOOLEAN /\ ends \in BOOLEAN /\ (starts <=> a = first) /\ (ends <=> b = end)

\* the records of the pieces of text
PieceRecords(E, file, T, first, end) ==
    {RecordOf(E, file, y[1], y[2], y[3], y[4]) :
        y \in {z \in Nat \X Nat \X BOOLEAN \X BOOLEAN :
                  /\ Piece(T, first, end, z[1], z[2])
                  /\ Flagged(first, end, z[1], z[2], z[3], z[4])}}

\* What they are.
LEMMA PieceRecordsAre ==
    ASSUME NEW E, NEW file, NEW T, NEW first, NEW end, NEW x
    PROVE  x \in PieceRecords(E, file, T, first, end) <=>
               \E a, b \in Nat : \E s, e \in BOOLEAN :
                   /\ Piece(T, first, end, a, b) /\ Flagged(first, end, a, b, s, e)
                   /\ x = RecordOf(E, file, a, b, s, e)
<1>1. ASSUME NEW a \in Nat, NEW b \in Nat, NEW s \in BOOLEAN, NEW e \in BOOLEAN,
             Piece(T, first, end, a, b), Flagged(first, end, a, b, s, e)
      PROVE  RecordOf(E, file, a, b, s, e) \in PieceRecords(E, file, T, first, end)
    <2> DEFINE y == <<a, b, s, e>>
    <2>1. y \in Nat \X Nat \X BOOLEAN \X BOOLEAN /\ y[1] = a /\ y[2] = b /\ y[3] = s /\ y[4] = e
        OBVIOUS
    <2> HIDE DEF y
    <2>2. Piece(T, first, end, y[1], y[2]) /\ Flagged(first, end, y[1], y[2], y[3], y[4])
        BY <1>1, <2>1
    <2>3. RecordOf(E, file, y[1], y[2], y[3], y[4]) \in PieceRecords(E, file, T, first, end)
        BY <2>1, <2>2 DEF PieceRecords
    <2> QED
        BY <2>1, <2>3
<1>2. ASSUME x \in PieceRecords(E, file, T, first, end)
      PROVE  \E a, b \in Nat : \E s, e \in BOOLEAN :
                 /\ Piece(T, first, end, a, b) /\ Flagged(first, end, a, b, s, e)
                 /\ x = RecordOf(E, file, a, b, s, e)
    <2>1. PICK y \in Nat \X Nat \X BOOLEAN \X BOOLEAN :
              /\ Piece(T, first, end, y[1], y[2]) /\ Flagged(first, end, y[1], y[2], y[3], y[4])
              /\ x = RecordOf(E, file, y[1], y[2], y[3], y[4])
        BY <1>2 DEF PieceRecords
    <2>2. y[1] \in Nat /\ y[2] \in Nat /\ y[3] \in BOOLEAN /\ y[4] \in BOOLEAN
        OBVIOUS
    <2> QED
        BY <2>1, <2>2
<1> QED
    BY <1>1, <1>2

CharsOf(run) == [k \in DOMAIN run |-> run[k].char]

\* What the record of a run says.
LEMMA RunRecordSays ==
    ASSUME NEW file, NEW a \in Nat, NEW b \in Nat, a < b
    PROVE  /\ RunAt(file, a, b)[1].at = a
           /\ After(Last(RunAt(file, a, b))) - RunAt(file, a, b)[1].at = b - a
           /\ Len(RunAt(file, a, b)) = b - a
           /\ CharsOf(RunAt(file, a, b)) = CharsAt(file, a, b)
<1> DEFINE run == RunAt(file, a, b)
           N == b - a
<1>1. N \in Nat /\ N \in 1 .. N /\ 1 \in 1 .. N /\ a + N - 1 + 1 = b /\ a + 1 - 1 = a
    OBVIOUS
<1>2. Len(run) = N /\ DOMAIN run = 1 .. N
    <2>1. Len(run) = N
        BY RunIs
    <2> QED
        BY <2>1 DEF RunAt
<1>3. \A k \in 1 .. N : run[k] = Unit(a + k - 1, "text", <<file[a + k]>>)
    BY DEF RunAt
<1>4. run[1].at = a
    BY RunIs
<1>5. After(run[N]) = b
    <2>1. run[N] = Unit(a + N - 1, "text", <<file[a + N]>>)
        BY <1>1, <1>3
    <2> HIDE DEF run
    <2>2. run[N].at = a + N - 1 /\ run[N].char = <<file[a + N]>>
        BY <2>1 DEF Unit
    <2>3. Len(run[N].char) = 1
        BY <2>2
    <2> QED
        BY <1>1, <2>2, <2>3 DEF After
<1>6. CharsOf(run) = CharsAt(file, a, b)
    BY <1>2, <1>3 DEF CharsOf, CharsAt, Unit
<1> HIDE DEF run
<1> QED
    BY <1>2, <1>4, <1>5, <1>6 DEF Last, run

\* The records of a scan are those of the pieces.
LEMMA ScanHolds ==
    ASSUME NEW E, NEW file, NEW T, NEW first \in Nat, NEW end \in Nat, first <= end, NEW minCch
    PROVE  Holds(E, ScanBytes(UnitsAt(file, T, first, end), E, first, minCch),
                 {x \in PieceRecords(E, file, T, first, end) :
                     x.cch >= minCch \/ x.starts \/ x.ends})
<1> DEFINE units == UnitsAt(file, T, first, end)
           c == [file |-> file, text |-> T, first |-> first]
           scanned == Scanned(units)
           starts(run) == run[1].at = first
           ends(run) == TRUE
           recs == RunRecords(units, E, starts, ends)
           closed == [k \in DOMAIN scanned.closed |->
                         RunRecord(scanned.closed[k], E, starts(scanned.closed[k]), FALSE)]
           last == RunRecord(scanned.open, E, starts(scanned.open), TRUE)
           C == {x \in PieceRecords(E, file, T, first, end) : ~x.ends}
<1>1. ScanBytes(units, E, first, minCch) = Emit(recs, minCch)
    BY DEF ScanBytes
<1>2. recs = IF scanned.open = <<>> THEN closed ELSE Append(closed, last)
    BY DEF RunRecords, RecordsOf
<1>3. BytesAt(c, end, scanned)
    BY BytesScanned
<1>4. StartInTurn(scanned.closed)
    <2>1. IsBytes(units, first, end)
        BY DEF IsBytes, UnitsAt, Unit
    <2>2. PICK N \in Nat : Ascending(units, N)
        BY <2>1, BytesAscend
    <2> HIDE DEF units
    <2> QED
        BY <2>2, ScannedIs DEF ScannedSoFar
<1> HIDE DEF units, scanned, recs
<1>5. /\ IsSeq(scanned.closed)
      /\ \A k \in DOMAIN scanned.closed : \E a, b \in Nat :
            IsClosed(T, first, end, a, b) /\ scanned.closed[k] = RunAt(file, a, b)
      /\ \A a, b \in Nat : IsClosed(T, first, end, a, b) =>
            \E k \in DOMAIN scanned.closed : scanned.closed[k] = RunAt(file, a, b)
    BY <1>3 DEF BytesAt
<1>6. PICK s \in Nat : OpensAt(T, s, end, first) /\ s <= end /\ scanned.open = RunAt(file, s, end)
    BY <1>3 DEF BytesAt
<1> HIDE DEF c
<1>7. ASSUME NEW a \in Nat, NEW b \in Nat, a < b, NEW s2 \in BOOLEAN
      PROVE  \E s1 \in BOOLEAN :
                /\ s1 <=> a = first
                /\ RunRecord(RunAt(file, a, b), E, starts(RunAt(file, a, b)), s2) =
                       RecordOf(E, file, a, b, s1, s2)
    <2>1. RunAt(file, a, b)[1].at = a
        BY <1>7, RunIs
    <2>2. PICK s1 \in BOOLEAN :
              /\ s1 <=> RunAt(file, a, b)[1].at = first
              /\ RunRecord(RunAt(file, a, b), E, starts(RunAt(file, a, b)), s2) =
                     RunRecord(RunAt(file, a, b), E, s1, s2)
        OBVIOUS
    <2> HIDE DEF starts
    <2>3. RunRecord(RunAt(file, a, b), E, s1, s2) = RecordOf(E, file, a, b, s1, s2)
        <3>1. /\ RunAt(file, a, b)[1].at = a
              /\ After(Last(RunAt(file, a, b))) - RunAt(file, a, b)[1].at = b - a
              /\ Len(RunAt(file, a, b)) = b - a
              /\ CharsOf(RunAt(file, a, b)) = CharsAt(file, a, b)
            BY <1>7, RunRecordSays
        <3> QED
            BY <3>1 DEF RunRecord, RecordOf, CharsOf
    <2>4. s1 <=> a = first
        BY <2>1, <2>2
    <2> QED
        BY <2>2, <2>3, <2>4
<1>8. \A a, b : \A s1, s2 \in BOOLEAN : /\ RecordOf(E, file, a, b, s1, s2).encoding = E
                                      /\ RecordOf(E, file, a, b, s1, s2).offset = a
                                      /\ RecordOf(E, file, a, b, s1, s2).ends = s2
    BY DEF RecordOf, TextRecord
<1>9. \A a, b \in Nat : IsClosed(T, first, end, a, b) <=> Piece(T, first, end, a, b) /\ b # end
    BY DEF IsClosed, Piece
<1>10. DOMAIN closed = DOMAIN scanned.closed
    OBVIOUS
<1>11. ASSUME NEW k \in DOMAIN scanned.closed, NEW a \in Nat, NEW b \in Nat,
              IsClosed(T, first, end, a, b), scanned.closed[k] = RunAt(file, a, b)
       PROVE  \E s1, s2 \in BOOLEAN : /\ Flagged(first, end, a, b, s1, s2)
                                      /\ closed[k] = RecordOf(E, file, a, b, s1, s2)
                                      /\ scanned.closed[k][1].at = a
    <2>1. a < b /\ b # end
        BY <1>11 DEF IsClosed
    <2>2. PICK s2 \in BOOLEAN :
              closed[k] = RunRecord(scanned.closed[k], E, starts(scanned.closed[k]), s2) /\ ~s2
        OBVIOUS
    <2> HIDE DEF starts, closed
    <2>3. PICK s1 \in BOOLEAN :
              /\ s1 <=> a = first
              /\ RunRecord(RunAt(file, a, b), E, starts(RunAt(file, a, b)), s2) =
                     RecordOf(E, file, a, b, s1, s2)
        BY <1>7, <2>1
    <2>4. closed[k] = RecordOf(E, file, a, b, s1, s2)
        BY <1>11, <2>2, <2>3
    <2>5. scanned.closed[k][1].at = a
        BY <1>11, <2>1, RunIs
    <2>6. Flagged(first, end, a, b, s1, s2)
        BY <2>1, <2>2, <2>3 DEF Flagged
    <2> QED
        BY <2>4, <2>5, <2>6
<1>12. Holds(E, closed, C)
    <2>1. IsSeq(closed)
        <3>1. PICK N \in Nat : DOMAIN scanned.closed = 1 .. N
            BY <1>5 DEF IsSeq
        <3>2. closed = [k \in 1 .. N |-> closed[k]] /\ \A k \in 1 .. N : closed[k] \in ToSet(closed)
            BY <3>1 DEF ToSet
        <3> HIDE DEF closed
        <3> QED
            BY <3>2 DEF IsSeq
    <2> HIDE DEF closed
    <2>2. ASSUME NEW x \in C
          PROVE  x.encoding = E /\ x.offset \in Nat /\ \E i \in DOMAIN closed : closed[i] = x
        <3>1. PICK a \in Nat, b \in Nat, s1 \in BOOLEAN, s2 \in BOOLEAN :
                  /\ Piece(T, first, end, a, b) /\ Flagged(first, end, a, b, s1, s2)
                  /\ x = RecordOf(E, file, a, b, s1, s2)
            BY PieceRecordsAre
        <3>2. b # end /\ s2 = FALSE /\ x.encoding = E /\ x.offset = a
            BY <1>8, <3>1 DEF Flagged
        <3>3. IsClosed(T, first, end, a, b)
            BY <1>9, <3>1, <3>2
        <3>4. PICK k \in DOMAIN scanned.closed : scanned.closed[k] = RunAt(file, a, b)
            BY <1>5, <3>3
        <3>5. PICK s3 \in BOOLEAN, s4 \in BOOLEAN :
                  Flagged(first, end, a, b, s3, s4) /\ closed[k] = RecordOf(E, file, a, b, s3, s4)
            BY <1>11, <3>3, <3>4
        <3>6. s3 = s1 /\ s4 = s2
            BY <3>1, <3>5 DEF Flagged
        <3> QED
            BY <1>10, <3>1, <3>2, <3>5, <3>6
    <2>3. ASSUME NEW i \in DOMAIN closed
          PROVE  closed[i] \in C /\ closed[i].offset = scanned.closed[i][1].at
        <3>1. PICK a \in Nat, b \in Nat :
                  IsClosed(T, first, end, a, b) /\ scanned.closed[i] = RunAt(file, a, b)
            BY <1>5, <1>10
        <3>2. PICK s1 \in BOOLEAN, s2 \in BOOLEAN :
                  /\ Flagged(first, end, a, b, s1, s2)
                  /\ closed[i] = RecordOf(E, file, a, b, s1, s2)
                  /\ scanned.closed[i][1].at = a
            BY <1>10, <1>11, <3>1
        <3>3. Piece(T, first, end, a, b) /\ b # end
            BY <1>9, <3>1
        <3>4. closed[i].ends = s2 /\ closed[i].offset = a /\ ~s2
            BY <1>8, <3>2, <3>3 DEF Flagged
        <3>5. closed[i] \in PieceRecords(E, file, T, first, end)
            BY <3>2, <3>3, PieceRecordsAre
        <3> QED
            BY <3>2, <3>4, <3>5
    <2>4. ASSUME NEW i \in DOMAIN closed, NEW j \in DOMAIN closed, i < j
          PROVE  closed[i].offset < closed[j].offset
        <3>1. scanned.closed[i][1].at < scanned.closed[j][1].at
            BY <1>4, <1>10, <2>4 DEF StartInTurn
        <3> QED
            BY <2>3, <3>1
    <2> HIDE DEF C
    <2> QED
        BY <2>1, <2>2, <2>3, <2>4 DEF Holds
<1> HIDE DEF closed
<1>13. Holds(E, recs, PieceRecords(E, file, T, first, end))
    <2>1. ASSUME NEW x \in PieceRecords(E, file, T, first, end), x.ends
          PROVE  s < end /\ \E s1 \in BOOLEAN : (s1 <=> s = first)
                                               /\ x = RecordOf(E, file, s, end, s1, TRUE)
        <3>1. PICK a \in Nat, b \in Nat, s1 \in BOOLEAN, s2 \in BOOLEAN :
                  /\ Piece(T, first, end, a, b) /\ Flagged(first, end, a, b, s1, s2)
                  /\ x = RecordOf(E, file, a, b, s1, s2)
            BY PieceRecordsAre
        <3>2. s2 = TRUE /\ b = end
            BY <1>8, <2>1, <3>1 DEF Flagged
        <3>3. OpensAt(T, a, end, first) /\ a < end
            BY <3>1, <3>2 DEF Piece
        <3>4. a = s
            BY <1>6, <3>3, OneOpening
        <3> QED
            BY <3>1, <3>2, <3>3, <3>4 DEF Flagged
    <2>2. CASE s = end
        <3>1. scanned.open = <<>>
            BY <1>6, <2>2, RunIs
        <3>2. \A x \in PieceRecords(E, file, T, first, end) : ~x.ends
            <4> SUFFICES ASSUME NEW x \in PieceRecords(E, file, T, first, end), x.ends
                         PROVE  FALSE
                OBVIOUS
            <4>1. s < end
                BY <2>1
            <4> QED
                BY <2>2, <4>1
        <3>3. C = PieceRecords(E, file, T, first, end)
            BY <3>2
        <3> QED
            BY <1>2, <1>12, <3>1, <3>3
    <2>3. CASE s # end
        <3>1. scanned.open # <<>> /\ s < end
            BY <1>6, <2>3, RunIs
        <3>2. PICK s1 \in BOOLEAN :
                  /\ s1 <=> s = first
                  /\ RunRecord(RunAt(file, s, end), E, starts(RunAt(file, s, end)), TRUE) =
                         RecordOf(E, file, s, end, s1, TRUE)
            BY <1>7, <3>1
        <3> DEFINE x == RecordOf(E, file, s, end, s1, TRUE)
        <3>3. last = x
            BY <1>6, <3>2
        <3> HIDE DEF last
        <3>4. x.encoding = E /\ x.offset = s /\ x.ends = TRUE
            BY <1>8
        <3>5. Piece(T, first, end, s, end) /\ Flagged(first, end, s, end, s1, TRUE)
            BY <1>6, <3>1, <3>2 DEF Piece, Flagged
        <3> HIDE DEF x
        <3>6. x \in PieceRecords(E, file, T, first, end)
            BY <3>5, PieceRecordsAre DEF x
        <3>7. ASSUME NEW y \in C PROVE y.offset < x.offset
            <4>1. PICK a \in Nat, b \in Nat, s3 \in BOOLEAN, s4 \in BOOLEAN :
                      /\ Piece(T, first, end, a, b) /\ Flagged(first, end, a, b, s3, s4)
                      /\ y = RecordOf(E, file, a, b, s3, s4)
                BY PieceRecordsAre
            <4>2. b # end /\ y.offset = a
                BY <1>8, <4>1 DEF Flagged
            <4>3. a < b /\ b < end /\ b \notin T
                BY <4>1, <4>2 DEF Piece
            <4>4. b < s
                BY <1>6, <4>3 DEF OpensAt
            <4> QED
                BY <3>4, <4>2, <4>3, <4>4
        <3>8. Holds(E, Append(closed, x), C \cup (IF x.encoding = E THEN {x} ELSE {}))
            BY <1>12, <3>4, <3>7, HoldsAppend
        <3>9. \A y \in PieceRecords(E, file, T, first, end) : y.ends => y = x
            BY <2>1, <3>2 DEF x
        <3>10. C \cup (IF x.encoding = E THEN {x} ELSE {}) = PieceRecords(E, file, T, first, end)
            BY <3>4, <3>6, <3>9
        <3> QED
            BY <1>2, <3>1, <3>3, <3>8, <3>10
    <2> QED
        BY <2>2, <2>3
<1>14. Holds(E, Emit(recs, minCch), {x \in PieceRecords(E, file, T, first, end) :
                                        x.cch >= minCch \/ x.starts \/ x.ends})
    BY <1>13, HoldsEmitted
<1> QED
    BY <1>1, <1>14 DEF units

-----------------------------------------------------------------------------
(* A scan of the whole file.                                               *)

\* the offsets of text
Text(in, E) ==
    {p \in 0 .. Len(in.bytes) - 1 :
        IF E = "Ascii" THEN AllowsU8(in.filters, in.bytes[p + 1])
        ELSE IsWindows1251Text(in.filters, in.bytes[p + 1])}

\* a run of text of the file
Whole(T, a, b) == a < b /\ a - 1 \notin T /\ b \notin T /\ \A p \in a .. b - 1 : p \in T

\* the line of the text at a .. b - 1, and the lines of the runs that start before q
LineAt(E, file, a, b) == [offset |-> a, encoding |-> E, text |-> CharsAt(file, a, b)]
WholeLines(E, file, T, minCch, q) ==
    {LineAt(E, file, y[1], y[2]) :
        y \in {z \in Nat \X Nat : Whole(T, z[1], z[2]) /\ z[2] - z[1] >= minCch /\ z[1] < q}}

\* What they are.
LEMMA WholeLinesAre ==
    ASSUME NEW E, NEW file, NEW T, NEW minCch, NEW q, NEW x
    PROVE  x \in WholeLines(E, file, T, minCch, q) <=>
               \E a, b \in Nat : /\ Whole(T, a, b) /\ b - a >= minCch /\ a < q
                                 /\ x = LineAt(E, file, a, b)
<1>1. ASSUME x \in WholeLines(E, file, T, minCch, q)
      PROVE  \E a, b \in Nat : /\ Whole(T, a, b) /\ b - a >= minCch /\ a < q
                               /\ x = LineAt(E, file, a, b)
    <2>1. PICK y \in Nat \X Nat : /\ Whole(T, y[1], y[2]) /\ y[2] - y[1] >= minCch /\ y[1] < q
                                  /\ x = LineAt(E, file, y[1], y[2])
        BY <1>1 DEF WholeLines
    <2>2. y[1] \in Nat /\ y[2] \in Nat
        OBVIOUS
    <2> QED
        BY <2>1, <2>2
<1>2. ASSUME NEW a \in Nat, NEW b \in Nat, Whole(T, a, b), b - a >= minCch, a < q,
             x = LineAt(E, file, a, b)
      PROVE  x \in WholeLines(E, file, T, minCch, q)
    <2>1. <<a, b>> \in Nat \X Nat /\ <<a, b>>[1] = a /\ <<a, b>>[2] = b
        OBVIOUS
    <2> DEFINE y == <<a, b>>
    <2>2. y \in Nat \X Nat /\ y[1] = a /\ y[2] = b
        BY <2>1
    <2> HIDE DEF y
    <2> QED
        BY <1>2, <2>2 DEF WholeLines
<1> QED
    BY <1>1, <1>2

\* The line of a record.
LEMMA LineOfRecord ==
    ASSUME NEW E, NEW file, NEW a, NEW b, NEW s, NEW t
    PROVE  Line(RecordOf(E, file, a, b, s, t)) = LineAt(E, file, a, b)
BY DEF Line, RecordOf, TextRecord, LineAt

\* A scan for an encoding of single bytes is one of bytes that are text or not.
LEMMA ScanIsOfBytes ==
    ASSUME input.bytes \in Seq(0 .. 255), NEW E \in ByteEncodings,
           NEW first \in Nat, NEW end \in Nat, end <= Len(input.bytes), NEW minCch
    PROVE  Scan(E, input.bytes, first, end, minCch) =
               ScanBytes(UnitsAt(input.bytes, Text(input, E), first, end), E, first, minCch)
<1>1. \A k \in 1 .. end - first : first + k - 1 \in 0 .. Len(input.bytes) - 1
    BY Len(input.bytes) \in Nat
<1>2. CASE E = "Ascii"
    <2>1. AsciiUnits(input.filters, input.bytes, first, end) =
              UnitsAt(input.bytes, Text(input, E), first, end)
        BY <1>1, <1>2 DEF AsciiUnits, ByteUnits, UnitsAt, Text
    <2> QED
        BY <1>2, <2>1 DEF Scan, ScanAscii, DbcsEncodings
<1>3. CASE E = "Windows1251"
    <2>1. Windows1251Units(input.filters, input.bytes, first, end) =
              UnitsAt(input.bytes, Text(input, E), first, end)
        BY <1>1, <1>3 DEF Windows1251Units, ByteUnits, UnitsAt, Text
    <2> QED
        BY <1>3, <2>1 DEF Scan, ScanWindows1251, DbcsEncodings
<1> QED
    BY <1>2, <1>3 DEF ByteEncodings

\* And so is one of the whole file.
LEMMA WholeFileIsOfBytes ==
    ASSUME input.bytes \in Seq(0 .. 255), NEW E \in ByteEncodings
    PROVE  AllRuns(E) = {DecodedRun(E, run) :
                            run \in ToSet(Runs(UnitsAt(input.bytes, Text(input, E), 0,
                                                       Len(input.bytes))))}
<1> DEFINE L == Len(input.bytes)
           U == UnitsAt(input.bytes, Text(input, E), 0, L)
<1>1. L \in Nat /\ \A k \in 1 .. L - 0 : 0 + k - 1 \in 0 .. L - 1
    OBVIOUS
<1>2. WholeFileUnits(E) = {U}
    <2>1. CASE E = "Ascii"
        <3>1. AsciiUnits(input.filters, input.bytes, 0, L) = U
            BY <1>1, <2>1 DEF AsciiUnits, ByteUnits, UnitsAt, Text
        <3> QED
            BY <2>1, <3>1 DEF WholeFileUnits, DbcsEncodings
    <2>2. CASE E = "Windows1251"
        <3>1. Windows1251Units(input.filters, input.bytes, 0, L) = U
            BY <1>1, <2>2 DEF Windows1251Units, ByteUnits, UnitsAt, Text
        <3> QED
            BY <2>2, <3>1 DEF WholeFileUnits, DbcsEncodings
    <2> QED
        BY <2>1, <2>2 DEF ByteEncodings
<1> HIDE DEF U
<1> QED
    BY <1>2 DEF AllRuns, U

\* A run that is decoded is the record of its bytes, with no flags.
LEMMA DecodedRunIs ==
    ASSUME NEW E \in ByteEncodings, NEW file, NEW a \in Nat, NEW b \in Nat, a < b
    PROVE  DecodedRun(E, RunAt(file, a, b)) = RecordOf(E, file, a, b, FALSE, FALSE)
<1> DEFINE rec == RunRecord(RunAt(file, a, b), E, FALSE, FALSE)
           all == RecordOf(E, file, a, b, FALSE, FALSE)
<1>1. rec = all
    <2>1. /\ RunAt(file, a, b)[1].at = a
          /\ After(Last(RunAt(file, a, b))) - RunAt(file, a, b)[1].at = b - a
          /\ Len(RunAt(file, a, b)) = b - a
          /\ CharsOf(RunAt(file, a, b)) = CharsAt(file, a, b)
        BY RunRecordSays
    <2> QED
        BY <2>1 DEF RunRecord, RecordOf, CharsOf
<1>2. Len(CharsAt(file, a, b)) = b - a
    BY b - a \in Nat DEF CharsAt
<1>3. CountChars(E, all.data) = b - a
    <2>1. all.data = CharsAt(file, a, b)
        BY DEF RecordOf, TextRecord
    <2> HIDE DEF all
    <2>2. E # "Big5"
        BY DEF ByteEncodings
    <2>3. CountChars(E, all.data) = Len(all.data) + 0
        BY <2>2 DEF CountChars
    <2> QED
        BY <1>2, <2>1, <2>3
<1>4. DecodedRun(E, RunAt(file, a, b)) = [all EXCEPT !.cch = b - a]
    BY <1>1, <1>3 DEF DecodedRun
<1> QED
    BY <1>4 DEF RecordOf, TextRecord

\* The runs of the whole file are the runs of text.
LEMMA WholeFileRunsAre ==
    ASSUME input.bytes \in Seq(0 .. 255), NEW E \in ByteEncodings
    PROVE  /\ IsFiniteSet(AllRuns(E))
           /\ \A x : x \in AllRuns(E) <=>
                  \E a, b \in Nat : /\ Whole(Text(input, E), a, b)
                                    /\ x = RecordOf(E, input.bytes, a, b, FALSE, FALSE)
<1> DEFINE file == input.bytes
           L == Len(file)
           T == Text(input, E)
           U == UnitsAt(file, T, 0, L)
           c == [file |-> file, text |-> T, first |-> 0]
           scanned == Scanned(U)
           runs == Runs(U)
<1>1. L \in Nat /\ T \subseteq 0 .. L - 1
    BY DEF Text
<1>2. AllRuns(E) = {DecodedRun(E, run) : run \in ToSet(runs)}
    BY WholeFileIsOfBytes
<1>3. BytesAt(c, L, scanned)
    BY <1>1, BytesScanned
<1>4. runs = IF scanned.open = <<>> THEN scanned.closed
             ELSE Append(scanned.closed, scanned.open)
    BY DEF Runs, RunsOf
<1> HIDE DEF U, runs, scanned, T
<1>5. /\ IsSeq(scanned.closed)
      /\ \A k \in DOMAIN scanned.closed : \E a, b \in Nat :
            IsClosed(T, 0, L, a, b) /\ scanned.closed[k] = RunAt(file, a, b)
      /\ \A a, b \in Nat : IsClosed(T, 0, L, a, b) =>
            \E k \in DOMAIN scanned.closed : scanned.closed[k] = RunAt(file, a, b)
    BY <1>3 DEF BytesAt
<1>6. PICK s \in Nat : OpensAt(T, s, L, 0) /\ s <= L /\ scanned.open = RunAt(file, s, L)
    BY <1>3 DEF BytesAt
<1>7. \A a, b \in Nat : IsClosed(T, 0, L, a, b) => Whole(T, a, b)
    BY <1>1 DEF IsClosed, OpensAt, Whole
<1>8. \A a, b \in Nat : Whole(T, a, b) /\ b # L => IsClosed(T, 0, L, a, b)
    <2> SUFFICES ASSUME NEW a \in Nat, NEW b \in Nat, Whole(T, a, b), b # L
                 PROVE  IsClosed(T, 0, L, a, b)
        OBVIOUS
    <2>1. b - 1 \in T
        BY DEF Whole
    <2>2. b < L
        BY <1>1, <2>1
    <2> QED
        BY <2>2 DEF IsClosed, OpensAt, Whole
<1>9. scanned.open # <<>> => Whole(T, s, L)
    <2> SUFFICES ASSUME scanned.open # <<>> PROVE Whole(T, s, L)
        OBVIOUS
    <2>1. s # L
        BY <1>1, <1>6, RunIs
    <2> QED
        BY <1>1, <1>6, <2>1 DEF OpensAt, Whole
<1>10. ASSUME NEW a \in Nat, Whole(T, a, L)
       PROVE  scanned.open # <<>> /\ scanned.open = RunAt(file, a, L)
    <2>1. OpensAt(T, a, L, 0) /\ a < L
        BY <1>10 DEF OpensAt, Whole
    <2>2. a = s
        BY <1>1, <1>6, <2>1, OneOpening
    <2> QED
        BY <1>1, <1>6, <2>1, <2>2, RunIs
<1>11. /\ \A run \in ToSet(runs) : \E a, b \in Nat : Whole(T, a, b) /\ run = RunAt(file, a, b)
       /\ \A a, b \in Nat : Whole(T, a, b) => RunAt(file, a, b) \in ToSet(runs)
       /\ IsSeq(runs)
    <2>1. CASE scanned.open = <<>>
        <3>1. runs = scanned.closed
            BY <1>4, <2>1
        <3>2. ASSUME NEW a \in Nat, NEW b \in Nat, Whole(T, a, b)
              PROVE  RunAt(file, a, b) \in ToSet(runs)
            <4>1. b # L
                BY <1>10, <2>1, <3>2
            <4> QED
                BY <1>5, <1>8, <3>1, <3>2, <4>1 DEF ToSet
        <3> QED
            BY <1>5, <1>7, <3>1, <3>2 DEF ToSet
    <2>2. CASE scanned.open # <<>>
        <3>1. runs = Append(scanned.closed, scanned.open)
            BY <1>4, <2>2
        <3>2. ToSet(runs) = ToSet(scanned.closed) \cup {scanned.open} /\ IsSeq(runs)
            <4> DEFINE R == ToSet(scanned.closed) \cup {scanned.open}
            <4>1. scanned.closed \in Seq(R) /\ scanned.open \in R
                BY <1>5 DEF IsSeq
            <4> HIDE DEF R
            <4>2. runs \in Seq(R)
                BY <3>1, <4>1
            <4>3. /\ DOMAIN runs = 1 .. Len(scanned.closed) + 1
                  /\ \A k \in DOMAIN scanned.closed : runs[k] = scanned.closed[k] /\ k \in DOMAIN runs
                  /\ Len(scanned.closed) + 1 \in DOMAIN runs
                  /\ runs[Len(scanned.closed) + 1] = scanned.open
                BY <3>1, <4>1
            <4>4. R \subseteq ToSet(runs)
                BY <4>3 DEF R, ToSet
            <4>5. IsSeq(runs) /\ ToSet(runs) \subseteq R
                BY <4>2, OverItsMembers DEF IsSeq
            <4> QED
                BY <4>4, <4>5 DEF R
        <3>3. ASSUME NEW run \in ToSet(runs)
              PROVE  \E a, b \in Nat : Whole(T, a, b) /\ run = RunAt(file, a, b)
            <4>1. CASE run = scanned.open
                <5>1. Whole(T, s, L) /\ run = RunAt(file, s, L)
                    BY <1>6, <1>9, <2>2, <4>1
                <5>2. L \in Nat
                    BY <1>1
                <5>3. WITNESS s \in Nat, L \in Nat
                <5> QED
                    BY <5>1
            <4>2. CASE run \in ToSet(scanned.closed)
                <5>1. PICK k \in DOMAIN scanned.closed : scanned.closed[k] = run
                    BY <4>2 DEF ToSet
                <5>2. PICK a \in Nat, b \in Nat :
                          IsClosed(T, 0, L, a, b) /\ scanned.closed[k] = RunAt(file, a, b)
                    BY <1>5
                <5>3. Whole(T, a, b)
                    BY <1>7, <5>2
                <5>4. WITNESS a \in Nat, b \in Nat
                <5> QED
                    BY <5>1, <5>2, <5>3
            <4> QED
                BY <3>2, <4>1, <4>2
        <3>4. ASSUME NEW a \in Nat, NEW b \in Nat, Whole(T, a, b)
              PROVE  RunAt(file, a, b) \in ToSet(runs)
            <4>1. CASE b = L
                BY <1>10, <3>2, <3>4, <4>1
            <4>2. CASE b # L
                BY <1>5, <1>8, <3>2, <3>4, <4>2 DEF ToSet
            <4> QED
                BY <4>1, <4>2
        <3> QED
            BY <3>2, <3>3, <3>4
    <2> QED
        BY <2>1, <2>2
<1>12. IsFiniteSet(AllRuns(E))
    <2>1. IsFiniteSet(DOMAIN runs)
        <3>1. DOMAIN runs = 1 .. Len(runs) /\ Len(runs) \in Nat
            BY <1>11 DEF IsSeq
        <3> QED
            BY <3>1, FS_Interval
    <2> DEFINE decoded == [k \in DOMAIN runs |-> DecodedRun(E, runs[k])]
    <2>2. decoded \in Surjection(DOMAIN runs, AllRuns(E))
        BY <1>2 DEF ToSet, Surjection
    <2> QED
        BY <2>1, <2>2, FS_Surjection
<1>13. \A a, b \in Nat : Whole(T, a, b) =>
           DecodedRun(E, RunAt(file, a, b)) = RecordOf(E, file, a, b, FALSE, FALSE)
    BY DecodedRunIs DEF Whole
<1>14. ASSUME NEW a \in Nat, NEW b \in Nat, Whole(T, a, b)
       PROVE  RecordOf(E, file, a, b, FALSE, FALSE) \in AllRuns(E)
    BY <1>2, <1>11, <1>13, <1>14
<1>15. ASSUME NEW x \in AllRuns(E)
       PROVE  \E a, b \in Nat : Whole(T, a, b) /\ x = RecordOf(E, file, a, b, FALSE, FALSE)
    <2>1. PICK run \in ToSet(runs) : x = DecodedRun(E, run)
        BY <1>2
    <2>2. PICK a \in Nat, b \in Nat : Whole(T, a, b) /\ run = RunAt(file, a, b)
        BY <1>11
    <2> QED
        BY <1>13, <2>1, <2>2
<1> QED
    BY <1>12, <1>14, <1>15 DEF T

-----------------------------------------------------------------------------
(* The records of a chunk.                                                 *)

\* A merge holds of an encoding what the one stream held that has any of it.
LEMMA MergeHolds ==
    ASSUME NEW R, Comparable(R), NEW streams \in Seq(Seq(R)), NEW E, NEW S,
           NEW n \in DOMAIN streams, Holds(E, streams[n], S),
           \A i \in DOMAIN streams : \A j \in DOMAIN streams[i] :
               streams[i][j].encoding = E => i = n
    PROVE  Holds(E, MergeStreams(streams), S)
<1> DEFINE merged == MergeStreams(streams)
           P == Places(streams)
<1>1. merged \in Seq(R)
    BY MergeTakesAll
<1>2. PICK order \in Bijection(1 .. Len(merged), P) :
          /\ \A m \in DOMAIN merged : merged[m] = RecordAt(streams, order[m])
          /\ \A l, m \in DOMAIN merged :
                l < m /\ order[l][1] = order[m][1] => order[l][2] < order[m][2]
    BY MergeTakesAll
<1>3. DOMAIN merged = 1 .. Len(merged)
    BY <1>1
<1> HIDE DEF merged
<1>4. /\ \A m \in DOMAIN merged : order[m] \in P
      /\ \A place \in P : \E m \in DOMAIN merged : order[m] = place
    BY <1>2, <1>3 DEF Bijection, Injection, Surjection
<1>5. \A place : place \in P <=>
          \E i \in DOMAIN streams : \E j \in DOMAIN streams[i] : place = <<i, j>>
    BY DEF Places
<1> HIDE DEF P
<1>6. ASSUME NEW m \in DOMAIN merged, merged[m].encoding = E
      PROVE  /\ order[m][1] = n /\ order[m][2] \in DOMAIN streams[n]
             /\ merged[m] = streams[n][order[m][2]]
    <2>1. PICK i \in DOMAIN streams : \E j \in DOMAIN streams[i] : order[m] = <<i, j>>
        BY <1>4, <1>5
    <2>2. PICK j \in DOMAIN streams[i] : order[m] = <<i, j>>
        BY <2>1
    <2>3. order[m][1] = i /\ order[m][2] = j
        BY <2>2
    <2>4. merged[m] = streams[i][j]
        BY <1>2, <2>3 DEF RecordAt
    <2> QED
        BY <1>6, <2>3, <2>4
<1>7. ASSUME NEW x \in S PROVE \E m \in DOMAIN merged : merged[m] = x
    <2>1. PICK k \in DOMAIN streams[n] : streams[n][k] = x
        BY DEF Holds
    <2>2. <<n, k>> \in P
        BY <1>5
    <2>3. PICK m \in DOMAIN merged : order[m] = <<n, k>>
        BY <1>4, <2>2
    <2>4. order[m][1] = n /\ order[m][2] = k
        BY <2>3
    <2> QED
        BY <1>2, <2>1, <2>4 DEF RecordAt
<1>8. ASSUME NEW l \in DOMAIN merged, NEW m \in DOMAIN merged, l < m,
             merged[l].encoding = E, merged[m].encoding = E
      PROVE  merged[l].offset < merged[m].offset
    <2>1. /\ order[l][1] = n /\ order[l][2] \in DOMAIN streams[n]
          /\ merged[l] = streams[n][order[l][2]]
          /\ order[m][1] = n /\ order[m][2] \in DOMAIN streams[n]
          /\ merged[m] = streams[n][order[m][2]]
        BY <1>6, <1>8
    <2>2. order[l][2] < order[m][2]
        BY <1>2, <1>8, <2>1
    <2>3. \A i, j \in DOMAIN streams[n] :
              i < j /\ streams[n][i].encoding = E /\ streams[n][j].encoding = E
                  => streams[n][i].offset < streams[n][j].offset
        BY DEF Holds
    <2> QED
        BY <1>8, <2>1, <2>2, <2>3
<1>9. IsSeq(merged)
    BY <1>1, OverItsMembers DEF IsSeq
<1>10. ASSUME NEW m \in DOMAIN merged, merged[m].encoding = E PROVE merged[m] \in S
    <2>1. order[m][2] \in DOMAIN streams[n] /\ merged[m] = streams[n][order[m][2]]
        BY <1>6, <1>10
    <2>2. \A j \in DOMAIN streams[n] : streams[n][j].encoding = E => streams[n][j] \in S
        BY DEF Holds
    <2> QED
        BY <1>10, <2>1, <2>2
<1>11. \A x \in S : x.encoding = E /\ x.offset \in Nat
    BY DEF Holds
<1>12. Holds(E, merged, S)
    BY <1>7, <1>8, <1>9, <1>10, <1>11 DEF Holds
<1> QED
    BY <1>12 DEF merged

\* the records of a chunk for the encoding E, from offset p on
RecordsFrom(E, file, T, minCch, first, end, p) ==
    {x \in PieceRecords(E, file, T, first, end) :
        (x.cch >= minCch \/ x.starts \/ x.ends) /\ x.offset >= p}

\* what else is known of a record of the chunk
Placed(rec) ==
    /\ rec.encoding \notin DeferredEncodings
    /\ ~rec.raw
    /\ rec.offset \in Nat /\ rec.offset >= ChunkStart
    /\ chunk > 0 /\ rec.offset = ChunkStart => rec.starts

\* Where a chunk starts and ends.
LEMMA ChunkAt ==
    ASSUME input \in Inputs, chunk \in Nat
    PROVE  /\ ChunkStart \in Nat /\ ChunkEnd \in Nat /\ ChunkEnd <= Len(input.bytes)
           /\ ChunkStart = chunk * input.chunkSize
           /\ ChunkEnd = IF ChunkStart + input.chunkSize < Len(input.bytes)
                         THEN ChunkStart + input.chunkSize ELSE Len(input.bytes)
           /\ Len(input.bytes) \in Nat /\ input.chunkSize \in Nat \ {0}
<1>1. input.bytes \in Seq(0 .. 255) /\ input.chunkSize \in Nat \ {0} /\ Len(input.bytes) \in Nat
    BY InputsAssumption
<1>2. \A m, n \in Nat : m * n \in Nat
    OBVIOUS
<1>3. ChunkStart \in Nat
    BY <1>1, <1>2 DEF ChunkStart
<1> QED
    BY <1>1, <1>3 DEF ChunkEnd, ChunkStart

\* The chunks are those that start in the file.
LEMMA ChunksStart ==
    ASSUME input \in Inputs, chunk \in Nat
    PROVE  chunk < ChunkCount <=> ChunkStart < Len(input.bytes)
<1> DEFINE L == Len(input.bytes)
           s == input.chunkSize
<1>1. L \in Nat /\ s \in Nat \ {0} /\ ChunkStart = chunk * s /\ ChunkStart \in Nat
    BY ChunkAt
<1>2. ChunkCount = (L + s - 1) \div s
    BY DEF ChunkCount
<1> HIDE DEF L, s
<1>3. PICK k \in Nat : k = (L + s - 1) \div s /\ s * k <= L + s - 1 /\ L + s - 1 < s * k + s
    BY <1>1
<1>4. \A i, j \in Nat : i < j => s * i + s <= s * j
    BY <1>1
<1>5. \A i, j \in Nat : i <= j => s * i <= s * j
    BY <1>1
<1>6. chunk * s = s * chunk /\ s * chunk \in Nat /\ s * k \in Nat
    BY <1>1
<1> DEFINE u == s * chunk
           v == s * k
<1>7. CASE chunk < k
    <2>1. u + s <= v
        BY <1>4, <1>7
    <2>2. u \in Nat /\ v \in Nat /\ v <= L + s - 1 /\ ChunkStart = u
        BY <1>1, <1>3, <1>6
    <2> HIDE DEF u, v
    <2>3. u < L
        BY <1>1, <2>1, <2>2
    <2> QED
        BY <1>2, <1>3, <1>7, <2>2, <2>3 DEF L
<1>8. CASE ~(chunk < k)
    <2>1. v <= u
        BY <1>5, <1>8
    <2>2. u \in Nat /\ v \in Nat /\ L + s - 1 < v + s /\ ChunkStart = u
        BY <1>1, <1>3, <1>6
    <2> HIDE DEF u, v
    <2>3. ~(u < L)
        BY <1>1, <2>1, <2>2
    <2> QED
        BY <1>2, <1>3, <1>8, <2>2, <2>3 DEF L
<1> QED
    BY <1>7, <1>8

\* The records of a chunk from its start on are all of them.
LEMMA FromTheStart ==
    ASSUME NEW E, NEW file, NEW T, NEW minCch, NEW first, NEW end
    PROVE  RecordsFrom(E, file, T, minCch, first, end, first) =
               {x \in PieceRecords(E, file, T, first, end) :
                   x.cch >= minCch \/ x.starts \/ x.ends}
<1>1. ASSUME NEW x \in PieceRecords(E, file, T, first, end) PROVE x.offset >= first
    <2>1. PICK y \in Nat \X Nat \X BOOLEAN \X BOOLEAN :
              /\ Piece(T, first, end, y[1], y[2])
              /\ x = RecordOf(E, file, y[1], y[2], y[3], y[4])
        BY DEF PieceRecords
    <2>2. first <= y[1]
        BY <2>1 DEF Piece, OpensAt
    <2>3. x.offset = y[1]
        BY <2>1 DEF RecordOf, TextRecord
    <2> QED
        BY <2>2, <2>3
<1> QED
    BY <1>1 DEF RecordsFrom

\* So the merged records of a chunk hold the runs of text of the chunk, as far as they were
\* kept, and all of them are placed in it.
LEMMA ChunkHolds ==
    ASSUME input \in Inputs, chunk \in Nat, phase = "idle", chunk < ChunkCount, ScansDeliver,
           NEW E \in ByteEncodings, Once(E), Selected \cap DeferredEncodings = {}
    PROVE  /\ Holds(E, ChunkRecords,
                    RecordsFrom(E, input.bytes, Text(input, E), input.minCch,
                                ChunkStart, ChunkEnd, ChunkStart))
           /\ \A rec \in ToSet(ChunkRecords) : Placed(rec)
<1> DEFINE R == UNION {ToSet(ScanStreams[n]) : n \in DOMAIN ScanStreams}
           S == RecordsFrom(E, input.bytes, Text(input, E), input.minCch,
                            ChunkStart, ChunkEnd, ChunkStart)
<1>1. \A n \in DOMAIN ScanStreams :
          /\ ScanStreams[n] \in Seq(ToSet(ScanStreams[n]))
          /\ \A rec \in ToSet(ScanStreams[n]) :
                /\ rec.encoding = input.encodings[n]
                /\ rec.offset \in Nat /\ rec.offset >= ChunkStart
                /\ chunk > 0 /\ rec.offset = ChunkStart => rec.starts
                /\ rec.raw \in BOOLEAN
                /\ rec.raw => input.encodings[n] \in DeferredEncodings
    BY DEF ScansDeliver
<1>2. input.encodings \in Seq(DOMAIN EncodingCode) /\ input.bytes \in Seq(0 .. 255)
    BY InputsAssumption
<1>3. PICK N \in Nat : DOMAIN ScanStreams = 1 .. N /\ DOMAIN input.encodings = 1 .. N
    BY <1>2 DEF ScanStreams
<1>4. ScanStreams = [n \in 1 .. N |-> ScanStreams[n]]
    BY <1>3 DEF ScanStreams
<1> HIDE DEF R, S
<1>5. \A n \in 1 .. N : ScanStreams[n] \in Seq(R)
    <2> TAKE n \in 1 .. N
    <2>1. ToSet(ScanStreams[n]) \subseteq R
        BY <1>3 DEF R
    <2>2. ScanStreams[n] \in Seq(ToSet(ScanStreams[n]))
        BY <1>1, <1>3
    <2> QED
        BY <2>1, <2>2
<1>6. ScanStreams \in Seq(Seq(R))
    BY <1>4, <1>5
<1>7. ASSUME NEW rec \in R
      PROVE  Placed(rec) /\ rec.encoding \in DOMAIN EncodingCode
    <2>1. PICK n \in DOMAIN ScanStreams : rec \in ToSet(ScanStreams[n])
        BY DEF R
    <2>2. /\ input.encodings[n] \in Selected
          /\ input.encodings[n] \in DOMAIN EncodingCode
        BY <1>2, <1>3, <2>1 DEF Selected, ToSet
    <2> QED
        BY <1>1, <2>1, <2>2 DEF Placed
<1>8. Comparable(R)
    BY <1>7 DEF Comparable, Placed
<1>9. ChunkRecords \in Seq(R)
    BY <1>6, <1>8, MergeTakesAll DEF ChunkRecords
<1>10. PICK n \in DOMAIN ScanStreams : input.encodings[n] = E
    BY <1>3 DEF Once, Selected, ToSet
<1>11. \A i \in DOMAIN ScanStreams : \A j \in DOMAIN ScanStreams[i] :
           ScanStreams[i][j].encoding = E => i = n
    <2> SUFFICES ASSUME NEW i \in DOMAIN ScanStreams, NEW j \in DOMAIN ScanStreams[i],
                        ScanStreams[i][j].encoding = E
                 PROVE  i = n
        OBVIOUS
    <2>1. ScanStreams[i][j] \in ToSet(ScanStreams[i])
        BY DEF ToSet
    <2>2. input.encodings[i] = E
        BY <1>1, <2>1
    <2> QED
        BY <1>3, <1>10, <2>2 DEF Once
<1>12. Holds(E, ScanStreams[n], S)
    <2>1. /\ ChunkStart \in Nat /\ ChunkEnd \in Nat /\ ChunkEnd <= Len(input.bytes)
          /\ ChunkStart <= ChunkEnd
        <3>1. ChunkStart < Len(input.bytes)
            BY ChunksStart
        <3> QED
            BY <3>1, ChunkAt
    <2>2. ScanStreams[n] = Scan(E, input.bytes, ChunkStart, ChunkEnd, input.minCch)
        BY <1>3, <1>10 DEF ScanStreams
    <2>3. ScanStreams[n] = ScanBytes(UnitsAt(input.bytes, Text(input, E), ChunkStart, ChunkEnd),
                                     E, ChunkStart, input.minCch)
        BY <1>2, <2>1, <2>2, ScanIsOfBytes
    <2> QED
        BY <2>1, <2>3, ScanHolds, FromTheStart DEF S
<1>13. Holds(E, ChunkRecords, S)
    BY <1>6, <1>8, <1>11, <1>12, MergeHolds DEF ChunkRecords
<1>14. \A rec \in ToSet(ChunkRecords) : Placed(rec)
    BY <1>7, <1>9, OverItsMembers
<1> QED
    BY <1>13, <1>14 DEF S

-----------------------------------------------------------------------------
(* How far the output has come: up to offset q, and the text at q .. p - 1 *)
(* is pending.                                                             *)

Frontier(T, q, p) == q <= p /\ q - 1 \notin T /\ \A i \in q .. p - 1 : i \in T

\* The records of a chunk, again.
LEMMA RecordsFromAre ==
    ASSUME NEW E, NEW file, NEW T, NEW minCch, NEW first, NEW end, NEW p, NEW x
    PROVE  x \in RecordsFrom(E, file, T, minCch, first, end, p) <=>
               \E a, b \in Nat : \E s, t \in BOOLEAN :
                   /\ Piece(T, first, end, a, b) /\ Flagged(first, end, a, b, s, t)
                   /\ x = RecordOf(E, file, a, b, s, t)
                   /\ b - a >= minCch \/ s \/ t
                   /\ a >= p
<1>1. ASSUME x \in RecordsFrom(E, file, T, minCch, first, end, p)
      PROVE  \E a, b \in Nat : \E s, t \in BOOLEAN :
                 /\ Piece(T, first, end, a, b) /\ Flagged(first, end, a, b, s, t)
                 /\ x = RecordOf(E, file, a, b, s, t)
                 /\ b - a >= minCch \/ s \/ t
                 /\ a >= p
    <2>1. /\ x \in PieceRecords(E, file, T, first, end) /\ x.offset >= p
          /\ x.cch >= minCch \/ x.starts \/ x.ends
        BY <1>1 DEF RecordsFrom
    <2>2. PICK a \in Nat, b \in Nat : \E s, t \in BOOLEAN :
              /\ Piece(T, first, end, a, b) /\ Flagged(first, end, a, b, s, t)
              /\ x = RecordOf(E, file, a, b, s, t)
        BY <2>1, PieceRecordsAre
    <2>3. PICK s \in BOOLEAN, t \in BOOLEAN :
              /\ Piece(T, first, end, a, b) /\ Flagged(first, end, a, b, s, t)
              /\ x = RecordOf(E, file, a, b, s, t)
        BY <2>2
    <2>4. x.cch = b - a /\ x.offset = a /\ x.starts = s /\ x.ends = t
        BY <2>3 DEF RecordOf, TextRecord
    <2>5. a >= p
        BY <2>1, <2>4
    <2>6. b - a >= minCch \/ s \/ t
        BY <2>1, <2>4
    <2> QED
        BY <2>3, <2>5, <2>6
<1>2. ASSUME NEW a \in Nat, NEW b \in Nat, NEW s \in BOOLEAN, NEW t \in BOOLEAN,
             Piece(T, first, end, a, b), Flagged(first, end, a, b, s, t),
             x = RecordOf(E, file, a, b, s, t), b - a >= minCch \/ s \/ t, a >= p
      PROVE  x \in RecordsFrom(E, file, T, minCch, first, end, p)
    <2>1. x \in PieceRecords(E, file, T, first, end)
        BY <1>2, PieceRecordsAre
    <2>2. x.cch = b - a /\ x.offset = a /\ x.starts = s /\ x.ends = t
        BY <1>2 DEF RecordOf, TextRecord
    <2>3. x.cch >= minCch \/ x.starts \/ x.ends
        BY <1>2, <2>2
    <2>4. x.offset >= p
        BY <1>2, <2>2
    <2> QED
        BY <2>1, <2>3, <2>4 DEF RecordsFrom
<1> QED
    BY <1>1, <1>2

\* Where no run is long enough, no line is added.
LEMMA NoLineBetween ==
    ASSUME NEW E, NEW file, NEW T, NEW minCch, NEW q \in Int, NEW p \in Int, q <= p,
           \A a, b \in Nat : Whole(T, a, b) /\ b - a >= minCch => ~(q <= a /\ a < p)
    PROVE  WholeLines(E, file, T, minCch, p) = WholeLines(E, file, T, minCch, q)
<1>1. \A a \in Nat : a < q => a < p
    OBVIOUS
<1>2. \A a, b \in Nat : Whole(T, a, b) /\ b - a >= minCch /\ a < p => a < q
    OBVIOUS
<1>3. \A x : x \in WholeLines(E, file, T, minCch, p) <=> x \in WholeLines(E, file, T, minCch, q)
    BY <1>1, <1>2, WholeLinesAre
<1> QED
    BY <1>3

\* A run that was pending is closed by a byte that is no text.
LEMMA RunClosed ==
    ASSUME NEW E, NEW file, NEW T, NEW minCch, NEW q \in Nat, NEW b \in Nat,
           Frontier(T, q, b), q < b, b \notin T
    PROVE  /\ Whole(T, q, b)
           /\ Frontier(T, b + 1, b + 1)
           /\ b - q >= minCch =>
                 WholeLines(E, file, T, minCch, b + 1) =
                     WholeLines(E, file, T, minCch, q) \cup {LineAt(E, file, q, b)}
           /\ ~(b - q >= minCch) =>
                 WholeLines(E, file, T, minCch, b + 1) = WholeLines(E, file, T, minCch, q)
<1>1. Whole(T, q, b)
    BY DEF Frontier, Whole
<1>2. Frontier(T, b + 1, b + 1)
    BY DEF Frontier
<1>3. \A c, d \in Nat : Whole(T, c, d) /\ q <= c /\ c < b + 1 => c = q /\ d = b
    <2> SUFFICES ASSUME NEW c \in Nat, NEW d \in Nat, Whole(T, c, d), q <= c, c < b + 1
                 PROVE  c = q /\ d = b
        OBVIOUS
    <2>1. c = q
        <3> SUFFICES ASSUME c # q PROVE FALSE
            OBVIOUS
        <3>1. c - 1 \in q .. b - 1
            OBVIOUS
        <3> QED
            BY <1>1, <3>1 DEF Whole
    <2>2. ~(d < b)
        <3> SUFFICES ASSUME d < b PROVE FALSE
            OBVIOUS
        <3>1. d \in q .. b - 1
            BY <2>1 DEF Whole
        <3> QED
            BY <1>1, <3>1 DEF Whole
    <2>3. ~(b < d)
        <3> SUFFICES ASSUME b < d PROVE FALSE
            OBVIOUS
        <3>1. b \in c .. d - 1
            BY <2>1
        <3> QED
            BY <1>1, <3>1 DEF Whole
    <2> QED
        BY <2>1, <2>2, <2>3
<1>4. ASSUME ~(b - q >= minCch)
      PROVE  WholeLines(E, file, T, minCch, b + 1) = WholeLines(E, file, T, minCch, q)
    <2>1. \A c, d \in Nat : Whole(T, c, d) /\ d - c >= minCch => ~(q <= c /\ c < b + 1)
        BY <1>3, <1>4
    <2>2. b + 1 \in Int /\ q <= b + 1
        OBVIOUS
    <2> QED
        BY <2>1, <2>2, NoLineBetween
<1>5. ASSUME b - q >= minCch
      PROVE  WholeLines(E, file, T, minCch, b + 1) =
                 WholeLines(E, file, T, minCch, q) \cup {LineAt(E, file, q, b)}
    <2> DEFINE new == LineAt(E, file, q, b)
               W == WholeLines(E, file, T, minCch, q)
               V == WholeLines(E, file, T, minCch, b + 1)
    <2>1. new \in V
        BY <1>1, <1>5, WholeLinesAre
    <2>2. ASSUME NEW x \in W PROVE x \in V
        <3>1. PICK c \in Nat, d \in Nat :
                  /\ Whole(T, c, d) /\ d - c >= minCch /\ c < q /\ x = LineAt(E, file, c, d)
            BY WholeLinesAre
        <3>2. c < b + 1
            BY <3>1
        <3> QED
            BY <3>1, <3>2, WholeLinesAre
    <2>3. ASSUME NEW x \in V PROVE x \in W \cup {new}
        <3>1. PICK c \in Nat, d \in Nat :
                  /\ Whole(T, c, d) /\ d - c >= minCch /\ c < b + 1 /\ x = LineAt(E, file, c, d)
            BY WholeLinesAre
        <3>2. CASE c < q
            BY <3>1, <3>2, WholeLinesAre
        <3>3. CASE ~(c < q)
            <4>1. c = q /\ d = b
                BY <1>3, <3>1, <3>3
            <4> QED
                BY <3>1, <4>1
        <3> QED
            BY <3>2, <3>3
    <2> QED
        BY <2>1, <2>2, <2>3
<1> QED
    BY <1>1, <1>2, <1>4, <1>5

\* a record starts at offset a
HasAt(S, a) == \E x \in S : x.offset = a

\* A piece of text has a record if it is long or touches the chunk's boundary.
LEMMA PieceIsKept ==
    ASSUME NEW E, NEW file, NEW T, NEW minCch, NEW first, NEW end, NEW p,
           NEW a \in Nat, NEW b \in Nat, Piece(T, first, end, a, b), a >= p,
           b - a >= minCch \/ a = first \/ b = end
    PROVE  HasAt(RecordsFrom(E, file, T, minCch, first, end, p), a)
<1>1. PICK s \in BOOLEAN : s <=> a = first
    OBVIOUS
<1>2. PICK t \in BOOLEAN : t <=> b = end
    OBVIOUS
<1> DEFINE x == RecordOf(E, file, a, b, s, t)
<1>3. Flagged(first, end, a, b, s, t)
    BY <1>1, <1>2 DEF Flagged
<1>4. b - a >= minCch \/ s \/ t
    BY <1>1, <1>2
<1>5. x \in RecordsFrom(E, file, T, minCch, first, end, p)
    BY <1>3, <1>4, RecordsFromAre
<1>6. x.offset = a
    BY DEF RecordOf, TextRecord
<1> QED
    BY <1>5, <1>6 DEF HasAt

\* Before the next record no run of text is long, and no text touches that record.
LEMMA NoneBeforeNext ==
    ASSUME NEW E, NEW file, NEW T, NEW minCch, NEW first \in Nat, NEW end \in Nat,
           NEW p \in Nat, Frontier(T, p, p), first <= p,
           NEW a \in Nat, NEW b \in Nat, Piece(T, first, end, a, b), p <= a,
           \A x \in RecordsFrom(E, file, T, minCch, first, end, p) : ~(x.offset < a)
    PROVE  /\ Frontier(T, a, b)
           /\ WholeLines(E, file, T, minCch, a) = WholeLines(E, file, T, minCch, p)
<1>1. a < b /\ b <= end /\ \A i \in a .. b - 1 : i \in T
    BY DEF Piece, OpensAt
<1>2. a - 1 \notin T
    <2>1. CASE a = first
        BY <2>1 DEF Frontier
    <2>2. CASE a # first
        BY <2>2 DEF Piece, OpensAt
    <2> QED
        BY <2>1, <2>2
<1>3. ASSUME NEW c \in Nat, NEW d \in Nat, Whole(T, c, d), d - c >= minCch, p <= c, c < a
      PROVE  FALSE
    <2>1. d < a
        <3> SUFFICES ASSUME a <= d PROVE FALSE
            BY DEF Whole
        <3>1. a - 1 \in c .. d - 1
            BY <1>3
        <3> QED
            BY <1>2, <1>3, <3>1 DEF Whole
    <2>2. Piece(T, first, end, c, d)
        BY <1>1, <1>3, <2>1 DEF Piece, OpensAt, Whole
    <2>3. c >= p /\ (d - c >= minCch \/ c = first \/ d = end)
        BY <1>3
    <2>4. HasAt(RecordsFrom(E, file, T, minCch, first, end, p), c)
        BY <2>2, <2>3, PieceIsKept
    <2> QED
        BY <1>3, <2>4 DEF HasAt
<1>4. WholeLines(E, file, T, minCch, a) = WholeLines(E, file, T, minCch, p)
    <2>1. \A c, d \in Nat : Whole(T, c, d) /\ d - c >= minCch => ~(p <= c /\ c < a)
        BY <1>3
    <2>2. a \in Int /\ p \in Int
        OBVIOUS
    <2> QED
        BY <2>1, <2>2, NoLineBetween
<1> QED
    BY <1>1, <1>2, <1>4 DEF Frontier

\* Text of the chunk that is not the start of a piece follows text.
LEMMA PiecesApart ==
    ASSUME NEW T, NEW first \in Nat, NEW end \in Nat, NEW a \in Nat, NEW b \in Nat,
           NEW c \in Nat, NEW d \in Nat, Piece(T, first, end, a, b), Piece(T, first, end, c, d),
           a < c
    PROVE  b < c
<1> SUFFICES ASSUME c <= b PROVE FALSE
    OBVIOUS
<1>1. c - 1 \in a .. b - 1
    OBVIOUS
<1>2. c # first
    BY DEF Piece, OpensAt
<1> QED
    BY <1>1, <1>2 DEF Piece, OpensAt

\* x is the first of the records
IsNext(S, x) == \A y \in S : y # x => x.offset < y.offset

\* Where the piece of a record is.
LEMMA LeftAt ==
    ASSUME NEW E, NEW file, NEW T, NEW minCch, NEW first \in Nat, NEW end \in Nat, NEW p \in Nat,
           NEW y, y \in RecordsFrom(E, file, T, minCch, first, end, p)
    PROVE  \E c, d \in Nat : /\ Piece(T, first, end, c, d) /\ c >= p /\ y.offset = c
                             /\ c < d /\ d <= end
<1>1. PICK c \in Nat, d \in Nat : \E s, t \in BOOLEAN :
          /\ Piece(T, first, end, c, d) /\ y = RecordOf(E, file, c, d, s, t) /\ c >= p
    BY RecordsFromAre
<1>2. y.offset = c
    BY <1>1 DEF RecordOf, TextRecord
<1> QED
    BY <1>1, <1>2 DEF Piece

\* None is from the end of the chunk on.
LEMMA NoneFromEnd ==
    ASSUME NEW E, NEW file, NEW T, NEW minCch, NEW first \in Nat, NEW end \in Nat,
           NEW p \in Nat, end <= p
    PROVE  RecordsFrom(E, file, T, minCch, first, end, p) = {}
<1> SUFFICES ASSUME NEW y \in RecordsFrom(E, file, T, minCch, first, end, p) PROVE FALSE
    OBVIOUS
<1>1. PICK c \in Nat, d \in Nat : c >= p /\ c < d /\ d <= end
    BY LeftAt
<1> QED
    BY <1>1

\* Behind the next record are those that start after its end.
LEMMA BehindNext ==
    ASSUME NEW E, NEW file, NEW T, NEW minCch, NEW first \in Nat, NEW end \in Nat,
           NEW p \in Nat, NEW a \in Nat, NEW b \in Nat, NEW x,
           Piece(T, first, end, a, b), p <= a, x.offset = a,
           IsNext(RecordsFrom(E, file, T, minCch, first, end, p), x)
    PROVE  RecordsFrom(E, file, T, minCch, first, end, p) \ {x} =
               RecordsFrom(E, file, T, minCch, first, end, b + 1)
<1> DEFINE S == RecordsFrom(E, file, T, minCch, first, end, p)
           U == RecordsFrom(E, file, T, minCch, first, end, b + 1)
<1>1. a < b /\ b <= end
    BY DEF Piece
<1>2. ASSUME NEW y \in S \ {x} PROVE y \in U
    <2>1. PICK c \in Nat, d \in Nat :
              Piece(T, first, end, c, d) /\ c >= p /\ y.offset = c /\ c < d /\ d <= end
        BY LeftAt
    <2>2. a < c
        BY <2>1 DEF IsNext
    <2>3. b < c
        BY <2>1, <2>2, PiecesApart
    <2>4. y.offset >= b + 1
        BY <1>1, <2>1, <2>3
    <2> QED
        BY <2>4 DEF RecordsFrom
<1>3. ASSUME NEW y \in U PROVE y \in S \ {x}
    <2>1. b + 1 \in Nat
        OBVIOUS
    <2>2. PICK c \in Nat, d \in Nat :
              Piece(T, first, end, c, d) /\ c >= b + 1 /\ y.offset = c /\ c < d /\ d <= end
        BY <2>1, LeftAt
    <2>3. y # x /\ y.offset >= p
        BY <1>1, <2>2
    <2> QED
        BY <2>3 DEF RecordsFrom
<1> HIDE DEF S, U
<1>4. S \ {x} = U
    BY <1>2, <1>3
<1> QED
    BY <1>4 DEF S, U

\* When no record of a chunk is left, no line will be added for it, and no text reaches its end.
LEMMA NoRecordLeft ==
    ASSUME NEW E, NEW file, NEW T, NEW minCch, NEW first \in Nat, NEW end \in Nat,
           NEW p \in Nat, Frontier(T, p, p), first <= p, p <= end,
           RecordsFrom(E, file, T, minCch, first, end, p) = {}
    PROVE  /\ Frontier(T, end, end)
           /\ WholeLines(E, file, T, minCch, end) = WholeLines(E, file, T, minCch, p)
<1>1. p < end => end - 1 \notin T
    <2> SUFFICES ASSUME p < end, end - 1 \in T PROVE FALSE
        OBVIOUS
    <2> DEFINE starts == {k \in p .. end - 1 : \A i \in k .. end - 1 : i \in T}
    <2>1. end - 1 \in starts
        OBVIOUS
    <2>2. starts \subseteq Nat
        OBVIOUS
    <2> HIDE DEF starts
    <2>3. PICK a \in starts : \A k \in starts : a <= k
        BY <2>1, <2>2, Consuming!LeastNatural
    <2>4. a \in p .. end - 1 /\ \A i \in a .. end - 1 : i \in T
        BY DEF starts
    <2>5. a - 1 \notin T
        <3>1. CASE a = p
            BY <3>1 DEF Frontier
        <3>2. CASE a # p
            <4> SUFFICES ASSUME a - 1 \in T PROVE FALSE
                OBVIOUS
            <4>1. a - 1 \in p .. end - 1
                BY <2>4, <3>2
            <4>2. \A i \in a - 1 .. end - 1 : i = a - 1 \/ i \in a .. end - 1
                BY <2>4
            <4>3. a - 1 \in starts
                BY <2>4, <4>1, <4>2 DEF starts
            <4> QED
                BY <2>3, <2>4, <4>3
        <3> QED
            BY <3>1, <3>2
    <2>6. Piece(T, first, end, a, end)
        BY <2>4, <2>5 DEF Piece, OpensAt
    <2>7. a \in Nat /\ a >= p
        BY <2>4
    <2>8. HasAt(RecordsFrom(E, file, T, minCch, first, end, p), a)
        BY <2>6, <2>7, PieceIsKept
    <2> QED
        BY <2>8 DEF HasAt
<1>2. ASSUME NEW c \in Nat, NEW d \in Nat, Whole(T, c, d), d - c >= minCch, p <= c, c < end
      PROVE  FALSE
    <2>1. d < end
        <3> SUFFICES ASSUME end <= d PROVE FALSE
            BY DEF Whole
        <3>1. end - 1 \in c .. d - 1
            BY <1>2
        <3> QED
            BY <1>1, <1>2, <3>1 DEF Whole
    <2>2. Piece(T, first, end, c, d)
        BY <1>2, <2>1 DEF Piece, OpensAt, Whole
    <2>3. c >= p /\ (d - c >= minCch \/ c = first \/ d = end)
        BY <1>2
    <2>4. HasAt(RecordsFrom(E, file, T, minCch, first, end, p), c)
        BY <2>2, <2>3, PieceIsKept
    <2> QED
        BY <2>4 DEF HasAt
<1>3. WholeLines(E, file, T, minCch, end) = WholeLines(E, file, T, minCch, p)
    <2>1. \A c, d \in Nat : Whole(T, c, d) /\ d - c >= minCch => ~(p <= c /\ c < end)
        BY <1>2
    <2>2. end \in Int /\ p \in Int
        OBVIOUS
    <2> QED
        BY <2>1, <2>2, NoLineBetween
<1>4. Frontier(T, end, end)
    BY <1>1 DEF Frontier
<1> QED
    BY <1>3, <1>4

\* If no record starts where the chunk does, there is no text.
LEMMA NoTextAtStart ==
    ASSUME NEW E, NEW file, NEW T, NEW minCch, NEW first \in Nat, NEW end \in Nat, first < end,
           \A x \in RecordsFrom(E, file, T, minCch, first, end, first) : x.offset # first
    PROVE  /\ first \notin T
           /\ RecordsFrom(E, file, T, minCch, first, end, first + 1) =
                  RecordsFrom(E, file, T, minCch, first, end, first)
<1>1. first \notin T
    <2> SUFFICES ASSUME first \in T PROVE FALSE
        OBVIOUS
    <2> DEFINE ends == {k \in first + 1 .. end : k = end \/ k \notin T}
    <2>1. end \in ends /\ ends \subseteq Nat
        OBVIOUS
    <2> HIDE DEF ends
    <2>2. PICK b \in ends : \A k \in ends : b <= k
        BY <2>1, Consuming!LeastNatural
    <2>3. b \in first + 1 .. end /\ (b = end \/ b \notin T)
        BY DEF ends
    <2>4. \A i \in first .. b - 1 : i \in T
        <3> SUFFICES ASSUME NEW i \in first .. b - 1, i \notin T PROVE FALSE
            OBVIOUS
        <3>1. i \in first + 1 .. end
            BY <2>3
        <3>2. i \in ends
            BY <3>1 DEF ends
        <3> QED
            BY <2>2, <2>3, <3>2
    <2>5. Piece(T, first, end, first, b)
        BY <2>3, <2>4 DEF Piece, OpensAt
    <2>6. b \in Nat /\ first >= first /\ (b - first >= minCch \/ first = first \/ b = end)
        BY <2>3
    <2>7. HasAt(RecordsFrom(E, file, T, minCch, first, end, first), first)
        BY <2>5, <2>6, PieceIsKept
    <2> QED
        BY <2>7 DEF HasAt
<1>2. ASSUME NEW x \in RecordsFrom(E, file, T, minCch, first, end, first)
      PROVE  x.offset >= first + 1
    <2>1. PICK c \in Nat, d \in Nat : \E s, t \in BOOLEAN :
              /\ Piece(T, first, end, c, d) /\ x = RecordOf(E, file, c, d, s, t) /\ c >= first
        BY RecordsFromAre
    <2>2. x.offset = c
        BY <2>1 DEF RecordOf, TextRecord
    <2> QED
        BY <2>1, <2>2
<1>3. \A x : x \in RecordsFrom(E, file, T, minCch, first, end, first + 1)
                 => x \in RecordsFrom(E, file, T, minCch, first, end, first)
    <2> SUFFICES ASSUME NEW x, x \in RecordsFrom(E, file, T, minCch, first, end, first + 1)
                 PROVE  x \in RecordsFrom(E, file, T, minCch, first, end, first)
        OBVIOUS
    <2>1. PICK c \in Nat, d \in Nat : \E s, t \in BOOLEAN :
              /\ Piece(T, first, end, c, d) /\ x = RecordOf(E, file, c, d, s, t) /\ c >= first + 1
        BY RecordsFromAre
    <2>2. x.offset = c
        BY <2>1 DEF RecordOf, TextRecord
    <2>3. x.offset >= first
        BY <2>1, <2>2
    <2> QED
        BY <2>3 DEF RecordsFrom
<1>4. \A x : x \in RecordsFrom(E, file, T, minCch, first, end, first)
                 => x \in RecordsFrom(E, file, T, minCch, first, end, first + 1)
    BY <1>2 DEF RecordsFrom
<1> QED
    BY <1>1, <1>3, <1>4

\* A run that is joined to the one it continues.
LEMMA JoinedIs ==
    ASSUME NEW E, NEW file, NEW q \in Nat, NEW p \in Nat, NEW b \in Nat, q <= p, p <= b,
           NEW s1, NEW t1, NEW s2, NEW t2
    PROVE  AppendData(RecordOf(E, file, q, p, s1, t1), RecordOf(E, file, p, b, s2, t2)) =
               RecordOf(E, file, q, b, s1, t2)
<1> DEFINE front == CharsAt(file, q, p)
           back == CharsAt(file, p, b)
           all == CharsAt(file, q, b)
<1>1. front \o back = all
    <2> DEFINE R == {<<file[k]>> : k \in Nat}
    <2>1. p - q \in Nat /\ b - p \in Nat /\ b - q \in Nat
        OBVIOUS
    <2>2. \A k \in Nat : <<file[k]>> \in R
        OBVIOUS
    <2> HIDE DEF R
    <2>3. /\ front \in Seq(R) /\ Len(front) = p - q
          /\ back \in Seq(R) /\ Len(back) = b - p
          /\ all \in Seq(R) /\ Len(all) = b - q
        BY <2>1, <2>2 DEF CharsAt
    <2>4. /\ \A k \in 1 .. p - q : front[k] = <<file[q + k]>>
          /\ \A k \in 1 .. b - p : back[k] = <<file[p + k]>>
          /\ \A k \in 1 .. b - q : all[k] = <<file[q + k]>>
        BY DEF CharsAt
    <2> HIDE DEF front, back, all
    <2>5. front \o back \in Seq(R) /\ Len(front \o back) = Len(all)
        BY <2>3
    <2>6. ASSUME NEW k \in 1 .. Len(all) PROVE (front \o back)[k] = all[k]
        <3>1. CASE k <= p - q
            <4>1. (front \o back)[k] = front[k]
                BY <2>3, <3>1
            <4>2. k \in 1 .. p - q /\ k \in 1 .. b - q
                BY <2>3, <3>1
            <4>3. front[k] = <<file[q + k]>> /\ all[k] = <<file[q + k]>>
                BY <2>4, <4>2
            <4> QED
                BY <4>1, <4>3
        <3>2. CASE ~(k <= p - q)
            <4>1. (front \o back)[k] = back[k - (p - q)]
                BY <2>3, <3>2
            <4>2. k - (p - q) \in 1 .. b - p /\ p + (k - (p - q)) = q + k /\ k \in 1 .. b - q
                BY <2>3, <3>2
            <4>3. back[k - (p - q)] = <<file[p + (k - (p - q))]>>
                BY <2>4, <4>2
            <4> QED
                BY <2>4, <4>1, <4>2, <4>3
        <3> QED
            BY <3>1, <3>2
    <2> DEFINE both == front \o back
    <2>7. both \in Seq(R) /\ all \in Seq(R) /\ Len(both) = Len(all)
        BY <2>3, <2>5
    <2>8. \A k \in 1 .. Len(all) : both[k] = all[k]
        BY <2>6
    <2> HIDE DEF both
    <2>9. both = all
        BY <2>7, <2>8
    <2> QED
        BY <2>9 DEF both
<1>2. (p - q) + (b - p) = b - q
    OBVIOUS
<1> HIDE DEF front, back, all
<1>3. /\ RecordOf(E, file, q, p, s1, t1) = TextRecord(q, p - q, p - q, E, s1, t1, front)
      /\ RecordOf(E, file, p, b, s2, t2) = TextRecord(p, b - p, b - p, E, s2, t2, back)
      /\ RecordOf(E, file, q, b, s1, t2) = TextRecord(q, b - q, b - q, E, s1, t2, all)
    BY DEF RecordOf, front, back, all
<1> DEFINE m == p - q
           n == b - p
<1>4. m + n = b - q
    BY <1>2
<1> HIDE DEF m, n
<1> DEFINE dst == TextRecord(q, m, m, E, s1, t1, front)
           src == TextRecord(p, n, n, E, s2, t2, back)
<1>5. /\ dst = [offset |-> q, cb |-> m, cch |-> m, encoding |-> E, starts |-> s1, ends |-> t1,
               raw |-> FALSE, data |-> front]
      /\ ~dst.raw /\ src.cb = n /\ src.cch = n /\ src.ends = t2 /\ src.data = back
    BY DEF TextRecord
<1> HIDE DEF dst, src
<1>6. AppendData(dst, src) = [dst EXCEPT !.cb = @ + n, !.ends = t2, !.cch = @ + n,
                                         !.data = @ \o back]
    BY <1>5 DEF AppendData
<1>7. AppendData(dst, src) = TextRecord(q, m + n, m + n, E, s1, t2, front \o back)
    BY <1>5, <1>6 DEF TextRecord
<1> QED
    BY <1>1, <1>3, <1>4, <1>7 DEF m, n, dst, src

-----------------------------------------------------------------------------
(* The state of the output, as one encoding sees it.                       *)

\* the lines of the encoding E that start before q, and its records of the chunk from p on
LinesBefore(E, q) == WholeLines(E, input.bytes, Text(input, E), input.minCch, q)

RecordsLeft(E, p) ==
    RecordsFrom(E, input.bytes, Text(input, E), input.minCch, ChunkStart, ChunkEnd, p)

TheRecord(E, a, b, s, t) == RecordOf(E, input.bytes, a, b, s, t)

\* The lines that start in the file are all.
LEMMA AllLines ==
    ASSUME NEW E, input \in Inputs, NEW q \in Nat, q >= Len(input.bytes)
    PROVE  LinesBefore(E, q) = LinesBefore(E, Len(input.bytes))
<1> DEFINE n == Len(input.bytes)
           T == Text(input, E)
<1>1. n \in Nat
    BY InputsAssumption
<1>2. \A i \in T : i < n
    BY <1>1 DEF Text
<1>3. \A a, b \in Nat : Whole(T, a, b) => a \in T
    BY DEF Whole
<1> HIDE DEF T
<1>4. \A a, b \in Nat : Whole(T, a, b) /\ b - a >= input.minCch => ~(n <= a /\ a < q)
    BY <1>1, <1>2, <1>3
<1> HIDE DEF n
<1>5. n \in Int /\ q \in Int /\ n <= q
    BY <1>1 DEF n
<1>6. WholeLines(E, input.bytes, T, input.minCch, q) = WholeLines(E, input.bytes, T, input.minCch, n)
    BY <1>4, <1>5, NoLineBetween
<1> QED
    BY <1>6 DEF LinesBefore, n, T

\* A chunk that starts in the file is not empty.
LEMMA ChunkIsNotEmpty ==
    ASSUME input \in Inputs, chunk \in Nat, ChunkStart < Len(input.bytes)
    PROVE  /\ ChunkStart \in Nat /\ ChunkEnd \in Nat /\ ChunkStart < ChunkEnd
           /\ ChunkEnd <= Len(input.bytes)
<1> DEFINE at == ChunkStart
           n == Len(input.bytes)
           size == input.chunkSize
<1>1. /\ at \in Nat /\ n \in Nat /\ size \in Nat \ {0} /\ at < n
      /\ ChunkEnd = IF at + size < n THEN at + size ELSE n
    BY ChunkAt
<1> HIDE DEF at, n, size
<1>2. ChunkEnd \in Nat /\ at < ChunkEnd /\ ChunkEnd <= n
    BY <1>1
<1> QED
    BY <1>1, <1>2 DEF at, n

\* the text at q .. p - 1 is pending
PendingIs(E, map, q, p) ==
    /\ E \in DOMAIN map
    /\ \E s, t \in BOOLEAN : t /\ map[E] = TheRecord(E, q, p, s, t)

\* the output is written up to q, and from there to p pending
Reached(E, st, q, p) ==
    /\ Frontier(Text(input, E), q, p)
    /\ Holds(E, st.lines, LinesBefore(E, q))
    /\ IF q < p THEN PendingIs(E, st.pending, q, p) ELSE E \notin DOMAIN st.pending

\* within a chunk, of which recs are yet to be written
InChunk(E, st, recs) ==
    \E q, p \in Nat :
        /\ Reached(E, st, q, p)
        /\ ChunkStart <= p /\ p <= ChunkEnd /\ (q < p => p = ChunkEnd)
        /\ Holds(E, recs, RecordsLeft(E, p))

\* the records of the encoding that start the chunk, and those that do not
StartApart(E, B) ==
    /\ B \subseteq RecordsLeft(E, ChunkStart)
    /\ \A x \in RecordsLeft(E, ChunkStart) : x \in B <=> x.offset = ChunkStart

\* A record that starts the chunk is one, and before all others.
LEMMA StartIsNext ==
    ASSUME input \in Inputs, chunk \in Nat, NEW E, NEW s, NEW B, Holds(E, s, B), StartApart(E, B)
    PROVE  /\ \A x, y \in B : x = y
           /\ \A x \in B : IsNext(RecordsLeft(E, ChunkStart), x)
           /\ \A x \in RecordsLeft(E, ChunkStart) : x.offset >= ChunkStart
<1>1. ASSUME NEW x \in B, NEW y \in B PROVE x = y
    <2>1. PICK i \in DOMAIN s : s[i] = x
        BY DEF Holds
    <2>2. PICK j \in DOMAIN s : s[j] = y
        BY DEF Holds
    <2>3. x.offset = ChunkStart /\ y.offset = ChunkStart /\ x.encoding = E /\ y.encoding = E
        BY DEF StartApart, Holds
    <2>4. x.offset \in Nat
        BY DEF Holds
    <2>5. ~(i < j) /\ ~(j < i)
        BY <2>1, <2>2, <2>3, <2>4 DEF Holds
    <2>6. i \in Nat /\ j \in Nat
        BY DEF Holds, IsSeq
    <2> QED
        BY <2>1, <2>2, <2>5, <2>6
<1>2. ASSUME NEW x \in RecordsLeft(E, ChunkStart) PROVE x.offset >= ChunkStart
    BY DEF RecordsLeft, RecordsFrom
<1>3. ASSUME NEW x \in RecordsLeft(E, ChunkStart) PROVE x.offset \in Nat
    <2>1. ChunkStart \in Nat /\ ChunkEnd \in Nat
        BY ChunkAt
    <2>2. \E c, d \in Nat : /\ Piece(Text(input, E), ChunkStart, ChunkEnd, c, d)
                            /\ c >= ChunkStart /\ x.offset = c /\ c < d /\ d <= ChunkEnd
        BY <2>1, LeftAt DEF RecordsLeft
    <2> QED
        BY <2>2
<1>4. ASSUME NEW x \in B, NEW y \in RecordsLeft(E, ChunkStart), y # x
      PROVE  x.offset < y.offset
    <2>1. ChunkStart \in Nat
        BY ChunkAt
    <2>2. x.offset = ChunkStart /\ y \notin B
        BY <1>1, <1>4 DEF StartApart
    <2>3. y.offset # ChunkStart
        BY <2>2 DEF StartApart
    <2> QED
        BY <1>2, <1>3, <2>1, <2>2, <2>3
<1> QED
    BY <1>1, <1>2, <1>4 DEF IsNext

\* The record that starts the chunk, and those behind it.
LEMMA StartRecord ==
    ASSUME input \in Inputs, chunk \in Nat, NEW E, NEW s, NEW B, Holds(E, s, B), StartApart(E, B),
           NEW x \in B
    PROVE  \E b \in Nat : \E s1, t1 \in BOOLEAN :
               /\ Piece(Text(input, E), ChunkStart, ChunkEnd, ChunkStart, b)
               /\ ChunkStart < b /\ b <= ChunkEnd /\ (t1 <=> b = ChunkEnd)
               /\ x = TheRecord(E, ChunkStart, b, s1, t1) /\ x.ends = t1
               /\ RecordsLeft(E, ChunkStart) \ {x} = RecordsLeft(E, b + 1)
<1> DEFINE T == Text(input, E)
<1>1. ChunkStart \in Nat /\ ChunkEnd \in Nat
    BY ChunkAt
<1>2. x \in RecordsLeft(E, ChunkStart) /\ x.offset = ChunkStart
    BY DEF StartApart
<1>3. PICK a \in Nat, b \in Nat : \E s1, t1 \in BOOLEAN :
          /\ Piece(T, ChunkStart, ChunkEnd, a, b)
          /\ Flagged(ChunkStart, ChunkEnd, a, b, s1, t1)
          /\ x = TheRecord(E, a, b, s1, t1)
    BY <1>2, RecordsFromAre DEF RecordsLeft, TheRecord
<1>4. PICK s1 \in BOOLEAN, t1 \in BOOLEAN :
          /\ Piece(T, ChunkStart, ChunkEnd, a, b)
          /\ Flagged(ChunkStart, ChunkEnd, a, b, s1, t1)
          /\ x = TheRecord(E, a, b, s1, t1)
    BY <1>3
<1>5. x.offset = a /\ x.ends = t1
    BY <1>4 DEF TheRecord, RecordOf, TextRecord
<1>6. a = ChunkStart
    BY <1>2, <1>5
<1>7. a < b /\ b <= ChunkEnd
    BY <1>4 DEF Piece
<1>8. t1 <=> b = ChunkEnd
    BY <1>4 DEF Flagged
<1>9. IsNext(RecordsLeft(E, ChunkStart), x)
    BY StartIsNext
<1>10. RecordsLeft(E, ChunkStart) \ {x} = RecordsLeft(E, b + 1)
    <2>1. Piece(Text(input, E), ChunkStart, ChunkEnd, a, b) /\ ChunkStart <= a /\ x.offset = a
        BY <1>1, <1>4, <1>5, <1>6
    <2> QED
        BY <1>1, <1>9, <2>1, BehindNext DEF RecordsLeft
<1> HIDE DEF T
<1>11. Piece(Text(input, E), ChunkStart, ChunkEnd, ChunkStart, b)
    BY <1>4, <1>6 DEF T
<1> QED
    BY <1>4, <1>5, <1>6, <1>7, <1>8, <1>10, <1>11

\* If text is pending and no record starts the chunk, the text ends where the chunk starts.
LEMMA PendingEnds ==
    ASSUME input \in Inputs, chunk \in Nat, NEW E, ChunkStart < ChunkEnd,
           StartApart(E, {})
    PROVE  /\ ChunkStart \notin Text(input, E)
           /\ RecordsLeft(E, ChunkStart + 1) = RecordsLeft(E, ChunkStart)
<1>1. ChunkStart \in Nat /\ ChunkEnd \in Nat
    BY ChunkAt
<1>2. \A x \in RecordsLeft(E, ChunkStart) : x.offset # ChunkStart
    BY DEF StartApart
<1> QED
    BY <1>1, <1>2, NoTextAtStart DEF RecordsLeft

\* When a chunk is done the output has come to its end.
LEMMA ChunkDone ==
    ASSUME input \in Inputs, chunk \in Nat, NEW E, ChunkStart < Len(input.bytes),
           InChunk(E, Current, <<>>)
    PROVE  \E q \in Nat : Reached(E, Current, q, ChunkEnd)
<1>1. PICK q \in Nat, p \in Nat :
          /\ Reached(E, Current, q, p)
          /\ ChunkStart <= p /\ p <= ChunkEnd /\ (q < p => p = ChunkEnd)
          /\ Holds(E, <<>>, RecordsLeft(E, p))
    BY DEF InChunk
<1>2. ChunkStart \in Nat /\ ChunkEnd \in Nat
    BY ChunkIsNotEmpty
<1>3. RecordsLeft(E, p) = {}
    BY <1>1 DEF Holds
<1>4. q <= p
    BY <1>1 DEF Reached, Frontier
<1>5. CASE q < p
    BY <1>1, <1>5
<1>6. CASE q = p
    <2>1. Frontier(Text(input, E), p, p)
        BY <1>1, <1>6 DEF Reached
    <2>2. /\ Frontier(Text(input, E), ChunkEnd, ChunkEnd)
          /\ LinesBefore(E, ChunkEnd) = LinesBefore(E, p)
        BY <1>1, <1>2, <1>3, <2>1, NoRecordLeft DEF LinesBefore, RecordsLeft
    <2>3. ~(ChunkEnd < ChunkEnd) /\ ~(p < p)
        BY <1>2
    <2>4. Reached(E, Current, ChunkEnd, ChunkEnd)
        BY <1>1, <1>6, <2>2, <2>3 DEF Reached
    <2> QED
        BY <1>2, <2>4
<1> QED
    BY <1>4, <1>5, <1>6


\* The lines of all runs.
LEMMA RunsHaveLines ==
    ASSUME input.bytes \in Seq(0 .. 255), NEW E \in ByteEncodings, NEW x
    PROVE  x \in ToSet(LinesOf(SetToSeq(AllRuns(E)))) <=>
               \E a, b \in Nat : /\ Whole(Text(input, E), a, b)
                                 /\ x = LineAt(E, input.bytes, a, b)
<1> DEFINE recs == SetToSeq(AllRuns(E))
<1>1. /\ \A i \in DOMAIN recs : recs[i] \in AllRuns(E)
      /\ \A y \in AllRuns(E) : \E i \in DOMAIN recs : recs[i] = y
    BY WholeFileRunsAre, InSomeOrder
<1> HIDE DEF recs
<1>2. x \in ToSet(LinesOf(recs)) <=> \E i \in DOMAIN recs : x = Line(recs[i])
    BY DEF ToSet, LinesOf
<1>3. (\E i \in DOMAIN recs : x = Line(recs[i])) <=> \E y \in AllRuns(E) : x = Line(y)
    BY <1>1
<1>4. \A y : y \in AllRuns(E) <=>
          \E a, b \in Nat : /\ Whole(Text(input, E), a, b)
                            /\ y = RecordOf(E, input.bytes, a, b, FALSE, FALSE)
    BY WholeFileRunsAre
<1>5. \A a, b : Line(RecordOf(E, input.bytes, a, b, FALSE, FALSE)) = LineAt(E, input.bytes, a, b)
    BY LineOfRecord
<1>6. (\E y \in AllRuns(E) : x = Line(y)) <=>
          \E a, b \in Nat : /\ Whole(Text(input, E), a, b)
                            /\ x = LineAt(E, input.bytes, a, b)
    <2>1. ASSUME NEW y \in AllRuns(E), x = Line(y)
          PROVE  \E a, b \in Nat : /\ Whole(Text(input, E), a, b)
                                   /\ x = LineAt(E, input.bytes, a, b)
        <3>1. PICK a \in Nat, b \in Nat : /\ Whole(Text(input, E), a, b)
                                          /\ y = RecordOf(E, input.bytes, a, b, FALSE, FALSE)
            BY <1>4
        <3>2. x = LineAt(E, input.bytes, a, b)
            BY <1>5, <2>1, <3>1
        <3> QED
            BY <3>1, <3>2
    <2>2. ASSUME NEW a \in Nat, NEW b \in Nat, Whole(Text(input, E), a, b),
                 x = LineAt(E, input.bytes, a, b)
          PROVE  \E y \in AllRuns(E) : x = Line(y)
        <3>1. RecordOf(E, input.bytes, a, b, FALSE, FALSE) \in AllRuns(E)
            BY <1>4, <2>2
        <3> QED
            BY <1>5, <2>2, <3>1
    <2> QED
        BY <2>1, <2>2
<1> QED
    BY <1>2, <1>3, <1>6 DEF recs

-----------------------------------------------------------------------------
(* The sizes of lines and records.                                         *)

\* the bytes of the first n characters have been counted
CountedSoFar(c, n, count) == count = n

CountingBytes == INSTANCE LeftFold WITH Body <- LAMBDA c, count, char : count + Len(char),
                                        Kept <- CountedSoFar

\* The characters of single bytes are counted by their bytes.
LEMMA ByteCountIs ==
    ASSUME NEW E, NEW file, NEW a \in Nat, NEW b \in Nat, a < b
    PROVE  ByteCount(CharsAt(file, a, b)) = b - a
<1> DEFINE chars == CharsAt(file, a, b)
<1>1. DOMAIN chars = 1 .. b - a /\ \A n \in 1 .. b - a : Len(chars[n]) = 1
    BY DEF CharsAt
<1>2. b - a \in Nat
    OBVIOUS
<1>3. Len(chars) = b - a
    BY <1>2 DEF CharsAt
<1> HIDE DEF chars
<1>4. \A n \in 1 .. b - a : \A k :
          CountedSoFar(chars, n - 1, k) => CountedSoFar(chars, n, k + Len(chars[n]))
    <2> SUFFICES ASSUME NEW n \in 1 .. b - a, NEW k, CountedSoFar(chars, n - 1, k)
                 PROVE  CountedSoFar(chars, n, k + Len(chars[n]))
        OBVIOUS
    <2>1. k = n - 1 /\ Len(chars[n]) = 1 /\ n \in Int
        BY <1>1 DEF CountedSoFar
    <2>2. k + Len(chars[n]) = n
        BY <2>1
    <2> QED
        BY <2>2 DEF CountedSoFar
<1>5. CountedSoFar(chars, b - a, CountingBytes!Loop(chars, 0, chars))
    <2>1. CountedSoFar(chars, 0, 0)
        BY DEF CountedSoFar
    <2> QED
        BY <1>1, <1>2, <1>3, <1>4, <2>1, CountingBytes!FoldKeeps
<1>6. ByteCount(chars) = CountingBytes!Loop(chars, 0, chars)
    BY DEF ByteCount, CountingBytes!Loop, FoldLeft, CountingBytes!FoldLeft, MapThenFoldSet,
           CountingBytes!MapThenFoldSet, Max, CountingBytes!Max
<1> QED
    BY <1>5, <1>6 DEF CountedSoFar, chars

\* So a line of them ends where its text does.
LEMMA LineEndIs ==
    ASSUME NEW E, NEW file, NEW a \in Nat, NEW b \in Nat, a < b
    PROVE  LineEnd(LineAt(E, file, a, b)) = b
BY ByteCountIs DEF LineEnd, LineAt

\* A record of text within the file is well-formed.
LEMMA RecordIsWellFormed ==
    ASSUME NEW E \in ByteEncodings, E \in Selected, NEW a \in Nat, NEW b \in Nat, a < b,
           Len(input.bytes) \in Nat, b <= Len(input.bytes), NEW s, NEW t
    PROVE  WellFormed(TheRecord(E, a, b, s, t))
<1> DEFINE rec == TheRecord(E, a, b, s, t)
           chars == CharsAt(input.bytes, a, b)
<1>1. /\ rec.offset = a /\ rec.cb = b - a /\ rec.cch = b - a /\ rec.encoding = E
      /\ rec.raw = FALSE /\ rec.data = chars
    BY DEF TheRecord, RecordOf, TextRecord
<1>2. ByteCount(chars) = b - a
    BY ByteCountIs
<1>3. Len(chars) = b - a
    BY DEF CharsAt
<1> HIDE DEF rec, chars
<1>4. E # "Big5"
    BY DEF ByteEncodings
<1>5. CountChars(E, chars) = b - a
    BY <1>3, <1>4 DEF CountChars
<1>6. End(rec) = b
    BY <1>1 DEF End
<1> QED
    BY <1>1, <1>2, <1>5, <1>6 DEF WellFormed, rec

\* So are the records of the chunk, and what is pending.
LEMMA LeftIsWellFormed ==
    ASSUME NEW E \in ByteEncodings, E \in Selected, NEW p, input \in Inputs, chunk \in Nat,
           NEW rec \in RecordsLeft(E, p)
    PROVE  WellFormed(rec)
<1>1. /\ ChunkEnd \in Nat /\ ChunkEnd <= Len(input.bytes) /\ Len(input.bytes) \in Nat
    BY ChunkAt
<1>2. PICK a \in Nat, b \in Nat : \E s, t \in BOOLEAN :
          /\ Piece(Text(input, E), ChunkStart, ChunkEnd, a, b)
          /\ rec = RecordOf(E, input.bytes, a, b, s, t)
    BY RecordsFromAre DEF RecordsLeft
<1>3. a < b /\ b <= ChunkEnd
    BY <1>2 DEF Piece
<1>4. \A s, t : WellFormed(TheRecord(E, a, b, s, t))
    BY <1>1, <1>3, RecordIsWellFormed
<1> QED
    BY <1>2, <1>4 DEF TheRecord

LEMMA PendingIsWellFormed ==
    ASSUME NEW E \in ByteEncodings, E \in Selected, Len(input.bytes) \in Nat,
           NEW st, NEW q \in Nat, NEW p \in Nat, Reached(E, st, q, p),
           p <= Len(input.bytes), E \in DOMAIN st.pending
    PROVE  WellFormed(st.pending[E])
<1>1. q < p /\ PendingIs(E, st.pending, q, p)
    BY DEF Reached
<1>2. \A s, t : WellFormed(TheRecord(E, q, p, s, t))
    BY <1>1, RecordIsWellFormed
<1> QED
    BY <1>1, <1>2 DEF PendingIs
=============================================================================
