--------------------------- MODULE ScannersProofs ---------------------------
(***************************************************************************)
(* What the merge of record streams computes, for streams of any length,   *)
(* and what a scan delivers, for a chunk and a file of any size, when      *)
(* every byte or every aligned pair is decoded alone: ASCII, windows-1251, *)
(* and UTF-16LE restricted to Latin-1.                                     *)
(***************************************************************************)
EXTENDS Scanners, TLAPS, FiniteSetTheorems

(***************************************************************************)
(* What the merge is to keep.                                              *)
(***************************************************************************)

RecordAt(streams, place) == streams[place[1]][place[2]]

\* After n steps the first pos[i] records of stream i are merged, in the given order.
Consumed(R, streams, st, n, pos, order) ==
    /\ pos \in [DOMAIN streams -> Nat]
    /\ order \in [1 .. n -> Places(streams)]
    /\ \A i \in DOMAIN streams :
          /\ pos[i] <= Len(streams[i])
          /\ \A j \in DOMAIN streams[i] :
                j <= pos[i] <=> \E m \in 1 .. n : order[m] = <<i, j>>
    /\ \A l, m \in 1 .. n :
          l < m /\ order[l][1] = order[m][1] => order[l][2] < order[m][2]
    /\ st.left \in Seq(Seq(R)) /\ DOMAIN st.left = DOMAIN streams
    /\ \A i \in DOMAIN streams :
          /\ Len(st.left[i]) = Len(streams[i]) - pos[i]
          /\ \A k \in DOMAIN st.left[i] : st.left[i][k] = streams[i][pos[i] + k]
    /\ st.merged \in Seq(R) /\ Len(st.merged) = n
    /\ \A m \in 1 .. n : st.merged[m] = RecordAt(streams, order[m])

\* Some order accounts for the first n records.
ConsumedSoFar(c, n, st) ==
    \E pos, order : Consumed(c.records, c.streams, st, n, pos, order)

\* What is merged is in order, what is left is, and nothing that is left precedes any of it.
Ordered(st) ==
    /\ InOrder(st.merged)
    /\ \A i \in DOMAIN st.left : InOrder(st.left[i])
    /\ \A m \in DOMAIN st.merged, i \in DOMAIN st.left :
          \A j \in DOMAIN st.left[i] : ~Precedes(st.left[i][j], st.merged[m])

OrderedSoFar(c, n, st) == ConsumedSoFar(c, n, st) /\ Ordered(st)

\* the loop of the merge, and two things it keeps
Consuming == INSTANCE LeftFold WITH Body <- LAMBDA c, st, n : MergeStep(st),
                                    Kept <- ConsumedSoFar
Ordering == INSTANCE LeftFold WITH Body <- LAMBDA c, st, n : MergeStep(st),
                                   Kept <- OrderedSoFar

(***************************************************************************)
(* The order of the records, and the least head.                           *)
(***************************************************************************)

\* records that can be compared: each has an offset, and an encoding with a code
Comparable(R) == \A r \in R : r.offset \in Nat /\ r.encoding \in DOMAIN EncodingCode

\* a number that orders the records as Precedes does
Key(r) == 11 * r.offset + EncodingCode[r.encoding]

\* Precedes is the order of the keys.
LEMMA KeyOrder ==
    ASSUME NEW R, Comparable(R), NEW a \in R, NEW b \in R
    PROVE  Key(a) \in Nat /\ (~Precedes(a, b) <=> Key(b) <= Key(a))
<1>1. \A e \in DOMAIN EncodingCode : EncodingCode[e] \in 0 .. 10
    BY DEF EncodingCode
<1>2. /\ a.offset \in Nat /\ EncodingCode[a.encoding] \in 0 .. 10
      /\ b.offset \in Nat /\ EncodingCode[b.encoding] \in 0 .. 10
    BY <1>1 DEF Comparable
<1> QED
    BY <1>2 DEF Key, Precedes

\* While a stream is open there is a least head, and LeastHead names its stream.
LEMMA LeastHeadIsLeast ==
    ASSUME NEW R, Comparable(R), NEW streams \in Seq(Seq(R)),
           NEW k \in DOMAIN streams, streams[k] # <<>>
    PROVE  /\ LeastHead(streams) \in DOMAIN streams
           /\ streams[LeastHead(streams)] # <<>>
           /\ \A j \in DOMAIN streams : streams[j] # <<>> =>
                  ~Precedes(Head(streams[j]), Head(streams[LeastHead(streams)]))
<1> DEFINE open == {i \in DOMAIN streams : streams[i] # <<>>}
           keys == {Key(Head(streams[i])) : i \in open}
           least == {i \in open : \A j \in open :
                                      ~Precedes(Head(streams[j]), Head(streams[i]))}
<1>1. \A i \in open : Head(streams[i]) \in R
    OBVIOUS
<1>2. keys \subseteq Nat /\ keys # {}
    BY <1>1, KeyOrder
<1>3. PICK x \in keys : \A y \in keys : x <= y
    BY <1>2, Consuming!LeastNatural
<1>4. PICK i \in open : x = Key(Head(streams[i]))
    OBVIOUS
<1>5. ASSUME NEW j \in open
      PROVE  ~Precedes(Head(streams[j]), Head(streams[i]))
    <2>1. Key(Head(streams[j])) \in keys /\ x \in keys
        BY <1>3
    <2>2. Key(Head(streams[i])) <= Key(Head(streams[j]))
        BY <2>1, <1>3, <1>4
    <2>3. Head(streams[i]) \in R /\ Head(streams[j]) \in R
        BY <1>1
    <2> QED
        BY <2>2, <2>3, KeyOrder
<1>6. least \subseteq Nat /\ i \in least
    BY <1>5
<1>7. \E n \in least : \A j \in least : n <= j
    BY <1>6, Consuming!LeastNatural
<1>8. LeastHead(streams) \in least
    BY <1>7 DEF LeastHead
<1> QED
    BY <1>8

(***************************************************************************)
(* A merge takes every record once, each stream's in its order.            *)
(***************************************************************************)

\* The places of the records are pairs.
LEMMA PlacesAre ==
    ASSUME NEW streams, NEW p
    PROVE  p \in Places(streams) <=>
               \E i \in DOMAIN streams : \E j \in DOMAIN streams[i] : p = <<i, j>>
BY DEF Places

\* There are finitely many.
LEMMA PlacesAreFinite ==
    ASSUME NEW R, NEW streams \in Seq(Seq(R))
    PROVE  IsFiniteSet(Places(streams)) /\ Cardinality(Places(streams)) \in Nat
<1> DEFINE f == [i \in DOMAIN streams |-> {i} \X DOMAIN streams[i]]
           S == {{i} \X DOMAIN streams[i] : i \in DOMAIN streams}
<1>1. f \in Surjection(DOMAIN streams, S)
    BY DEF Surjection
<1>2. DOMAIN streams = 1 .. Len(streams) /\ Len(streams) \in Nat
    OBVIOUS
<1>3. IsFiniteSet(DOMAIN streams)
    BY <1>2, FS_Interval
<1>4. IsFiniteSet(S)
    <2> HIDE DEF f, S
    <2> QED
        BY <1>1, <1>3, FS_Surjection
<1>5. ASSUME NEW T \in S PROVE IsFiniteSet(T)
    <2>1. PICK i \in DOMAIN streams : T = {i} \X DOMAIN streams[i]
        OBVIOUS
    <2>2. PICK len \in Nat : DOMAIN streams[i] = 1 .. len
        OBVIOUS
    <2>3. IsFiniteSet(1 .. len)
        BY FS_Interval
    <2>4. IsFiniteSet({i})
        BY FS_Singleton
    <2>5. IsFiniteSet({i} \X (1 .. len))
        BY <2>3, <2>4, FS_Product
    <2> QED
        BY <2>1, <2>2, <2>5
<1>6. IsFiniteSet(Places(streams))
    <2>1. IsFiniteSet(UNION S)
        <3> HIDE DEF S
        <3> QED
            BY <1>4, <1>5, FS_UNION
    <2> QED
        BY <2>1 DEF Places
<1> QED
    BY <1>6, FS_CardinalityType

\* As long as not all records are merged, some stream has one left.
LEMMA SomeStreamIsOpen ==
    ASSUME NEW R, NEW streams \in Seq(Seq(R)), NEW st, NEW n \in Nat, NEW pos, NEW order,
           Consumed(R, streams, st, n, pos, order), n < Cardinality(Places(streams))
    PROVE  \E i \in DOMAIN st.left : st.left[i] # <<>>
<1> SUFFICES ASSUME \A i \in DOMAIN st.left : st.left[i] = <<>>
             PROVE  FALSE
    OBVIOUS
<1>1. \A i \in DOMAIN streams : pos[i] = Len(streams[i])
    BY DEF Consumed
<1>2. ASSUME NEW p \in Places(streams) PROVE \E m \in 1 .. n : order[m] = p
    <2>1. PICK i \in DOMAIN streams : \E j \in DOMAIN streams[i] : p = <<i, j>>
        BY PlacesAre
    <2>2. PICK j \in DOMAIN streams[i] : p = <<i, j>>
        BY <2>1
    <2>3. j <= pos[i]
        BY <1>1
    <2> QED
        BY <2>2, <2>3 DEF Consumed
<1>3. order \in Surjection(1 .. n, Places(streams))
    BY <1>2 DEF Surjection, Consumed
<1>4. Cardinality(Places(streams)) <= n
    BY <1>3, FS_SurjCardinalityBound DEF ExistsSurjection
<1> QED
    BY <1>4, PlacesAreFinite

\* Tail, element by element.
LEMMA TailAt ==
    ASSUME NEW R, NEW s \in Seq(R), s # <<>>
    PROVE  /\ Tail(s) \in Seq(R) /\ Len(Tail(s)) = Len(s) - 1
           /\ \A j \in DOMAIN Tail(s) : /\ j \in Nat
                                        /\ j + 1 \in DOMAIN s
                                        /\ Tail(s)[j] = s[j + 1]
OBVIOUS

\* Append, element by element.
LEMMA AppendAt ==
    ASSUME NEW R, NEW s \in Seq(R), NEW r \in R
    PROVE  /\ Append(s, r) \in Seq(R) /\ Len(Append(s, r)) = Len(s) + 1
           /\ \A m \in 1 .. Len(s) : Append(s, r)[m] = s[m]
           /\ Append(s, r)[Len(s) + 1] = r
OBVIOUS

\* One step of the merge takes the next record of one stream.
LEMMA StepConsumes ==
    ASSUME NEW R, Comparable(R), NEW streams \in Seq(Seq(R)), NEW st, NEW n \in Nat,
           NEW pos, NEW order, Consumed(R, streams, st, n, pos, order),
           n < Cardinality(Places(streams))
    PROVE  LET i == LeastHead(st.left)
           IN  Consumed(R, streams, MergeStep(st), n + 1, [pos EXCEPT ![i] = @ + 1],
                        [m \in 1 .. n + 1 |-> IF m = n + 1 THEN <<i, pos[i] + 1>>
                                              ELSE order[m]])
<1> DEFINE i == LeastHead(st.left)
           next == MergeStep(st)
           pos2 == [pos EXCEPT ![i] = @ + 1]
           order2 == [m \in 1 .. n + 1 |-> IF m = n + 1 THEN <<i, pos[i] + 1>> ELSE order[m]]
<1>1. st.left \in Seq(Seq(R)) /\ st.merged \in Seq(R) /\ DOMAIN st.left = DOMAIN streams
    BY DEF Consumed
<1>2. i \in DOMAIN streams /\ st.left[i] # <<>>
    BY <1>1, SomeStreamIsOpen, LeastHeadIsLeast
<1> HIDE DEF i
<1>3. pos[i] \in Nat /\ Len(streams[i]) \in Nat /\ pos[i] + 1 \in DOMAIN streams[i]
    BY <1>1, <1>2 DEF Consumed
<1>4. Head(st.left[i]) = streams[i][pos[i] + 1] /\ Head(st.left[i]) \in R
    BY <1>1, <1>2, <1>3 DEF Consumed
<1>5. /\ next.left = [st.left EXCEPT ![i] = Tail(@)]
      /\ next.merged = Append(st.merged, Head(st.left[i]))
    BY DEF MergeStep, i
<1> HIDE DEF next
<1>6. pos2 \in [DOMAIN streams -> Nat] /\ order2 \in [1 .. n + 1 -> Places(streams)]
    <2>1. <<i, pos[i] + 1>> \in Places(streams)
        BY <1>2, <1>3, PlacesAre
    <2> QED
        BY <2>1, <1>2 DEF Consumed
<1>7. /\ \A m \in 1 .. n : order2[m] = order[m]
      /\ order2[n + 1] = <<i, pos[i] + 1>>
      /\ \A m \in 1 .. n + 1 : m \in 1 .. n \/ m = n + 1
      /\ 1 .. n \subseteq 1 .. n + 1 /\ n + 1 \in 1 .. n + 1
    OBVIOUS
<1>8. /\ pos2[i] = pos[i] + 1
      /\ \A k \in DOMAIN streams : k # i => pos2[k] = pos[k]
    BY <1>2 DEF Consumed
<1> HIDE DEF order2, pos2
<1>9. ASSUME NEW k \in DOMAIN streams
      PROVE  /\ pos2[k] <= Len(streams[k])
             /\ \A j \in DOMAIN streams[k] :
                   j <= pos2[k] <=> \E m \in 1 .. n + 1 : order2[m] = <<k, j>>
    <2>1. CASE k = i
        <3>1. ASSUME NEW j \in DOMAIN streams[i]
              PROVE  j <= pos[i] + 1 <=> \E m \in 1 .. n + 1 : order2[m] = <<i, j>>
            <4>1. j <= pos[i] <=> \E m \in 1 .. n : order[m] = <<i, j>>
                BY <1>2 DEF Consumed
            <4>2. j <= pos[i] + 1 <=> j <= pos[i] \/ j = pos[i] + 1
                <5>1. j \in Nat
                    BY <1>2
                <5> QED
                    BY <5>1, <1>3
            <4>3. (\E m \in 1 .. n + 1 : order2[m] = <<i, j>>) <=>
                      (\E m \in 1 .. n : order[m] = <<i, j>>) \/ j = pos[i] + 1
                <5>1. ASSUME NEW m \in 1 .. n + 1, order2[m] = <<i, j>>
                      PROVE  (\E q \in 1 .. n : order[q] = <<i, j>>) \/ j = pos[i] + 1
                    <6>1. CASE m \in 1 .. n
                        BY <5>1, <6>1, <1>7
                    <6>2. CASE m = n + 1
                        <7>1. <<i, pos[i] + 1>> = <<i, j>>
                            BY <5>1, <6>2, <1>7
                        <7> QED
                            BY <7>1
                    <6> QED
                        BY <6>1, <6>2, <1>7
                <5>2. ASSUME NEW m \in 1 .. n, order[m] = <<i, j>>
                      PROVE  \E q \in 1 .. n + 1 : order2[q] = <<i, j>>
                    BY <5>2, <1>7
                <5>3. ASSUME j = pos[i] + 1
                      PROVE  \E q \in 1 .. n + 1 : order2[q] = <<i, j>>
                    BY <5>3, <1>7
                <5> QED
                    BY <5>1, <5>2, <5>3
            <4> QED
                BY <4>1, <4>2, <4>3
        <3>2. pos[i] + 1 <= Len(streams[i])
            BY <1>1, <1>2, <1>3
        <3> QED
            BY <3>1, <3>2, <2>1, <1>8
    <2>2. CASE k # i
        <3>1. ASSUME NEW j
              PROVE  (\E m \in 1 .. n + 1 : order2[m] = <<k, j>>) <=>
                         (\E m \in 1 .. n : order[m] = <<k, j>>)
            BY <1>7, <2>2
        <3> QED
            BY <3>1, <2>2, <1>8 DEF Consumed
    <2> QED
        BY <2>1, <2>2
<1>10. ASSUME NEW l \in 1 .. n + 1, NEW m \in 1 .. n + 1, l < m, order2[l][1] = order2[m][1]
       PROVE  order2[l][2] < order2[m][2]
    <2>1. l \in 1 .. n /\ order2[l] = order[l]
        BY <1>7, <1>10
    <2>2. CASE m = n + 1
        <3>1. order[l][1] = i /\ order2[m][2] = pos[i] + 1
            BY <1>7, <1>10, <2>1, <2>2
        <3>2. order[l] \in Places(streams)
            BY <2>1 DEF Consumed
        <3>3. PICK j \in DOMAIN streams[i] : order[l] = <<i, j>>
            BY <3>1, <3>2, PlacesAre
        <3>4. j <= pos[i]
            BY <3>3, <2>1, <1>2 DEF Consumed
        <3>5. j \in Nat
            BY <3>3, <1>2
        <3> QED
            BY <3>1, <3>3, <3>4, <3>5, <2>1, <1>3
    <2>3. CASE m # n + 1
        <3>1. m \in 1 .. n /\ order2[m] = order[m]
            BY <1>7, <2>3
        <3> QED
            BY <1>10, <2>1, <3>1 DEF Consumed
    <2> QED
        BY <2>2, <2>3
<1>11. next.left \in Seq(Seq(R)) /\ DOMAIN next.left = DOMAIN streams
    BY <1>1, <1>2, <1>5
<1>12. ASSUME NEW k \in DOMAIN streams
       PROVE  /\ Len(next.left[k]) = Len(streams[k]) - pos2[k]
              /\ \A j \in DOMAIN next.left[k] : next.left[k][j] = streams[k][pos2[k] + j]
    <2>1. CASE k = i
        <3>1. next.left[i] = Tail(st.left[i])
            BY <1>1, <1>2, <1>5
        <3>2. /\ Len(st.left[i]) = Len(streams[i]) - pos[i]
              /\ \A j \in DOMAIN st.left[i] : st.left[i][j] = streams[i][pos[i] + j]
            BY <1>2 DEF Consumed
        <3>3. st.left[i] \in Seq(R)
            BY <1>1, <1>2
        <3>4. /\ Len(next.left[i]) = Len(st.left[i]) - 1
              /\ \A j \in DOMAIN next.left[i] : /\ j \in Nat
                                                /\ j + 1 \in DOMAIN st.left[i]
                                                /\ next.left[i][j] = st.left[i][j + 1]
            BY <3>1, <3>3, <1>2, TailAt
        <3>5. \A j \in DOMAIN next.left[i] : next.left[i][j] = streams[i][(pos[i] + 1) + j]
            <4> TAKE j \in DOMAIN next.left[i]
            <4>1. next.left[i][j] = streams[i][pos[i] + (j + 1)]
                BY <3>2, <3>4
            <4>2. j \in Nat
                BY <3>4
            <4>3. pos[i] + (j + 1) = (pos[i] + 1) + j
                <5>1. \A p, q \in Nat : p + (q + 1) = (p + 1) + q
                    OBVIOUS
                <5> QED
                    BY <5>1, <4>2, <1>3
            <4> QED
                BY <4>1, <4>3
        <3>6. Len(next.left[i]) = Len(streams[i]) - (pos[i] + 1)
            BY <3>2, <3>4, <1>3
        <3> QED
            BY <3>5, <3>6, <2>1, <1>8
    <2>2. CASE k # i
        <3>1. next.left[k] = st.left[k] /\ pos2[k] = pos[k]
            BY <2>2, <1>1, <1>5, <1>8
        <3> QED
            BY <3>1 DEF Consumed
    <2> QED
        BY <2>1, <2>2
<1>13. /\ next.merged \in Seq(R) /\ Len(next.merged) = n + 1
       /\ \A m \in 1 .. n + 1 : next.merged[m] = RecordAt(streams, order2[m])
    <2>1. Len(st.merged) = n /\ \A m \in 1 .. n : st.merged[m] = RecordAt(streams, order[m])
        BY DEF Consumed
    <2>2. RecordAt(streams, <<i, pos[i] + 1>>) = Head(st.left[i])
        BY <1>4 DEF RecordAt
    <2>3. /\ next.merged \in Seq(R) /\ Len(next.merged) = Len(st.merged) + 1
          /\ \A m \in 1 .. Len(st.merged) : next.merged[m] = st.merged[m]
          /\ next.merged[Len(st.merged) + 1] = Head(st.left[i])
        BY <1>1, <1>4, <1>5, AppendAt
    <2> QED
        BY <2>1, <2>2, <2>3, <1>7
<1>14. Consumed(R, streams, next, n + 1, pos2, order2)
    BY <1>6, <1>9, <1>10, <1>11, <1>12, <1>13 DEF Consumed
<1> QED
    BY <1>14 DEF i, next, pos2, order2

(***************************************************************************)
(* The merge, step after step.                                             *)
(***************************************************************************)

Unmerged(streams) == [left |-> streams, merged |-> <<>>]
Steps(streams) == [n \in 1 .. Cardinality(Places(streams)) |-> n]
Given(R, streams) == [records |-> R, streams |-> streams]

\* At first nothing is merged.
LEMMA NothingConsumed ==
    ASSUME NEW R, NEW streams \in Seq(Seq(R))
    PROVE  ConsumedSoFar(Given(R, streams), 0, Unmerged(streams))
<1>1. Consumed(R, streams, Unmerged(streams), 0, [i \in DOMAIN streams |-> 0],
               [m \in 1 .. 0 |-> <<>>])
    BY DEF Consumed, Unmerged
<1> QED
    BY <1>1 DEF ConsumedSoFar, Given

\* After n steps n records are.
LEMMA StepConsumesOne ==
    ASSUME NEW R, Comparable(R), NEW streams \in Seq(Seq(R)), NEW st,
           NEW n \in 1 .. Cardinality(Places(streams)),
           ConsumedSoFar(Given(R, streams), n - 1, st)
    PROVE  ConsumedSoFar(Given(R, streams), n, MergeStep(st))
<1>1. PICK pos, order : Consumed(R, streams, st, n - 1, pos, order)
    BY DEF ConsumedSoFar, Given
<1>2. Cardinality(Places(streams)) \in Nat
    BY PlacesAreFinite
<1>3. n - 1 \in Nat /\ n - 1 < Cardinality(Places(streams)) /\ (n - 1) + 1 = n
    BY <1>2
<1>4. \E p, o : Consumed(R, streams, MergeStep(st), (n - 1) + 1, p, o)
    BY <1>1, <1>3, StepConsumes
<1> QED
    BY <1>3, <1>4 DEF ConsumedSoFar, Given

\* A merge is a reordering of the records of its streams: each of them is in the result
\* exactly once, and those of one stream in the order they had there (merger.rs:1-3).
THEOREM MergeTakesAll ==
    ASSUME NEW R, Comparable(R), NEW streams \in Seq(Seq(R))
    PROVE  /\ MergeStreams(streams) \in Seq(R)
           /\ Len(MergeStreams(streams)) = Cardinality(Places(streams))
           /\ \E order \in Bijection(1 .. Len(MergeStreams(streams)), Places(streams)) :
                 /\ \A m \in DOMAIN MergeStreams(streams) :
                       MergeStreams(streams)[m] = RecordAt(streams, order[m])
                 /\ \A l, m \in DOMAIN MergeStreams(streams) :
                       l < m /\ order[l][1] = order[m][1] => order[l][2] < order[m][2]
<1> DEFINE N == Cardinality(Places(streams))
<1>1. N \in Nat /\ IsFiniteSet(Places(streams))
    BY PlacesAreFinite
<1> DEFINE c == Given(R, streams)
           done == Consuming!Loop(c, Unmerged(streams), Steps(streams))
<1>2. MergeStreams(streams) = done.merged
    BY DEF MergeStreams, Unmerged, Steps, Consuming!Loop, FoldLeft, Consuming!FoldLeft,
           MapThenFoldSet, Consuming!MapThenFoldSet, Max, Consuming!Max
<1>3. PICK pos, order : Consumed(R, streams, done, N, pos, order)
    <2>1. \A n \in 1 .. N : \A st :
              ConsumedSoFar(c, n - 1, st) => ConsumedSoFar(c, n, MergeStep(st))
        BY StepConsumesOne
    <2>2. ConsumedSoFar(c, 0, Unmerged(streams)) /\ DOMAIN Steps(streams) = 1 .. N
        BY NothingConsumed DEF Steps
    <2>3. ConsumedSoFar(c, N, done)
        <3> HIDE DEF c, N
        <3> QED
            BY <1>1, <2>1, <2>2, Consuming!FoldKeeps
    <2> QED
        BY <2>3 DEF ConsumedSoFar, Given
<1> HIDE DEF done
<1> HIDE DEF N
<1>4. /\ MergeStreams(streams) \in Seq(R) /\ Len(MergeStreams(streams)) = N
      /\ \A m \in 1 .. N : MergeStreams(streams)[m] = RecordAt(streams, order[m])
      /\ order \in [1 .. N -> Places(streams)]
      /\ \A l, m \in 1 .. N :
            l < m /\ order[l][1] = order[m][1] => order[l][2] < order[m][2]
    BY <1>2, <1>3 DEF Consumed
<1>5. ASSUME NEW l \in 1 .. N, NEW m \in 1 .. N, order[l] = order[m] PROVE l = m
    <2>1. order[l][2] \in Nat /\ order[m][2] \in Nat
        <3>1. PICK p \in Places(streams) : p = order[l]
            BY <1>4
        <3>2. PICK i \in DOMAIN streams : \E j \in DOMAIN streams[i] : p = <<i, j>>
            BY PlacesAre
        <3>3. PICK j \in DOMAIN streams[i] : p = <<i, j>>
            BY <3>2
        <3>4. j \in Nat /\ p[2] = j
            BY <3>3
        <3> QED
            BY <3>1, <3>4, <1>5
    <2>2. ~(l < m) /\ ~(m < l)
        BY <2>1, <1>4, <1>5
    <2> QED
        BY <2>2
<1>6. order \in Injection(1 .. N, Places(streams))
    BY <1>4, <1>5 DEF Injection, IsInjective
<1>7. Cardinality(1 .. N) = N
    BY <1>1, FS_Interval
<1>8. order \in Surjection(1 .. N, Places(streams))
    BY <1>1, <1>6, <1>7, FS_Injection DEF N
<1>9. order \in Bijection(1 .. N, Places(streams)) /\ DOMAIN MergeStreams(streams) = 1 .. N
    BY <1>4, <1>6, <1>8 DEF Bijection
<1> QED
    BY <1>4, <1>9 DEF N

(***************************************************************************)
(* A merge of ordered streams is ordered.                                  *)
(***************************************************************************)

\* In the order of the records, "does not precede" is transitive.
LEMMA NotBefore ==
    ASSUME NEW R, Comparable(R), NEW a \in R, NEW b \in R, NEW c \in R,
           ~Precedes(b, a), ~Precedes(c, b)
    PROVE  ~Precedes(c, a)
<1>1. Key(a) \in Nat /\ Key(b) \in Nat /\ Key(c) \in Nat
    BY KeyOrder
<1>2. Key(a) <= Key(b) /\ Key(b) <= Key(c)
    BY KeyOrder
<1>3. Key(a) <= Key(c)
    BY <1>1, <1>2
<1> QED
    BY <1>3, KeyOrder

\* One step of the merge keeps the order.
LEMMA StepKeepsOrder ==
    ASSUME NEW R, Comparable(R), NEW st, st.left \in Seq(Seq(R)), st.merged \in Seq(R),
           NEW k \in DOMAIN st.left, st.left[k] # <<>>, Ordered(st)
    PROVE  Ordered(MergeStep(st))
<1> DEFINE i == LeastHead(st.left)
           x == Head(st.left[i])
           next == MergeStep(st)
<1>1. /\ i \in DOMAIN st.left /\ st.left[i] # <<>>
      /\ \A j \in DOMAIN st.left : st.left[j] # <<>> => ~Precedes(Head(st.left[j]), x)
    BY LeastHeadIsLeast
<1>2. next.left = [st.left EXCEPT ![i] = Tail(@)] /\ next.merged = Append(st.merged, x)
    BY DEF MergeStep
<1>3. x \in R /\ x = st.left[i][1] /\ 1 \in DOMAIN st.left[i]
    BY <1>1
<1> HIDE DEF i, x, next
<1>4. /\ Len(next.merged) = Len(st.merged) + 1
      /\ \A m \in 1 .. Len(st.merged) : next.merged[m] = st.merged[m]
      /\ next.merged[Len(st.merged) + 1] = x
      /\ DOMAIN next.merged = 1 .. Len(st.merged) + 1
    BY <1>2, <1>3, AppendAt
<1>5. \A m \in DOMAIN st.merged : ~Precedes(x, st.merged[m])
    BY <1>1, <1>3 DEF Ordered
<1>6. InOrder(next.merged)
    <2> SUFFICES ASSUME NEW l \in DOMAIN next.merged, NEW m \in DOMAIN next.merged, l < m
                 PROVE  ~Precedes(next.merged[m], next.merged[l])
        BY DEF InOrder
    <2>1. l \in 1 .. Len(st.merged) /\ l \in DOMAIN st.merged
        BY <1>4
    <2>2. CASE m = Len(st.merged) + 1
        BY <2>1, <2>2, <1>4, <1>5
    <2>3. CASE m # Len(st.merged) + 1
        <3>1. m \in 1 .. Len(st.merged) /\ m \in DOMAIN st.merged
            BY <2>3, <1>4
        <3>2. next.merged[l] = st.merged[l] /\ next.merged[m] = st.merged[m]
            BY <2>1, <3>1, <1>4
        <3> QED
            BY <2>1, <3>1, <3>2 DEF Ordered, InOrder
    <2> QED
        BY <2>2, <2>3
<1>7. ASSUME NEW n \in DOMAIN next.left, NEW j \in DOMAIN next.left[n]
      PROVE  \E q \in DOMAIN st.left[n] :
                 next.left[n][j] = st.left[n][q] /\ q = IF n = i THEN j + 1 ELSE j
    <2>1. CASE n = i
        <3>1. next.left[n] = Tail(st.left[n]) /\ st.left[n] \in Seq(R)
            BY <2>1, <1>1, <1>2
        <3> QED
            BY <3>1, <2>1, <1>1, TailAt
    <2>2. CASE n # i
        BY <2>2, <1>2
    <2> QED
        BY <2>1, <2>2
<1>8. DOMAIN next.left = DOMAIN st.left
    BY <1>2
<1>9. ASSUME NEW n \in DOMAIN next.left PROVE InOrder(next.left[n])
    <2> SUFFICES ASSUME NEW l \in DOMAIN next.left[n], NEW m \in DOMAIN next.left[n], l < m
                 PROVE  ~Precedes(next.left[n][m], next.left[n][l])
        BY DEF InOrder
    <2>1. PICK p \in DOMAIN st.left[n] :
              next.left[n][l] = st.left[n][p] /\ p = IF n = i THEN l + 1 ELSE l
        BY <1>7
    <2>2. PICK q \in DOMAIN st.left[n] :
              next.left[n][m] = st.left[n][q] /\ q = IF n = i THEN m + 1 ELSE m
        BY <1>7
    <2>3. p < q
        <3>1. next.left[n] \in Seq(R)
            BY <1>1, <1>2, <1>8
        <3>2. l \in Nat /\ m \in Nat
            BY <3>1
        <3> QED
            BY <2>1, <2>2, <3>2
    <2> QED
        BY <2>1, <2>2, <2>3, <1>8 DEF Ordered, InOrder
<1>10. ASSUME NEW n \in DOMAIN st.left, NEW q \in DOMAIN st.left[n]
       PROVE  ~Precedes(st.left[n][q], x) /\ st.left[n][q] \in R
    <2>1. st.left[n] \in Seq(R) /\ st.left[n] # <<>>
        OBVIOUS
    <2>2. Head(st.left[n]) \in R /\ st.left[n][q] \in R /\ ~Precedes(Head(st.left[n]), x)
        BY <2>1, <1>1
    <2>3. ~Precedes(st.left[n][q], Head(st.left[n]))
        <3>1. Head(st.left[n]) = st.left[n][1] /\ 1 \in DOMAIN st.left[n] /\ q \in Nat
            BY <2>1
        <3>2. CASE q = 1
            BY <3>1, <3>2, <2>2, KeyOrder
        <3>3. CASE q # 1
            <4>1. 1 < q
                BY <2>1, <3>3
            <4> QED
                BY <3>1, <4>1 DEF Ordered, InOrder
        <3> QED
            BY <3>2, <3>3
    <2> QED
        BY <2>2, <2>3, <1>3, NotBefore
<1>11. ASSUME NEW m \in DOMAIN next.merged, NEW n \in DOMAIN next.left,
              NEW j \in DOMAIN next.left[n]
       PROVE  ~Precedes(next.left[n][j], next.merged[m])
    <2>1. PICK q \in DOMAIN st.left[n] : next.left[n][j] = st.left[n][q]
        BY <1>7
    <2>2. CASE m = Len(st.merged) + 1
        BY <2>1, <2>2, <1>4, <1>8, <1>10
    <2>3. CASE m # Len(st.merged) + 1
        <3>1. m \in DOMAIN st.merged /\ next.merged[m] = st.merged[m]
            BY <2>3, <1>4
        <3> QED
            BY <2>1, <3>1, <1>8 DEF Ordered
    <2> QED
        BY <2>2, <2>3
<1> QED
    BY <1>6, <1>8, <1>9, <1>11 DEF Ordered, next

\* A merge of streams that are in order is in order (merger.rs:1-3).
THEOREM MergeIsInOrder ==
    ASSUME NEW R, Comparable(R), NEW streams \in Seq(Seq(R)),
           \A i \in DOMAIN streams : InOrder(streams[i])
    PROVE  InOrder(MergeStreams(streams))
<1> DEFINE N == Cardinality(Places(streams))
           c == Given(R, streams)
           done == Ordering!Loop(c, Unmerged(streams), Steps(streams))
<1>1. N \in Nat
    BY PlacesAreFinite
<1>2. MergeStreams(streams) = done.merged
    BY DEF MergeStreams, Unmerged, Steps, Ordering!Loop, FoldLeft, Ordering!FoldLeft,
           MapThenFoldSet, Ordering!MapThenFoldSet, Max, Ordering!Max
<1>3. OrderedSoFar(c, 0, Unmerged(streams)) /\ DOMAIN Steps(streams) = 1 .. N
    <2>1. Ordered(Unmerged(streams))
        BY DEF Unmerged, Ordered, InOrder
    <2> QED
        BY <2>1, NothingConsumed DEF Steps, OrderedSoFar
<1>4. ASSUME NEW n \in 1 .. N, NEW st, OrderedSoFar(c, n - 1, st)
      PROVE  OrderedSoFar(c, n, MergeStep(st))
    <2>1. PICK pos, order : Consumed(R, streams, st, n - 1, pos, order)
        BY <1>4 DEF OrderedSoFar, ConsumedSoFar, Given
    <2>2. n - 1 \in Nat /\ n - 1 < N
        BY <1>1
    <2>3. \E k \in DOMAIN st.left : st.left[k] # <<>>
        BY <2>1, <2>2, SomeStreamIsOpen
    <2>4. st.left \in Seq(Seq(R)) /\ st.merged \in Seq(R)
        BY <2>1 DEF Consumed
    <2>5. Ordered(MergeStep(st))
        BY <2>3, <2>4, <1>4, StepKeepsOrder DEF OrderedSoFar
    <2> QED
        BY <2>5, <1>4, StepConsumesOne DEF OrderedSoFar
<1>5. OrderedSoFar(c, N, done)
    <2> HIDE DEF c, N
    <2> QED
        BY <1>1, <1>3, <1>4, Ordering!FoldKeeps
<1> QED
    BY <1>2, <1>5 DEF OrderedSoFar, Ordered

-----------------------------------------------------------------------------
(* The loop of a scan.                                                     *)

\* N units, as they follow one another in the file
Ascending(units, N) ==
    /\ DOMAIN units = 1 .. N
    /\ \A n \in 1 .. N : units[n].at \in Nat /\ Len(units[n].char) \in Nat
    /\ \A l, m \in 1 .. N : l < m => units[l].at < units[m].at

\* none of them before the chunk
NoneBefore(units, N, first) == \A n \in 1 .. N : units[n].at >= first

\* a run among the first n of them
RunAmong(run, units, n) ==
    /\ run \in Seq(ToSet(units)) /\ run # <<>>
    /\ \E m \in 1 .. n : run[1] = units[m]

\* the runs start one after the other
StartInTurn(runs) == \A k, l \in DOMAIN runs : k < l => runs[k][1].at < runs[l][1].at

\* After n units the runs are of units of the sequence and start one after the other, and
\* the open one goes up to the last unit that was taken.
ScannedSoFar(units, n, acc) ==
    /\ acc = [closed |-> acc.closed, open |-> acc.open]
    /\ acc.open \in Seq(ToSet(units)) /\ acc.closed \in Seq(Seq(ToSet(units)))
    /\ \A k \in DOMAIN acc.closed : RunAmong(acc.closed[k], units, n)
    /\ StartInTurn(acc.closed)
    /\ acc.open # <<>> =>
          /\ RunAmong(acc.open, units, n)
          /\ acc.open[Len(acc.open)] = units[n]
          /\ \A k \in DOMAIN acc.closed : acc.closed[k][1].at < acc.open[1].at

Scanning == INSTANCE LeftFold WITH Body <- LAMBDA units, acc, unit : TakeUnit(acc, unit),
                                   Kept <- ScannedSoFar

\* One unit is taken.
LEMMA TakeUnitKeeps ==
    ASSUME NEW units, NEW N \in Nat, Ascending(units, N), NEW n \in 1 .. N,
           NEW acc, ScannedSoFar(units, n - 1, acc)
    PROVE  ScannedSoFar(units, n, TakeUnit(acc, units[n]))
<1> DEFINE next == TakeUnit(acc, units[n])
           U == ToSet(units)
<1>1. units[n] \in U /\ units[n].at \in Nat
    BY DEF Ascending, ToSet
<1>2. \A run : RunAmong(run, units, n - 1) => RunAmong(run, units, n) /\ run[1].at < units[n].at
    <2> SUFFICES ASSUME NEW run, RunAmong(run, units, n - 1)
                 PROVE  RunAmong(run, units, n) /\ run[1].at < units[n].at
        OBVIOUS
    <2>1. PICK m \in 1 .. n - 1 : run[1] = units[m]
        BY DEF RunAmong
    <2>2. m \in 1 .. n /\ m \in 1 .. N /\ m < n
        OBVIOUS
    <2> QED
        BY <2>1, <2>2 DEF RunAmong, Ascending
<1> HIDE DEF U
<1>0. /\ acc.open \in Seq(U) /\ Len(acc.open) \in Nat
      /\ acc.closed \in Seq(Seq(U)) /\ Len(acc.closed) \in Nat
      /\ DOMAIN acc.closed = 1 .. Len(acc.closed)
    BY DEF ScannedSoFar, U
<1>3. CASE units[n].kind = "text"
    <2> DEFINE more == Append(acc.open, units[n])
    <2>1. next = [closed |-> acc.closed, open |-> more]
        BY <1>3 DEF TakeUnit, ScannedSoFar
    <2>2. /\ more \in Seq(U) /\ more # <<>>
          /\ Len(more) = Len(acc.open) + 1 /\ more[Len(more)] = units[n]
          /\ more[1] = IF acc.open = <<>> THEN units[n] ELSE acc.open[1]
        <3>1. /\ more \in Seq(U) /\ Len(more) = Len(acc.open) + 1
              /\ \A m \in 1 .. Len(acc.open) : more[m] = acc.open[m]
              /\ more[Len(acc.open) + 1] = units[n]
            BY <1>0, <1>1, AppendAt
        <3>2. CASE acc.open = <<>>
            BY <3>1, <3>2, <1>0
        <3>3. CASE acc.open # <<>>
            <4>1. 1 \in 1 .. Len(acc.open)
                BY <3>3, <1>0
            <4> QED
                BY <3>1, <3>3, <4>1, <1>0
        <3> QED
            BY <3>2, <3>3
    <2> HIDE DEF more
    <2>3. RunAmong(more, units, n)
        <3>1. \E m \in 1 .. n : more[1] = units[m]
            BY <2>2, <1>2 DEF RunAmong, ScannedSoFar
        <3> QED
            BY <2>2, <3>1 DEF RunAmong, U
    <2>4. \A k \in DOMAIN acc.closed : acc.closed[k][1].at < more[1].at
        BY <2>2, <1>2 DEF ScannedSoFar
    <2> QED
        BY <2>1, <2>2, <2>3, <2>4, <1>2 DEF ScannedSoFar, U
<1>4. CASE units[n].kind # "text" /\ acc.open = <<>>
    <2>1. next = acc
        BY <1>4 DEF TakeUnit
    <2> QED
        BY <2>1, <1>2, <1>4 DEF ScannedSoFar
<1>5. CASE units[n].kind # "text" /\ acc.open # <<>>
    <2> DEFINE more == Append(acc.closed, acc.open)
    <2>1. next = [closed |-> more, open |-> <<>>]
        BY <1>5 DEF TakeUnit
    <2>2. /\ more \in Seq(Seq(U)) /\ Len(more) = Len(acc.closed) + 1
          /\ \A k \in 1 .. Len(acc.closed) : more[k] = acc.closed[k]
          /\ more[Len(acc.closed) + 1] = acc.open
        BY <1>0, AppendAt
    <2>3. \A k \in DOMAIN more :
              k \in Nat /\ (k \in 1 .. Len(acc.closed) \/ k = Len(acc.closed) + 1)
        BY <2>2, <1>0
    <2> HIDE DEF more
    <2>4. \A k \in DOMAIN more : RunAmong(more[k], units, n)
        <3> TAKE k \in DOMAIN more
        <3>1. CASE k \in 1 .. Len(acc.closed)
            BY <3>1, <2>2, <1>0, <1>2 DEF ScannedSoFar
        <3>2. CASE k = Len(acc.closed) + 1
            BY <3>2, <2>2, <1>2, <1>5 DEF ScannedSoFar
        <3> QED
            BY <3>1, <3>2, <2>3
    <2>5. StartInTurn(more)
        <3> SUFFICES ASSUME NEW k \in DOMAIN more, NEW l \in DOMAIN more, k < l
                     PROVE  more[k][1].at < more[l][1].at
            BY DEF StartInTurn
        <3>1. k \in 1 .. Len(acc.closed) /\ k \in DOMAIN acc.closed
            <4>1. k \in 1 .. Len(acc.closed) \/ k = Len(acc.closed) + 1
                BY <2>3
            <4>2. l \in 1 .. Len(acc.closed) \/ l = Len(acc.closed) + 1
                BY <2>3
            <4>3. k \in Nat /\ l \in Nat
                BY <2>3
            <4> QED
                BY <4>1, <4>2, <4>3, <1>0
        <3> QED
            BY <3>1, <2>2, <2>3, <1>0, <1>5 DEF ScannedSoFar, StartInTurn
    <2> QED
        BY <2>1, <2>2, <2>4, <2>5 DEF ScannedSoFar, U
<1> QED
    BY <1>3, <1>4, <1>5

\* All of them are.
LEMMA ScannedIs ==
    ASSUME NEW units, NEW N \in Nat, Ascending(units, N)
    PROVE  ScannedSoFar(units, N, Scanned(units))
<1> DEFINE base == [closed |-> <<>>, open |-> <<>>]
<1>1. ScannedSoFar(units, 0, base)
    BY DEF ScannedSoFar, StartInTurn
<1>2. \A n \in 1 .. N : \A a : ScannedSoFar(units, n - 1, a) =>
                                   ScannedSoFar(units, n, TakeUnit(a, units[n]))
    BY TakeUnitKeeps
<1>3. DOMAIN units = 1 .. N
    BY DEF Ascending
<1>4. Scanned(units) = Scanning!Loop(units, base, units)
    BY DEF Scanned, Scanning!Loop, FoldLeft, Scanning!FoldLeft, MapThenFoldSet,
           Scanning!MapThenFoldSet, Max, Scanning!Max
<1> HIDE DEF base
<1>5. ScannedSoFar(units, N, Scanning!Loop(units, base, units))
    BY <1>1, <1>2, <1>3, Scanning!FoldKeeps
<1> QED
    BY <1>4, <1>5

-----------------------------------------------------------------------------
(* The records of the runs.                                                *)

\* a text record of the chunk at first .. end - 1
TextOf(rec, encoding, first, end) ==
    /\ IsRecord(rec)
    /\ rec.encoding = encoding
    /\ ~rec.raw /\ rec.raw \in BOOLEAN
    /\ rec.offset \in Nat /\ rec.offset >= first /\ (rec.offset = first => rec.starts)
    /\ rec.cb \in Int
    /\ rec.ends => End(rec) >= end

\* what a scanner delivers: such records, in order
Delivered(recs, encoding, first, end) ==
    /\ recs \in Seq(ToSet(recs))
    /\ InOrder(recs)
    /\ \A rec \in ToSet(recs) : TextOf(rec, encoding, first, end)

\* The record of a run is at the run's first unit and goes up to its last.
LEMMA RunRecordIs ==
    ASSUME NEW units, NEW N \in Nat, Ascending(units, N), NEW run \in Seq(ToSet(units)),
           run # <<>>, NEW encoding, NEW starts, NEW ends, NEW first, NEW end,
           run[1].at >= first, run[1].at = first => starts,
           ends => After(run[Len(run)]) >= end
    PROVE  /\ TextOf(RunRecord(run, encoding, starts, ends), encoding, first, end)
           /\ RunRecord(run, encoding, starts, ends).offset = run[1].at
<1> DEFINE rec == RunRecord(run, encoding, starts, ends)
<1>1. \A unit \in ToSet(units) : unit.at \in Nat /\ Len(unit.char) \in Nat
    BY DEF Ascending, ToSet
<1>2. run[1] \in ToSet(units) /\ run[Len(run)] \in ToSet(units) /\ Last(run) = run[Len(run)]
    BY DEF Last
<1>3. run[1].at \in Nat /\ After(run[Len(run)]) \in Nat
    BY <1>1, <1>2 DEF After
<1> DEFINE data == [k \in DOMAIN run |-> run[k].char]
           cb == After(run[Len(run)]) - run[1].at
<1>4. rec = [offset |-> run[1].at, cb |-> cb, cch |-> Len(run), encoding |-> encoding,
             starts |-> starts, ends |-> ends, raw |-> FALSE, data |-> data]
    BY <1>2 DEF RunRecord, TextRecord
<1> HIDE DEF data, rec
<1>5. cb \in Int /\ run[1].at + cb = After(run[Len(run)])
    BY <1>3
<1> HIDE DEF cb
<1>6. IsRecord(rec)
    BY <1>4 DEF IsRecord
<1>7. TextOf(rec, encoding, first, end) /\ rec.offset = run[1].at
    BY <1>3, <1>4, <1>5, <1>6 DEF TextOf, End
<1> QED
    BY <1>7 DEF rec

\* the records of the runs of a scan, for the chunk at first .. end - 1
OfRuns(recs, scanned, encoding, first, end) ==
    /\ DOMAIN recs = DOMAIN RunsOf(scanned)
    /\ \A k \in DOMAIN recs :
          \E starts, ends :
              /\ recs[k] = RunRecord(RunsOf(scanned)[k], encoding, starts, ends)
              /\ RunsOf(scanned)[k][1].at = first => starts
              /\ ends => /\ scanned.open # <<>>
                         /\ RunsOf(scanned)[k] = scanned.open
                         /\ After(scanned.open[Len(scanned.open)]) >= end

\* They are delivered in order.
LEMMA RunsAreDelivered ==
    ASSUME NEW units, NEW N \in Nat, Ascending(units, N), NEW recs, NEW encoding,
           NEW first, NEW end, NoneBefore(units, N, first),
           recs = [k \in DOMAIN recs |-> recs[k]],
           OfRuns(recs, Scanned(units), encoding, first, end)
    PROVE  Delivered(recs, encoding, first, end)
<1> DEFINE scanned == Scanned(units)
           runs == RunsOf(scanned)
           U == ToSet(units)
<1>1. ScannedSoFar(units, N, scanned)
    BY ScannedIs
<1> HIDE DEF scanned
<1>2. /\ scanned.closed \in Seq(Seq(U)) /\ scanned.open \in Seq(U)
      /\ Len(scanned.closed) \in Nat /\ DOMAIN scanned.closed = 1 .. Len(scanned.closed)
    BY <1>1 DEF ScannedSoFar
<1>3. /\ runs \in Seq(Seq(U))
      /\ \A k \in DOMAIN runs : runs[k] # <<>>
      /\ StartInTurn(runs)
    <2>1. CASE scanned.open = <<>>
        <3>1. runs = scanned.closed
            BY <2>1 DEF RunsOf
        <3> QED
            BY <1>1, <1>2, <3>1 DEF ScannedSoFar, RunAmong
    <2>2. CASE scanned.open # <<>>
        <3>1. runs = Append(scanned.closed, scanned.open)
            BY <2>2 DEF RunsOf
        <3> HIDE DEF runs
        <3>2. /\ runs \in Seq(Seq(U)) /\ Len(runs) = Len(scanned.closed) + 1
              /\ \A k \in 1 .. Len(scanned.closed) : runs[k] = scanned.closed[k]
              /\ runs[Len(scanned.closed) + 1] = scanned.open
            BY <1>2, <3>1, AppendAt
        <3>3. \A k \in DOMAIN runs :
                  k \in Nat /\ (k \in 1 .. Len(scanned.closed) \/ k = Len(scanned.closed) + 1)
            BY <3>2, <1>2
        <3>4. ASSUME NEW k \in DOMAIN runs PROVE runs[k] # <<>>
            <4>1. CASE k \in 1 .. Len(scanned.closed)
                BY <4>1, <3>2, <1>1, <1>2 DEF ScannedSoFar, RunAmong
            <4>2. CASE k = Len(scanned.closed) + 1
                BY <4>2, <3>2, <2>2
            <4> QED
                BY <4>1, <4>2, <3>3
        <3>5. ASSUME NEW k \in DOMAIN runs, NEW l \in DOMAIN runs, k < l
              PROVE  runs[k][1].at < runs[l][1].at
            <4>1. /\ k \in Nat /\ (k \in 1 .. Len(scanned.closed) \/ k = Len(scanned.closed) + 1)
                  /\ l \in Nat /\ (l \in 1 .. Len(scanned.closed) \/ l = Len(scanned.closed) + 1)
                BY <3>3
            <4>2. k \in 1 .. Len(scanned.closed)
                BY <4>1, <3>5, <1>2
            <4>3. CASE l \in 1 .. Len(scanned.closed)
                BY <4>2, <4>3, <3>2, <3>5, <1>1, <1>2 DEF ScannedSoFar, StartInTurn
            <4>4. CASE l = Len(scanned.closed) + 1
                BY <4>2, <4>4, <3>2, <1>1, <1>2, <2>2 DEF ScannedSoFar
            <4> QED
                BY <4>1, <4>3, <4>4
        <3> QED
            BY <3>2, <3>4, <3>5 DEF StartInTurn
    <2> QED
        BY <2>1, <2>2
<1> HIDE DEF runs
<1>4. DOMAIN recs = DOMAIN runs
    BY DEF OfRuns, runs, scanned
<1>5. ASSUME NEW k \in DOMAIN recs
      PROVE  TextOf(recs[k], encoding, first, end) /\ recs[k].offset = runs[k][1].at
    <2>1. PICK starts, ends :
              /\ recs[k] = RunRecord(runs[k], encoding, starts, ends)
              /\ runs[k][1].at = first => starts
              /\ ends => /\ scanned.open # <<>>
                         /\ runs[k] = scanned.open
                         /\ After(scanned.open[Len(scanned.open)]) >= end
        BY DEF OfRuns, runs, scanned
    <2>2. runs[k] \in Seq(U) /\ runs[k] # <<>> /\ runs[k][1].at >= first
        <3>1. \A unit \in U : unit.at >= first
            BY DEF Ascending, NoneBefore, ToSet
        <3> QED
            BY <1>3, <1>4, <3>1
    <2>3. /\ runs[k][1].at = first => starts
          /\ ends => After(runs[k][Len(runs[k])]) >= end
        BY <2>1
    <2>4. /\ TextOf(RunRecord(runs[k], encoding, starts, ends), encoding, first, end)
          /\ RunRecord(runs[k], encoding, starts, ends).offset = runs[k][1].at
        <3> HIDE DEF U
        <3>1. \A run \in Seq(U) : run # <<>> /\ run[1].at >= first => \A s, e :
                  (run[1].at = first => s) /\ (e => After(run[Len(run)]) >= end) =>
                      /\ TextOf(RunRecord(run, encoding, s, e), encoding, first, end)
                      /\ RunRecord(run, encoding, s, e).offset = run[1].at
            BY RunRecordIs DEF U
        <3> QED
            BY <3>1, <2>2, <2>3, Zenon
    <2> QED
        BY <2>1, <2>4
<1>6. recs \in Seq(ToSet(recs))
    <2>1. PICK M \in Nat : DOMAIN recs = 1 .. M
        BY <1>3, <1>4
    <2>2. \A k \in 1 .. M : recs[k] \in ToSet(recs)
        BY <2>1 DEF ToSet
    <2> QED
        BY <2>1, <2>2
<1>7. InOrder(recs)
    <2> SUFFICES ASSUME NEW k \in DOMAIN recs, NEW l \in DOMAIN recs, k < l
                 PROVE  ~Precedes(recs[l], recs[k])
        BY DEF InOrder
    <2>1. recs[k].offset < recs[l].offset
        BY <1>3, <1>4, <1>5 DEF StartInTurn
    <2>2. recs[k].offset \in Nat /\ recs[l].offset \in Nat
        BY <1>5 DEF TextOf
    <2> QED
        BY <2>1, <2>2 DEF Precedes
<1>8. \A rec \in ToSet(recs) : TextOf(rec, encoding, first, end)
    BY <1>5 DEF ToSet
<1> QED
    BY <1>6, <1>7, <1>8 DEF Delivered

\* A function on 1 .. n is a sequence.
LEMMA IsSequence ==
    ASSUME NEW R, NEW n \in Nat, NEW s, s = [k \in 1 .. n |-> s[k]],
           \A k \in 1 .. n : s[k] \in R
    PROVE  s \in Seq(R) /\ Len(s) = n
<1>1. s \in Seq(R)
    OBVIOUS
<1>2. DOMAIN s = 1 .. n /\ DOMAIN s = 1 .. Len(s) /\ Len(s) \in Nat
    BY <1>1
<1> QED
    BY <1>1, <1>2

\* The records of the closed runs, and of the open one if there is any, are delivered.
LEMMA ClosedAndOpen ==
    ASSUME NEW units, NEW N \in Nat, Ascending(units, N), NEW encoding, NEW first, NEW end,
           NEW closed, NEW starts, NEW ends, NoneBefore(units, N, first),
           closed = [k \in DOMAIN Scanned(units).closed |-> closed[k]],
           \A k \in DOMAIN closed :
               \E s : /\ closed[k] = RunRecord(Scanned(units).closed[k], encoding, s, FALSE)
                      /\ Scanned(units).closed[k][1].at = first => s,
           Scanned(units).open # <<>> =>
               /\ Scanned(units).open[1].at = first => starts
               /\ ends => After(Scanned(units).open[Len(Scanned(units).open)]) >= end
    PROVE  Delivered(IF Scanned(units).open = <<>> THEN closed
                     ELSE Append(closed,
                                 RunRecord(Scanned(units).open, encoding, starts, ends)),
                     encoding, first, end)
<1> DEFINE scanned == Scanned(units)
           last == RunRecord(scanned.open, encoding, starts, ends)
           recs == IF scanned.open = <<>> THEN closed ELSE Append(closed, last)
           R == Range(closed) \cup {last}
           U == ToSet(units)
<1>1. ScannedSoFar(units, N, scanned)
    BY ScannedIs
<1>2. \A k \in DOMAIN closed :
          \E s : /\ closed[k] = RunRecord(scanned.closed[k], encoding, s, FALSE)
                 /\ scanned.closed[k][1].at = first => s
    OBVIOUS
<1>3. closed = [k \in DOMAIN scanned.closed |-> closed[k]]
    OBVIOUS
<1> HIDE DEF scanned, last, U
<1>4. /\ scanned.closed \in Seq(Seq(U)) /\ scanned.open \in Seq(U)
      /\ Len(scanned.closed) \in Nat /\ DOMAIN scanned.closed = 1 .. Len(scanned.closed)
    BY <1>1 DEF ScannedSoFar, U
<1>5. closed \in Seq(R) /\ Len(closed) = Len(scanned.closed)
    <2>1. \A k \in 1 .. Len(scanned.closed) : closed[k] \in R
        BY <1>3, <1>4 DEF Range
    <2> HIDE DEF R
    <2> DEFINE n == Len(scanned.closed)
    <2>2. n \in Nat /\ closed = [k \in 1 .. n |-> closed[k]]
        BY <1>3, <1>4
    <2>3. \A k \in 1 .. n : closed[k] \in R
        BY <2>1
    <2> HIDE DEF n
    <2>4. closed \in Seq(R) /\ Len(closed) = n
        BY <2>2, <2>3, IsSequence
    <2> QED
        BY <2>4 DEF n
<1> HIDE DEF R
<1>6. CASE scanned.open = <<>>
    <2>1. RunsOf(scanned) = scanned.closed
        BY <1>6 DEF RunsOf
    <2>2. ASSUME NEW k \in DOMAIN closed
          PROVE  \E s, e : /\ closed[k] = RunRecord(RunsOf(scanned)[k], encoding, s, e)
                           /\ RunsOf(scanned)[k][1].at = first => s
                           /\ ~e
        <3>1. PICK s : /\ closed[k] = RunRecord(scanned.closed[k], encoding, s, FALSE)
                       /\ scanned.closed[k][1].at = first => s
            BY <1>2
        <3> QED
            BY <2>1, <3>1
    <2>3. OfRuns(closed, scanned, encoding, first, end)
        BY <1>3, <2>1, <2>2 DEF OfRuns
    <2> QED
        BY <1>3, <1>6, <2>3, RunsAreDelivered DEF scanned
<1>7. CASE scanned.open # <<>>
    <2> DEFINE runs == Append(scanned.closed, scanned.open)
               more == Append(closed, last)
    <2>1. RunsOf(scanned) = runs
        BY <1>7 DEF RunsOf
    <2>2. /\ Len(runs) = Len(scanned.closed) + 1 /\ runs \in Seq(Seq(U))
          /\ \A k \in 1 .. Len(scanned.closed) : runs[k] = scanned.closed[k]
          /\ runs[Len(scanned.closed) + 1] = scanned.open
        BY <1>4, AppendAt
    <2>3. /\ Len(more) = Len(scanned.closed) + 1 /\ more \in Seq(R)
          /\ \A k \in 1 .. Len(scanned.closed) : more[k] = closed[k]
          /\ more[Len(scanned.closed) + 1] = last
        <3>1. last \in R
            BY DEF R
        <3> QED
            BY <1>5, <3>1, AppendAt
    <2> HIDE DEF runs, more
    <2>4. /\ DOMAIN more = DOMAIN runs
          /\ \A k \in DOMAIN more : k \in DOMAIN scanned.closed \/ k = Len(scanned.closed) + 1
        BY <1>4, <2>2, <2>3
    <2>5. ASSUME NEW k \in DOMAIN more
          PROVE  \E s, e :
                    /\ more[k] = RunRecord(runs[k], encoding, s, e)
                    /\ runs[k][1].at = first => s
                    /\ e => /\ scanned.open # <<>>
                            /\ runs[k] = scanned.open
                            /\ After(scanned.open[Len(scanned.open)]) >= end
        <3>1. CASE k \in DOMAIN scanned.closed
            <4>1. more[k] = closed[k] /\ runs[k] = scanned.closed[k]
                BY <3>1, <1>4, <2>2, <2>3
            <4>2. PICK s : /\ closed[k] = RunRecord(scanned.closed[k], encoding, s, FALSE)
                           /\ scanned.closed[k][1].at = first => s
                <5>1. k \in DOMAIN closed
                    BY <3>1, <1>3
                <5> QED
                    BY <1>2, <5>1, Zenon
            <4> QED
                BY <4>1, <4>2
        <3>2. CASE k = Len(scanned.closed) + 1
            <4>1. more[k] = last /\ runs[k] = scanned.open
                BY <3>2, <2>2, <2>3
            <4> QED
                BY <4>1, <1>7 DEF last, scanned
        <3> QED
            BY <3>1, <3>2, <2>4
    <2>6. OfRuns(more, scanned, encoding, first, end)
        BY <2>1, <2>4, <2>5 DEF OfRuns
    <2>7. more = [k \in DOMAIN more |-> more[k]]
        BY <2>3
    <2>8. Delivered(more, encoding, first, end)
        BY <2>6, <2>7, RunsAreDelivered DEF scanned
    <2> QED
        BY <1>7, <2>8 DEF more, last, scanned
<1> QED
    BY <1>6, <1>7

-----------------------------------------------------------------------------
(* emit_record.                                                            *)

\* After n records, those that were kept are among them and in order.
EmittedSoFar(c, n, out) ==
    /\ out \in Seq(ToSet(c.recs))
    /\ InOrder(out)
    /\ \A k \in DOMAIN out : \E m \in 1 .. n : out[k] = c.recs[m]

Emitting == INSTANCE LeftFold WITH Body <- LAMBDA c, out, rec : EmitRecord(c.minCch, out, rec),
                                   Kept <- EmittedSoFar

\* A record is kept or dropped.
LEMMA EmitRecordKeeps ==
    ASSUME NEW c, NEW N \in Nat, DOMAIN c.recs = 1 .. N, InOrder(c.recs), NEW n \in 1 .. N,
           NEW out, EmittedSoFar(c, n - 1, out)
    PROVE  EmittedSoFar(c, n, EmitRecord(c.minCch, out, c.recs[n]))
<1> DEFINE next == EmitRecord(c.minCch, out, c.recs[n])
           more == Append(out, c.recs[n])
           R == ToSet(c.recs)
<1>1. c.recs[n] \in R
    BY DEF ToSet
<1> HIDE DEF R
<1>2. out \in Seq(R) /\ Len(out) \in Nat
    BY DEF EmittedSoFar, R
<1>3. \A k \in DOMAIN out : \E m \in 1 .. n - 1 : out[k] = c.recs[m]
    BY DEF EmittedSoFar
<1>4. /\ more \in Seq(R) /\ Len(more) = Len(out) + 1
      /\ \A k \in 1 .. Len(out) : more[k] = out[k]
      /\ more[Len(out) + 1] = c.recs[n]
    BY <1>1, <1>2, AppendAt
<1> HIDE DEF more
<1>5. \A k \in DOMAIN more : k \in Nat /\ (k \in DOMAIN out \/ k = Len(out) + 1)
    BY <1>2, <1>4
<1>6. CASE next = out
    BY <1>2, <1>3, <1>6 DEF EmittedSoFar, R
<1>7. CASE next = more
    <2>1. \A k \in DOMAIN more : \E m \in 1 .. n : more[k] = c.recs[m]
        <3> TAKE k \in DOMAIN more
        <3>1. CASE k \in DOMAIN out
            <4>1. PICK m \in 1 .. n - 1 : out[k] = c.recs[m]
                BY <3>1, <1>3
            <4> QED
                BY <4>1, <3>1, <1>2, <1>4
        <3>2. CASE k = Len(out) + 1
            BY <3>2, <1>4
        <3> QED
            BY <3>1, <3>2, <1>5
    <2>2. InOrder(more)
        <3> SUFFICES ASSUME NEW k \in DOMAIN more, NEW l \in DOMAIN more, k < l
                     PROVE  ~Precedes(more[l], more[k])
            BY DEF InOrder
        <3>1. k \in Nat /\ (k \in DOMAIN out \/ k = Len(out) + 1)
            BY <1>5
        <3>2. l \in Nat /\ (l \in DOMAIN out \/ l = Len(out) + 1)
            BY <1>5
        <3>3. k \in DOMAIN out /\ more[k] = out[k]
            BY <3>1, <3>2, <1>2, <1>4
        <3>4. CASE l \in DOMAIN out
            <4>1. more[l] = out[l]
                BY <3>4, <1>2, <1>4
            <4>2. ~Precedes(out[l], out[k])
                BY <3>3, <3>4 DEF EmittedSoFar, InOrder
            <4> QED
                BY <4>1, <4>2, <3>3
        <3>5. CASE l = Len(out) + 1
            <4>1. PICK m \in 1 .. n - 1 : out[k] = c.recs[m]
                BY <3>3, <1>3
            <4>2. m \in DOMAIN c.recs /\ n \in DOMAIN c.recs /\ m < n
                OBVIOUS
            <4>3. ~Precedes(c.recs[n], c.recs[m])
                BY <4>2 DEF InOrder
            <4> QED
                BY <4>1, <4>3, <3>3, <3>5, <1>4
        <3> QED
            BY <3>2, <3>4, <3>5
    <2> QED
        BY <2>1, <2>2, <1>4, <1>7 DEF EmittedSoFar, R
<1>8. next = out \/ next = more
    BY DEF EmitRecord, more
<1> QED
    BY <1>6, <1>7, <1>8

\* What is left of the records is delivered as well as they were.
LEMMA EmitDelivers ==
    ASSUME NEW recs, NEW minCch, NEW encoding, NEW first, NEW end,
           Delivered(recs, encoding, first, end)
    PROVE  Delivered(Emit(recs, minCch), encoding, first, end)
<1>1. ASSUME NEW c, Delivered(c.recs, encoding, first, end)
      PROVE  Delivered(Emit(c.recs, c.minCch), encoding, first, end)
    <2> DEFINE out == Emitting!Loop(c, <<>>, c.recs)
    <2>1. Emit(c.recs, c.minCch) = out
        BY DEF Emit, Emitting!Loop, FoldLeft, Emitting!FoldLeft, MapThenFoldSet,
               Emitting!MapThenFoldSet, Max, Emitting!Max
    <2> HIDE DEF out
    <2>2. PICK N \in Nat : DOMAIN c.recs = 1 .. N
        BY <1>1 DEF Delivered
    <2>3. EmittedSoFar(c, 0, <<>>)
        BY DEF EmittedSoFar, InOrder
    <2>4. \A n \in 1 .. N : \A a : EmittedSoFar(c, n - 1, a) =>
                                       EmittedSoFar(c, n, EmitRecord(c.minCch, a, c.recs[n]))
        BY <1>1, <2>2, EmitRecordKeeps DEF Delivered
    <2>5. EmittedSoFar(c, N, out)
        BY <2>2, <2>3, <2>4, Emitting!FoldKeeps DEF out
    <2>6. out \in Seq(ToSet(out)) /\ ToSet(out) \subseteq ToSet(c.recs)
        BY <2>5 DEF EmittedSoFar, ToSet
    <2> QED
        BY <1>1, <2>1, <2>5, <2>6 DEF EmittedSoFar, Delivered
<1> DEFINE c == [recs |-> recs, minCch |-> minCch]
<1>2. c.recs = recs /\ c.minCch = minCch
    OBVIOUS
<1> HIDE DEF c
<1>3. Delivered(Emit(c.recs, c.minCch), encoding, first, end)
    BY <1>1, <1>2
<1> QED
    BY <1>2, <1>3

-----------------------------------------------------------------------------
(* ASCII and windows-1251.                                                 *)

\* units of one byte, for every byte of a chunk
IsBytes(units, first, end) ==
    /\ units = [k \in 1 .. end - first |-> units[k]]
    /\ \A k \in 1 .. end - first : units[k].at = first + k - 1 /\ Len(units[k].char) = 1

\* They follow one another, and the last one ends where the chunk does.
LEMMA BytesAscend ==
    ASSUME NEW first \in Nat, NEW end \in Nat, NEW units, IsBytes(units, first, end)
    PROVE  \E N \in Nat : /\ Ascending(units, N)
                          /\ N > 0 => After(units[N]) = end
                          /\ NoneBefore(units, N, first)
<1> DEFINE N == IF end >= first THEN end - first ELSE 0
<1>1. N \in Nat /\ 1 .. N = 1 .. end - first /\ (N > 0 => N = end - first)
    OBVIOUS
<1> HIDE DEF N
<1>2. /\ DOMAIN units = 1 .. N
      /\ \A k \in 1 .. N : units[k].at = first + k - 1 /\ Len(units[k].char) = 1
    BY <1>1 DEF IsBytes
<1>3. Ascending(units, N)
    BY <1>1, <1>2 DEF Ascending
<1>4. N > 0 => After(units[N]) = end
    <2> SUFFICES ASSUME N > 0 PROVE After(units[N]) = end
        OBVIOUS
    <2>1. N \in 1 .. N /\ N = end - first
        BY <1>1
    <2>2. units[N].at = first + N - 1 /\ Len(units[N].char) = 1
        BY <1>2, <2>1
    <2> QED
        BY <2>1, <2>2 DEF After
<1>5. NoneBefore(units, N, first)
    BY <1>1, <1>2 DEF NoneBefore
<1> QED
    BY <1>1, <1>3, <1>4, <1>5

\* A scan of units of one byte delivers: only the run that the chunk's end leaves open is
\* flagged as reaching it, and it does.
LEMMA ScanBytesDelivers ==
    ASSUME NEW first \in Nat, NEW end \in Nat, NEW units, IsBytes(units, first, end),
           NEW encoding, NEW minCch
    PROVE  Delivered(ScanBytes(units, encoding, first, minCch), encoding, first, end)
<1>1. PICK N \in Nat : /\ Ascending(units, N)
                       /\ N > 0 => After(units[N]) = end
                       /\ NoneBefore(units, N, first)
    BY BytesAscend
<1> DEFINE scanned == Scanned(units)
           starts(run) == run[1].at = first
           ends(run) == TRUE
           recs == RunRecords(units, encoding, starts, ends)
<1>2. ScannedSoFar(units, N, scanned)
    BY <1>1, ScannedIs
<1>3. ScanBytes(units, encoding, first, minCch) = Emit(recs, minCch)
    BY DEF ScanBytes
<1>4. scanned.open # <<>> => After(scanned.open[Len(scanned.open)]) >= end
    <2>1. scanned.open # <<>> => N > 0 /\ scanned.open[Len(scanned.open)] = units[N]
        BY <1>2 DEF ScannedSoFar, RunAmong
    <2> QED
        BY <1>1, <2>1
<1> DEFINE closed == [k \in DOMAIN scanned.closed |->
                         RunRecord(scanned.closed[k], encoding, starts(scanned.closed[k]), FALSE)]
<1>5. recs = IF scanned.open = <<>> THEN closed
             ELSE Append(closed, RunRecord(scanned.open, encoding, starts(scanned.open), TRUE))
    BY DEF RunRecords, RecordsOf
<1> HIDE DEF recs
<1>6. Delivered(recs, encoding, first, end)
    <2>1. \A k \in DOMAIN closed :
              \E s : /\ closed[k] = RunRecord(scanned.closed[k], encoding, s, FALSE)
                     /\ scanned.closed[k][1].at = first => s
        OBVIOUS
    <2> QED
        BY <1>1, <1>4, <1>5, <2>1, ClosedAndOpen
<1> QED
    BY <1>3, <1>6, EmitDelivers

\* The scan of a chunk for ASCII delivers.
LEMMA ScanAsciiDelivers ==
    ASSUME NEW filters, NEW file, NEW first \in Nat, NEW end \in Nat, NEW minCch
    PROVE  Delivered(ScanAscii(filters, file, first, end, minCch), "Ascii", first, end)
<1> DEFINE units == AsciiUnits(filters, file, first, end)
<1>1. IsBytes(units, first, end)
    BY DEF IsBytes, AsciiUnits, ByteUnits, Unit
<1> HIDE DEF units
<1>2. Delivered(ScanBytes(units, "Ascii", first, minCch), "Ascii", first, end)
    BY <1>1, ScanBytesDelivers
<1> QED
    BY <1>2 DEF ScanAscii, units

\* And the one for windows-1251.
LEMMA ScanWindows1251Delivers ==
    ASSUME NEW filters, NEW file, NEW first \in Nat, NEW end \in Nat, NEW minCch
    PROVE  Delivered(ScanWindows1251(filters, file, first, end, minCch), "Windows1251", first, end)
<1> DEFINE units == Windows1251Units(filters, file, first, end)
<1>1. IsBytes(units, first, end)
    BY DEF IsBytes, Windows1251Units, ByteUnits, Unit
<1> HIDE DEF units
<1>2. Delivered(ScanBytes(units, "Windows1251", first, minCch), "Windows1251", first, end)
    BY <1>1, ScanBytesDelivers
<1> QED
    BY <1>2 DEF ScanWindows1251, units

-----------------------------------------------------------------------------
(* UTF-16LE restricted to Latin-1.                                         *)

\* The code units of one parity follow one another.
LEMMA CodeUnitsAscend ==
    ASSUME NEW filters, NEW file, NEW first \in Nat, NEW last \in Nat, first <= last
    PROVE  \E N \in Nat :
              /\ Ascending(CodeUnits(filters, file, first, last), N)
              /\ NoneBefore(CodeUnits(filters, file, first, last), N, first)
<1> DEFINE N == (last - first) \div 2 + 1
           units == CodeUnits(filters, file, first, last)
<1>1. N \in Nat
    OBVIOUS
<1>2. /\ DOMAIN units = 1 .. N
      /\ \A k \in 1 .. N : units[k].at = first + 2 * (k - 1) /\ Len(units[k].char) = 2
    BY DEF CodeUnits, Unit
<1> HIDE DEF N, units
<1>3. \A k \in 1 .. N :
          units[k].at \in Nat /\ units[k].at >= first /\ Len(units[k].char) \in Nat
    BY <1>1, <1>2
<1>4. \A l, m \in 1 .. N : l < m => units[l].at < units[m].at
    BY <1>1, <1>2
<1>5. Ascending(units, N)
    BY <1>2, <1>3, <1>4 DEF Ascending
<1> QED
    BY <1>1, <1>3, <1>5 DEF units, NoneBefore

\* The scan of one parity delivers.
LEMMA ScanParityDelivers ==
    ASSUME NEW filters, NEW file, NEW first \in Nat, NEW end \in Nat, NEW minCch,
           NEW parity \in {0, 1}, Len(file) \in Nat
    PROVE  Delivered(ScanParity(filters, file, first, end, minCch, parity), "Utf16leAscii", first, end)
<1> DEFINE start == first + ((parity + 2 - (first % 2)) % 2)
           maxStart == IF end < Len(file) THEN end - 1 ELSE Len(file) - 2
           lastStart == IF maxStart % 2 = parity THEN maxStart ELSE maxStart - 1
           units == CodeUnits(filters, file, start, lastStart)
           none == start >= end \/ start + 1 >= Len(file) \/ lastStart < start
<1>1. start \in Nat /\ start >= first /\ lastStart \in Int
    OBVIOUS
<1>2. ScanParity(filters, file, first, end, minCch, parity) =
          IF none THEN <<>> ELSE ParityRecords(units, "Utf16leAscii", start, end, minCch)
    BY DEF ScanParity
<1> HIDE DEF start, lastStart
<1>3. CASE none
    <2>1. Delivered(<<>>, "Utf16leAscii", first, end)
        BY DEF Delivered, InOrder, ToSet
    <2> HIDE DEF none
    <2> QED
        BY <1>2, <1>3, <2>1
<1>4. CASE ~none
    <2>1. lastStart \in Nat /\ start <= lastStart
        BY <1>1, <1>4
    <2>2. PICK N \in Nat : Ascending(units, N) /\ NoneBefore(units, N, start)
        BY <1>1, <2>1, CodeUnitsAscend
    <2> HIDE DEF units, none
    <2> DEFINE scanned == Scanned(units)
               starts(run) == run[1].at = start
               ends(run) == After(Last(run)) >= end
               closed == [k \in DOMAIN scanned.closed |->
                             RunRecord(scanned.closed[k], "Utf16leAscii",
                                       starts(scanned.closed[k]), FALSE)]
               recs == RunRecords(units, "Utf16leAscii", starts, ends)
    <2>8. \A run : RunAmong(run, units, N) => (run[1].at = first => starts(run))
        BY <1>1, <2>2 DEF RunAmong, NoneBefore
    <2>9. ScannedSoFar(units, N, scanned)
        BY <2>2, ScannedIs
    <2>10. NoneBefore(units, N, first)
        BY <1>1, <2>2 DEF NoneBefore, Ascending
    <2>3. ParityRecords(units, "Utf16leAscii", start, end, minCch) = Emit(recs, minCch)
        BY DEF ParityRecords
    <2>4. recs = IF scanned.open = <<>> THEN closed
                 ELSE Append(closed, RunRecord(scanned.open, "Utf16leAscii",
                                               starts(scanned.open), ends(scanned.open)))
        BY DEF RunRecords, RecordsOf
    <2>5. \A k \in DOMAIN closed :
              \E s : /\ closed[k] = RunRecord(scanned.closed[k], "Utf16leAscii", s, FALSE)
                     /\ scanned.closed[k][1].at = first => s
        <3> SUFFICES ASSUME NEW k \in DOMAIN closed
                     PROVE  scanned.closed[k][1].at = first => starts(scanned.closed[k])
            OBVIOUS
        <3>1. RunAmong(scanned.closed[k], units, N)
            BY <2>9 DEF ScannedSoFar
        <3> QED
            BY <2>8, <3>1
    <2>6. scanned.open # <<>> =>
              /\ scanned.open[1].at = first => starts(scanned.open)
              /\ ends(scanned.open) => After(scanned.open[Len(scanned.open)]) >= end
        BY <2>8, <2>9 DEF Last, ScannedSoFar
    <2> HIDE DEF recs
    <2>7. Delivered(recs, "Utf16leAscii", first, end)
        BY <2>2, <2>4, <2>5, <2>6, <2>10, ClosedAndOpen
    <2> QED
        BY <1>2, <1>4, <2>3, <2>7, EmitDelivers
<1> QED
    BY <1>3, <1>4

\* The scan of a chunk delivers: the two parities are merged.
LEMMA ScanUtf16leAsciiDelivers ==
    ASSUME NEW filters, NEW file, NEW first \in Nat, NEW end \in Nat, NEW minCch,
           Len(file) \in Nat
    PROVE  Delivered(ScanUtf16leAscii(filters, file, first, end, minCch), "Utf16leAscii", first, end)
<1> DEFINE even == ScanParity(filters, file, first, end, minCch, 0)
           odd == ScanParity(filters, file, first, end, minCch, 1)
           R == ToSet(even) \cup ToSet(odd)
           streams == <<even, odd>>
           merged == MergeStreams(streams)
<1>1. Delivered(even, "Utf16leAscii", first, end) /\ Delivered(odd, "Utf16leAscii", first, end)
    BY ScanParityDelivers
<1> HIDE DEF even, odd
<1>2. \A rec \in R : TextOf(rec, "Utf16leAscii", first, end)
    BY <1>1 DEF Delivered
<1>3. Comparable(R)
    BY <1>2 DEF Comparable, TextOf, EncodingCode
<1>4. even \in Seq(R) /\ odd \in Seq(R)
    BY <1>1 DEF Delivered
<1> HIDE DEF R
<1>5. streams \in Seq(Seq(R)) /\ \A i \in DOMAIN streams : InOrder(streams[i])
    BY <1>1, <1>4 DEF Delivered
<1> HIDE DEF streams
<1>6. merged \in Seq(R) /\ InOrder(merged)
    BY <1>3, <1>5, MergeTakesAll, MergeIsInOrder
<1>7. merged \in Seq(ToSet(merged)) /\ ToSet(merged) \subseteq R
    BY <1>6 DEF ToSet
<1>8. Delivered(merged, "Utf16leAscii", first, end)
    BY <1>2, <1>6, <1>7 DEF Delivered
<1> QED
    BY <1>8 DEF ScanUtf16leAscii, streams, even, odd

-----------------------------------------------------------------------------
(* Sequences of records, or of lines.                                      *)

\* A sequence is one over its own members.
LEMMA OverItsMembers ==
    ASSUME NEW R, NEW recs \in Seq(R)
    PROVE  recs \in Seq(ToSet(recs)) /\ ToSet(recs) \subseteq R
BY DEF ToSet

IsSeq(s) == s \in Seq(ToSet(s))

\* of the encoding E the sequence holds the members of S, each once, by ascending offset
Holds(E, s, S) ==
    /\ IsSeq(s)
    /\ \A x \in S : x.encoding = E /\ x.offset \in Nat /\ \E i \in DOMAIN s : s[i] = x
    /\ \A i \in DOMAIN s : s[i].encoding = E => s[i] \in S
    /\ \A i, j \in DOMAIN s :
          i < j /\ s[i].encoding = E /\ s[j].encoding = E => s[i].offset < s[j].offset

\* The empty sequence holds nothing.
LEMMA HoldsNothing == ASSUME NEW E PROVE Holds(E, <<>>, {})
BY DEF Holds, IsSeq, ToSet

\* A sequence of one holds that one, if it is of the encoding.
LEMMA HoldsOne ==
    ASSUME NEW E, NEW x, x.encoding = E => x.offset \in Nat
    PROVE  Holds(E, <<x>>, IF x.encoding = E THEN {x} ELSE {})
<1>1. \A i \in DOMAIN <<x>> : <<x>>[i] = x
    OBVIOUS
<1>2. IsSeq(<<x>>)
    BY DEF IsSeq, ToSet
<1>3. \A i, j \in DOMAIN <<x>> : ~(i < j)
    OBVIOUS
<1>4. \E i \in DOMAIN <<x>> : <<x>>[i] = x
    OBVIOUS
<1> QED
    BY <1>1, <1>2, <1>3, <1>4 DEF Holds

\* A sequence and another behind it.
LEMMA ConcatAt ==
    ASSUME NEW s, NEW t, IsSeq(s), IsSeq(t)
    PROVE  /\ IsSeq(s \o t) /\ Len(s \o t) = Len(s) + Len(t)
           /\ \A i \in DOMAIN s : i \in DOMAIN (s \o t) /\ (s \o t)[i] = s[i]
           /\ \A i \in DOMAIN t : /\ Len(s) + i \in DOMAIN (s \o t)
                                  /\ (s \o t)[Len(s) + i] = t[i]
           /\ \A i \in DOMAIN (s \o t) :
                 i \in DOMAIN s \/ (i - Len(s) \in DOMAIN t /\ i = Len(s) + (i - Len(s)))
<1> DEFINE R == ToSet(s) \cup ToSet(t)
<1>1. s \in Seq(R) /\ t \in Seq(R)
    BY DEF IsSeq
<1> HIDE DEF R
<1>2. s \o t \in Seq(R)
    BY <1>1
<1>3. IsSeq(s \o t)
    BY <1>2, OverItsMembers DEF IsSeq
<1> QED
    BY <1>1, <1>3

\* The one holds what comes first, and the other what comes after it.
LEMMA HoldsConcat ==
    ASSUME NEW E, NEW s, NEW t, NEW S, NEW T, Holds(E, s, S), Holds(E, t, T),
           \A x \in S : \A y \in T : x.offset < y.offset
    PROVE  Holds(E, s \o t, S \cup T)
<1> DEFINE u == s \o t
<1>1. /\ IsSeq(u) /\ Len(u) = Len(s) + Len(t)
      /\ \A i \in DOMAIN s : i \in DOMAIN u /\ u[i] = s[i]
      /\ \A i \in DOMAIN t : Len(s) + i \in DOMAIN u /\ u[Len(s) + i] = t[i]
      /\ \A i \in DOMAIN u :
            i \in DOMAIN s \/ (i - Len(s) \in DOMAIN t /\ i = Len(s) + (i - Len(s)))
    BY ConcatAt DEF Holds
<1>2. /\ DOMAIN u \subseteq Nat /\ Len(s) \in Nat
      /\ DOMAIN s = 1 .. Len(s) /\ DOMAIN t \subseteq Nat \ {0}
    BY <1>1 DEF IsSeq, Holds
<1> HIDE DEF u
<1>3. ASSUME NEW x \in S \cup T
      PROVE  x.encoding = E /\ x.offset \in Nat /\ \E i \in DOMAIN u : u[i] = x
    BY <1>1 DEF Holds
<1>4. ASSUME NEW i \in DOMAIN u, u[i].encoding = E PROVE u[i] \in S \cup T
    <2>1. CASE i \in DOMAIN s
        BY <1>1, <1>4, <2>1 DEF Holds
    <2>2. CASE i - Len(s) \in DOMAIN t /\ i = Len(s) + (i - Len(s))
        <3>1. u[i] = t[i - Len(s)]
            BY <1>1, <2>2
        <3> QED
            BY <1>4, <2>2, <3>1 DEF Holds
    <2> QED
        BY <1>1, <2>1, <2>2
<1>5. ASSUME NEW i \in DOMAIN u, NEW j \in DOMAIN u, i < j, u[i].encoding = E, u[j].encoding = E
      PROVE  u[i].offset < u[j].offset
    <2>1. CASE j \in DOMAIN s
        <3>1. i \in DOMAIN s
            BY <1>1, <1>2, <1>5, <2>1
        <3>2. u[i] = s[i] /\ u[j] = s[j]
            BY <1>1, <2>1, <3>1
        <3> QED
            BY <1>5, <2>1, <3>1, <3>2 DEF Holds
    <2>2. CASE j \notin DOMAIN s /\ i \in DOMAIN s
        <3>1. j - Len(s) \in DOMAIN t /\ u[j] = t[j - Len(s)]
            BY <1>1, <2>2
        <3>2. u[i] = s[i]
            BY <1>1, <2>2
        <3>3. u[i] \in S /\ u[j] \in T
            BY <1>5, <2>2, <3>1, <3>2 DEF Holds
        <3> QED
            BY <3>3
    <2>3. CASE j \notin DOMAIN s /\ i \notin DOMAIN s
        <3>1. /\ j - Len(s) \in DOMAIN t /\ u[j] = t[j - Len(s)]
              /\ i - Len(s) \in DOMAIN t /\ u[i] = t[i - Len(s)]
            BY <1>1, <2>3
        <3>2. i - Len(s) < j - Len(s)
            BY <1>2, <1>5
        <3> QED
            BY <1>5, <3>1, <3>2 DEF Holds
    <2> QED
        BY <2>1, <2>2, <2>3
<1> QED
    BY <1>1, <1>3, <1>4, <1>5 DEF Holds, u

\* Only the next one is added.
LEMMA HoldsAppend ==
    ASSUME NEW E, NEW s, NEW x, NEW S, Holds(E, s, S),
           x.encoding = E => x.offset \in Nat /\ \A y \in S : y.offset < x.offset
    PROVE  Holds(E, Append(s, x), S \cup (IF x.encoding = E THEN {x} ELSE {}))
<1> DEFINE T == IF x.encoding = E THEN {x} ELSE {}
<1>1. Holds(E, <<x>>, T)
    BY HoldsOne
<1>2. \A y \in S : \A z \in T : y.offset < z.offset
    OBVIOUS
<1>3. Append(s, x) = s \o <<x>>
    <2> DEFINE R == ToSet(s) \cup {x}
    <2>1. s \in Seq(R) /\ x \in R
        BY DEF Holds, IsSeq
    <2> HIDE DEF R
    <2> QED
        BY <2>1
<1> HIDE DEF T
<1>4. Holds(E, s \o <<x>>, S \cup T)
    BY <1>1, <1>2, HoldsConcat
<1> QED
    BY <1>3, <1>4 DEF T

\* A suffix holds the rest.
LEMMA HoldsTail ==
    ASSUME NEW E, NEW s, NEW S, Holds(E, s, S), s # <<>>
    PROVE  /\ Head(s) = s[1] /\ 1 \in DOMAIN s
           /\ Holds(E, Tail(s), S \ {Head(s)})
           /\ Head(s).encoding = E =>
                 Head(s) \in S /\ \A y \in S \ {Head(s)} : Head(s).offset < y.offset
<1>1. IsSeq(s)
    BY DEF Holds
<1>2. /\ Head(s) = s[1] /\ 1 \in DOMAIN s /\ Len(Tail(s)) = Len(s) - 1 /\ Len(s) \in Nat
      /\ Tail(s) \in Seq(ToSet(s))
    BY <1>1 DEF IsSeq
<1>3. \A j \in DOMAIN Tail(s) : j \in Nat /\ j + 1 \in DOMAIN s /\ Tail(s)[j] = s[j + 1]
    BY <1>1, TailAt DEF IsSeq
<1>4. \A j \in DOMAIN s : j # 1 => j - 1 \in DOMAIN Tail(s) /\ Tail(s)[j - 1] = s[j] /\ 1 < j
    BY <1>1, <1>2 DEF IsSeq
<1>5. IsSeq(Tail(s))
    BY <1>2, OverItsMembers DEF IsSeq
<1>6. ASSUME Head(s).encoding = E
      PROVE  Head(s) \in S /\ \A y \in S \ {Head(s)} : Head(s).offset < y.offset
    <2>1. Head(s) \in S
        BY <1>2, <1>6 DEF Holds
    <2>2. ASSUME NEW y \in S \ {Head(s)} PROVE Head(s).offset < y.offset
        <3>1. PICK j \in DOMAIN s : s[j] = y
            BY DEF Holds
        <3>2. 1 < j /\ y.encoding = E
            BY <1>2, <1>4, <3>1 DEF Holds
        <3> QED
            BY <1>2, <1>6, <3>1, <3>2 DEF Holds
    <2> QED
        BY <2>1, <2>2
<1>7. ASSUME NEW x \in S \ {Head(s)}
      PROVE  x.encoding = E /\ x.offset \in Nat /\ \E i \in DOMAIN Tail(s) : Tail(s)[i] = x
    <2>1. PICK j \in DOMAIN s : s[j] = x
        BY DEF Holds
    <2>2. j # 1
        BY <1>2, <2>1
    <2> QED
        BY <1>4, <2>1, <2>2 DEF Holds
<1>8. ASSUME NEW i \in DOMAIN Tail(s), Tail(s)[i].encoding = E
      PROVE  Tail(s)[i] \in S \ {Head(s)}
    <2>1. i + 1 \in DOMAIN s /\ Tail(s)[i] = s[i + 1] /\ 1 < i + 1
        BY <1>3, <1>5 DEF IsSeq
    <2>2. s[i + 1] \in S
        BY <1>8, <2>1 DEF Holds
    <2>3. s[i + 1] # s[1]
        <3> SUFFICES ASSUME s[i + 1] = s[1] PROVE FALSE
            OBVIOUS
        <3>1. s[1].offset < s[i + 1].offset /\ s[1].offset \in Nat
            BY <1>2, <1>8, <2>1, <2>2 DEF Holds
        <3> QED
            BY <3>1
    <2> QED
        BY <1>2, <2>1, <2>2, <2>3
<1>9. ASSUME NEW i \in DOMAIN Tail(s), NEW j \in DOMAIN Tail(s), i < j,
             Tail(s)[i].encoding = E, Tail(s)[j].encoding = E
      PROVE  Tail(s)[i].offset < Tail(s)[j].offset
    <2>1. i + 1 < j + 1
        BY <1>3, <1>9
    <2> QED
        BY <1>3, <1>9, <2>1 DEF Holds
<1> QED
    BY <1>2, <1>5, <1>6, <1>7, <1>8, <1>9 DEF Holds

\* Two sequences of the encoding alone: if the first holds, of what the second holds, all that
\* is before some point, it is a prefix of the second.
LEMMA HoldsPrefix ==
    ASSUME NEW E, NEW s, NEW t, NEW S, NEW T, Holds(E, s, S), Holds(E, t, T),
           \A i \in DOMAIN s : s[i].encoding = E, \A i \in DOMAIN t : t[i].encoding = E,
           S \subseteq T, \A x \in S : \A y \in T : y.offset < x.offset => y \in S
    PROVE  IsPrefix(s, t)
<1>1. /\ DOMAIN s = 1 .. Len(s) /\ Len(s) \in Nat
      /\ DOMAIN t = 1 .. Len(t) /\ Len(t) \in Nat
    BY DEF Holds, IsSeq
<1> DEFINE Agree(i) == i \in DOMAIN t /\ s[i] = t[i]
           wrong == {i \in DOMAIN s : ~Agree(i)}
<1>2. wrong = {}
    <2> SUFFICES ASSUME wrong # {} PROVE FALSE
        OBVIOUS
    <2>1. PICK i \in wrong : \A k \in wrong : i <= k
        <3>1. wrong \subseteq Nat
            BY <1>1
        <3> HIDE DEF wrong
        <3> QED
            BY <3>1, Consuming!LeastNatural
    <2>2. i \in DOMAIN s /\ ~Agree(i) /\ i \in Nat
        BY <1>1
    <2>3. \A k \in DOMAIN s : k < i => Agree(k)
        BY <1>1, <2>1, <2>2
    <2>4. s[i] \in S /\ s[i] \in T /\ s[i].offset \in Nat
        BY <2>2 DEF Holds
    <2>5. PICK j \in DOMAIN t : t[j] = s[i]
        BY <2>4 DEF Holds
    <2>6. j > i
        <3>1. j # i
            BY <2>2, <2>5
        <3>2. ~(j < i)
            <4> SUFFICES ASSUME j < i PROVE FALSE
                OBVIOUS
            <4>1. j \in DOMAIN s
                BY <1>1, <2>2
            <4>2. s[j] = t[j]
                BY <2>3, <4>1
            <4>3. s[j].offset < s[i].offset
                BY <2>2, <4>1 DEF Holds
            <4> QED
                BY <2>4, <2>5, <4>2, <4>3
        <3> QED
            BY <1>1, <2>2, <3>1, <3>2
    <2>7. i \in DOMAIN t
        BY <1>1, <2>2, <2>6
    <2>8. t[i] \in T /\ t[i].offset \in Nat /\ t[i].offset < t[j].offset
        BY <2>6, <2>7 DEF Holds
    <2>9. t[i] \in S
        BY <2>4, <2>5, <2>8
    <2>10. PICK k \in DOMAIN s : s[k] = t[i]
        BY <2>9 DEF Holds
    <2>11. CASE k < i
        <3>1. t[k] = t[i] /\ k \in DOMAIN t
            BY <2>3, <2>10, <2>11
        <3>2. t[k].offset < t[i].offset
            BY <2>7, <2>11, <3>1 DEF Holds
        <3> QED
            BY <2>8, <3>1, <3>2
    <2>12. CASE i < k
        <3>1. s[i].offset < s[k].offset
            BY <2>2, <2>12 DEF Holds
        <3> QED
            BY <2>4, <2>5, <2>8, <2>10, <3>1
    <2>13. CASE i = k
        BY <2>2, <2>7, <2>10, <2>13
    <2> QED
        BY <1>1, <2>2, <2>11, <2>12, <2>13
<1>3. \A i \in DOMAIN s : i \in DOMAIN t /\ s[i] = t[i]
    BY <1>2
<1>4. Len(s) <= Len(t)
    <2>1. CASE Len(s) = 0
        BY <1>1, <2>1
    <2>2. CASE Len(s) > 0
        BY <1>1, <1>3, <2>2
    <2> QED
        BY <1>1, <2>1, <2>2
<1>5. SubSeq(s, 1, Len(s)) = SubSeq(t, 1, Len(s))
    <2> DEFINE R == ToSet(s) \cup ToSet(t)
    <2>1. s \in Seq(R) /\ t \in Seq(R)
        BY DEF Holds, IsSeq
    <2> HIDE DEF R, wrong
    <2>2. /\ SubSeq(s, 1, Len(s)) = [k \in 1 .. Len(s) |-> s[k]]
          /\ SubSeq(t, 1, Len(s)) = [k \in 1 .. Len(s) |-> t[k]]
        BY <1>1, <1>4, <2>1
    <2>3. \A k \in 1 .. Len(s) : s[k] = t[k]
        BY <1>1, <1>3
    <2> QED
        BY <2>2, <2>3
<1> QED
    BY <1>4, <1>5 DEF IsPrefix

\* And if they hold the same, they are the same.
LEMMA HoldsSame ==
    ASSUME NEW E, NEW s, NEW t, NEW S, Holds(E, s, S), Holds(E, t, S),
           \A i \in DOMAIN s : s[i].encoding = E, \A i \in DOMAIN t : t[i].encoding = E
    PROVE  s = t
<1>1. IsPrefix(s, t) /\ IsPrefix(t, s)
    BY HoldsPrefix
<1> DEFINE R == ToSet(s) \cup ToSet(t)
<1>2. s \in Seq(R) /\ t \in Seq(R)
    BY DEF Holds, IsSeq
<1> HIDE DEF R
<1>3. Len(s) = Len(t) /\ SubSeq(s, 1, Len(s)) = SubSeq(t, 1, Len(s))
    BY <1>1, <1>2 DEF IsPrefix
<1>4. SubSeq(s, 1, Len(s)) = s /\ SubSeq(t, 1, Len(t)) = t
    BY <1>2
<1> QED
    BY <1>3, <1>4

-----------------------------------------------------------------------------
(* The members of a set in a sequence.                                     *)

\* of the first n, those that are in the set have been kept, in their order
KeptSoFar(c, n, out) ==
    /\ IsSeq(out)
    /\ \E pos \in [DOMAIN out -> 1 .. n] :
          /\ \A i \in DOMAIN out : out[i] = c.seq[pos[i]] /\ out[i] \in c.set
          /\ \A i, j \in DOMAIN out : i < j => pos[i] < pos[j]
          /\ \A m \in 1 .. n : c.seq[m] \in c.set => \E i \in DOMAIN out : pos[i] = m

Keeping == INSTANCE LeftFold WITH Body <- LAMBDA c, out, x : KeepIn(c.set, out, x),
                                  Kept <- KeptSoFar
KeepingLong == INSTANCE LeftFold WITH Body <- LAMBDA c, out, rec : EmitRecord(c.minCch, out, rec),
                                      Kept <- KeptSoFar

\* One more is kept or not.
LEMMA KeepInKeeps ==
    ASSUME NEW c, NEW n \in Nat \ {0}, NEW out, KeptSoFar(c, n - 1, out)
    PROVE  KeptSoFar(c, n, KeepIn(c.set, out, c.seq[n]))
<1> DEFINE x == c.seq[n]
<1>1. PICK pos \in [DOMAIN out -> 1 .. n - 1] :
          /\ \A i \in DOMAIN out : out[i] = c.seq[pos[i]] /\ out[i] \in c.set
          /\ \A i, j \in DOMAIN out : i < j => pos[i] < pos[j]
          /\ \A m \in 1 .. n - 1 : c.seq[m] \in c.set => \E i \in DOMAIN out : pos[i] = m
    BY DEF KeptSoFar
<1>2. DOMAIN out = 1 .. Len(out) /\ Len(out) \in Nat /\ IsSeq(out)
    BY DEF KeptSoFar, IsSeq
<1>3. CASE x \notin c.set
    <2>1. KeepIn(c.set, out, x) = out
        BY <1>3 DEF KeepIn
    <2>2. pos \in [DOMAIN out -> 1 .. n]
        BY <1>1
    <2>3. \A m \in 1 .. n : m \in 1 .. n - 1 \/ m = n
        OBVIOUS
    <2>4. KeptSoFar(c, n, out)
        BY <1>1, <1>2, <1>3, <2>2, <2>3 DEF KeptSoFar
    <2> QED
        BY <2>1, <2>4
<1>4. CASE x \in c.set
    <2> DEFINE more == Append(out, x)
               pos2 == [i \in DOMAIN more |-> IF i \in DOMAIN out THEN pos[i] ELSE n]
               R == ToSet(out) \cup {x}
    <2>1. KeepIn(c.set, out, x) = more
        BY <1>4 DEF KeepIn
    <2>2. out \in Seq(R) /\ x \in R
        BY <1>2 DEF IsSeq
    <2> HIDE DEF R
    <2>3. more \in Seq(R) /\ Len(more) = Len(out) + 1
        BY <2>2
    <2>4. /\ \A i \in DOMAIN out : i \in DOMAIN more /\ more[i] = out[i]
          /\ Len(out) + 1 \in DOMAIN more /\ more[Len(out) + 1] = x
          /\ \A i \in DOMAIN more : i \in Nat /\ (i \in DOMAIN out \/ i = Len(out) + 1)
        BY <1>2, <2>2
    <2>5. IsSeq(more)
        BY <2>3, OverItsMembers DEF IsSeq
    <2> HIDE DEF more
    <2>6. pos2 \in [DOMAIN more -> 1 .. n]
        BY <1>1, <2>4
    <2>7. \A i \in DOMAIN more : more[i] = c.seq[pos2[i]] /\ more[i] \in c.set
        BY <1>1, <1>4, <2>4
    <2>8. \A i, j \in DOMAIN more : i < j => pos2[i] < pos2[j]
        <3> SUFFICES ASSUME NEW i \in DOMAIN more, NEW j \in DOMAIN more, i < j
                     PROVE  pos2[i] < pos2[j]
            OBVIOUS
        <3>1. i \in DOMAIN out
            BY <1>2, <2>4
        <3>2. CASE j \in DOMAIN out
            BY <1>1, <3>1, <3>2
        <3>3. CASE j \notin DOMAIN out
            BY <1>1, <3>1, <3>3
        <3> QED
            BY <3>2, <3>3
    <2>9. ASSUME NEW m \in 1 .. n, c.seq[m] \in c.set PROVE \E i \in DOMAIN more : pos2[i] = m
        <3>1. CASE m = n
            <4>1. pos2[Len(out) + 1] = n /\ Len(out) + 1 \in DOMAIN more
                BY <1>2, <2>4
            <4> QED
                BY <3>1, <4>1
        <3>2. CASE m \in 1 .. n - 1
            <4>1. PICK i \in DOMAIN out : pos[i] = m
                BY <1>1, <2>9, <3>2
            <4>2. i \in DOMAIN more /\ pos2[i] = m
                BY <2>4, <4>1
            <4> QED
                BY <4>2
        <3> QED
            BY <3>1, <3>2
    <2> HIDE DEF pos2
    <2>10. KeptSoFar(c, n, more)
        BY <2>5, <2>6, <2>7, <2>8, <2>9 DEF KeptSoFar
    <2> QED
        BY <2>1, <2>10
<1> QED
    BY <1>3, <1>4

\* Before any, none is kept.
LEMMA NothingKept == ASSUME NEW c PROVE KeptSoFar(c, 0, <<>>)
<1> DEFINE pos == [i \in DOMAIN <<>> |-> 0]
<1>1. DOMAIN <<>> = {} /\ pos \in [DOMAIN <<>> -> 1 .. 0]
    OBVIOUS
<1>2. IsSeq(<<>>)
    BY DEF IsSeq, ToSet
<1> HIDE DEF pos
<1>3. \A m \in 1 .. 0 : FALSE
    OBVIOUS
<1> QED
    BY <1>1, <1>2, <1>3 DEF KeptSoFar

\* All of them are.
LEMMA ThoseAre ==
    ASSUME NEW seq, NEW set, IsSeq(seq)
    PROVE  KeptSoFar([seq |-> seq, set |-> set], Len(seq), Those(seq, set))
<1> DEFINE c == [seq |-> seq, set |-> set]
<1>1. c.seq = seq /\ c.set = set
    OBVIOUS
<1> HIDE DEF c
<1>2. DOMAIN seq = 1 .. Len(seq) /\ Len(seq) \in Nat
    BY DEF IsSeq
<1>3. \A n \in 1 .. Len(seq) : \A a : KeptSoFar(c, n - 1, a) =>
                                          KeptSoFar(c, n, KeepIn(c.set, a, seq[n]))
    BY <1>1, <1>2, KeepInKeeps
<1>4. KeptSoFar(c, Len(seq), Keeping!Loop(c, <<>>, seq))
    BY <1>2, <1>3, NothingKept, Keeping!FoldKeeps
<1>5. Those(seq, c.set) = Keeping!Loop(c, <<>>, seq)
    BY DEF Those, Keeping!Loop, FoldLeft, Keeping!FoldLeft, MapThenFoldSet,
           Keeping!MapThenFoldSet, Max, Keeping!Max
<1> QED
    BY <1>1, <1>4, <1>5 DEF c

\* A sequence that keeps the members of a set holds those that were held.
LEMMA HoldsKept ==
    ASSUME NEW E, NEW s, NEW S, Holds(E, s, S), NEW set, NEW out,
           KeptSoFar([seq |-> s, set |-> set], Len(s), out)
    PROVE  Holds(E, out, S \cap set) /\ \A i \in DOMAIN out : out[i] \in set
<1> DEFINE c == [seq |-> s, set |-> set]
<1>1. c.seq = s /\ c.set = set
    OBVIOUS
<1>2. DOMAIN s = 1 .. Len(s) /\ Len(s) \in Nat
    BY DEF Holds, IsSeq
<1>3. PICK pos \in [DOMAIN out -> 1 .. Len(s)] :
          /\ \A i \in DOMAIN out : out[i] = s[pos[i]] /\ out[i] \in set
          /\ \A i, j \in DOMAIN out : i < j => pos[i] < pos[j]
          /\ \A m \in 1 .. Len(s) : s[m] \in set => \E i \in DOMAIN out : pos[i] = m
    BY DEF KeptSoFar
<1>4. IsSeq(out)
    BY DEF KeptSoFar
<1> HIDE DEF c
<1>5. ASSUME NEW x \in S \cap set
      PROVE  x.encoding = E /\ x.offset \in Nat /\ \E i \in DOMAIN out : out[i] = x
    <2>1. PICK m \in DOMAIN s : s[m] = x
        BY DEF Holds
    <2>2. PICK i \in DOMAIN out : pos[i] = m
        BY <1>2, <1>3, <2>1
    <2> QED
        BY <1>3, <2>1, <2>2 DEF Holds
<1>6. \A i \in DOMAIN out : out[i].encoding = E => out[i] \in S \cap set
    BY <1>2, <1>3 DEF Holds
<1>7. ASSUME NEW i \in DOMAIN out, NEW j \in DOMAIN out, i < j,
             out[i].encoding = E, out[j].encoding = E
      PROVE  out[i].offset < out[j].offset
    <2>1. pos[i] < pos[j] /\ pos[i] \in DOMAIN s /\ pos[j] \in DOMAIN s
        BY <1>2, <1>3, <1>7
    <2>2. out[i] = s[pos[i]] /\ out[j] = s[pos[j]]
        BY <1>3
    <2> QED
        BY <1>7, <2>1, <2>2 DEF Holds
<1> QED
    BY <1>3, <1>4, <1>5, <1>6, <1>7 DEF Holds

\* emit_record, for every record: those are kept that are long, or touch the chunk's boundary.
LEMMA HoldsEmitted ==
    ASSUME NEW E, NEW s, NEW S, Holds(E, s, S), NEW minCch
    PROVE  Holds(E, Emit(s, minCch), {x \in S : x.cch >= minCch \/ x.starts \/ x.ends})
<1> DEFINE set == {x \in ToSet(s) : x.cch >= minCch \/ x.starts \/ x.ends}
           c == [seq |-> s, set |-> set, minCch |-> minCch]
           d == [seq |-> s, set |-> set]
           out == KeepingLong!Loop(c, <<>>, s)
<1>1. c.seq = s /\ c.set = set /\ c.minCch = minCch /\ d.seq = s /\ d.set = set
    OBVIOUS
<1>2. DOMAIN s = 1 .. Len(s) /\ Len(s) \in Nat
    BY DEF Holds, IsSeq
<1>3. \A n \in 1 .. Len(s) : s[n] \in ToSet(s)
    BY <1>2 DEF ToSet
<1>4. \A n \in 1 .. Len(s) : \A a : EmitRecord(minCch, a, s[n]) = KeepIn(set, a, s[n])
    BY <1>3 DEF EmitRecord, KeepIn
<1> HIDE DEF c, d, set
<1>5. \A n \in 1 .. Len(s) : \A a : KeptSoFar(c, n - 1, a) =>
                                        KeptSoFar(c, n, EmitRecord(c.minCch, a, s[n]))
    BY <1>1, <1>2, <1>4, KeepInKeeps
<1>6. KeptSoFar(c, Len(s), out)
    BY <1>2, <1>5, NothingKept, KeepingLong!FoldKeeps
<1>7. Emit(s, c.minCch) = out
    BY DEF Emit, KeepingLong!Loop, FoldLeft, KeepingLong!FoldLeft, MapThenFoldSet,
           KeepingLong!MapThenFoldSet, Max, KeepingLong!Max
<1>8. KeptSoFar(d, Len(s), Emit(s, minCch))
    BY <1>1, <1>6, <1>7 DEF KeptSoFar
<1>9. Holds(E, Emit(s, minCch), S \cap set)
    BY <1>8, HoldsKept DEF d
<1>10. S \cap set = {x \in S : x.cch >= minCch \/ x.starts \/ x.ends}
    <2>1. \A x \in S : x \in ToSet(s)
        BY DEF Holds, ToSet
    <2> QED
        BY <2>1 DEF set
<1> QED
    BY <1>9, <1>10

-----------------------------------------------------------------------------
(* Sequences that are sorted.                                              *)

\* A part of a sequence is one.
LEMMA PartIs ==
    ASSUME NEW s, IsSeq(s), NEW lo \in Nat \ {0}, NEW hi \in Nat, hi <= Len(s), lo <= hi + 1
    PROVE  /\ IsSeq(SubSeq(s, lo, hi)) /\ Len(SubSeq(s, lo, hi)) = hi - lo + 1
           /\ \A i \in DOMAIN SubSeq(s, lo, hi) :
                 /\ i \in Nat /\ lo + i - 1 \in DOMAIN s
                 /\ SubSeq(s, lo, hi)[i] = s[lo + i - 1]
           /\ \A i \in DOMAIN s : lo <= i /\ i <= hi =>
                 /\ i - lo + 1 \in DOMAIN SubSeq(s, lo, hi)
                 /\ SubSeq(s, lo, hi)[i - lo + 1] = s[i]
<1> DEFINE R == ToSet(s)
<1>1. s \in Seq(R)
    BY DEF IsSeq
<1> HIDE DEF R
<1>2. Len(s) \in Nat /\ DOMAIN s = 1 .. Len(s) /\ \A i \in 1 .. Len(s) : s[i] \in R
    BY <1>1
<1> DEFINE N == hi - lo + 1
<1>3. N \in Nat
    OBVIOUS
<1>4. SubSeq(s, lo, hi) = [i \in 1 .. N |-> s[lo + i - 1]]
    BY <1>1
<1>5. \A i \in 1 .. N : i \in Nat /\ lo + i - 1 \in DOMAIN s
    BY <1>2
<1> DEFINE part == [i \in 1 .. N |-> s[lo + i - 1]]
<1>6. part \in [1 .. N -> R]
    BY <1>2, <1>5
<1>7. part \in Seq(R) /\ Len(part) = N
    <2> HIDE DEF part, N
    <2>1. part \in Seq(R)
        BY <1>3, <1>6
    <2>2. DOMAIN part = 1 .. N
        BY <1>6
    <2> QED
        BY <1>3, <2>1, <2>2
<1>8. IsSeq(part)
    BY <1>7, OverItsMembers DEF IsSeq
<1>9. \A i \in DOMAIN s : lo <= i /\ i <= hi => i - lo + 1 \in 1 .. N /\ part[i - lo + 1] = s[i]
    BY <1>2
<1>10. DOMAIN part = 1 .. N /\ \A i \in 1 .. N : part[i] = s[lo + i - 1]
    OBVIOUS
<1> HIDE DEF part, N
<1>11. SubSeq(s, lo, hi) = part
    BY <1>4 DEF part
<1> QED
    BY <1>5, <1>7, <1>8, <1>9, <1>10, <1>11 DEF N

\* of the encoding E, what the sequence holds from lo to hi
HeldAt(E, s, lo, hi) == {s[i] : i \in {k \in DOMAIN s : lo <= k /\ k <= hi /\ s[k].encoding = E}}

\* A part holds that.
LEMMA HoldsPart ==
    ASSUME NEW E, NEW s, NEW S, Holds(E, s, S),
           NEW lo \in Nat \ {0}, NEW hi \in Nat, hi <= Len(s), lo <= hi + 1
    PROVE  Holds(E, SubSeq(s, lo, hi), HeldAt(E, s, lo, hi))
<1> DEFINE part == SubSeq(s, lo, hi)
           P == HeldAt(E, s, lo, hi)
<1>1. /\ IsSeq(part) /\ Len(part) = hi - lo + 1
      /\ \A i \in DOMAIN part : i \in Nat /\ lo + i - 1 \in DOMAIN s /\ part[i] = s[lo + i - 1]
      /\ \A i \in DOMAIN s : lo <= i /\ i <= hi =>
            i - lo + 1 \in DOMAIN part /\ part[i - lo + 1] = s[i]
    BY PartIs DEF Holds
<1> HIDE DEF part
<1>2. ASSUME NEW x \in P
      PROVE  x.encoding = E /\ x.offset \in Nat /\ \E i \in DOMAIN part : part[i] = x
    <2>1. PICK i \in DOMAIN s : lo <= i /\ i <= hi /\ s[i].encoding = E /\ x = s[i]
        BY DEF HeldAt
    <2>2. i - lo + 1 \in DOMAIN part /\ part[i - lo + 1] = x
        BY <1>1, <2>1
    <2>3. x \in S
        BY <2>1 DEF Holds
    <2> QED
        BY <2>2, <2>3 DEF Holds
<1>3. DOMAIN part = 1 .. hi - lo + 1
    BY <1>1 DEF IsSeq
<1>4. ASSUME NEW i \in DOMAIN part, part[i].encoding = E PROVE part[i] \in P
    <2>1. /\ lo + i - 1 \in DOMAIN s /\ part[i] = s[lo + i - 1]
          /\ lo <= lo + i - 1 /\ lo + i - 1 <= hi
        BY <1>1, <1>3
    <2> QED
        BY <1>4, <2>1 DEF HeldAt
<1>5. ASSUME NEW i \in DOMAIN part, NEW j \in DOMAIN part, i < j,
             part[i].encoding = E, part[j].encoding = E
      PROVE  part[i].offset < part[j].offset
    <2>1. /\ lo + i - 1 \in DOMAIN s /\ part[i] = s[lo + i - 1]
          /\ lo + j - 1 \in DOMAIN s /\ part[j] = s[lo + j - 1]
          /\ lo + i - 1 < lo + j - 1
        BY <1>1, <1>5
    <2> QED
        BY <1>5, <2>1 DEF Holds
<1> HIDE DEF P
<1> QED
    BY <1>1, <1>2, <1>4, <1>5 DEF Holds, part, P

\* A record is put where those before it are smaller, and those behind it greater.
LEMMA HoldsInserted ==
    ASSUME NEW E, NEW s, NEW S, Holds(E, s, S), NEW x, NEW p \in Nat \ {0}, p <= Len(s) + 1,
           x.encoding = E =>
              /\ x.offset \in Nat
              /\ \A i \in DOMAIN s : s[i].encoding = E =>
                    IF i < p THEN s[i].offset < x.offset ELSE x.offset < s[i].offset
    PROVE  Holds(E, InsertAt(s, p, x), S \cup (IF x.encoding = E THEN {x} ELSE {}))
<1> DEFINE X == IF x.encoding = E THEN {x} ELSE {}
           A == HeldAt(E, s, 1, p - 1)
           B == HeldAt(E, s, p, Len(s))
           before == SubSeq(s, 1, p - 1)
           behind == SubSeq(s, p, Len(s))
<1>1. /\ Len(s) \in Nat /\ DOMAIN s = 1 .. Len(s) /\ p - 1 \in Nat /\ p - 1 <= Len(s)
      /\ 1 \in Nat \ {0} /\ 1 <= (p - 1) + 1 /\ Len(s) <= Len(s)
    BY DEF Holds, IsSeq
<1>2. Holds(E, before, A)
    BY <1>1, HoldsPart
<1>3. Holds(E, behind, B)
    BY <1>1, HoldsPart
<1>4. Holds(E, <<x>>, X)
    BY HoldsOne
<1>5. \A y \in A : y \in S /\ \E i \in DOMAIN s : i < p /\ s[i] = y /\ s[i].encoding = E
    BY <1>1 DEF HeldAt, Holds
<1>6. \A y \in B : y \in S /\ \E i \in DOMAIN s : ~(i < p) /\ s[i] = y /\ s[i].encoding = E
    BY <1>1 DEF HeldAt, Holds
<1>7. S = A \cup B
    <2>1. ASSUME NEW y \in S PROVE y \in A \cup B
        <3>1. PICK i \in DOMAIN s : s[i] = y /\ y.encoding = E
            BY DEF Holds
        <3>2. CASE i < p
            <4>1. 1 <= i /\ i <= p - 1
                BY <1>1, <3>2
            <4> QED
                BY <3>1, <4>1 DEF HeldAt
        <3>3. CASE ~(i < p)
            <4>1. p <= i /\ i <= Len(s)
                BY <1>1, <3>3
            <4> QED
                BY <3>1, <4>1 DEF HeldAt
        <3> QED
            BY <3>2, <3>3
    <2> QED
        BY <1>5, <1>6, <2>1
<1> HIDE DEF A, B, before, behind
<1>8. \A y \in A : \A z \in X : y.offset < z.offset
    BY <1>5
<1>9. \A z \in X : \A y \in B : z.offset < y.offset
    BY <1>6
<1>10. \A y \in A : \A z \in B : y.offset < z.offset
    <2> SUFFICES ASSUME NEW y \in A, NEW z \in B PROVE y.offset < z.offset
        OBVIOUS
    <2>1. PICK i \in DOMAIN s : i < p /\ s[i] = y /\ s[i].encoding = E
        BY <1>5
    <2>2. PICK j \in DOMAIN s : ~(j < p) /\ s[j] = z /\ s[j].encoding = E
        BY <1>6
    <2>3. i < j
        BY <1>1, <2>1, <2>2
    <2> QED
        BY <2>1, <2>2, <2>3 DEF Holds
<1> HIDE DEF X
<1>11. Holds(E, before \o <<x>>, A \cup X)
    BY <1>2, <1>4, <1>8, HoldsConcat
<1>12. Holds(E, (before \o <<x>>) \o behind, (A \cup X) \cup B)
    BY <1>3, <1>9, <1>10, <1>11, HoldsConcat
<1>13. (A \cup X) \cup B = S \cup X
    BY <1>7
<1>14. InsertAt(s, p, x) = (before \o <<x>>) \o behind
    BY DEF InsertAt, before, behind
<1> QED
    BY <1>12, <1>13, <1>14 DEF X

\* of the encoding E the sequence has the members of S, each once, in some order
Lists(E, s, S) ==
    /\ IsSeq(s)
    /\ \A x \in S : x.encoding = E /\ x.offset \in Nat /\ \E i \in DOMAIN s : s[i] = x
    /\ \A i \in DOMAIN s : s[i].encoding = E => s[i] \in S
    /\ \A i, j \in DOMAIN s :
          i # j /\ s[i].encoding = E /\ s[j].encoding = E => s[i].offset # s[j].offset

\* A sequence that holds them has them.
LEMMA HoldsLists == ASSUME NEW E, NEW s, NEW S, Holds(E, s, S) PROVE Lists(E, s, S)
<1>1. DOMAIN s \subseteq Nat
    BY DEF Holds, IsSeq
<1>2. \A i, j \in DOMAIN s :
          i # j /\ s[i].encoding = E /\ s[j].encoding = E => s[i].offset # s[j].offset
    <2> SUFFICES ASSUME NEW i \in DOMAIN s, NEW j \in DOMAIN s, i # j,
                        s[i].encoding = E, s[j].encoding = E
                 PROVE  s[i].offset # s[j].offset
        OBVIOUS
    <2>1. s[i].offset \in Nat /\ s[j].offset \in Nat
        BY DEF Holds
    <2>2. i < j \/ j < i
        BY <1>1
    <2> QED
        BY <2>1, <2>2 DEF Holds
<1> QED
    BY <1>2 DEF Holds, Lists

\* of the first n, those of the encoding E have been put in order
SortedSoFar(c, n, out) ==
    /\ Holds(c.E, out, HeldAt(c.E, c.seq, 1, n))
    /\ c.pure => \A i \in DOMAIN out : out[i].encoding = c.E

Sorting == INSTANCE LeftFold WITH Body <- LAMBDA c, sorted, rec : Insert(sorted, rec),
                                  Kept <- SortedSoFar

\* The place of a record is one of the sequence, or the one behind it.
LEMMA PlaceIs ==
    ASSUME NEW s, IsSeq(s), NEW x
    PROVE  /\ Place(s, x) \in Nat \ {0} /\ Place(s, x) <= Len(s) + 1
           /\ \A i \in DOMAIN s : i < Place(s, x) => ~Precedes(x, s[i])
           /\ Place(s, x) \in DOMAIN s => Precedes(x, s[Place(s, x)])
<1> DEFINE after == {n \in DOMAIN s : Precedes(x, s[n])}
           places == after \cup {Len(s) + 1}
<1>1. Len(s) \in Nat /\ DOMAIN s = 1 .. Len(s)
    BY DEF IsSeq
<1>2. places \subseteq Nat /\ places # {}
    BY <1>1
<1>3. \E n \in places : \A m \in places : n <= m
    <2> HIDE DEF places
    <2> QED
        BY <1>2, Consuming!LeastNatural
<1>4. Place(s, x) \in places /\ \A m \in places : Place(s, x) <= m
    BY <1>3 DEF Place, Min
<1>5. \A i \in DOMAIN s : i < Place(s, x) => ~Precedes(x, s[i])
    BY <1>1, <1>2, <1>4
<1> HIDE DEF after
<1>6. Place(s, x) \in Nat \ {0} /\ Place(s, x) <= Len(s) + 1
    BY <1>1, <1>4 DEF after
<1>7. Place(s, x) \in DOMAIN s => Precedes(x, s[Place(s, x)])
    BY <1>1, <1>4 DEF after
<1> QED
    BY <1>5, <1>6, <1>7

\* And what is in it is in one of them.
LEMMA ConcatOf ==
    ASSUME NEW s, NEW t, IsSeq(s), IsSeq(t)
    PROVE  /\ IsSeq(s \o t)
           /\ \A i \in DOMAIN (s \o t) : \/ \E k \in DOMAIN s : (s \o t)[i] = s[k]
                                       \/ \E k \in DOMAIN t : (s \o t)[i] = t[k]
<1>1. /\ IsSeq(s \o t)
      /\ \A i \in DOMAIN s : (s \o t)[i] = s[i]
      /\ \A i \in DOMAIN t : (s \o t)[Len(s) + i] = t[i]
      /\ \A i \in DOMAIN (s \o t) :
            i \in DOMAIN s \/ (i - Len(s) \in DOMAIN t /\ i = Len(s) + (i - Len(s)))
    BY ConcatAt
<1> QED
    BY <1>1

\* What is in a sequence after an insertion.
LEMMA InsertedAre ==
    ASSUME NEW s, IsSeq(s), NEW x, NEW p \in Nat \ {0}, p <= Len(s) + 1
    PROVE  \A i \in DOMAIN InsertAt(s, p, x) :
               InsertAt(s, p, x)[i] = x \/ \E k \in DOMAIN s : InsertAt(s, p, x)[i] = s[k]
<1> DEFINE before == SubSeq(s, 1, p - 1)
           behind == SubSeq(s, p, Len(s))
           front == before \o <<x>>
           all == front \o behind
<1>1. /\ Len(s) \in Nat /\ DOMAIN s = 1 .. Len(s) /\ p - 1 \in Nat /\ p - 1 <= Len(s)
      /\ 1 \in Nat \ {0} /\ 1 <= (p - 1) + 1 /\ Len(s) <= Len(s)
    BY DEF IsSeq
<1>2. IsSeq(before) /\ \A i \in DOMAIN before : \E k \in DOMAIN s : before[i] = s[k]
    BY <1>1, PartIs
<1>3. IsSeq(behind) /\ \A i \in DOMAIN behind : \E k \in DOMAIN s : behind[i] = s[k]
    <2>1. /\ IsSeq(behind)
          /\ \A i \in DOMAIN behind : p + i - 1 \in DOMAIN s /\ behind[i] = s[p + i - 1]
        BY <1>1, PartIs
    <2> QED
        BY <2>1
<1>4. IsSeq(<<x>>) /\ \A i \in DOMAIN <<x>> : <<x>>[i] = x
    BY DEF IsSeq, ToSet
<1> HIDE DEF before, behind
<1>5. IsSeq(front) /\ \A i \in DOMAIN front :
                          front[i] = x \/ \E k \in DOMAIN s : front[i] = s[k]
    <2>1. /\ IsSeq(before \o <<x>>)
          /\ \A i \in DOMAIN (before \o <<x>>) :
                \/ \E k \in DOMAIN before : (before \o <<x>>)[i] = before[k]
                \/ \E k \in DOMAIN <<x>> : (before \o <<x>>)[i] = <<x>>[k]
        BY <1>2, <1>4, ConcatOf
    <2> QED
        BY <1>2, <1>4, <2>1
<1> HIDE DEF front
<1>6. \A i \in DOMAIN all :
          \/ \E k \in DOMAIN front : all[i] = front[k]
          \/ \E k \in DOMAIN behind : all[i] = behind[k]
    BY <1>3, <1>5, ConcatOf
<1>7. InsertAt(s, p, x) = all
    BY DEF InsertAt, before, behind, front
<1> HIDE DEF all
<1> QED
    BY <1>3, <1>5, <1>6, <1>7

\* what may be sorted: records of the encoding alone, or no more than one of it
Sortable(c) ==
    /\ Lists(c.E, c.seq, c.S)
    /\ IF c.pure THEN \A i \in DOMAIN c.seq : c.seq[i].encoding = c.E
       ELSE \A x, y \in c.S : x = y

\* One more is put in its place.
LEMMA InsertKeeps ==
    ASSUME NEW c, Sortable(c), NEW n \in 1 .. Len(c.seq), NEW out, SortedSoFar(c, n - 1, out)
    PROVE  SortedSoFar(c, n, Insert(out, c.seq[n]))
<1> DEFINE x == c.seq[n]
           p == Place(out, x)
           H == HeldAt(c.E, c.seq, 1, n - 1)
           X == IF x.encoding = c.E THEN {x} ELSE {}
<1>1. IsSeq(out) /\ Holds(c.E, out, H)
    BY DEF SortedSoFar, Holds
<1>2. /\ p \in Nat \ {0} /\ p <= Len(out) + 1
      /\ \A i \in DOMAIN out : i < p => ~Precedes(x, out[i])
      /\ p \in DOMAIN out => Precedes(x, out[p])
    BY <1>1, PlaceIs
<1>3. DOMAIN c.seq = 1 .. Len(c.seq) /\ Len(c.seq) \in Nat /\ n \in DOMAIN c.seq /\ n \in Nat
    BY DEF Sortable, Lists, IsSeq
<1>4. DOMAIN out = 1 .. Len(out) /\ Len(out) \in Nat
    BY <1>1 DEF IsSeq
<1> HIDE DEF p
<1>5. ASSUME x.encoding = c.E
      PROVE  /\ x.offset \in Nat
             /\ \A i \in DOMAIN out : out[i].encoding = c.E =>
                   IF i < p THEN out[i].offset < x.offset ELSE x.offset < out[i].offset
    <2>1. x \in c.S /\ x.offset \in Nat
        BY <1>3, <1>5 DEF Sortable, Lists
    <2>2. ASSUME NEW i \in DOMAIN out, out[i].encoding = c.E
          PROVE  out[i] \in c.S /\ out[i].offset \in Nat /\ out[i].offset # x.offset
        <3>1. out[i] \in H
            BY <1>1, <2>2 DEF Holds
        <3>2. PICK k \in DOMAIN c.seq : k <= n - 1 /\ out[i] = c.seq[k]
            BY <3>1 DEF HeldAt
        <3>3. k # n
            BY <1>3, <3>2
        <3> QED
            BY <1>3, <1>5, <2>2, <3>2, <3>3 DEF Sortable, Lists
    <2>3. CASE ~c.pure
        BY <2>1, <2>2, <2>3 DEF Sortable
    <2>4. CASE c.pure
        <3>1. \A i \in DOMAIN out : out[i].encoding = c.E
            BY <2>4 DEF SortedSoFar
        <3> SUFFICES ASSUME NEW i \in DOMAIN out
                     PROVE  IF i < p THEN out[i].offset < x.offset ELSE x.offset < out[i].offset
            BY <2>1
        <3>2. out[i].offset \in Nat /\ out[i].offset # x.offset
            BY <2>2, <3>1
        <3>3. CASE i < p
            <4>1. ~Precedes(x, out[i])
                BY <1>2, <3>3
            <4> QED
                BY <2>1, <3>2, <3>3, <4>1 DEF Precedes
        <3>4. CASE ~(i < p)
            <4>1. p \in DOMAIN out /\ p <= i
                BY <1>2, <1>4, <3>4
            <4>2. out[p].offset \in Nat /\ out[p].offset # x.offset
                BY <2>2, <3>1, <4>1
            <4>3. x.offset < out[p].offset
                BY <1>2, <2>1, <4>1, <4>2 DEF Precedes
            <4>4. out[p].offset <= out[i].offset
                <5>1. CASE p = i
                    BY <5>1, <4>2
                <5>2. CASE p < i
                    <6>1. out[p].encoding = c.E /\ out[i].encoding = c.E
                        BY <3>1, <4>1
                    <6>2. out[p].offset < out[i].offset
                        BY <1>1, <4>1, <5>2, <6>1 DEF Holds
                    <6> QED
                        BY <3>2, <4>2, <6>2
                <5> QED
                    BY <1>2, <1>4, <4>1, <5>1, <5>2
            <4> QED
                BY <2>1, <3>2, <3>4, <4>2, <4>3, <4>4
        <3> QED
            BY <3>3, <3>4
    <2> QED
        BY <2>3, <2>4
<1> HIDE DEF H
<1>6. Holds(c.E, InsertAt(out, p, x), H \cup X)
    BY <1>1, <1>2, <1>5, HoldsInserted
<1>7. HeldAt(c.E, c.seq, 1, n) = H \cup X
    <2>1. \A k \in DOMAIN c.seq : k <= n <=> k <= n - 1 \/ k = n
        BY <1>3
    <2>2. 1 <= n
        BY <1>3
    <2> QED
        BY <1>3, <2>1, <2>2 DEF HeldAt, H
<1>8. c.pure => \A i \in DOMAIN InsertAt(out, p, x) : InsertAt(out, p, x)[i].encoding = c.E
    <2>1. c.pure => x.encoding = c.E /\ \A i \in DOMAIN out : out[i].encoding = c.E
        BY <1>3 DEF Sortable, SortedSoFar
    <2>2. \A i \in DOMAIN InsertAt(out, p, x) :
              InsertAt(out, p, x)[i] = x \/ \E k \in DOMAIN out : InsertAt(out, p, x)[i] = out[k]
        BY <1>1, <1>2, InsertedAre
    <2> QED
        BY <2>1, <2>2
<1>9. Insert(out, x) = InsertAt(out, p, x)
    BY DEF Insert, p
<1> QED
    BY <1>6, <1>7, <1>8, <1>9 DEF SortedSoFar

\* What a sequence has it holds after it was sorted, if it is of the encoding alone or has no
\* more than one.
LEMMA SortedHolds ==
    ASSUME NEW E, NEW s, NEW S, Lists(E, s, S), NEW pure \in BOOLEAN,
           IF pure THEN \A i \in DOMAIN s : s[i].encoding = E ELSE \A x, y \in S : x = y
    PROVE  /\ Holds(E, Sorted(s), S)
           /\ pure => \A i \in DOMAIN Sorted(s) : Sorted(s)[i].encoding = E
<1> DEFINE c == [E |-> E, seq |-> s, S |-> S, pure |-> pure]
<1>1. c.E = E /\ c.seq = s /\ c.S = S /\ c.pure = pure
    OBVIOUS
<1> HIDE DEF c
<1>2. Sortable(c)
    BY <1>1 DEF Sortable
<1>3. DOMAIN s = 1 .. Len(s) /\ Len(s) \in Nat
    BY DEF Lists, IsSeq
<1>4. SortedSoFar(c, 0, <<>>)
    <2>1. HeldAt(E, s, 1, 0) = {}
        BY <1>3 DEF HeldAt
    <2>2. \A i \in DOMAIN <<>> : FALSE
        OBVIOUS
    <2> QED
        BY <1>1, <2>1, <2>2, HoldsNothing DEF SortedSoFar
<1>5. \A n \in 1 .. Len(s) : \A a : SortedSoFar(c, n - 1, a) => SortedSoFar(c, n, Insert(a, s[n]))
    BY <1>1, <1>2, InsertKeeps
<1>6. SortedSoFar(c, Len(s), Sorting!Loop(c, <<>>, s))
    BY <1>3, <1>4, <1>5, Sorting!FoldKeeps
<1>7. Sorted(s) = Sorting!Loop(c, <<>>, s)
    BY DEF Sorted, Sorting!Loop, FoldLeft, Sorting!FoldLeft, MapThenFoldSet,
           Sorting!MapThenFoldSet, Max, Sorting!Max
<1>8. HeldAt(E, s, 1, Len(s)) = S
    BY <1>3 DEF HeldAt, Lists
<1> QED
    BY <1>1, <1>6, <1>7, <1>8 DEF SortedSoFar

\* The members of a finite set, as a sequence.
LEMMA InSomeOrder ==
    ASSUME NEW F, IsFiniteSet(F)
    PROVE  /\ IsSeq(SetToSeq(F))
           /\ \A i \in DOMAIN SetToSeq(F) : SetToSeq(F)[i] \in F
           /\ \A x \in F : \E i \in DOMAIN SetToSeq(F) : SetToSeq(F)[i] = x
           /\ \A i, j \in DOMAIN SetToSeq(F) : SetToSeq(F)[i] = SetToSeq(F)[j] => i = j
<1> DEFINE N == Cardinality(F)
           s == SetToSeq(F)
<1>1. N \in Nat /\ \E f \in [1 .. N -> F] : IsInjective(f)
    BY FS_CardinalityType DEF ExistsBijection, Bijection, Injection
<1>2. s \in [1 .. N -> F] /\ IsInjective(s)
    BY <1>1 DEF SetToSeq
<1> HIDE DEF s
<1>3. IsFiniteSet(1 .. N) /\ Cardinality(1 .. N) = N
    BY <1>1, FS_Interval
<1>4. s \in Surjection(1 .. N, F)
    BY <1>2, <1>3, FS_Injection DEF Injection
<1>5. s \in Seq(F)
    BY <1>1, <1>2
<1> HIDE DEF N
<1> QED
    BY <1>2, <1>4, <1>5, OverItsMembers DEF Surjection, IsInjective, IsSeq, s

\* They are all that it has.
LEMMA ListsSet ==
    ASSUME NEW E, NEW F, IsFiniteSet(F),
           \A x \in F : x.encoding = E => x.offset \in Nat,
           \A x, y \in F : x.encoding = E /\ y.encoding = E /\ x # y => x.offset # y.offset
    PROVE  Lists(E, SetToSeq(F), {x \in F : x.encoding = E})
<1> DEFINE s == SetToSeq(F)
<1>1. /\ IsSeq(s)
      /\ \A i \in DOMAIN s : s[i] \in F
      /\ \A x \in F : \E i \in DOMAIN s : s[i] = x
      /\ \A i, j \in DOMAIN s : s[i] = s[j] => i = j
    BY InSomeOrder
<1> HIDE DEF s
<1> QED
    BY <1>1 DEF Lists, s

\* What is left of a sequence.
LEMMA SuffixIs ==
    ASSUME NEW s, IsSeq(s), NEW n \in DOMAIN s
    PROVE  /\ SubSeq(s, n, Len(s)) # <<>>
           /\ Head(SubSeq(s, n, Len(s))) = s[n]
           /\ Tail(SubSeq(s, n, Len(s))) = SubSeq(s, n + 1, Len(s))
<1> DEFINE left == SubSeq(s, n, Len(s))
           rest == SubSeq(s, n + 1, Len(s))
           R == ToSet(left) \cup ToSet(rest)
<1>1. Len(s) \in Nat /\ n \in 1 .. Len(s) /\ n \in Nat \ {0} /\ n + 1 \in Nat \ {0}
    BY DEF IsSeq
<1>2. /\ IsSeq(left) /\ Len(left) = Len(s) - n + 1
      /\ \A i \in DOMAIN left : left[i] = s[n + i - 1]
    BY <1>1, PartIs
<1>3. /\ IsSeq(rest) /\ Len(rest) = Len(s) - (n + 1) + 1
      /\ \A i \in DOMAIN rest : rest[i] = s[(n + 1) + i - 1]
    BY <1>1, PartIs
<1>4. left \in Seq(R) /\ rest \in Seq(R)
    BY <1>2, <1>3 DEF IsSeq
<1> HIDE DEF R, left, rest
<1>5. /\ left # <<>> /\ Head(left) = left[1] /\ Tail(left) \in Seq(R)
      /\ Len(Tail(left)) = Len(left) - 1
      /\ \A i \in 1 .. Len(left) - 1 : Tail(left)[i] = left[i + 1]
    BY <1>1, <1>2, <1>4
<1>6. left[1] = s[n]
    <2>1. 1 \in DOMAIN left
        BY <1>1, <1>2, <1>4
    <2>2. left[1] = s[n + 1 - 1]
        BY <1>2, <2>1, Zenon
    <2>3. n + 1 - 1 = n
        BY <1>1
    <2> QED
        BY <2>2, <2>3
<1>7. ASSUME NEW i \in 1 .. Len(rest) PROVE Tail(left)[i] = rest[i]
    <2>1. i \in 1 .. Len(left) - 1 /\ i + 1 \in DOMAIN left /\ i \in DOMAIN rest
        BY <1>1, <1>2, <1>3, <1>4
    <2>2. left[i + 1] = s[n + (i + 1) - 1] /\ rest[i] = s[(n + 1) + i - 1]
        BY <1>2, <1>3, <2>1
    <2>3. n + (i + 1) - 1 = (n + 1) + i - 1
        BY <1>1
    <2> QED
        BY <1>5, <2>1, <2>2, <2>3
<1>8. Tail(left) = rest
    <2> DEFINE tail == Tail(left)
    <2>1. tail \in Seq(R) /\ rest \in Seq(R) /\ Len(tail) = Len(rest)
        BY <1>1, <1>2, <1>3, <1>4, <1>5
    <2>2. \A i \in 1 .. Len(rest) : tail[i] = rest[i]
        BY <1>7
    <2> HIDE DEF tail
    <2>3. tail = rest
        BY <2>1, <2>2
    <2> QED
        BY <2>3 DEF tail
<1> QED
    BY <1>5, <1>6, <1>8 DEF left, rest

\* All of it, and what is behind a first part.
LEMMA SuffixOfConcat ==
    ASSUME NEW s, NEW t, IsSeq(s), IsSeq(t)
    PROVE  /\ SubSeq(s \o t, 1, Len(s \o t)) = s \o t
           /\ SubSeq(s \o t, Len(s) + 1, Len(s \o t)) = t
<1> DEFINE R == ToSet(s) \cup ToSet(t)
<1>1. s \in Seq(R) /\ t \in Seq(R)
    BY DEF IsSeq
<1> HIDE DEF R
<1>2. s \o t \in Seq(R) /\ Len(s \o t) = Len(s) + Len(t)
    BY <1>1
<1>3. \A x \in Seq(R) : SubSeq(x, 1, Len(x)) = x
    OBVIOUS
<1>4. SubSeq(s \o t, Len(s) + 1, Len(s) + Len(t)) = t
    BY <1>1
<1> QED
    BY <1>2, <1>3, <1>4

\* What is sorted before it is written.
LEMMA SortedHoldsOne ==
    ASSUME NEW E, NEW s, NEW S, Holds(E, s, S), \A x, y \in S : x = y
    PROVE  Holds(E, Sorted(s), S)
<1> DEFINE pure == FALSE
<1>1. pure \in BOOLEAN /\ Lists(E, s, S)
    BY HoldsLists
<1>2. IF pure THEN \A i \in DOMAIN s : s[i].encoding = E ELSE \A x, y \in S : x = y
    OBVIOUS
<1> HIDE DEF pure
<1> QED
    BY <1>1, <1>2, SortedHolds

\* A sequence that holds the members of a set, in two parts.
LEMMA HoldsSplit ==
    ASSUME NEW E, NEW s, NEW t, NEW S, IsSeq(s), IsSeq(t), Holds(E, s \o t, S)
    PROVE  \E B : /\ B \subseteq S /\ Holds(E, s, B) /\ Holds(E, t, S \ B)
                  /\ \A x \in B : \E i \in DOMAIN s : s[i] = x
                  /\ \A x \in S \ B : \E i \in DOMAIN t : t[i] = x
<1> DEFINE all == s \o t
           B == {x \in S : \E i \in DOMAIN s : s[i] = x}
<1>1. /\ \A i \in DOMAIN s : i \in DOMAIN all /\ all[i] = s[i]
      /\ \A i \in DOMAIN t : Len(s) + i \in DOMAIN all /\ all[Len(s) + i] = t[i]
      /\ \A i \in DOMAIN all :
            i \in DOMAIN s \/ (i - Len(s) \in DOMAIN t /\ i = Len(s) + (i - Len(s)))
    BY ConcatAt
<1>2. /\ Len(s) \in Nat /\ DOMAIN s = 1 .. Len(s)
      /\ Len(t) \in Nat /\ DOMAIN t = 1 .. Len(t)
    BY DEF IsSeq
<1> HIDE DEF all
<1>3. Holds(E, all, S)
    BY DEF all
<1>4. Holds(E, s, B)
    <2>1. \A x \in B : x.encoding = E /\ x.offset \in Nat /\ \E i \in DOMAIN s : s[i] = x
        BY <1>3 DEF Holds
    <2>2. ASSUME NEW i \in DOMAIN s, s[i].encoding = E PROVE s[i] \in B
        <3>1. s[i] \in S
            BY <1>1, <1>3, <2>2 DEF Holds
        <3> QED
            BY <3>1
    <2>3. ASSUME NEW i \in DOMAIN s, NEW j \in DOMAIN s, i < j,
                 s[i].encoding = E, s[j].encoding = E
          PROVE  s[i].offset < s[j].offset
        BY <1>1, <1>3, <2>3 DEF Holds
    <2> HIDE DEF B
    <2> QED
        BY <2>1, <2>2, <2>3 DEF Holds
<1>5. ASSUME NEW x \in S \ B PROVE \E i \in DOMAIN t : t[i] = x
    <2>1. PICK k \in DOMAIN all : all[k] = x
        BY <1>3 DEF Holds
    <2>2. k \notin DOMAIN s
        BY <1>1, <2>1
    <2>3. k - Len(s) \in DOMAIN t /\ k = Len(s) + (k - Len(s))
        BY <1>1, <2>2
    <2>4. all[Len(s) + (k - Len(s))] = t[k - Len(s)]
        BY <1>1, <2>3
    <2> QED
        BY <2>1, <2>3, <2>4
<1>6. Holds(E, t, S \ B)
    <2>1. \A x \in S \ B : x.encoding = E /\ x.offset \in Nat
        BY <1>3 DEF Holds
    <2>2. ASSUME NEW i \in DOMAIN t, t[i].encoding = E PROVE t[i] \in S \ B
        <3>1. t[i] \in S /\ t[i].offset \in Nat
            BY <1>1, <1>3, <2>2 DEF Holds
        <3>2. ASSUME NEW k \in DOMAIN s, s[k] = t[i] PROVE FALSE
            <4>1. k < Len(s) + i
                BY <1>2
            <4>2. /\ k \in DOMAIN all /\ all[k] = s[k]
                  /\ Len(s) + i \in DOMAIN all /\ all[Len(s) + i] = t[i]
                BY <1>1
            <4>3. all[k].offset < all[Len(s) + i].offset
                BY <1>3, <2>2, <3>2, <4>1, <4>2 DEF Holds
            <4> QED
                BY <3>1, <3>2, <4>2, <4>3
        <3> QED
            BY <3>1, <3>2
    <2>3. ASSUME NEW i \in DOMAIN t, NEW j \in DOMAIN t, i < j,
                 t[i].encoding = E, t[j].encoding = E
          PROVE  t[i].offset < t[j].offset
        <3>1. Len(s) + i < Len(s) + j
            BY <1>2, <2>3
        <3>2. /\ Len(s) + i \in DOMAIN all /\ all[Len(s) + i] = t[i]
              /\ Len(s) + j \in DOMAIN all /\ all[Len(s) + j] = t[j]
            BY <1>1
        <3> QED
            BY <1>3, <2>3, <3>1, <3>2 DEF Holds
    <2> HIDE DEF B
    <2> QED
        BY <1>5, <2>1, <2>2, <2>3 DEF Holds
<1>7. B \subseteq S /\ \A x \in B : \E i \in DOMAIN s : s[i] = x
    OBVIOUS
<1> HIDE DEF B
<1> QED
    BY <1>4, <1>5, <1>6, <1>7

=============================================================================
