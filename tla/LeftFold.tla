------------------------------ MODULE LeftFold ------------------------------
(***************************************************************************)
(* What a loop over a sequence keeps: the induction over FoldLeft, for any *)
(* loop body.  A module that has such a loop takes an instance of this one *)
(* for its body and its invariant.                                         *)
(***************************************************************************)
EXTENDS SequencesExt, TLAPS, WellFoundedInduction

CONSTANTS
    Body(_, _, _),  \* the loop's body: from its parameters, the state and an element,
                    \* the next state
    Kept(_, _, _)   \* its invariant: of the parameters, the number of elements taken,
                    \* and the state

-----------------------------------------------------------------------------
(* Induction over the natural numbers, as facts about sets of them: the    *)
(* form in which the provers can use it.                                   *)

\* A set of natural numbers that is not empty has a least member.
LEMMA LeastNatural ==
    ASSUME NEW T, T \subseteq Nat, T # {}
    PROVE  \E x \in T : \A y \in T : x <= y
<1>1. PICK x \in T : \A y \in T : ~(<<y, x>> \in OpToRel(<, Nat))
    BY WFMin, NatLessThanWellFounded
<1>2. \A y \in T : ~(y < x)
    BY <1>1 DEF OpToRel
<1> QED
    BY <1>2

\* A set that contains 0, and with every number below N its successor, contains 0 .. N.
LEMMA UpTo ==
    ASSUME NEW N \in Nat, NEW T, 0 \in T, \A n \in 0 .. N - 1 : n \in T => n + 1 \in T
    PROVE  \A n \in 0 .. N : n \in T
<1> SUFFICES ASSUME (0 .. N) \ T # {} PROVE FALSE
    OBVIOUS
<1> DEFINE missing == (0 .. N) \ T
<1>1. missing \subseteq Nat /\ missing # {}
    OBVIOUS
<1>2. PICK x \in missing : \A y \in missing : x <= y
    <2> HIDE DEF missing
    <2> QED
        BY <1>1, LeastNatural
<1>3. x - 1 \in 0 .. N - 1 /\ x - 1 \notin missing
    BY <1>2
<1> QED
    BY <1>2, <1>3

-----------------------------------------------------------------------------
(* The loop.                                                               *)

\* the element that FoldLeft takes last
Greatest(S) == CHOOSE x \in S : \A y \in S : x >= y

\* the function by which FoldLeft is defined, for the elements at 1 .. n
IsFold(c, f, base, seq, n) ==
    f = [s \in SUBSET (1 .. n) |->
            IF s = {} THEN base ELSE Body(c, f[s \ {Greatest(s)}], seq[Greatest(s)])]

\* The last of the first n + 1 elements.
LEMMA GreatestIs ==
    ASSUME NEW n \in Nat, NEW s \in SUBSET (1 .. n + 1), n + 1 \in s
    PROVE  Greatest(s) = n + 1
<1>1. \A y \in s : n + 1 >= y
    OBVIOUS
<1>2. \A x \in s : (\A y \in s : x >= y) => x = n + 1
    BY <1>1
<1> QED
    BY <1>1, <1>2 DEF Greatest

\* There is such a function for every n: the recursive definition defines one.
LEMMA FoldExists ==
    ASSUME NEW c, NEW base, NEW seq, NEW N \in Nat
    PROVE  \E f : IsFold(c, f, base, seq, N)
<1> DEFINE T == {n \in Nat : \E f : IsFold(c, f, base, seq, n)}
<1>1. 0 \in T
    <2> DEFINE f == [s \in SUBSET (1 .. 0) |-> base]
    <2>1. \A s \in SUBSET (1 .. 0) : s = {}
        OBVIOUS
    <2>2. IsFold(c, f, base, seq, 0)
        BY <2>1 DEF IsFold
    <2> QED
        BY <2>2
<1>2. ASSUME NEW n \in 0 .. N - 1, n \in T PROVE n + 1 \in T
    <2>1. PICK f : IsFold(c, f, base, seq, n)
        BY <1>2
    <2> DEFINE g == [s \in SUBSET (1 .. n + 1) |->
                        IF n + 1 \in s THEN Body(c, f[s \ {n + 1}], seq[n + 1]) ELSE f[s]]
    <2>2. ASSUME NEW s \in SUBSET (1 .. n + 1)
          PROVE  g[s] = IF s = {} THEN base ELSE Body(c, g[s \ {Greatest(s)}], seq[Greatest(s)])
        <3>1. CASE n + 1 \in s
            <4>1. Greatest(s) = n + 1
                BY <3>1, GreatestIs
            <4>2. s \ {n + 1} \in SUBSET (1 .. n + 1) /\ n + 1 \notin s \ {n + 1}
                OBVIOUS
            <4>3. g[s \ {n + 1}] = f[s \ {n + 1}]
                BY <4>2
            <4> QED
                BY <3>1, <4>1, <4>3
        <3>2. CASE n + 1 \notin s
            <4>1. s \in SUBSET (1 .. n)
                BY <3>2
            <4>2. f[s] = IF s = {} THEN base
                         ELSE Body(c, f[s \ {Greatest(s)}], seq[Greatest(s)])
                BY <2>1, <4>1 DEF IsFold
            <4>3. g[s] = f[s] /\ g[s \ {Greatest(s)}] = f[s \ {Greatest(s)}]
                BY <3>2
            <4> QED
                BY <4>2, <4>3
        <3> QED
            BY <3>1, <3>2
    <2>3. IsFold(c, g, base, seq, n + 1)
        BY <2>2 DEF IsFold
    <2> QED
        BY <2>3
<1> HIDE DEF T
<1>3. \A n \in 0 .. N : n \in T
    BY <1>1, <1>2, UpTo
<1> QED
    BY <1>3 DEF T

\* the loop
Loop(c, base, seq) == FoldLeft(LAMBDA a, x : Body(c, a, x), base, seq)

\* FoldLeft is such a function, applied to all elements.
LEMMA FoldLeftIs ==
    ASSUME NEW c, NEW base, NEW seq, NEW N \in Nat, DOMAIN seq = 1 .. N
    PROVE  \E f : IsFold(c, f, base, seq, N) /\ Loop(c, base, seq) = f[1 .. N]
<1> DEFINE iter[s \in SUBSET (1 .. N)] ==
               IF s = {} THEN base ELSE Body(c, iter[s \ {Greatest(s)}], seq[Greatest(s)])
<1>1. IsFold(c, iter, base, seq, N)
    <2>1. \E f : f = [s \in SUBSET (1 .. N) |->
                         IF s = {} THEN base ELSE Body(c, f[s \ {Greatest(s)}], seq[Greatest(s)])]
        <3>1. PICK f : IsFold(c, f, base, seq, N)
            BY FoldExists
        <3> QED
            BY <3>1, Zenon DEF IsFold
    <2>2. iter = [s \in SUBSET (1 .. N) |->
                     IF s = {} THEN base ELSE Body(c, iter[s \ {Greatest(s)}], seq[Greatest(s)])]
        BY <2>1, Zenon
    <2> QED
        BY <2>2 DEF IsFold
<1>2. Loop(c, base, seq) = iter[1 .. N]
    BY DEF Loop, FoldLeft, MapThenFoldSet, Max, Greatest
<1> QED
    BY <1>1, <1>2

\* What holds before a loop and is kept by its body for every element holds after it.
LEMMA FoldKeeps ==
    ASSUME NEW c, NEW base, NEW seq, NEW N \in Nat, DOMAIN seq = 1 .. N,
           Kept(c, 0, base),
           \A n \in 1 .. N : \A a : Kept(c, n - 1, a) => Kept(c, n, Body(c, a, seq[n]))
    PROVE  Kept(c, N, Loop(c, base, seq))
<1>1. PICK f : IsFold(c, f, base, seq, N) /\ Loop(c, base, seq) = f[1 .. N]
    BY FoldLeftIs
<1> DEFINE T == {n \in Nat : n <= N => Kept(c, n, f[1 .. n])}
<1>2. 0 \in T
    <2>1. 1 .. 0 = {}
        OBVIOUS
    <2> QED
        BY <1>1, <2>1 DEF IsFold
<1>3. ASSUME NEW n \in 0 .. N - 1, n \in T PROVE n + 1 \in T
    <2>1. Greatest(1 .. n + 1) = n + 1
        BY GreatestIs
    <2>2. (1 .. n + 1) \ {n + 1} = 1 .. n /\ 1 .. n + 1 # {} /\ 1 .. n + 1 \in SUBSET (1 .. N)
        OBVIOUS
    <2>3. f[1 .. n + 1] = Body(c, f[1 .. n], seq[n + 1])
        BY <1>1, <2>1, <2>2 DEF IsFold
    <2>4. n + 1 \in 1 .. N /\ Kept(c, (n + 1) - 1, f[1 .. n])
        BY <1>3
    <2> QED
        BY <2>3, <2>4
<1> HIDE DEF T
<1>4. \A n \in 0 .. N : n \in T
    BY <1>2, <1>3, UpTo
<1> QED
    BY <1>1, <1>4 DEF T
=============================================================================
