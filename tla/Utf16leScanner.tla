--------------------------- MODULE Utf16leScanner ---------------------------
(***************************************************************************)
(* The scanner of full UTF-16LE: scanner/utf16le.rs.                       *)
(*                                                                         *)
(* A character is one code unit, or a surrogate pair of two.  The units at *)
(* even and at odd offsets are scanned separately, and may both make sense *)
(* under a wide `--filter'.  Of two runs that share a byte one is dropped, *)
(* within a chunk, before the two scans are merged.                        *)
(***************************************************************************)
EXTENDS Scanners

HighSurrogates == 55296 .. 56319
LowSurrogates == 56320 .. 57343

UnitOf(low, high) == low + 256 * high
UnitAt(file, at) == UnitOf(file[at + 1], file[at + 2])

PairScalar(high, low) == 65536 + (high - 55296) * 1024 + (low - 56320)

\* decode_char_at: a unit that starts no admitted character is stepped over alone
Utf16leStep(filters, mode, bytes) ==
    LET unit == UnitOf(bytes[1], bytes[2])
        second == UnitOf(bytes[3], bytes[4])
        isPair == unit \in HighSurrogates /\ Len(bytes) >= 4 /\ second \in LowSurrogates
        isChar == unit \notin HighSurrogates \cup LowSurrogates
        step(kind, n) == [kind |-> kind, len |-> n, mode |-> mode]
    IN  CASE isPair /\ AllowsChar(filters, PairScalar(unit, second)) -> step("text", 4)
          [] isChar /\ AllowsU16(filters, unit) -> step("text", 2)
          [] OTHER -> step("other", 2)

\* mutant: the low half of a pair is not read when it lies past the last unit
ReadWithoutLowHalf(file, lastStart) == lastStart + 2

\* read_scan_block, for a block whose last unit starts at lastStart: where reading stops
ReadStop(file, lastStart) ==
    IF UnitAt(file, lastStart) \in HighSurrogates /\ lastStart + 4 <= Len(file)
    THEN lastStart + 4
    ELSE lastStart + 2

ParityFirst(first, parity) == first + ((parity + 2 - (first % 2)) % 2)

\* where the last unit may start: anywhere in the chunk, if the file goes on after it
ParityLast(file, end, parity) ==
    LET maxStart == IF end < Len(file) THEN end - 1 ELSE Len(file) - 2
    IN  IF maxStart % 2 = parity THEN maxStart ELSE maxStart - 1

\* the units from `start' on, in blocks of blockUnits: each block is decoded alone, and
\* the next begins where the reading of this one has stopped
ParityUnits(filters, file, start, lastStart, blockUnits) ==
    LET from[at \in 0 .. Len(file)] ==
            IF at > lastStart THEN <<>>
            ELSE LET nominal == at + 2 * (blockUnits - 1)
                     stop == ReadStop(file, IF nominal < lastStart THEN nominal ELSE lastStart)
                     block == Walk(at, "Ascii", SubSeq(file, at + 1, stop),
                                   LAMBDA mode, left : Utf16leStep(filters, mode, left))
                 IN  block.units \o from[stop]
    IN  from[start]

\* scan_parity
ScanWideParity(filters, file, first, end, minCch, blockUnits, parity) ==
    LET start == ParityFirst(first, parity)
        lastStart == ParityLast(file, end, parity)
    IN  IF start >= end \/ start + 1 >= Len(file) \/ lastStart < start
        THEN <<>>
        ELSE ParityRecords(ParityUnits(filters, file, start, lastStart, blockUnits),
                           "Utf16le", start, end, minCch)

\* is_ascii_printable_only
IsAsciiOnly(rec) ==
    \A c \in ToSet(rec.data) : Len(c) = 2 /\ IsAsciiText(UnitOf(c[1], c[2]))

\* prefer_a_over_b
PrefersFirst(a, b) ==
    IF IsAsciiOnly(a) # IsAsciiOnly(b) THEN IsAsciiOnly(a) ELSE a.cb >= b.cb

Overlap(a, b) == a.offset < End(b) /\ b.offset < End(a)

\* mutant: runs conflict only if the even one starts first
KeptWithOneSidedOverlap(even, odd) ==
    LET conflict(a, b) == a.offset <= b.offset /\ b.offset < End(a)
    IN  << SelectSeq(even, LAMBDA a : \A b \in ToSet(odd) :
                               conflict(a, b) => PrefersFirst(a, b)),
           SelectSeq(odd, LAMBDA b : \A a \in ToSet(even) :
                              conflict(a, b) => ~PrefersFirst(a, b)) >>

\* resolve_parity_overlap: its sweep meets every overlapping pair, also those of which
\* one has been dropped already
Kept(even, odd) ==
    << SelectSeq(even, LAMBDA a : \A b \in ToSet(odd) :
                           Overlap(a, b) => PrefersFirst(a, b)),
       SelectSeq(odd, LAMBDA b : \A a \in ToSet(even) :
                          Overlap(a, b) => ~PrefersFirst(a, b)) >>

ScanUtf16le(filters, file, first, end, minCch, blockUnits) ==
    MergeStreams(Kept(ScanWideParity(filters, file, first, end, minCch, blockUnits, 0),
                      ScanWideParity(filters, file, first, end, minCch, blockUnits, 1)))
=============================================================================
