------------------------------ MODULE Scanners ------------------------------
(***************************************************************************)
(* The scanners of the self-synchronizing encodings: scanner/ascii.rs,     *)
(* scanner/win1251.rs, scanner/utf16le_ascii.rs and scanner/utf8.rs.       *)
(*                                                                         *)
(* Every scanner cuts its part of the file into units (a character, or a   *)
(* byte it has to skip) and reports the maximal runs of text units.  They  *)
(* differ in how units are cut, in how far past the chunk they read, and   *)
(* in when they flag a run as touching the start or the end of the chunk.  *)
(*                                                                         *)
(* File offsets start at 0: the byte at offset p is file[p + 1].  A chunk  *)
(* is the bytes at first .. end - 1.  It is read in blocks.  Where every   *)
(* byte, or every aligned pair, is decoded alone, they make no difference  *)
(* and are left out.                                                       *)
(***************************************************************************)
EXTENDS Records, Filters

CONSTANT
    ReadBufferSize      \* READ_BUFFER_SIZE, scaled down

\* the longest character fits in a block
ASSUME ReadBufferAssumption == ReadBufferSize \in Nat /\ ReadBufferSize >= 4

Unit(at, kind, bytes) == [at |-> at, kind |-> kind, char |-> bytes]
After(unit) == unit.at + Len(unit.char)

\* the modes of the decoder of ISO-2022-JP; the others stay in the first
Modes == {"Ascii", "Roman", "Katakana", "Kanji"}

\* Cuts `bytes', which start at file offset `at', into units until they run out or
\* only an incomplete unit is left.  Step says what unit is at the front in a mode: its
\* kind, "text", "other" (a character that is not text), "escape", "invalid" or
\* "incomplete", its length, and the mode after it.
Walk(at, mode, bytes, Step(_, _)) ==
    LET stopped(left, m) == [units |-> <<>>, rest |-> left, mode |-> m]
        walk[p \in 0 .. Len(bytes), m \in Modes] ==
            IF p = Len(bytes) THEN stopped(<<>>, m)
            ELSE LET left == SubSeq(bytes, p + 1, Len(bytes))
                     step == Step(m, left)
                 IN  IF step.kind = "incomplete" THEN stopped(left, m)
                     ELSE LET following == walk[p + step.len, step.mode]
                              unit == Unit(at + p, step.kind, SubSeq(left, 1, step.len))
                          IN  [following EXCEPT !.units = <<unit>> \o @]
    IN  walk[0, mode]

\* mutant: what is left of a block is not put before the next
BlockWithoutCarry(carry, bytes) == bytes

\* the carry is put before what is read next
Block(carry, bytes) == carry \o bytes

\* The same as Walk, but `bytes' are read in blocks: `firstRead' of them, and then as many
\* as the buffer holds besides the carry, the bytes of an incomplete unit.
BlockWalk(at, bytes, firstRead, Step(_, _)) ==
    LET upTo(before, done) ==
            LET block == Block(before.rest, SubSeq(bytes, before.done + 1, done))
                walk == Walk(at + done - Len(block), before.mode, block, Step)
            IN  [units |-> before.units \o walk.units, rest |-> walk.rest,
                 mode |-> walk.mode, done |-> done]
        further(before, room) ==
            IF before.done = Len(bytes) THEN before
            ELSE upTo(before, IF before.done + room < Len(bytes) THEN before.done + room
                              ELSE Len(bytes))
        read[n \in 0 .. Len(bytes)] ==
            IF n = 0 THEN [units |-> <<>>, rest |-> <<>>, mode |-> "Ascii", done |-> 0]
            ELSE further(read[n - 1], IF n = 1 THEN firstRead
                                      ELSE ReadBufferSize - Len(read[n - 1].rest))
    IN  read[Len(bytes)]

\* the loop of a scan: text extends the open run, anything else closes it
TakeUnit(acc, unit) ==
    IF unit.kind = "text" THEN [acc EXCEPT !.open = Append(@, unit)]
    ELSE IF acc.open = <<>> THEN acc
    ELSE [closed |-> Append(acc.closed, acc.open), open |-> <<>>]

\* the runs of text among the units: those that were closed, and the one still open at
\* the end, if it is not empty
Scanned(units) == FoldLeft(TakeUnit, [closed |-> <<>>, open |-> <<>>], units)

\* all of them, in order
RunsOf(scanned) ==
    IF scanned.open = <<>> THEN scanned.closed ELSE Append(scanned.closed, scanned.open)
Runs(units) == RunsOf(Scanned(units))

\* a run as a record
RunRecord(run, encoding, starts, ends) ==
    TextRecord(run[1].at, After(Last(run)) - run[1].at, Len(run), encoding, starts, ends,
               [k \in DOMAIN run |-> run[k].char])

\* the records of a scan, given when a run starts at the chunk's boundary; only the open
\* run can end there
RecordsOf(scanned, encoding, Starts(_), Ends(_)) ==
    LET record(run, ends) == RunRecord(run, encoding, Starts(run), ends)
        closed == [n \in DOMAIN scanned.closed |-> record(scanned.closed[n], FALSE)]
    IN  IF scanned.open = <<>> THEN closed
        ELSE Append(closed, record(scanned.open, Ends(scanned.open)))
RunRecords(units, encoding, Starts(_), Ends(_)) ==
    RecordsOf(Scanned(units), encoding, Starts, Ends)

-----------------------------------------------------------------------------
(* ASCII and windows-1251: every byte is a unit.                           *)

ByteUnits(file, first, end, IsText(_)) ==
    [k \in 1 .. end - first |->
        LET b == file[first + k]
        IN  Unit(first + k - 1, IF IsText(b) THEN "text" ELSE "other", <<b>>)]

ScanBytes(units, encoding, first, minCch) ==
    LET starts(run) == run[1].at = first
        ends(run) == TRUE
    IN  Emit(RunRecords(units, encoding, starts, ends), minCch)

AsciiUnits(filters, file, first, end) ==
    ByteUnits(file, first, end, LAMBDA b : AllowsU8(filters, b))

ScanAscii(filters, file, first, end, minCch) ==
    ScanBytes(AsciiUnits(filters, file, first, end), "Ascii", first, minCch)

\* TABLE, from byte 128 on
Windows1251Upper ==
    << 1026, 1027, 8218, 1107, 8222, 8230, 8224, 8225, 8364, 8240, 1033, 8249, 1034, 1036, 1035, 1039,
       1106, 8216, 8217, 8220, 8221, 8226, 8211, 8212,  152, 8482, 1113, 8250, 1114, 1116, 1115, 1119,
        160, 1038, 1118, 1032,  164, 1168,  166,  167, 1025,  169, 1028,  171,  172,  173,  174, 1031,
        176,  177, 1030, 1110, 1169,  181,  182,  183, 1105, 8470, 1108,  187, 1112, 1029, 1109, 1111 >>
    \o [k \in 1 .. 64 |-> 1039 + k]

DecodeByte(b) == IF b < 128 THEN b ELSE Windows1251Upper[b - 127]

IsControl(code) == code \in (0 .. 31) \cup (127 .. 159)

\* is_text
IsWindows1251Text(filters, b) ==
    LET char == DecodeByte(b) IN AllowsChar(filters, char) /\ (char = 9 \/ ~IsControl(char))

Windows1251Units(filters, file, first, end) ==
    ByteUnits(file, first, end, LAMBDA b : IsWindows1251Text(filters, b))

ScanWindows1251(filters, file, first, end, minCch) ==
    ScanBytes(Windows1251Units(filters, file, first, end), "Windows1251", first, minCch)

-----------------------------------------------------------------------------
(* UTF-16LE restricted to Latin-1: the code units at even and at odd       *)
(* offsets are scanned separately.  The last one may reach one byte past   *)
(* the chunk.  (A wider filter than `ascii,latin1' would make it print the *)
(* low bytes of the units, as its comment says; here it is not given one.) *)

\* scan_parity: a run starts at the first unit, and ends where the chunk does or past it
ParityRecords(units, encoding, start, end, minCch) ==
    LET starts(run) == run[1].at = start
        ends(run) == After(Last(run)) >= end
    IN  Emit(RunRecords(units, encoding, starts, ends), minCch)

CodeUnits(filters, file, first, last) ==
    [k \in 1 .. (last - first) \div 2 + 1 |->
        LET at == first + 2 * (k - 1)
            u == file[at + 1] + 256 * file[at + 2]
        IN  Unit(at, IF AllowsU16(filters, u) THEN "text" ELSE "other",
                 <<file[at + 1], file[at + 2]>>)]

ScanParity(filters, file, first, end, minCch, parity) ==
    LET start == first + ((parity + 2 - (first % 2)) % 2)
        maxStart == IF end < Len(file) THEN end - 1 ELSE Len(file) - 2
        lastStart == IF maxStart % 2 = parity THEN maxStart ELSE maxStart - 1
    IN  IF start >= end \/ start + 1 >= Len(file) \/ lastStart < start
        THEN <<>>
        ELSE ParityRecords(CodeUnits(filters, file, start, lastStart), "Utf16leAscii",
                           start, end, minCch)

\* mutant: the two parities are not merged
ParitiesInTurn(filters, file, first, end, minCch) ==
    ScanParity(filters, file, first, end, minCch, 0)
    \o ScanParity(filters, file, first, end, minCch, 1)

ScanUtf16leAscii(filters, file, first, end, minCch) ==
    MergeStreams(<<ScanParity(filters, file, first, end, minCch, 0),
                   ScanParity(filters, file, first, end, minCch, 1)>>)

-----------------------------------------------------------------------------
(* UTF-8: characters of one to four bytes; a character cut by the end of   *)
(* the chunk is completed by peeking at the bytes that follow.             *)

MaxUtf8CharLen == 4
Continuation == 128 .. 191

\* for each lead byte, the character's length and what its second byte may be
Utf8Lead(b) ==
    CASE b \in 194 .. 223 -> [len |-> 2, second |-> Continuation]
      [] b = 224          -> [len |-> 3, second |-> 160 .. 191]
      [] b = 237          -> [len |-> 3, second |-> 128 .. 159]
      [] b \in (225 .. 236) \cup {238, 239} -> [len |-> 3, second |-> Continuation]
      [] b = 240          -> [len |-> 4, second |-> 144 .. 191]
      [] b \in 241 .. 243 -> [len |-> 4, second |-> Continuation]
      [] b = 244          -> [len |-> 4, second |-> 128 .. 143]
      [] OTHER            -> [len |-> 0, second |-> {}]

\* is_ascii_char, or multibyte_char_allowed: no control, no line or paragraph separator
IsUtf8Text(char) ==
    IF Len(char) = 1 THEN IsAsciiText(char[1])
    ELSE /\ ~(char[1] = 194 /\ char[2] \in 128 .. 159)
         /\ char \notin {<<226, 128, 168>>, <<226, 128, 169>>}

\* decode_step, and whether the character belongs to a run
Utf8Step(mode, bytes) ==
    LET lead == IF bytes[1] < 128 THEN [len |-> 1, second |-> {}] ELSE Utf8Lead(bytes[1])
        fits == \A i \in 2 .. lead.len :
                    i <= Len(bytes) =>
                        bytes[i] \in (IF i = 2 THEN lead.second ELSE Continuation)
        kind == IF lead.len = 0 \/ ~fits THEN "invalid"
                ELSE IF Len(bytes) < lead.len THEN "incomplete"
                ELSE IF IsUtf8Text(SubSeq(bytes, 1, lead.len)) THEN "text" ELSE "other"
    IN  [kind |-> kind, len |-> IF kind = "invalid" THEN 1 ELSE lead.len, mode |-> mode]

\* the character that the chunk's end cuts, if the following bytes complete it
PeekedUnit(file, carryAt) ==
    LET stop == IF carryAt + MaxUtf8CharLen < Len(file)
                THEN carryAt + MaxUtf8CharLen ELSE Len(file)
        extended == SubSeq(file, carryAt + 1, stop)
        step == Utf8Step("Ascii", extended)
    IN  IF step.kind \in {"text", "other"}
        THEN <<Unit(carryAt, step.kind, SubSeq(extended, 1, step.len))>>
        ELSE <<>>

Utf8Units(file, end, walk) ==
    IF walk.rest # <<>> /\ end < Len(file)
    THEN walk.units \o PeekedUnit(file, end - Len(walk.rest))
    ELSE walk.units

\* before the first character of a chunk may be the rest of one that was cut
Utf8Records(units, end, minCch) ==
    LET starts(run) == \A unit \in ToSet(units) : unit.at < run[1].at => unit.kind = "invalid"
        ends(run) == After(Last(run)) >= end
    IN  Emit(RunRecords(units, "Utf8", starts, ends), minCch)

ScanUtf8(file, first, end, minCch) ==
    Utf8Records(Utf8Units(file, end,
                          BlockWalk(first, SubSeq(file, first + 1, end), ReadBufferSize,
                                    Utf8Step)),
                end, minCch)
=============================================================================
