-------------------------- MODULE Iso2022JpScanner --------------------------
(***************************************************************************)
(* The scanner of ISO-2022-JP: scanner/iso2022jp.rs.                       *)
(*                                                                         *)
(* Escape sequences switch between character sets of one and of two bytes, *)
(* all of them spelled with the same seven-bit bytes.  A run begins in     *)
(* ASCII: what the bytes before it have switched to is forgotten.  A run   *)
(* takes the escapes before and between its characters, so that it can be  *)
(* decoded alone, and leaves those after them.                             *)
(***************************************************************************)
EXTENDS DbcsScanner

Esc == 27

\* ESCAPES, and the mode that each selects
EscapeMode ==
    (<<Esc, 40, 66>> :> "Ascii") @@ (<<Esc, 40, 74>> :> "Roman") @@ (<<Esc, 40, 73>> :> "Katakana")
    @@ (<<Esc, 36, 64>> :> "Kanji") @@ (<<Esc, 36, 66>> :> "Kanji")

JisStep(kind, n, mode) == [kind |-> kind, len |-> n, mode |-> mode]

\* a byte that cannot be decoded ends the run, and with it its mode
Undecodable == JisStep("invalid", 1, "Ascii")

\* read_escape
EscapeStep(mode, bytes) ==
    IF Len(bytes) < 3
    THEN IF \E escape \in DOMAIN EscapeMode : IsPrefix(bytes, escape)
         THEN JisStep("incomplete", Len(bytes), mode)
         ELSE Undecodable
    ELSE LET escape == SubSeq(bytes, 1, 3)
         IN  IF escape \in DOMAIN EscapeMode THEN JisStep("escape", 3, EscapeMode[escape])
             ELSE Undecodable

IsJisHalf(b) == b \in 33 .. 126

\* decode_char, in kanji mode; the pairs encoding_rs knows are in Assigned
KanjiStep(bytes) ==
    IF ~IsJisHalf(bytes[1]) THEN Undecodable
    ELSE IF Len(bytes) = 1 THEN JisStep("incomplete", 1, "Kanji")
    ELSE IF IsJisHalf(bytes[2]) /\ SubSeq(bytes, 1, 2) \in Assigned["Iso2022Jp"]
    THEN JisStep("text", 2, "Kanji")
    ELSE Undecodable

\* decode_char, in the other modes: every character is text
SingleStep(mode, bytes) ==
    IF IF mode = "Katakana" THEN bytes[1] \in 33 .. 95 ELSE IsAsciiText(bytes[1])
    THEN JisStep("text", 1, mode)
    ELSE Undecodable

Iso2022JpStep(mode, bytes) ==
    CASE bytes[1] = Esc                    -> EscapeStep(mode, bytes)
      [] bytes[1] # Esc /\ mode = "Kanji"  -> KanjiStep(bytes)
      [] bytes[1] # Esc /\ mode # "Kanji"  -> SingleStep(mode, bytes)

\* esc_buf: escapes are held until it is known what follows.  A character takes them with
\* it, anything else discards them; those at the end stay held.
TakeEscapes(walk) ==
    LET take(acc, unit) ==
            CASE unit.kind = "escape" -> [acc EXCEPT !.held = @ \o unit.char]
              [] unit.kind = "text" ->
                     [units |-> Append(acc.units, Unit(unit.at - Len(acc.held), "text",
                                                       acc.held \o unit.char)),
                      held |-> <<>>, rest |-> acc.rest]
              [] OTHER -> [units |-> Append(acc.units, unit), held |-> <<>>, rest |-> acc.rest]
    IN  FoldLeft(take, [units |-> <<>>, held |-> <<>>, rest |-> walk.rest], walk.units)

\* segment_raw: held escapes are kept only with the incomplete unit that follows them
SegmentTaken(taken) ==
    Segmented("Iso2022Jp", taken.units, IF taken.rest = <<>> THEN <<>> ELSE taken.held \o taken.rest)
SegmentIso2022Jp(at, bytes) ==
    SegmentTaken(TakeEscapes(Walk(at, "Ascii", bytes, Iso2022JpStep)))

\* the interior of a chunk, from offset `at' on; its end is deferred with what is held there
InteriorTaken(file, first, end, taken) ==
    LastDeferred("Iso2022Jp", file, first, end, Scanned(taken.units), taken.held \o taken.rest)
Iso2022JpInterior(file, first, at, end) ==
    InteriorTaken(file, first, end,
                  TakeEscapes(BlockWalk(at, SubSeq(file, at + 1, end), RestOfBlock(at - first),
                                        Iso2022JpStep)))

\* mutant: the bytes that spell an escape are not counted among those of a run
EscapesDoNotLead(bytes) == RunLen(bytes, IsAsciiText)

\* leading_run_len, with is_iso2022jp_byte
Iso2022JpLeadingRunLen(bytes) == RunLen(bytes, LAMBDA b : b = Esc \/ IsAsciiText(b))

ScanIso2022Jp(file, first, end, minCch) ==
    LET lead == IF first = 0 THEN 0 ELSE Iso2022JpLeadingRunLen(SubSeq(file, first + 1, end))
        leadEnd == first + lead
        leading == LeadingRecord("Iso2022Jp", file, first, leadEnd, end)
    IN  Emit(IF leadEnd >= end THEN leading
             ELSE leading \o Iso2022JpInterior(file, first, leadEnd, end), minCch)
=============================================================================
