------------------------------- MODULE Filters -------------------------------
(***************************************************************************)
(* The character filters of `--filter': filter/mod.rs and the modules      *)
(* below it.                                                               *)
(*                                                                         *)
(* A filter selects scalar values; a selection of several admits what any  *)
(* of them selects.  The scanners ask about a byte, a code unit or a       *)
(* scalar value.  The tables that FilterSet makes of the answers are left  *)
(* out, and so are the two filters by level of JIS X 0208, whose tables    *)
(* come from another library.                                              *)
(***************************************************************************)
EXTENDS Integers

\* filter::ascii: tab and the printable ASCII characters
IsAsciiText(code) == code = 9 \/ code \in 32 .. 126

IsKanji(code) == code \in (19968 .. 40959) \cup (13312 .. 19903)

IsHangul(code) ==
    code \in (44032 .. 55203) \cup (4352 .. 4607) \cup (12592 .. 12687) \cup (65440 .. 65500)

\* what of the two blocks below occurs in Japanese text
IsCjkPunct(code) ==
    \/ code \in {12288, 12336} \cup (12289 .. 12291) \cup (12293 .. 12305)
                \cup (12308 .. 12319) \cup (12347 .. 12349)
    \/ code \in (65281 .. 65374) \cup (65377 .. 65439) \cup (65504 .. 65509)

\* no control, surrogate, noncharacter or private use
IsPrintableUnit(code) ==
    \/ code = 9
    \/ /\ code \notin (0 .. 31) \cup (127 .. 159)
       /\ code \notin (55296 .. 57343) \cup (57344 .. 63743)
       /\ code \notin (64976 .. 65007) \cup {65534, 65535}

\* allows_u16 of each filter
SelectsUnit(filter, code) ==
    CASE filter = "ascii"        -> IsAsciiText(code)
      [] filter = "latin1"       -> code \in 160 .. 255
      [] filter = "cyrillic"     -> code \in 1024 .. 1279
      [] filter = "kanji"        -> IsKanji(code)
      [] filter = "kanji-ext-b"  -> FALSE
      [] filter = "hiragana"     -> code \in (12353 .. 12438) \cup (12443 .. 12447)
      [] filter = "katakana"     -> code \in 12448 .. 12543
      [] filter = "hangul"       -> IsHangul(code)
      [] filter = "cjkpunct"     -> IsCjkPunct(code)
      [] filter = "cjkpunct-all" -> code \in (12288 .. 12351) \cup (65280 .. 65519)
      [] filter = "printable"    -> IsPrintableUnit(code)

\* allows_u8: only these have a single-byte form, that of ISO-8859-1
SelectsByte(filter, b) ==
    filter \in {"ascii", "latin1", "printable"} /\ SelectsUnit(filter, b)

\* allows_char, beyond the basic plane
SelectsAstral(filter, scalar) ==
    \/ filter = "kanji-ext-b" /\ scalar \in 131072 .. 173791
    \/ filter = "printable" /\ scalar <= 262143 /\ scalar % 65536 < 65534

AllowsU8(filters, b) == \E filter \in filters : SelectsByte(filter, b)
AllowsU16(filters, unit) == \E filter \in filters : SelectsUnit(filter, unit)
AllowsChar(filters, scalar) ==
    IF scalar <= 65535 THEN AllowsU16(filters, scalar)
    ELSE \E filter \in filters : SelectsAstral(filter, scalar)
=============================================================================
