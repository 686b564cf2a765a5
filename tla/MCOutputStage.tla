---------------------------- MODULE MCOutputStage ----------------------------
EXTENDS OutputStage

\* Every way to run pstrings on one of `files', with any chunk size up to maxSize:
\* build_config clamps the size to the length of the file, and UTF-16LE needs it even.
WithFilter(files, maxSize, minLengths, combinations, filters) ==
    {in \in [bytes : files, chunkSize : 1 .. maxSize, minCch : minLengths,
             encodings : combinations, filters : {filters}] :
        /\ in.chunkSize <= Len(in.bytes)
        /\ "Utf16le" \in ToSet(in.encodings) => in.chunkSize % 2 = 0}

Configurations(files, maxSize, minLengths, combinations) ==
    WithFilter(files, maxSize, minLengths, combinations, {"ascii"})

\* 'A', NUL, leads of two, three and four bytes, a continuation byte
Utf8Alphabet == {65, 0, 195, 227, 240, 144}
Utf16Alphabet == {65, 0}
\* 'A' (also a trail), NUL, a byte that is lead and trail, a kana that is also a trail
Cp932Alphabet == {65, 0, 129, 177}
\* '0' (a digit), a byte that is lead and trail, NUL
Gb18030Alphabet == {48, 129, 0}
\* 'A', NUL, a UTF-8 lead and a continuation byte; in CP932 a kana, and lead and trail
MixedAlphabet == {65, 0, 195, 129}
\* '@', a byte that is half of a kanji with itself or NUL, half of a high surrogate
ConflictAlphabet == {64, 0, 216}
\* '!', NUL, and the halves of U+20000
PairUnits == {<<33, 0>>, <<0, 0>>, <<64, 216>>, <<0, 220>>}

\* 'A', NUL, a Cyrillic letter, and the byte without a character
Cp1251Alphabet == {65, 0, 192, 152}
\* the escapes to JIS X 0208 and to ASCII, ESC alone, NUL, and '$' and '/', of which the
\* first may be the first half of a kanji and both may be the second
JisPieces == {<<27, 36, 66>>, <<27, 40, 66>>, <<27>>, <<0>>, <<36>>, <<47>>}
JisFiles(n) == {FlattenSeq(pieces) : pieces \in BoundedSeq(JisPieces, n)}

\* files of up to n code units, on the even or the odd parity
UnitFiles(n) ==
    {shift \o FlattenSeq(units) : shift \in {<<>>, <<0>>}, units \in BoundedSeq(PairUnits, n)}

\* the self-synchronizing encodings, one at a time
SelfSyncInputs ==
    Configurations(BoundedSeq(Utf8Alphabet \ {195}, 5), 5, {2}, {<<"Utf8">>})
    \cup Configurations(BoundedSeq(Utf8Alphabet, 4), 4, {1, 2}, {<<"Utf8">>})
    \cup Configurations(BoundedSeq(Utf16Alphabet, 7), 7, {2},
                        {<<"Ascii">>, <<"Utf16leAscii">>})
    \cup WithFilter(BoundedSeq(Cp1251Alphabet, 4), 4, {1, 2}, {<<"Windows1251">>},
                    {"ascii", "cyrillic"})

\* those that are decoded in the output stage, one at a time
DeferredInputs ==
    Configurations(BoundedSeq(Cp932Alphabet, 5), 5, {1, 2}, {<<"Cp932">>})
    \cup Configurations(BoundedSeq(Gb18030Alphabet, 7), 7, {3}, {<<"Gb18030">>})
    \cup Configurations(JisFiles(4), 12, {2}, {<<"Iso2022Jp">>})

PairInputs(n) ==
    WithFilter(UnitFiles(n), 2 * n + 1, {2}, {<<"Utf16le">>}, {"ascii", "kanji-ext-b"})
ConflictInputs(n) ==
    WithFilter(BoundedSeq(ConflictAlphabet, n), n, {1}, {<<"Utf16le">>}, {"ascii", "kanji"})
Utf16leInputs == PairInputs(5) \cup ConflictInputs(6)

\* one encoding at a time
SingleInputs == SelfSyncInputs \cup DeferredInputs

\* several encodings in one stream, among them the default
MixedInputs ==
    Configurations(BoundedSeq(MixedAlphabet, 5), 5, {1, 2},
                   {<<"Ascii", "Utf16leAscii">>, <<"Ascii", "Utf8", "Cp932">>})

\* where the output is not what it should be
AsciiUtf8Inputs ==
    Configurations(BoundedSeq(MixedAlphabet, 4), 4, {2}, {<<"Ascii", "Utf8">>})
Gb18030TailInputs ==
    Configurations(BoundedSeq(Gb18030Alphabet, 4), 4, {2}, {<<"Gb18030">>})
PairSplitInputs == PairInputs(4)
OneChunkInputs == {in \in PairInputs(5) : in.chunkSize = Len(in.bytes)}

\* the part of encoding_rs's tables that the alphabets can reach
MCAssigned ==
    [enc \in DeferredEncodings |->
        CASE enc = "Iso2022Jp" -> {<<36, 36>>, <<36, 47>>}
          [] enc = "Cp932"   -> {<<129, 65>>, <<129, 129>>}
          [] enc = "Gb18030" -> {<<129, 129>>, <<129, 48, 129, 48>>}
          [] OTHER           -> {}]
=============================================================================
