------------------------------ MODULE TextIndex ------------------------------
(***************************************************************************)
(* Positions, byte offsets and edits of src/src/text.rs, as pure operators *)
(* over short texts.  A text is a sequence of characters, told apart by    *)
(* what the encodings make of them; offsets count UTF-8 bytes, as Rust's   *)
(* string indices do, and a slice may only be cut between characters.      *)
(***************************************************************************)
EXTENDS Naturals, Sequences, SequencesExt

Encodings == {"utf8", "utf16", "utf32"}

\* x, é, 😀 and \n: code units per character in each encoding.
Units == [ascii   |-> [utf8 |-> 1, utf16 |-> 1, utf32 |-> 1],
          accent  |-> [utf8 |-> 2, utf16 |-> 1, utf32 |-> 1],
          astral  |-> [utf8 |-> 4, utf16 |-> 2, utf32 |-> 1],
          newline |-> [utf8 |-> 1, utf16 |-> 1, utf32 |-> 1]]
Char == DOMAIN Units

Pos(line, character) == [line |-> line, character |-> character]

Size(s, enc) ==
    LET upTo[k \in 0..Len(s)] == IF k = 0 THEN 0 ELSE upTo[k - 1] + Units[s[k]][enc]
    IN upTo[Len(s)]
Bytes(s) == Size(s, "utf8")
Prefix(s, k) == SubSeq(s, 1, k)

\* Where s may be cut, and the number of characters before such a place.
Boundaries(s) == {Bytes(Prefix(s, k)) : k \in 0..Len(s)}
CharsBefore(s, offset) == CHOOSE k \in 0..Len(s) : Bytes(Prefix(s, k)) = offset
Slice(s, from, to) == SubSeq(s, CharsBefore(s, from) + 1, CharsBefore(s, to))

FloorCharBoundary(s, offset) == Max({b \in Boundaries(s) : b <= offset})

-----------------------------------------------------------------------------
(* Columns within a line *)

\* Mutant: UTF-16 columns count scalar values.
ColumnToByte_Scalars(line, column, enc) ==
    IF enc = "utf8"
    THEN FloorCharBoundary(line, column)
    ELSE Bytes(Prefix(line, Min({column, Len(line)})))

\* UTF-8 floors a column inside a character; UTF-16 and UTF-32 take the first
\* character that starts at or after the column.
ColumnToByte(line, column, enc) ==
    IF enc = "utf8"
    THEN FloorCharBoundary(line, column)
    ELSE Min({Bytes(Prefix(line, k)) : k \in
                  {k \in 0..Len(line) : Size(Prefix(line, k), enc) >= column}}
             \cup {Bytes(line)})

ByteToColumn(line, byte, enc) ==
    Size(Slice(line, 0, FloorCharBoundary(line, byte)), enc)

-----------------------------------------------------------------------------
(* Lines, numbered from 0 *)

\* The line that the place after k characters is on, and the place where a line
\* begins and the one where it ends, before its newline.
LineOf(text, k) == Cardinality({j \in 1..k : text[j] = "newline"})
LineStart(text, line) ==
    IF line = 0 THEN 0
    ELSE CHOOSE k \in DOMAIN text : text[k] = "newline" /\ LineOf(text, k) = line
LineEnd(text, line) ==
    IF line < LineOf(text, Len(text)) THEN LineStart(text, line + 1) - 1 ELSE Len(text)

\* str::split('\n').
Split(text) ==
    [l \in 1..(LineOf(text, Len(text)) + 1) |->
        SubSeq(text, LineStart(text, l - 1) + 1, LineEnd(text, l - 1))]

-----------------------------------------------------------------------------
(* The scanning conversions *)

PositionToOffset(text, pos, enc) ==
    LET lines == Split(text)
        start[l \in 0..Len(lines)] == IF l = 0 THEN 0 ELSE start[l - 1] + Bytes(lines[l]) + 1
    IN IF pos.line < Len(lines)
       THEN start[pos.line] + ColumnToByte(lines[pos.line + 1], pos.character, enc)
       ELSE Bytes(text)

OffsetToPosition(text, offset, enc) ==
    LET at == FloorCharBoundary(text, offset)
        line == LineOf(text, CharsBefore(text, at))
        start == Bytes(Prefix(text, LineStart(text, line)))
    IN Pos(line, ByteToColumn(Slice(text, start, Bytes(text)), at - start, enc))

-----------------------------------------------------------------------------
(* LineIndex *)

NewLineIndex(text) ==
    [lineStarts |-> [l \in 1..(LineOf(text, Len(text)) + 1) |->
                        Bytes(Prefix(text, LineStart(text, l - 1)))],
     len |-> Bytes(text)]

\* Mutant: the line still holds its newline.
IndexPositionToOffset_KeepsNewline(index, text, pos, enc) ==
    LET lines == index.lineStarts
        start == lines[pos.line + 1]
        end == IF pos.line + 2 <= Len(lines) THEN lines[pos.line + 2] ELSE index.len
    IN IF pos.line >= Len(lines)
       THEN index.len
       ELSE start + ColumnToByte(Slice(text, start, end), pos.character, enc)

IndexPositionToOffset(index, text, pos, enc) ==
    LET lines == index.lineStarts
        start == lines[pos.line + 1]
        end == IF pos.line + 2 <= Len(lines) THEN lines[pos.line + 2] - 1 ELSE index.len
    IN IF pos.line >= Len(lines)
       THEN index.len
       ELSE start + ColumnToByte(Slice(text, start, end), pos.character, enc)

IndexOffsetToPosition(index, text, offset, enc) ==
    LET at == FloorCharBoundary(text, Min({offset, index.len}))
        line == Cardinality({k \in DOMAIN index.lineStarts : index.lineStarts[k] <= at})
        start == index.lineStarts[line]
    IN Pos(line - 1, ByteToColumn(Slice(text, start, Bytes(text)), at - start, enc))

-----------------------------------------------------------------------------
(* apply_edits_with: an edit has a range of two positions and a new text *)

EditError == [ok |-> FALSE, text |-> <<>>]

\* Mutant: sorted by start alone, later edits first among equals.
SortedEdits_Unstable(resolved) ==
    LET before(i) == {j \in DOMAIN resolved :
            \/ resolved[j].start < resolved[i].start
            \/ resolved[j].start = resolved[i].start /\ j > i}
        nth(k) == CHOOSE i \in DOMAIN resolved : Cardinality(before(i)) = k - 1
    IN [k \in DOMAIN resolved |-> resolved[nth(k)]]

\* resolved.sort_by_key: by start, ties in the given order.  The k-th edit has
\* k - 1 before it.
SortedEdits(resolved) ==
    LET before(i) == {j \in DOMAIN resolved :
            \/ resolved[j].start < resolved[i].start
            \/ resolved[j].start = resolved[i].start /\ j < i}
        nth(k) == CHOOSE i \in DOMAIN resolved : Cardinality(before(i)) = k - 1
    IN [k \in DOMAIN resolved |-> resolved[nth(k)]]

\* Two neighbours of the sorted edits share a part of the text.
Overlaps(nextStart, end) == nextStart < end

\* Copy up to each edit, put its new text, go on after it.
Spliced(text, sorted) ==
    LET built[k \in 0..Len(sorted)] ==
            IF k = 0 THEN [out |-> <<>>, cursor |-> 0]
            ELSE [out |-> built[k - 1].out \o Slice(text, built[k - 1].cursor, sorted[k].start)
                                           \o sorted[k].newText,
                  cursor |-> sorted[k].end]
        last == built[Len(sorted)]
    IN last.out \o Slice(text, last.cursor, Bytes(text))

ApplyEdits(text, edits, enc) ==
    LET index == NewLineIndex(text)
        offset(pos) == IndexPositionToOffset(index, text, pos, enc)
        resolved == [i \in DOMAIN edits |->
                        [start |-> offset(edits[i].range.start), end |-> offset(edits[i].range.end),
                         newText |-> edits[i].newText]]
        sorted == SortedEdits(resolved)
    IN IF \/ \E i \in DOMAIN edits : resolved[i].start > resolved[i].end
          \/ \E k \in 1..(Len(sorted) - 1) : Overlaps(sorted[k + 1].start, sorted[k].end)
       THEN EditError
       ELSE [ok |-> TRUE, text |-> Spliced(text, sorted)]
=============================================================================
