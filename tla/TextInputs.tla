------------------------------ MODULE TextInputs ------------------------------
(***************************************************************************)
(* The conversions of TextIndex on small texts in every encoding, and      *)
(* apply_edits on every few edits of a text, against reference             *)
(* definitions that count characters.                                      *)
(***************************************************************************)
EXTENDS Inputs, TextIndex, FiniteSets

CONSTANTS
    MaxChars,        \* bound: length of a text
    MaxEditedChars,  \* bound: length of a text that is edited
    MaxEdits         \* bound: edits of a text

ASSUME TextInputsAssumption ==
    MaxChars \in Nat /\ MaxEditedChars \in Nat /\ MaxEdits \in Nat

TextsOf(chars, n) == UNION {[1..k -> chars] : k \in 0..n}

-----------------------------------------------------------------------------
(* Reference definitions *)

\* The protocol's position of the place after k characters: the newlines
\* before it, and the code units since the last of them.
PositionAt(text, enc, k) ==
    LET newlines == {j \in 1..k : text[j] = "newline"}
        start == IF newlines = {} THEN 0 ELSE Max(newlines)
    IN Pos(Cardinality(newlines), Size(SubSeq(text, start + 1, k), enc))

\* Edits as a user means them: replace the characters from+1..to.  The new
\* texts are marked with the edit's number, to tell them apart.
MeantEdit(text, i) == [from : 0..Len(text), to : 0..Len(text), new : {<<>>, <<i>>}]
MeantEdits(text, n) ==
    {edits \in [1..n -> UNION {MeantEdit(text, i) : i \in 1..n}] :
        \A i \in 1..n : edits[i] \in MeantEdit(text, i)}

AsEdit(text, enc, e) ==
    [range |-> [start |-> PositionAt(text, enc, e.from), end |-> PositionAt(text, enc, e.to)],
     newText |-> e.new]
Applied(edits) ==
    ApplyEdits(input.text, [i \in DOMAIN edits |-> AsEdit(input.text, input.enc, edits[i])],
               input.enc)

\* All edits at once: at each place the new texts of the edits that start
\* there, in the given order, then the character after it unless an edit
\* covers it.
EditedAtOnce(text, edits) ==
    LET inserted(k) == FlattenSeq(
                [i \in DOMAIN edits |-> IF edits[i].from = k THEN edits[i].new ELSE <<>>])
        kept(k) == IF \E i \in DOMAIN edits : edits[i].from < k /\ k <= edits[i].to
                   THEN <<>> ELSE <<text[k]>>
    IN FlattenSeq([k \in 1..Len(text) |-> inserted(k - 1) \o kept(k)]) \o inserted(Len(text))

\* The edits given in another order, p, but for those at the same place.
KeepsTies(edits, p) ==
    \A i, j \in DOMAIN edits :
        i < j /\ edits[p[i]].from = edits[p[j]].from => p[i] < p[j]
Reordered(edits, p) == [i \in DOMAIN edits |-> edits[p[i]]]

\* Edits a and b, a given first, conflict: a character in both, an insertion
\* inside a replacement, or an insertion given after a replacement that starts
\* at the same place.
Conflict(a, b) ==
    \/ a.from < b.from /\ b.from < a.to
    \/ b.from < a.from /\ a.from < b.to
    \/ a.from = b.from /\ a.from < a.to

Acceptable(edits) ==
    /\ \A i \in DOMAIN edits : edits[i].from <= edits[i].to
    /\ \A i, j \in DOMAIN edits : i < j => ~Conflict(edits[i], edits[j])

-----------------------------------------------------------------------------
(* Inputs *)

InitText ==
    \/ \E text \in TextsOf(Char, MaxChars), enc \in Encodings :
          input = [kind |-> "text", text |-> text, enc |-> enc]
    \/ \E text \in TextsOf({"astral", "newline"}, MaxEditedChars), enc \in Encodings :
          \E n \in 0..MaxEdits : \E edits \in MeantEdits(text, n) :
             input = [kind |-> "edits", text |-> text, enc |-> enc, edits |-> edits]

Lines == 0..(MaxChars + 1)
Columns == 0..(4 * MaxChars + 1)

-----------------------------------------------------------------------------
(* Properties *)

\* The cached LineIndex and the scanning functions give the same answers, for
\* every offset and position, in range or not, inside a character or not.
IndexAgreesWithScan ==
    input.kind = "text" =>
    LET text == input.text enc == input.enc
        index == NewLineIndex(text)
    IN /\ \A l \in Lines, c \in Columns :
              IndexPositionToOffset(index, text, Pos(l, c), enc)
                  = PositionToOffset(text, Pos(l, c), enc)
       /\ \A o \in Columns :
              IndexOffsetToPosition(index, text, o, enc) = OffsetToPosition(text, o, enc)

\* The places between characters are the fixed points of the conversions: each
\* has the position that the protocol gives it, and comes back from it.  And
\* the conversion keeps the order of positions, clamped and mid-character ones
\* included, so a range that is not inverted never becomes an inverted slice:
\* no column takes the offset back, and no line starts before the last ends.
ConversionsAreInverse ==
    input.kind = "text" =>
    LET text == input.text enc == input.enc
        offset(line, column) == PositionToOffset(text, Pos(line, column), enc)
    IN /\ \A k \in 0..Len(text) :
              LET at == Bytes(Prefix(text, k))
              IN /\ OffsetToPosition(text, at, enc) = PositionAt(text, enc, k)
                 /\ PositionToOffset(text, PositionAt(text, enc, k), enc) = at
       /\ \A l \in Lines, c \in Columns :
              offset(l, c) <= offset(l, c + 1) /\ offset(l, c) <= offset(l + 1, 0)

\* apply_edits: "applied as one atomic batch against the original text", in
\* any order but that of inserts at the same position; overlapping edits and
\* inverted ranges are an error, and nothing else is.
EditsApplyAtOnce ==
    input.kind = "edits" =>
    LET edits == input.edits
        result == Applied(edits)
    IN /\ result.ok <=> Acceptable(edits)
       /\ result.ok => result.text = EditedAtOnce(input.text, edits)
       /\ \A p \in Bijection(DOMAIN edits, DOMAIN edits) :
              KeepsTies(edits, p) => Applied(Reordered(edits, p)) = result
=============================================================================
