---------------------------- MODULE SemanticTokens ----------------------------
(***************************************************************************)
(* SemanticTokensBuilder of src/src/lsp/semantic_tokens.rs: tokens pushed  *)
(* in any order by name and by range, sorted and written relative to each  *)
(* other.  A set of modifiers is a u32; it is the set of its one bits.     *)
(***************************************************************************)
EXTENDS TextIndex

Width == 32

\* A legend has sequences of names; the place of one, or nothing.
Position(names, name) ==
    LET at == {i \in DOMAIN names : names[i] = name}
    IN IF at = {} THEN {} ELSE {Min(at) - 1}

\* What push may do with these names: fail on the first that is not in the
\* legend, or add a token with the type's index and a bit for each modifier.
\* 1 << index past the width panics in a build with overflow checks, and wraps
\* in one without.
ResolveNames(legend, type, modifiers) ==
    LET types == Position(legend.types, type)
        index(i) == Position(legend.modifiers, modifiers[i])
        unknown == {i \in DOMAIN modifiers : index(i) = {}}
        wide == {i \in DOMAIN modifiers \ unknown : Min(index(i)) >= Width}
        bits == {Min(index(i)) % Width : i \in DOMAIN modifiers}
    IN IF types = {} THEN {[outcome |-> "error"]}
       ELSE (IF \E i \in wide : \A k \in unknown : i < k THEN {[outcome |-> "panic"]} ELSE {})
            \cup (IF unknown # {} THEN {[outcome |-> "error"]}
                  ELSE {[outcome |-> "token", type |-> Min(types), bits |-> bits]})

Token(line, start, length, type, bits) ==
    [line |-> line, start |-> start, length |-> length, type |-> type, bits |-> bits]

\* Mutant: a line in the middle of the range ends where the range does.
LinePart_EndColumn(text, range, enc, line) ==
    LET units == Size(Split(text)[line + 1], enc)
        start == IF line = range.start.line THEN Min({range.start.character, units}) ELSE 0
        end == Min({range.end.character, units})
    IN IF end > start THEN <<[line |-> line, start |-> start, length |-> end - start]>> ELSE <<>>

\* The part of a line that is in the range, if it is not empty.
LinePart(text, range, enc, line) ==
    LET units == Size(Split(text)[line + 1], enc)
        start == IF line = range.start.line THEN Min({range.start.character, units}) ELSE 0
        end == IF line = range.end.line THEN Min({range.end.character, units}) ELSE units
    IN IF end > start THEN <<[line |-> line, start |-> start, length |-> end - start]>> ELSE <<>>

\* A token for each line that the text has and the range covers a part of; the
\* names are looked up at the first, if there is one.
PushRange(tokens, legend, text, range, enc, type, modifiers) ==
    LET parts == FlattenSeq([line \in DOMAIN Split(text) |->
                    IF line - 1 \in range.start.line..range.end.line
                    THEN LinePart(text, range, enc, line - 1) ELSE <<>>])
        as(part, names) == Token(part.line, part.start, part.length, names.type, names.bits)
    IN IF parts = <<>> THEN {[outcome |-> "pushed", tokens |-> tokens]}
       ELSE {IF names.outcome # "token" THEN names
             ELSE [outcome |-> "pushed",
                   tokens |-> tokens \o [i \in DOMAIN parts |-> as(parts[i], names)]] :
                names \in ResolveNames(legend, type, modifiers)}

-----------------------------------------------------------------------------
(* build *)

\* Sets of bits compare as the numbers they are.
FewerBits(a, b) == a # b /\ Max((a \ b) \cup (b \ a)) \in b

\* Tuples compare from the left.
Before(a, b) ==
    \/ a.line < b.line
    \/ a.line = b.line /\ a.start < b.start
    \/ a.line = b.line /\ a.start = b.start /\ a.length < b.length
    \/ a.line = b.line /\ a.start = b.start /\ a.length = b.length /\ a.type < b.type
    \/ /\ [a EXCEPT !.bits = {}] = [b EXCEPT !.bits = {}]
       /\ FewerBits(a.bits, b.bits)

\* sort_unstable: the k-th token has k - 1 before it.
SortedTokens(tokens) ==
    LET before(i) == {j \in DOMAIN tokens :
            \/ Before(tokens[j], tokens[i])
            \/ tokens[j] = tokens[i] /\ j < i}
        nth(k) == CHOOSE i \in DOMAIN tokens : Cardinality(before(i)) = k - 1
    IN [k \in DOMAIN tokens |-> tokens[nth(k)]]

\* Each token relative to the one before, five numbers at a time.
Build(tokens) ==
    LET sorted == SortedTokens(tokens)
        previous(i) == IF i = 1 THEN Token(0, 0, 0, 0, {}) ELSE sorted[i - 1]
        deltaLine(i) == sorted[i].line - previous(i).line
    IN [i \in DOMAIN sorted |->
            [deltaLine |-> deltaLine(i),
             deltaStart |-> IF deltaLine(i) = 0 THEN sorted[i].start - previous(i).start
                            ELSE sorted[i].start,
             length |-> sorted[i].length, type |-> sorted[i].type, bits |-> sorted[i].bits]]
=============================================================================
