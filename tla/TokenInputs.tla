------------------------------ MODULE TokenInputs ------------------------------
(***************************************************************************)
(* SemanticTokensBuilder on pairs of ranges of small texts, against the    *)
(* cells of the text that an editor would colour.                          *)
(***************************************************************************)
EXTENDS Inputs, Integers, FiniteSets, SemanticTokens

CONSTANTS
    PaintedChars,   \* characters of a text
    MaxPainted,     \* bound: how many of them
    MaxPlace        \* bound: lines and columns of the ends of a range

ASSUME TokenInputsAssumption ==
    PaintedChars \subseteq Char /\ MaxPainted \in Nat /\ MaxPlace \in Nat

\* The largest legend a u32 has bits for; names of modifiers are numbers.
FullLegend == [types |-> <<"keyword", "variable">>, modifiers |-> [i \in 1..Width |-> i]]
UnknownModifier == Width + 1

SomePositions == {Pos(line, column) : line \in 0..MaxPlace, column \in 0..MaxPlace}
WholeText == [start |-> Pos(0, 0), end |-> Pos(9, 0)]
FirstCell == [start |-> Pos(0, 0), end |-> Pos(0, 1)]
SomeModifiers == {<<>>, <<2, 1>>, <<3, Width>>, <<1, UnknownModifier>>}

InitTokens ==
    \E text \in UNION {[1..n -> PaintedChars] : n \in 0..MaxPainted}, enc \in Encodings,
       start, end \in SomePositions, first \in {WholeText, FirstCell},
       modifiers \in SomeModifiers :
          input = [kind |-> "tokens", text |-> text, enc |-> enc, first |-> first,
                   second |-> [start |-> start, end |-> end], modifiers |-> modifiers]

-----------------------------------------------------------------------------
(* Reference definitions *)

\* The cells of a range: a line's code units, from the start to the end.
Cells(text, range, enc) ==
    {cell \in UNION {{Pos(l - 1, c) : c \in 0..(Size(Split(text)[l], enc) - 1)} :
                        l \in DOMAIN Split(text)} :
        /\ \/ cell.line > range.start.line
           \/ cell.line = range.start.line /\ cell.character >= range.start.character
        /\ \/ cell.line < range.end.line
           \/ cell.line = range.end.line /\ cell.character < range.end.character}

\* How an editor reads the numbers: each token from where the last one starts.
Absolute(data) ==
    LET at[i \in 0..Len(data)] ==
            IF i = 0 THEN Pos(0, 0)
            ELSE Pos(at[i - 1].line + data[i].deltaLine,
                     (IF data[i].deltaLine > 0 THEN 0 ELSE at[i - 1].character)
                         + data[i].deltaStart)
    IN [i \in DOMAIN data |-> Token(at[i].line, at[i].character,
                                    data[i].length, data[i].type, data[i].bits)]

CellsOf(token) == {Pos(token.line, c) : c \in token.start..(token.start + token.length - 1)}

\* The tokens of a type colour these cells, with these modifiers, and are one to
\* a line.
Paints(tokens, type, bits, cells) ==
    LET of == {i \in DOMAIN tokens : tokens[i].type = type}
    IN /\ UNION {CellsOf(tokens[i]) : i \in of} = cells
       /\ \A i \in of : tokens[i].bits = bits /\ tokens[i].length > 0
       /\ \A i, k \in of : i # k => tokens[i].line # tokens[k].line

\* A range of variables, and then one of keywords with these modifiers.
PushBoth(text, enc, first, second, modifiers) ==
    UNION {PushRange(one.tokens, FullLegend, text, second, enc, "keyword", modifiers) :
              one \in PushRange(<<>>, FullLegend, text, first, enc, "variable", <<1>>)}

\* The built tokens colour the cells of both ranges, each with its own type and
\* its own modifiers up to the last bit, one token to a line and range, however
\* the ranges overlap and in whichever order they were pushed; the differences
\* never go below zero, where a u32 would wrap.  An unknown name is an error as
\* soon as there is a token to push.
TokensDecodeBack ==
    input.kind = "tokens" =>
    LET first == Cells(input.text, input.first, input.enc)
        second == Cells(input.text, input.second, input.enc)
        unknown == \E i \in DOMAIN input.modifiers : input.modifiers[i] = UnknownModifier
    IN \A outcome \in PushBoth(input.text, input.enc, input.first, input.second, input.modifiers) :
          IF unknown /\ second # {} THEN outcome.outcome = "error"
          ELSE /\ outcome.outcome = "pushed"
               /\ LET data == Build(outcome.tokens)
                  IN /\ \A i \in DOMAIN data : data[i].deltaLine \in Nat /\ data[i].deltaStart \in Nat
                     /\ Paints(Absolute(data), 1, {0}, first)
                     /\ Paints(Absolute(data), 0,
                               {input.modifiers[i] - 1 : i \in DOMAIN input.modifiers}, second)
=============================================================================
