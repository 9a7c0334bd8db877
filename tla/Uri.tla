---------------------------------- MODULE Uri ----------------------------------
(***************************************************************************)
(* Document identities: the Uri of src/src/lsp/base.rs on a build that is  *)
(* not for Windows.  Strings are sequences of characters, a character is   *)
(* its code point, and a URI is compared by its string.  A conversion that *)
(* may fail returns a set of at most one string.                           *)
(*                                                                         *)
(* URIs are made of ASCII characters, paths of those up to U+07FF, which   *)
(* take one byte or two.                                                   *)
(***************************************************************************)
EXTENDS Integers, Sequences, SequencesExt

Slash == 47
Colon == 58
Percent == 37
FileScheme == <<102, 105, 108, 101, Colon, Slash, Slash>>          \* file://
Localhost == <<108, 111, 99, 97, 108, 104, 111, 115, 116>>

IsDigit(c) == c \in 48..57
IsUpper(c) == c \in 65..90
IsLower(c) == c \in 97..122
IsAlpha(c) == IsUpper(c) \/ IsLower(c)
IsHex(c) == IsDigit(c) \/ c \in 65..70 \/ c \in 97..102
ToLower(c) == IF IsUpper(c) THEN c + 32 ELSE c
ToUpper(c) == IF IsLower(c) THEN c - 32 ELSE c
HexValue(c) == IF IsDigit(c) THEN c - 48 ELSE ToUpper(c) - 55
HexDigit(n) == IF n < 10 THEN n + 48 ELSE n + 55

Only(S) == CHOOSE x \in S : TRUE
From(s, i) == SubSeq(s, i, Len(s))
\* The first and the last place of c in s, 0 if there is none.
FirstOf(s, c) == LET at == {i \in DOMAIN s : s[i] = c}
                 IN IF at = {} THEN 0 ELSE CHOOSE i \in at : \A k \in at : i <= k
LastOf(s, c) == LET at == {i \in DOMAIN s : s[i] = c}
                IN IF at = {} THEN 0 ELSE CHOOSE i \in at : \A k \in at : i >= k

-----------------------------------------------------------------------------
(* Uri::new *)

IsValidScheme(s) ==
    /\ s # <<>> /\ IsAlpha(s[1])
    /\ \A i \in DOMAIN s : IsAlpha(s[i]) \/ IsDigit(s[i]) \/ s[i] \in {43, 45, 46}

\* The length of the scheme, 0 if the text before the first colon is none.
SchemeLen(s) ==
    LET colon == FirstOf(s, Colon)
    IN IF colon > 0 /\ IsValidScheme(SubSeq(s, 1, colon - 1)) THEN colon - 1 ELSE 0

\* The percent signs that the scan for escapes stops at: it goes on after the
\* two characters that follow one.
Escapes(s) ==
    LET next[i \in 0..Len(s)] ==          \* where it goes on after i characters
            IF i = 0 THEN 1
            ELSE LET from == next[i - 1]
                 IN IF from <= i /\ s[i] = Percent THEN i + 3 ELSE from
    IN {i \in DOMAIN s : s[i] = Percent /\ next[i - 1] <= i}

\* Mutant: the first digit of an escape only.
Normalize_FirstDigit(s) ==
    LET scheme == SchemeLen(s)
        escaped == {i + 1 : i \in Escapes(s)}
    IN [i \in DOMAIN s |-> CASE i <= scheme -> ToLower(s[i])
                             [] i \in escaped /\ IsHex(s[i]) -> ToUpper(s[i])
                             [] OTHER -> s[i]]

\* The scheme in lower case and the digits of escapes in upper case.
Normalize(s) ==
    LET scheme == SchemeLen(s)
        lowered == [i \in DOMAIN s |-> IF i <= scheme THEN ToLower(s[i]) ELSE s[i]]
        escaped == UNION {{i + 1, i + 2} : i \in Escapes(s)}
    IN [i \in DOMAIN s |-> IF i \in escaped /\ IsHex(s[i]) THEN ToUpper(s[i]) ELSE lowered[i]]

-----------------------------------------------------------------------------
(* File paths *)

\* Bytes of a character in UTF-8, and the characters of bytes.
Utf8(c) == IF c < 128 THEN <<c>> ELSE <<192 + (c \div 64), 128 + (c % 64)>>

\* The characters read so far, and a first byte that waits for its second; 0 if
\* none does, -1 if the bytes are no UTF-8.
NothingRead == [out |-> <<>>, lead |-> 0]
NotUtf8 == [out |-> <<>>, lead |-> -1]

AfterByte(acc, b) ==
    IF acc.lead > 0
    THEN IF b \in 128..191
         THEN [out |-> Append(acc.out, (acc.lead - 192) * 64 + b - 128), lead |-> 0]
         ELSE NotUtf8
    ELSE CASE acc.lead = 0 /\ b < 128 -> [out |-> Append(acc.out, b), lead |-> 0]
           [] acc.lead = 0 /\ b \in 194..223 -> [out |-> acc.out, lead |-> b]
           [] OTHER -> NotUtf8

ReadAll(bytes) ==
    LET read[i \in 0..Len(bytes)] ==
            IF i = 0 THEN NothingRead ELSE AfterByte(read[i - 1], bytes[i])
    IN read[Len(bytes)]

FromUtf8(bytes) ==
    LET read == ReadAll(bytes)
    IN IF read.lead = 0 THEN {read.out} ELSE {}

\* Mutant: a percent sign stands for itself.
EncodePathChar_KeepsPercent(c) ==
    IF IsAlpha(c) \/ IsDigit(c) \/ c \in {45, 46, 95, 126, Slash, Percent} THEN <<c>>
    ELSE FlattenSeq([i \in DOMAIN Utf8(c) |->
             <<Percent, HexDigit(Utf8(c)[i] \div 16), HexDigit(Utf8(c)[i] % 16)>>])

\* Unreserved characters and the separator stand for themselves.
EncodePathChar(c) ==
    IF IsAlpha(c) \/ IsDigit(c) \/ c \in {45, 46, 95, 126, Slash} THEN <<c>>
    ELSE FlattenSeq([i \in DOMAIN Utf8(c) |->
             <<Percent, HexDigit(Utf8(c)[i] \div 16), HexDigit(Utf8(c)[i] % 16)>>])

EncodePath(s) == FlattenSeq([i \in DOMAIN s |-> EncodePathChar(s[i])])

PercentDecode(s) ==
    LET escapes == Escapes(s)
        inside == UNION {{i + 1, i + 2} : i \in escapes}
        bad == \E i \in escapes : i + 2 > Len(s) \/ ~IsHex(s[i + 1]) \/ ~IsHex(s[i + 2])
        bytes(i) == CASE i \in escapes -> <<16 * HexValue(s[i + 1]) + HexValue(s[i + 2])>>
                      [] i \in inside -> <<>>
                      [] OTHER -> Utf8(s[i])
    IN IF bad THEN {} ELSE FromUtf8(FlattenSeq([i \in DOMAIN s |-> bytes(i)]))

FromFilePath(path) ==
    IF path # <<>> /\ path[1] = Slash THEN {FileScheme \o EncodePath(path)} ELSE {}

ToFilePath(uri) ==
    LET rest == From(uri, 8)
        slash == FirstOf(rest, Slash)
        authority == IF slash > 0 THEN SubSeq(rest, 1, slash - 1) ELSE rest
        local == authority = <<>>
                    \/ [i \in DOMAIN authority |-> ToLower(authority[i])] = Localhost
    IN IF SubSeq(uri, 1, 7) # FileScheme \/ ~local THEN {}
       ELSE PercentDecode(IF slash > 0 THEN From(rest, slash) ELSE <<>>)

-----------------------------------------------------------------------------
(* Directories *)

\* Where the path of a URI begins, 0 if it has none.
PathStart(uri) ==
    LET scheme == SchemeLen(uri)
        after == IF scheme > 0 THEN scheme + 1 ELSE 0
        rest == From(uri, after + 1)
        skipped == IF SubSeq(rest, 1, 2) = <<Slash, Slash>> THEN 2 ELSE 0
        slash == FirstOf(From(rest, skipped + 1), Slash)
    IN IF slash = 0 THEN 0 ELSE after + skipped + slash

\* None at the root, and for a URI without a path.
Parent(uri) ==
    LET start == PathStart(uri)
        last == LastOf(uri, Slash)
    IN IF start = 0 \/ last < start \/ Len(uri) = start THEN {}
       ELSE {SubSeq(uri, 1, IF last = start THEN start ELSE last - 1)}

Join(uri, segment) ==
    LET base == IF uri # <<>> /\ uri[Len(uri)] = Slash THEN SubSeq(uri, 1, Len(uri) - 1) ELSE uri
    IN base \o <<Slash>> \o EncodePath(segment)
=============================================================================
