------------------------------- MODULE UriInputs -------------------------------
(***************************************************************************)
(* Document identities: strings that differ in case and in their escapes,  *)
(* and the paths that URIs stand for.                                      *)
(***************************************************************************)
EXTENDS Inputs, Uri

CONSTANTS
    TailChars,   \* characters after the authority of a URI
    MaxTail,     \* bound: how many of them
    NameChars,   \* characters of a path
    MaxName,     \* bound: how many of them, after the first slash
    MaxSegment   \* bound: and in a segment that is added

\* Module Uri is about ASCII URIs and paths of one- and two-byte characters.
ASSUME UriInputsAssumption ==
    /\ TailChars \subseteq 0..127 /\ NameChars \subseteq 0..2047
    /\ MaxTail \in Nat /\ MaxName \in Nat /\ MaxSegment \in Nat

\* file, FILE, x+1, 1x (no scheme), and none at all.
Beginnings == {FileScheme, <<70, 73, 76, 69, Colon, Slash, Slash>>,
               <<120, 43, 49, Colon>>, <<49, 120, Colon>>, <<>>}
Authorities == {<<>>, Localhost, <<76>> \o From(Localhost, 2), <<72>>}

Strings(chars, lens) == UNION {[1..n -> chars] : n \in lens}

InitUri ==
    \/ \E begin \in Beginnings, authority \in Authorities, tail \in Strings(TailChars, 0..MaxTail) :
          input = [kind |-> "uri", uri |-> begin \o authority \o tail]
    \/ \E name \in Strings(NameChars, 0..MaxName),
         segment \in Strings(NameChars \ {Slash}, 1..MaxSegment) :
          input = [kind |-> "path", path |-> <<Slash>> \o name, segment |-> segment]

-----------------------------------------------------------------------------
(* Reference definitions *)

FlipCase(c) == CASE IsUpper(c) -> c + 32 [] IsLower(c) -> c - 32 [] OTHER -> c
Flipped(s, places) == [i \in DOMAIN s |-> IF i \in places THEN FlipCase(s[i]) ELSE s[i]]

\* A percent sign is followed by two hex digits.
WellFormed(s) ==
    \A i \in DOMAIN s : s[i] = Percent => i + 2 <= Len(s) /\ IsHex(s[i + 1]) /\ IsHex(s[i + 2])

\* The places where case makes no difference: the scheme and the escapes.
CaseFree(s) ==
    {i \in DOMAIN s :
        \/ i <= SchemeLen(s)
        \/ \E k \in DOMAIN s : s[k] = Percent /\ i \in {k + 1, k + 2}}

CanonicalKey(s, key) ==
    /\ Normalize(key) = key
    /\ \A i \in DOMAIN s : key[i] \in {s[i], FlipCase(s[i])}
    /\ WellFormed(s) =>
          /\ Normalize(Flipped(s, CaseFree(s))) = key
          /\ \A i \in DOMAIN s : FlipCase(s[i]) # s[i] =>
                (Normalize(Flipped(s, {i})) = key <=> i \in CaseFree(s))

\* "the scheme is lowercased and percent-encoding hex digits are uppercased, so
\* equality, hashing, and map lookups agree across those spellings"
\* (base.rs:13): a URI in any case of its scheme and of its escapes is the same
\* key, in any other case another one; a key is its own key, and nothing but
\* case is touched.
UrisCanonical ==
    input.kind = "uri" => CanonicalKey(input.uri, Normalize(input.uri))

UriOf(path) == Only(FromFilePath(path))
AsDirectory(path) == IF path[Len(path)] = Slash THEN path ELSE Append(path, Slash)

\* A URI and its path stand for each other, in whichever case a client writes it.
StandsFor(uri, path) ==
    LET fromClient == Flipped(uri, CaseFree(uri))
    IN /\ Normalize(uri) = uri /\ Normalize(fromClient) = uri
       /\ ToFilePath(Normalize(fromClient)) = {path}
       /\ ToFilePath(FileScheme \o Localhost \o From(uri, 8)) = {path}

\* Joining adds a segment to the path, and the parent is without it.
JoinsTo(uri, joined, under, segment) ==
    /\ joined = UriOf(under \o segment)
    /\ Parent(joined) = {IF Len(under) > 1 THEN UriOf(SubSeq(under, 1, Len(under) - 1)) ELSE uri}

\* A path and its URI stand for each other, whatever characters it has and in
\* whichever case a client writes the escapes; the server's own URI is the key
\* that the client's is stored under; and join and parent on URIs are adding
\* and dropping a segment of the path.
PathsSurvive ==
    input.kind = "path" =>
    LET uri == UriOf(input.path)
    IN /\ StandsFor(uri, input.path)
       /\ JoinsTo(uri, Join(uri, input.segment), AsDirectory(input.path), input.segment)
================================================================================
