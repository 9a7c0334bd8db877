------------------------------ MODULE Documents ------------------------------
(***************************************************************************)
(* The managed document store, src/src/documents.rs, between an editor     *)
(* that edits its buffers and request handlers that ask for positions.     *)
(* The editor's notifications reach the store in order, one at a time (the *)
(* notification worker of src/src/server.rs runs them so); a stale change  *)
(* may turn up again.  The store's write lock is held over a whole change, *)
(* so a change is one step, whatever point of it a panic leaves off at.    *)
(***************************************************************************)
EXTENDS TextIndex, FiniteSets

CONSTANTS
    Uris,            \* documents, by their normalized URIs
    OpenTexts,       \* texts a document may be opened with
    NewTexts,        \* texts a change may put in
    MaxVersion,      \* bound: versions of a document while it is open
    MaxSessions,     \* bound: times a document is opened
    MaxLen,          \* bound: length of the editor's buffers
    MaxChanges,      \* bound: content changes to a document, over all sessions
    InvertedRanges   \* the editor may send a range whose end precedes its start

ASSUME DocumentsAssumption ==
    /\ OpenTexts \cup NewTexts \subseteq Seq(Char)
    /\ {MaxVersion, MaxSessions, MaxLen, MaxChanges} \subseteq Nat
    /\ InvertedRanges \in BOOLEAN

VARIABLES
    encoding,        \* Documents.encoding
    docs,            \* Documents.inner: version, text and cached index per URI
    buffer,          \* the editor's open buffers
    sessions, changes, \* how often each document was opened, and changed
    sent,            \* notifications on their way to the store, in order
    stale,           \* changes the store has handled
    shadow           \* the editor's text as of the last notification handled

storeVars == <<encoding, docs>>
editorVars == <<buffer, sessions, changes>>
vars == <<storeVars, editorVars, sent, stale, shadow>>

NoRange == <<>>      \* a change's range is an Option: empty, or one range
NoIndex == [lineStarts |-> <<>>, len |-> 0]
Entry(version, text) == [version |-> version, text |-> text, index |-> NoIndex]
With(map, u, x) == [v \in DOMAIN map \cup {u} |-> IF v = u THEN x ELSE map[v]]
Without(map, u) == [v \in DOMAIN map \ {u} |-> map[v]]

Init ==
    /\ encoding \in Encodings
    /\ docs = <<>> /\ buffer = <<>> /\ sent = <<>> /\ stale = {} /\ shadow = <<>>
    /\ sessions = [u \in Uris |-> 0] /\ changes = [u \in Uris |-> 0]

-----------------------------------------------------------------------------
(* The editor *)

\* The positions the protocol lets an editor give the place after k
\* characters: its line and column, a column past the end of its line, a line
\* past the end of the text.
PositionsAt(text, k) ==
    LET newlines == {j \in 1..k : text[j] = "newline"}
        start == IF newlines = {} THEN 0 ELSE Max(newlines)
        line == Cardinality(newlines)
        column == Size(SubSeq(text, start + 1, k), encoding)
        endOfLine == k = Len(text) \/ text[k + 1] = "newline"
    IN {Pos(line, column)}
       \cup (IF endOfLine THEN {Pos(line, column + 1)} ELSE {})
       \cup (IF k = Len(text) THEN {Pos(line + 1, 0)} ELSE {})

\* A content change as the editor makes it, with the text it leaves.
FullChange(text, new) ==
    {[change |-> [range |-> NoRange, text |-> new], after |-> new]}
RangeChange(text, from, to, new) ==
    {[change |-> [range |-> <<[start |-> r[1], end |-> r[2]]>>, text |-> new],
      after |-> IF from <= to THEN Prefix(text, from) \o new \o SubSeq(text, to + 1, Len(text))
                              ELSE text] :
         r \in PositionsAt(text, from) \X PositionsAt(text, to)}
ContentChanges(text) ==
    UNION ({FullChange(text, new) : new \in NewTexts} \cup
           {RangeChange(text, c[1], c[2], c[3]) :
                c \in {t \in (0..Len(text)) \X (0..Len(text)) \X NewTexts :
                           t[1] <= t[2] \/ InvertedRanges}})

\* Batches: each change refers to the text the ones before it left.
One(text) == {[changes |-> <<c.change>>, after |-> c.after] : c \in ContentChanges(text)}
Two(text) ==
    UNION {{[changes |-> <<c.change, d.change>>, after |-> d.after] :
                d \in ContentChanges(c.after)} : c \in ContentChanges(text)}
Batches(text, n) == (IF n >= 1 THEN One(text) ELSE {}) \cup (IF n >= 2 THEN Two(text) ELSE {})

Notify(kind, u, version, batch, after) ==
    sent' = Append(sent, [kind |-> kind, uri |-> u, version |-> version,
                          changes |-> batch, after |-> after])

EditorOpens(u) ==
    /\ u \notin DOMAIN buffer /\ sessions[u] < MaxSessions
    /\ \E text \in OpenTexts :
          /\ buffer' = With(buffer, u, [version |-> 1, text |-> text])
          /\ Notify("didOpen", u, 1, <<>>, text)
    /\ sessions' = [sessions EXCEPT ![u] = @ + 1]
    /\ UNCHANGED <<changes, storeVars, stale, shadow>>

\* The version grows with each change, not always by one.
EditorChanges(u) ==
    /\ u \in DOMAIN buffer
    /\ \E version \in (buffer[u].version + 1)..MaxVersion,
          b \in Batches(buffer[u].text, MaxChanges - changes[u]) :
          /\ Len(b.after) <= MaxLen
          /\ changes' = [changes EXCEPT ![u] = @ + Len(b.changes)]
          /\ buffer' = [buffer EXCEPT ![u] = [version |-> version, text |-> b.after]]
          /\ Notify("didChange", u, version, b.changes, b.after)
    /\ UNCHANGED <<sessions, storeVars, stale, shadow>>

EditorCloses(u) ==
    /\ u \in DOMAIN buffer
    /\ buffer' = Without(buffer, u)
    /\ Notify("didClose", u, 0, <<>>, <<>>)
    /\ UNCHANGED <<sessions, changes, storeVars, stale, shadow>>

-----------------------------------------------------------------------------
(* The store *)

\* Mutant: the end is measured in UTF-16 whatever was negotiated.
ApplyChange_Utf16End(text, c) ==
    LET start == PositionToOffset(text, c.range[1].start, encoding)
        end == PositionToOffset(text, c.range[1].end, "utf16")
    IN IF c.range = NoRange
       THEN [text |-> c.text, panics |-> FALSE]
       ELSE IF start > end
       THEN [text |-> text, panics |-> TRUE]
       ELSE [text |-> Slice(text, 0, start) \o c.text \o Slice(text, end, Bytes(text)),
             panics |-> FALSE]

\* One content change; replace_range panics on an inverted range.
ApplyChange(text, c) ==
    LET start == PositionToOffset(text, c.range[1].start, encoding)
        end == PositionToOffset(text, c.range[1].end, encoding)
    IN IF c.range = NoRange
       THEN [text |-> c.text, panics |-> FALSE]
       ELSE IF start > end
       THEN [text |-> text, panics |-> TRUE]
       ELSE [text |-> Slice(text, 0, start) \o c.text \o Slice(text, end, Bytes(text)),
             panics |-> FALSE]

\* The changes in order, up to the first that panics.
ApplyBatch(text, batch) ==
    LET upTo[i \in 0..Len(batch)] ==
            IF i = 0 THEN [text |-> text, panics |-> FALSE]
            ELSE LET done == upTo[i - 1]
                 IN IF done.panics THEN done ELSE ApplyChange(done.text, batch[i])
    IN upTo[Len(batch)]

DidOpen(u, version, text) ==
    docs' = With(docs, u, Entry(version, text))

\* Mutant: the cached index is kept.
DidChange_KeepsIndex(u, version, batch) ==
    docs' = IF u \notin DOMAIN docs \/ version < docs[u].version
            THEN docs
            ELSE [docs EXCEPT ![u] =
                LET result == ApplyBatch(@.text, batch)
                IN [@ EXCEPT !.text = result.text, !.version = version]]

\* Ignored for a document that is not open, or an older version.  A panic
\* leaves the changes before it in the text, the version and the cached index
\* as they were (the lock is not poisoned, and the worker survives).
DidChange(u, version, batch) ==
    docs' = IF u \notin DOMAIN docs \/ version < docs[u].version
            THEN docs
            ELSE [docs EXCEPT ![u] =
                LET result == ApplyBatch(@.text, batch)
                IN IF result.panics THEN [@ EXCEPT !.text = result.text]
                                    ELSE Entry(version, result.text)]

DidClose(u) == docs' = Without(docs, u)

Takes(kind) == sent # <<>> /\ Head(sent).kind = kind /\ sent' = Tail(sent)

HandleOpen ==
    /\ Takes("didOpen")
    /\ LET m == Head(sent)
       IN DidOpen(m.uri, m.version, m.after) /\ shadow' = With(shadow, m.uri, m.after)
    /\ UNCHANGED <<encoding, editorVars, stale>>

HandleChange ==
    /\ Takes("didChange")
    /\ LET m == Head(sent)
       IN /\ DidChange(m.uri, m.version, m.changes)
          /\ shadow' = [shadow EXCEPT ![m.uri] = m.after]
          /\ stale' = stale \cup {m}
    /\ UNCHANGED <<encoding, editorVars>>

\* The changes to a closed document cannot be told from those of its next
\* session, and are forgotten with it.
HandleClose ==
    /\ Takes("didClose")
    /\ LET u == Head(sent).uri
       IN /\ DidClose(u) /\ shadow' = Without(shadow, u)
          /\ stale' = {m \in stale : m.uri # u}
    /\ UNCHANGED <<encoding, editorVars>>

\* A change older than the last one handled is delivered again.
Replay(m) ==
    /\ m \in stale /\ m.version < docs[m.uri].version
    /\ DidChange(m.uri, m.version, m.changes)
    /\ UNCHANGED <<encoding, editorVars, sent, stale, shadow>>

\* with_index, offset_at, position_at: the first use builds the index.
ReadIndex(u) ==
    /\ u \in DOMAIN docs /\ docs[u].index = NoIndex
    /\ docs' = [docs EXCEPT ![u].index = NewLineIndex(docs[u].text)]
    /\ UNCHANGED <<encoding, editorVars, sent, stale, shadow>>

\* The editor is done, and the store has handled what it sent.
Done ==
    /\ sent = <<>> /\ DOMAIN buffer = {} /\ \A u \in Uris : sessions[u] = MaxSessions
    /\ UNCHANGED vars

Next ==
    \/ \E u \in Uris : EditorOpens(u) \/ EditorChanges(u) \/ EditorCloses(u) \/ ReadIndex(u)
    \/ HandleOpen \/ HandleChange \/ HandleClose
    \/ \E m \in stale : Replay(m)
    \/ Done

Spec == Init /\ [][Next]_vars

-----------------------------------------------------------------------------
(* Properties *)

\* What the store holds is what the editor had after the last notification the
\* store handled, although ranges travel as positions in the negotiated
\* encoding, batches refer to their own intermediate texts, and stale changes
\* are delivered again; and once everything sent was handled, the two agree on
\* the versions too.
StoreMatchesBuffer ==
    /\ DOMAIN docs = DOMAIN shadow
    /\ \A u \in DOMAIN docs : docs[u].text = shadow[u]
    /\ sent = <<>> =>
          /\ DOMAIN docs = DOMAIN buffer
          /\ \A u \in DOMAIN docs : docs[u].version = buffer[u].version

\* with_index's "cached LineIndex (built lazily and invalidated on every
\* edit)": a cached index is the index of the text stored beside it.
IndexMatchesText ==
    \A u \in DOMAIN docs : docs[u].index \in {NoIndex, NewLineIndex(docs[u].text)}
=============================================================================
