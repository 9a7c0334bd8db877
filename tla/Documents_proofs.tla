---------------------------- MODULE Documents_proofs ----------------------------
(***************************************************************************)
(* Proofs about the document store, for any documents, texts, versions and *)
(* batches, in every encoding, with inverted ranges or without.            *)
(***************************************************************************)
EXTENDS Documents, Text_proofs

\* The change the store handles next, if it is not ignored, does not panic.
NoPanicAhead ==
    \A u \in DOMAIN docs :
        sent # <<>> /\ Head(sent).kind = "didChange" /\ Head(sent).uri = u
        /\ ~(Head(sent).version < docs[u].version)
            => ~ApplyBatch(docs[u].text, Head(sent).changes).panics

\* Every stored entry is a record with the fields of Entry.
EntriesWhole ==
    \A u \in DOMAIN docs :
        docs[u] = [version |-> docs[u].version, text |-> docs[u].text, index |-> docs[u].index]

\* A cached index is its text's, in a store whose entries are whole.
CacheInv == EntriesWhole /\ IndexMatchesText

\* A store of the same documents, but one, keeps what is said of each.
LEMMA OtherEntries ==
    ASSUME CacheInv, NEW u,
           DOMAIN docs' \subseteq DOMAIN docs \cup {u},
           \A v \in DOMAIN docs' : v # u => docs'[v] = docs[v],
           NEW version, NEW text, NEW index, index \in {NoIndex, NewLineIndex(text)},
           u \in DOMAIN docs' =>
               docs'[u] = [version |-> version, text |-> text, index |-> index]
    PROVE  CacheInv'
<1>1. ASSUME NEW v \in DOMAIN docs', v # u
      PROVE  /\ docs'[v] = [version |-> docs'[v].version, text |-> docs'[v].text,
                            index |-> docs'[v].index]
             /\ docs'[v].index \in {NoIndex, NewLineIndex(docs'[v].text)}
  BY <1>1 DEF CacheInv, EntriesWhole, IndexMatchesText
<1>2. ASSUME u \in DOMAIN docs'
      PROVE  /\ docs'[u] = [version |-> docs'[u].version, text |-> docs'[u].text,
                            index |-> docs'[u].index]
             /\ docs'[u].index \in {NoIndex, NewLineIndex(docs'[u].text)}
  BY <1>2
<1> QED
  BY <1>1, <1>2 DEF CacheInv, EntriesWhole, IndexMatchesText

\* Nothing happens to the store.
LEMMA StoreFrame == ASSUME CacheInv, UNCHANGED docs PROVE CacheInv'
  BY DEF CacheInv, EntriesWhole, IndexMatchesText

\* Opening a document stores it without an index.
LEMMA OpenKeepsCache ==
    ASSUME CacheInv, NEW u, NEW version, NEW text, DidOpen(u, version, text)
    PROVE  CacheInv'
<1>1. /\ DOMAIN docs' = DOMAIN docs \cup {u}
      /\ docs'[u] = Entry(version, text)
      /\ \A v \in DOMAIN docs' : v # u => docs'[v] = docs[v]
  BY DEF DidOpen, With
<1> QED
  BY <1>1, OtherEntries DEF Entry

\* A change that does not panic drops the index with the text it was of.
LEMMA ChangeKeepsCache ==
    ASSUME CacheInv, NEW u, NEW version, NEW batch, DidChange(u, version, batch),
           u \in DOMAIN docs /\ ~(version < docs[u].version)
               => ~ApplyBatch(docs[u].text, batch).panics
    PROVE  CacheInv'
<1>1. CASE u \notin DOMAIN docs \/ version < docs[u].version
  BY <1>1, StoreFrame DEF DidChange
<1>2. CASE ~(u \notin DOMAIN docs \/ version < docs[u].version)
  <2> DEFINE result == ApplyBatch(docs[u].text, batch)
  <2>1. docs' = [docs EXCEPT ![u] = Entry(version, result.text)]
    BY <1>2 DEF DidChange
  <2>2. /\ DOMAIN docs' = DOMAIN docs
        /\ docs'[u] = Entry(version, result.text)
        /\ \A v \in DOMAIN docs' : v # u => docs'[v] = docs[v]
    BY <1>2, <2>1
  <2> HIDE DEF result
  <2> QED
    BY <2>2, OtherEntries DEF Entry
<1> QED
  BY <1>1, <1>2

\* Every step keeps the cache true, if no batch panics half way.
LEMMA CacheStep ==
    ASSUME CacheInv, NoPanicAhead, [Next]_vars
    PROVE  CacheInv'
<1>1. ASSUME NEW u \in Uris, EditorOpens(u) \/ EditorChanges(u) \/ EditorCloses(u)
      PROVE  CacheInv'
  BY <1>1, StoreFrame DEF EditorOpens, EditorChanges, EditorCloses, storeVars
<1>2. ASSUME NEW u \in Uris, ReadIndex(u) PROVE CacheInv'
  <2> DEFINE new == NewLineIndex(docs[u].text)
  <2>1. docs[u] = [version |-> docs[u].version, text |-> docs[u].text, index |-> docs[u].index]
    BY <1>2 DEF ReadIndex, CacheInv, EntriesWhole
  <2>2. /\ DOMAIN docs' = DOMAIN docs
        /\ docs'[u] = [docs[u] EXCEPT !.index = new]
        /\ \A v \in DOMAIN docs' : v # u => docs'[v] = docs[v]
    BY <1>2 DEF ReadIndex
  <2>3. docs'[u] = [version |-> docs[u].version, text |-> docs[u].text, index |-> new]
    BY <2>1, <2>2
  <2> QED
    BY <2>2, <2>3, OtherEntries
<1>3. CASE HandleOpen
  BY <1>3, OpenKeepsCache DEF HandleOpen
<1>4. CASE HandleChange
  <2>1. DidChange(Head(sent).uri, Head(sent).version, Head(sent).changes)
        /\ sent # <<>> /\ Head(sent).kind = "didChange"
    BY <1>4 DEF HandleChange, Takes
  <2> QED
    BY <2>1, ChangeKeepsCache DEF NoPanicAhead
<1>5. CASE HandleClose
  <2>1. docs' = Without(docs, Head(sent).uri)
    BY <1>5 DEF HandleClose, DidClose
  <2>2. /\ DOMAIN docs' \subseteq DOMAIN docs
        /\ \A v \in DOMAIN docs' : docs'[v] = docs[v]
    BY <2>1 DEF Without
  <2> QED
    BY <2>2 DEF CacheInv, EntriesWhole, IndexMatchesText
<1>6. ASSUME NEW m \in stale, Replay(m) PROVE CacheInv'
  BY <1>6, StoreFrame DEF Replay, DidChange
<1>7. CASE Done \/ UNCHANGED vars
  BY <1>7, StoreFrame DEF Done, vars, storeVars
<1> QED
  BY <1>1, <1>2, <1>3, <1>4, <1>5, <1>6, <1>7 DEF Next

\* with_index's cached index is out of date only after a batch that panicked
\* half way: as long as none does, whatever the editor opens, changes and
\* closes and whatever is replayed, it is the index of its text.
THEOREM OnlyPanicsOutdate == Spec /\ []NoPanicAhead => []IndexMatchesText
<1>1. Init => CacheInv
  BY DEF Init, CacheInv, EntriesWhole, IndexMatchesText
<1>2. CacheInv /\ NoPanicAhead /\ [Next]_vars => CacheInv'
  BY CacheStep
<1>3. CacheInv => IndexMatchesText
  BY DEF CacheInv
<1> QED
  BY <1>1, <1>2, <1>3, PTL DEF Spec

-----------------------------------------------------------------------------
(* What a change does to the text it is made for *)

\* Any position that PositionsAt gives a place comes back to the place.
LEMMA PositionsOfPlace ==
    ASSUME encoding \in Encodings, NEW text \in Seq(Char), NEW k \in 0..Len(text),
           NEW p \in PositionsAt(text, k)
    PROVE  PositionToOffset(text, p, encoding) = Bytes(Prefix(text, k))
<1> DEFINE l == LineOf(text, k)
           s == LineStart(text, l)
           column == Size(SubSeq(text, s + 1, k), encoding)
           endOfLine == k = Len(text) \/ text[k + 1] = "newline"
<1>1. Len(text) \in Nat /\ l \in Nat /\ s \in 0..Len(text) /\ k \in s..Len(text)
  BY PlaceOnLine, LineSteps
<1>2. column \in Nat
  <2>1. SubSeq(text, s + 1, k) \in Seq(Char)
    BY <1>1, PartIs
  <2> QED
    BY <2>1, SizeType
<1>3. PositionsAt(text, k) = {Pos(l, column)}
         \cup (IF endOfLine THEN {Pos(l, column + 1)} ELSE {})
         \cup (IF k = Len(text) THEN {Pos(l + 1, 0)} ELSE {})
  BY LastNewline DEF PositionsAt, LineOf
<1>4. CASE p = Pos(l, column)
  BY <1>2, <1>4, PlaceOffset
<1>5. CASE endOfLine /\ p = Pos(l, column + 1)
  <2>1. k = LineEnd(text, l)
    BY <1>5, EndsLine
  <2>2. column + 1 \in Nat /\ column + 1 >= column
    BY <1>2
  <2> QED
    BY <1>5, <2>1, <2>2, PlaceOffset
<1>6. CASE k = Len(text) /\ p = Pos(l + 1, 0)
  <2>1. ~(l + 1 <= LineOf(text, Len(text))) /\ l + 1 \in Nat /\ 0 \in Nat
    BY <1>1, <1>6
  <2>2. PositionToOffset(text, p, encoding) = Bytes(text)
    BY <1>6, <2>1, PositionToOffsetIs
  <2> QED
    BY <1>6, <2>2, EndPlaces
<1> HIDE DEF l, column, endOfLine
<1> QED
  BY <1>3, <1>4, <1>5, <1>6

\* A change, read in an encoding, that turns one text into another: a new text,
\* or a range of two places, the first no later than the second.
Edits(enc, text, c, after) ==
    \/ c.range = NoRange /\ after = c.text /\ c.text \in Seq(Char)
    \/ /\ c.range # NoRange /\ c.text \in Seq(Char)
       /\ \E from \in 0..Len(text), to \in 0..Len(text) :
             /\ from <= to
             /\ PositionToOffset(text, c.range[1].start, enc) = Bytes(Prefix(text, from))
             /\ PositionToOffset(text, c.range[1].end, enc) = Bytes(Prefix(text, to))
             /\ after = Prefix(text, from) \o c.text \o SubSeq(text, to + 1, Len(text))

\* The same for a batch of one or two, each made for the text before it.
Rewrites(enc, text, batch, after) ==
    \/ \E c : batch = <<c>> /\ Edits(enc, text, c, after)
    \/ \E c, d : \E mid \in Seq(Char) :
          batch = <<c, d>> /\ Edits(enc, text, c, mid) /\ Edits(enc, mid, d, after)

\* What an edit leaves is a text.
LEMMA EditsText ==
    ASSUME NEW enc, NEW text \in Seq(Char), NEW c, NEW after, Edits(enc, text, c, after)
    PROVE  after \in Seq(Char)
<1>1. CASE c.range = NoRange
  BY <1>1 DEF Edits
<1>2. CASE c.range # NoRange
  <2>1. PICK from \in 0..Len(text), to \in 0..Len(text) :
           after = Prefix(text, from) \o c.text \o SubSeq(text, to + 1, Len(text))
    BY <1>2 DEF Edits
  <2>2. c.text \in Seq(Char)
    BY <1>2 DEF Edits
  <2>3. Len(text) \in to..Len(text)
    BY EndPlaces
  <2>4. Prefix(text, from) \in Seq(Char) /\ SubSeq(text, to + 1, Len(text)) \in Seq(Char)
    BY <2>3, PrefixIs, PartIs
  <2> QED
    BY <2>1, <2>2, <2>4
<1> QED
  BY <1>1, <1>2

\* An editor that sends no inverted range sends such changes,
LEMMA ContentChangeEdits ==
    ASSUME InvertedRanges = FALSE, encoding \in Encodings,
           NEW text \in Seq(Char), NEW b \in ContentChanges(text)
    PROVE  Edits(encoding, text, b.change, b.after)
<1>1. NewTexts \subseteq Seq(Char)
  BY DocumentsAssumption
<1>2. ASSUME NEW new \in NewTexts, b \in FullChange(text, new)
      PROVE  Edits(encoding, text, b.change, b.after)
  <2>1. b = [change |-> [range |-> NoRange, text |-> new], after |-> new]
    BY <1>2 DEF FullChange
  <2>2. b.change.range = NoRange /\ b.change.text = new /\ b.after = new
    BY <2>1
  <2> QED
    BY <1>1, <2>2 DEF Edits
<1>3. ASSUME NEW from \in 0..Len(text), NEW to \in 0..Len(text), from <= to,
             NEW new \in NewTexts, b \in RangeChange(text, from, to, new)
      PROVE  Edits(encoding, text, b.change, b.after)
  <2>1. PICK p \in PositionsAt(text, from), q \in PositionsAt(text, to) :
           b = [change |-> [range |-> <<[start |-> p, end |-> q]>>, text |-> new],
                after |-> Prefix(text, from) \o new \o SubSeq(text, to + 1, Len(text))]
    <3>1. PICK r \in PositionsAt(text, from) \X PositionsAt(text, to) :
             b = [change |-> [range |-> <<[start |-> r[1], end |-> r[2]]>>, text |-> new],
                  after |-> IF from <= to
                            THEN Prefix(text, from) \o new \o SubSeq(text, to + 1, Len(text))
                            ELSE text]
      BY <1>3 DEF RangeChange
    <3>2. r[1] \in PositionsAt(text, from) /\ r[2] \in PositionsAt(text, to)
      OBVIOUS
    <3> QED
      BY <1>3, <3>1, <3>2
  <2>2. /\ b.change.range # NoRange /\ b.change.text = new
        /\ b.change.range[1].start = p /\ b.change.range[1].end = q
        /\ b.after = Prefix(text, from) \o new \o SubSeq(text, to + 1, Len(text))
    BY <2>1 DEF NoRange
  <2>3. PositionToOffset(text, p, encoding) = Bytes(Prefix(text, from))
        /\ PositionToOffset(text, q, encoding) = Bytes(Prefix(text, to))
    BY PositionsOfPlace
  <2> QED
    BY <1>1, <1>3, <2>2, <2>3 DEF Edits
<1>4. ASSUME NEW t \in (0..Len(text)) \X (0..Len(text)) \X NewTexts,
             t[1] <= t[2] \/ InvertedRanges, b \in RangeChange(text, t[1], t[2], t[3])
      PROVE  Edits(encoding, text, b.change, b.after)
  <2>1. t[1] \in 0..Len(text) /\ t[2] \in 0..Len(text) /\ t[3] \in NewTexts /\ t[1] <= t[2]
    BY <1>4
  <2> QED
    BY <1>3, <1>4, <2>1
<1>5. \/ \E new \in NewTexts : b \in FullChange(text, new)
      \/ \E t \in (0..Len(text)) \X (0..Len(text)) \X NewTexts :
            (t[1] <= t[2] \/ InvertedRanges) /\ b \in RangeChange(text, t[1], t[2], t[3])
  BY DEF ContentChanges
<1> QED
  BY <1>2, <1>4, <1>5

\* and such batches.
LEMMA BatchRewrites ==
    ASSUME InvertedRanges = FALSE, encoding \in Encodings,
           NEW text \in Seq(Char), NEW n, NEW b \in Batches(text, n)
    PROVE  Rewrites(encoding, text, b.changes, b.after) /\ b.after \in Seq(Char)
<1>1. CASE b \in One(text)
  <2>1. PICK c \in ContentChanges(text) : b = [changes |-> <<c.change>>, after |-> c.after]
    BY <1>1 DEF One
  <2>2. Edits(encoding, text, c.change, c.after)
    BY ContentChangeEdits
  <2>3. b.changes = <<c.change>> /\ b.after = c.after
    BY <2>1
  <2> QED
    BY <2>2, <2>3, EditsText DEF Rewrites
<1>2. CASE b \in Two(text)
  <2>1. PICK c \in ContentChanges(text) : \E d \in ContentChanges(c.after) :
           b = [changes |-> <<c.change, d.change>>, after |-> d.after]
    BY <1>2 DEF Two
  <2>2. PICK d \in ContentChanges(c.after) :
           b = [changes |-> <<c.change, d.change>>, after |-> d.after]
    BY <2>1
  <2>3. Edits(encoding, text, c.change, c.after) /\ c.after \in Seq(Char)
    BY ContentChangeEdits, EditsText
  <2>4. Edits(encoding, c.after, d.change, d.after) /\ d.after \in Seq(Char)
    BY <2>3, ContentChangeEdits, EditsText
  <2>5. b.changes = <<c.change, d.change>> /\ b.after = d.after
    BY <2>2
  <2> QED
    BY <2>3, <2>4, <2>5 DEF Rewrites
<1> QED
  BY <1>1, <1>2 DEF Batches

\* The store applies such a change to the same text with the same result, and
\* does not panic,
LEMMA ApplyChangeIs ==
    ASSUME encoding \in Encodings, NEW text \in Seq(Char), NEW c, NEW after,
           Edits(encoding, text, c, after)
    PROVE  ApplyChange(text, c) = [text |-> after, panics |-> FALSE]
<1>1. CASE c.range = NoRange
  BY <1>1 DEF Edits, ApplyChange
<1>2. CASE c.range # NoRange
  <2>1. PICK from \in 0..Len(text), to \in 0..Len(text) :
           /\ from <= to
           /\ PositionToOffset(text, c.range[1].start, encoding) = Bytes(Prefix(text, from))
           /\ PositionToOffset(text, c.range[1].end, encoding) = Bytes(Prefix(text, to))
           /\ after = Prefix(text, from) \o c.text \o SubSeq(text, to + 1, Len(text))
    BY <1>2 DEF Edits
  <2>2. ~(Bytes(Prefix(text, from)) > Bytes(Prefix(text, to)))
    BY <2>1, OffsetsOrdered
  <2>3. /\ 0 \in 0..Len(text) /\ Len(text) \in 0..Len(text)
        /\ Bytes(Prefix(text, 0)) = 0 /\ Bytes(Prefix(text, Len(text))) = Bytes(text)
    BY EndPlaces
  <2>4. Slice(text, Bytes(Prefix(text, 0)), Bytes(Prefix(text, from))) = SubSeq(text, 0 + 1, from)
        /\ Slice(text, Bytes(Prefix(text, to)), Bytes(Prefix(text, Len(text))))
              = SubSeq(text, to + 1, Len(text))
    BY <2>3, SliceBetween
  <2>5. Slice(text, 0, Bytes(Prefix(text, from))) = Prefix(text, from)
        /\ Slice(text, Bytes(Prefix(text, to)), Bytes(text)) = SubSeq(text, to + 1, Len(text))
    BY <2>3, <2>4 DEF Prefix
  <2> QED
    BY <1>2, <2>1, <2>2, <2>5 DEF ApplyChange
<1> QED
  BY <1>1, <1>2

\* and so does it with such a batch.
LEMMA ApplyBatchIs ==
    ASSUME encoding \in Encodings, NEW text \in Seq(Char), NEW batch, NEW after,
           Rewrites(encoding, text, batch, after)
    PROVE  ApplyBatch(text, batch) = [text |-> after, panics |-> FALSE]
<1> DEFINE first == [text |-> text, panics |-> FALSE]
           next(done, i) == IF done.panics THEN done ELSE ApplyChange(done.text, batch[i])
           second == next(first, 1)
           third == next(second, 2)
           g == [i \in 0..Len(batch) |-> IF i = 0 THEN first ELSE IF i = 1 THEN second ELSE third]
           upTo[i \in 0..Len(batch)] == IF i = 0 THEN first ELSE next(upTo[i - 1], i)
<1>1. Len(batch) \in {1, 2}
  BY DEF Rewrites
<1>2. g = [i \in 0..Len(batch) |-> IF i = 0 THEN first ELSE next(g[i - 1], i)]
  <2> HIDE DEF first, next
  <2>1. \A i \in 0..Len(batch) : g[i] = IF i = 0 THEN first ELSE next(g[i - 1], i)
    BY <1>1
  <2> QED
    BY <2>1
<1>3. upTo = [i \in 0..Len(batch) |-> IF i = 0 THEN first ELSE next(upTo[i - 1], i)]
  <2> HIDE DEF g, first, next
  <2> QED
    BY <1>2
<1>4. ApplyBatch(text, batch) = upTo[Len(batch)]
  BY DEF ApplyBatch
<1> HIDE DEF upTo, g
<1>5. upTo[1] = second /\ (Len(batch) = 2 => upTo[2] = third)
  <2> HIDE DEF first, next
  <2>1. upTo[0] = first
    BY <1>1, <1>3
  <2>2. upTo[1] = next(upTo[0], 1)
    BY <1>1, <1>3
  <2>3. Len(batch) = 2 => upTo[2] = next(upTo[1], 2)
    BY <1>3
  <2> QED
    BY <2>1, <2>2, <2>3
<1>6. ASSUME NEW c, batch = <<c>>, Edits(encoding, text, c, after)
      PROVE  ApplyBatch(text, batch) = [text |-> after, panics |-> FALSE]
  <2>1. second = ApplyChange(text, c) /\ Len(batch) = 1
    BY <1>6
  <2> QED
    BY <1>4, <1>5, <1>6, <2>1, ApplyChangeIs
<1>7. ASSUME NEW c, NEW d, NEW mid \in Seq(Char), batch = <<c, d>>,
             Edits(encoding, text, c, mid), Edits(encoding, mid, d, after)
      PROVE  ApplyBatch(text, batch) = [text |-> after, panics |-> FALSE]
  <2>1. second = ApplyChange(text, c) /\ Len(batch) = 2 /\ batch[2] = d
    BY <1>7
  <2>2. second = [text |-> mid, panics |-> FALSE]
    BY <1>7, <2>1, ApplyChangeIs
  <2> HIDE DEF second
  <2>3. third = ApplyChange(mid, d)
    BY <2>1, <2>2
  <2> HIDE DEF third
  <2> QED
    BY <1>4, <1>5, <1>7, <2>1, <2>3, ApplyChangeIs
<1> QED
  BY <1>6, <1>7 DEF Rewrites

-----------------------------------------------------------------------------
(* What lies between the store and the editor *)

\* What the store, and what the editor, has of every document.
Closed == [open |-> FALSE, version |-> 0, text |-> <<>>]
Opened(version, text) == [open |-> TRUE, version |-> version, text |-> text]
Views == [Uris -> [open : BOOLEAN, version : Nat, text : Seq(Char)]]

StoreView ==
    [u \in Uris |-> IF u \in DOMAIN docs THEN Opened(docs[u].version, docs[u].text) ELSE Closed]
BufferView ==
    [u \in Uris |->
        IF u \in DOMAIN buffer THEN Opened(buffer[u].version, buffer[u].text) ELSE Closed]

\* A notification takes one view to the next: it opens a closed document, or
\* changes an open one to a later version, or closes it.
Follows(enc, view, m, next) ==
    /\ m.uri \in Uris
    /\ \/ /\ m.kind = "didOpen" /\ ~view[m.uri].open
          /\ next = [view EXCEPT ![m.uri] = Opened(m.version, m.after)]
       \/ /\ m.kind = "didChange" /\ view[m.uri].open
          /\ view[m.uri].version < m.version
          /\ Rewrites(enc, view[m.uri].text, m.changes, m.after)
          /\ next = [view EXCEPT ![m.uri] = Opened(m.version, m.after)]
       \/ /\ m.kind = "didClose" /\ view[m.uri].open
          /\ next = [view EXCEPT ![m.uri] = Closed]

\* The notifications take one view to another, one after the other.
Chain(enc, from, msgs, to) ==
    \E h \in [0..Len(msgs) -> Views] :
        /\ h[0] = from /\ h[Len(msgs)] = to
        /\ \A i \in 1..Len(msgs) : Follows(enc, h[i - 1], msgs[i], h[i])

IsSequence(s) == \E M : s \in Seq(M)

\* No notifications take a view to itself only.
LEMMA ChainEmpty ==
    ASSUME NEW enc, NEW v, NEW w
    PROVE  Chain(enc, v, <<>>, w) <=> v \in Views /\ v = w
<1>1. ASSUME Chain(enc, v, <<>>, w) PROVE v \in Views /\ v = w
  BY <1>1 DEF Chain
<1>2. ASSUME v \in Views PROVE Chain(enc, v, <<>>, v)
  <2> DEFINE h == [i \in 0..0 |-> v]
  <2>1. Len(<<>>) = 0 /\ h \in [0..0 -> Views] /\ h[0] = v
    BY <1>2
  <2> HIDE DEF h
  <2>2. h \in [0..Len(<<>>) -> Views] /\ h[0] = v /\ h[Len(<<>>)] = v
    BY <2>1
  <2>3. \A i \in 1..Len(<<>>) : Follows(enc, h[i - 1], <<>>[i], h[i])
    BY <2>1
  <2> QED
    BY <2>2, <2>3 DEF Chain
<1> QED
  BY <1>1, <1>2

\* Another notification takes the last view one step further.
LEMMA ChainAppend ==
    ASSUME NEW enc, NEW v, NEW w, NEW x \in Views, NEW s, IsSequence(s), NEW m,
           Chain(enc, v, s, w), Follows(enc, w, m, x)
    PROVE  Chain(enc, v, Append(s, m), x)
<1>1. PICK M : s \in Seq(M)
  BY DEF IsSequence
<1> DEFINE n == Len(s)
           t == Append(s, m)
<1>2. n \in Nat /\ Len(t) = n + 1 /\ t[n + 1] = m /\ \A i \in 1..n : t[i] = s[i]
  BY <1>1
<1>3. PICK h \in [0..n -> Views] : /\ h[0] = v /\ h[n] = w
                                   /\ \A i \in 1..n : Follows(enc, h[i - 1], s[i], h[i])
  BY DEF Chain
<1> HIDE DEF n, t
<1> DEFINE g == [i \in 0..(n + 1) |-> IF i <= n THEN h[i] ELSE x]
<1>4. g \in [0..(n + 1) -> Views] /\ g[0] = v /\ g[n + 1] = x /\ g[n] = w
  BY <1>2, <1>3
<1>5. ASSUME NEW i \in 1..(n + 1) PROVE Follows(enc, g[i - 1], t[i], g[i])
  <2>1. CASE i <= n
    <3>1. i \in 1..n /\ i - 1 \in 0..n /\ i - 1 <= n
      BY <1>2, <2>1
    <3>2. g[i] = h[i] /\ g[i - 1] = h[i - 1] /\ t[i] = s[i]
      BY <1>2, <2>1, <3>1
    <3> QED
      BY <1>3, <3>1, <3>2
  <2>2. CASE ~(i <= n)
    <3>1. i = n + 1 /\ i - 1 = n
      BY <1>2, <2>2
    <3> HIDE DEF g
    <3> QED
      BY <1>2, <1>4, <3>1
  <2> QED
    BY <2>1, <2>2
<1> HIDE DEF g
<1>6. Chain(enc, v, t, x)
  BY <1>2, <1>4, <1>5 DEF Chain
<1> QED
  BY <1>6 DEF t

\* The first notification takes the first view to one from which the others go
\* on.
LEMMA ChainTail ==
    ASSUME NEW enc, NEW v, NEW w, NEW s, IsSequence(s), s # <<>>, Chain(enc, v, s, w)
    PROVE  \E x \in Views : Follows(enc, v, Head(s), x) /\ Chain(enc, x, Tail(s), w)
<1>1. PICK M : s \in Seq(M)
  BY DEF IsSequence
<1> DEFINE n == Len(s)
           t == Tail(s)
<1>2. n \in Nat /\ n >= 1 /\ Len(t) = n - 1 /\ Head(s) = s[1] /\ \A i \in 1..(n - 1) : t[i] = s[i + 1]
  BY <1>1
<1>3. PICK h \in [0..n -> Views] : /\ h[0] = v /\ h[n] = w
                                   /\ \A i \in 1..n : Follows(enc, h[i - 1], s[i], h[i])
  BY DEF Chain
<1> HIDE DEF n, t
<1> DEFINE g == [i \in 0..(n - 1) |-> h[i + 1]]
<1>4. g \in [0..(n - 1) -> Views] /\ g[0] = h[1] /\ g[n - 1] = w /\ h[1] \in Views
  BY <1>2, <1>3
<1>5. ASSUME NEW i \in 1..(n - 1) PROVE Follows(enc, g[i - 1], t[i], g[i])
  <2>1. i + 1 \in 1..n /\ (i + 1) - 1 = i /\ i \in 0..(n - 1) /\ i - 1 \in 0..(n - 1)
    BY <1>2
  <2>2. g[i] = h[i + 1] /\ g[i - 1] = h[i] /\ t[i] = s[i + 1]
    BY <1>2, <2>1
  <2>3. Follows(enc, h[(i + 1) - 1], s[i + 1], h[i + 1])
    BY <1>3, <2>1
  <2> QED
    BY <2>1, <2>2, <2>3
<1> HIDE DEF g
<1>6. Chain(enc, h[1], t, w)
  BY <1>2, <1>4, <1>5 DEF Chain
<1>7. Follows(enc, v, Head(s), h[1])
  <2>1. 1 \in 1..n /\ 1 - 1 = 0
    BY <1>2
  <2>2. Follows(enc, h[1 - 1], s[1], h[1])
    BY <1>3, <2>1
  <2> QED
    BY <1>2, <1>3, <2>1, <2>2
<1> QED
  BY <1>4, <1>6, <1>7 DEF t

-----------------------------------------------------------------------------
(* The store follows the editor *)

\* What is on the way takes what the store has to what the editor has.
SyncInv ==
    /\ encoding \in Encodings
    /\ IsSequence(sent)
    /\ DOMAIN docs \subseteq Uris /\ DOMAIN buffer \subseteq Uris
    /\ Chain(encoding, StoreView, sent, BufferView)

\* The editor's text as of the last notification is the stored one.
ShadowInv ==
    /\ DOMAIN docs = DOMAIN shadow
    /\ \A u \in DOMAIN docs : docs[u].text = shadow[u]

\* The ends of a chain are views.
LEMMA ChainEnds ==
    ASSUME NEW enc, NEW v, NEW w, NEW s, IsSequence(s), Chain(enc, v, s, w)
    PROVE  v \in Views /\ w \in Views
<1>1. PICK M : s \in Seq(M)
  BY DEF IsSequence
<1>2. Len(s) \in Nat
  BY <1>1
<1>3. 0 \in 0..Len(s) /\ Len(s) \in 0..Len(s)
  BY <1>2
<1> QED
  BY <1>3 DEF Chain

\* A message that the editor adds.
LEMMA SyncAppend ==
    ASSUME SyncInv, UNCHANGED <<encoding, docs>>, NEW m, sent' = Append(sent, m),
           DOMAIN buffer' \subseteq Uris, BufferView' \in Views,
           Follows(encoding, BufferView, m, BufferView')
    PROVE  SyncInv'
<1>1. PICK M : sent \in Seq(M)
  BY DEF SyncInv, IsSequence
<1>2. Append(sent, m) \in Seq(M \cup {m})
  <2>1. sent \in Seq(M \cup {m})
    BY <1>1
  <2> QED
    BY <2>1
<1>3. IsSequence(sent')
  BY <1>2 DEF IsSequence
<1>4. StoreView' = StoreView
  BY DEF StoreView
<1>5. Chain(encoding, StoreView, sent', BufferView')
  BY ChainAppend DEF SyncInv
<1> HIDE DEF StoreView, BufferView
<1>6. Chain(encoding', StoreView', sent', BufferView')
  BY <1>4, <1>5
<1> QED
  BY <1>3, <1>6 DEF SyncInv

\* The first message, that the store takes: the store goes on to the next view.
LEMMA SyncTake ==
    ASSUME SyncInv, UNCHANGED <<encoding, buffer>>, sent # <<>>, sent' = Tail(sent),
           NEW x, Chain(encoding, x, Tail(sent), BufferView),
           DOMAIN docs' \subseteq Uris, StoreView' = x
    PROVE  SyncInv'
<1>1. PICK M : sent \in Seq(M)
  BY DEF SyncInv, IsSequence
<1>2. Tail(sent) \in Seq(M)
  BY <1>1
<1>3. IsSequence(sent')
  BY <1>2 DEF IsSequence
<1>4. BufferView' = BufferView
  BY DEF BufferView
<1> HIDE DEF StoreView, BufferView
<1>5. Chain(encoding', StoreView', sent', BufferView')
  BY <1>4
<1> QED
  BY <1>3, <1>5 DEF SyncInv

\* What the store, the editor and the channel have stays as it is.
LEMMA SyncFrame ==
    ASSUME SyncInv, UNCHANGED <<encoding, buffer, sent>>, StoreView' = StoreView,
           DOMAIN docs' = DOMAIN docs
    PROVE  SyncInv'
<1>1. BufferView' = BufferView
  BY DEF BufferView
<1> HIDE DEF StoreView, BufferView
<1>2. Chain(encoding', StoreView', sent', BufferView')
  BY <1>1 DEF SyncInv
<1> QED
  BY <1>2 DEF SyncInv

\* The next view is the one that the first message leads to.
LEMMA FirstMessage ==
    ASSUME SyncInv, sent # <<>>
    PROVE  \E x \in Views : /\ Follows(encoding, StoreView, Head(sent), x)
                            /\ Chain(encoding, x, Tail(sent), BufferView)
  BY ChainTail DEF SyncInv

\* Before a change is handled, the document is open with an earlier version,
\* and the change rewrites its text.
LEMMA FirstChange ==
    ASSUME SyncInv, sent # <<>>, Head(sent).kind = "didChange"
    PROVE  LET m == Head(sent)
           IN /\ m.uri \in DOMAIN docs /\ docs[m.uri].version < m.version
              /\ docs[m.uri].text \in Seq(Char)
              /\ Rewrites(encoding, docs[m.uri].text, m.changes, m.after)
              /\ ApplyBatch(docs[m.uri].text, m.changes) = [text |-> m.after, panics |-> FALSE]
              /\ Chain(encoding, [StoreView EXCEPT ![m.uri] = Opened(m.version, m.after)],
                       Tail(sent), BufferView)
<1> DEFINE m == Head(sent)
           u == m.uri
<1>1. PICK x \in Views : /\ Follows(encoding, StoreView, m, x)
                         /\ Chain(encoding, x, Tail(sent), BufferView)
  BY FirstMessage
<1>2. /\ u \in Uris /\ StoreView[u].open /\ StoreView[u].version < m.version
      /\ Rewrites(encoding, StoreView[u].text, m.changes, m.after)
      /\ x = [StoreView EXCEPT ![u] = Opened(m.version, m.after)]
  BY <1>1 DEF Follows
<1>3. u \in DOMAIN docs
  BY <1>2 DEF StoreView, Closed
<1>4. StoreView[u].version = docs[u].version /\ StoreView[u].text = docs[u].text
  BY <1>2, <1>3 DEF StoreView, Opened
<1>5. StoreView[u].text \in Seq(Char)
  <2>1. StoreView \in Views
    BY ChainEnds DEF SyncInv
  <2> HIDE DEF StoreView
  <2> QED
    BY <1>2, <2>1 DEF Views
<1> HIDE DEF StoreView, BufferView, m, u
<1>6. ApplyBatch(docs[u].text, m.changes) = [text |-> m.after, panics |-> FALSE]
  BY <1>2, <1>4, <1>5, ApplyBatchIs DEF SyncInv
<1> QED
  BY <1>1, <1>2, <1>3, <1>4, <1>5, <1>6 DEF m, u

\* Opening, changing and closing a buffer is what the editor's message says.
LEMMA SyncEditor ==
    ASSUME InvertedRanges = FALSE, SyncInv, NEW u \in Uris,
           EditorOpens(u) \/ EditorChanges(u) \/ EditorCloses(u)
    PROVE  SyncInv'
<1> DEFINE Stays == \A v \in Uris : v # u => BufferView'[v] = BufferView[v]
<1>1. /\ UNCHANGED <<encoding, docs>> /\ DOMAIN buffer \subseteq Uris /\ encoding \in Encodings
      /\ BufferView \in Views
  BY ChainEnds DEF EditorOpens, EditorChanges, EditorCloses, storeVars, SyncInv
<1>2. /\ BufferView = [v \in Uris |-> BufferView[v]]
      /\ BufferView' = [v \in Uris |-> BufferView'[v]]
  BY DEF BufferView
<1>3. ASSUME NEW view \in [open : BOOLEAN, version : Nat, text : Seq(Char)],
             BufferView'[u] = view, Stays
      PROVE  BufferView' \in Views /\ BufferView' = [BufferView EXCEPT ![u] = view]
  <2> HIDE DEF BufferView
  <2>1. \A v \in Uris : BufferView'[v] = IF v = u THEN view ELSE BufferView[v]
    BY <1>3
  <2> QED
    BY <1>1, <1>2, <2>1 DEF Views
<1>4. CASE EditorOpens(u)
  <2>1. PICK text \in OpenTexts :
           /\ buffer' = With(buffer, u, [version |-> 1, text |-> text])
           /\ Notify("didOpen", u, 1, <<>>, text)
    BY <1>4 DEF EditorOpens
  <2>2. u \notin DOMAIN buffer /\ text \in Seq(Char)
    BY <1>4, DocumentsAssumption DEF EditorOpens
  <2>3. /\ DOMAIN buffer' = DOMAIN buffer \cup {u}
        /\ buffer'[u] = [version |-> 1, text |-> text]
        /\ \A v \in DOMAIN buffer : v # u => buffer'[v] = buffer[v]
    BY <2>1 DEF With
  <2>4. BufferView'[u] = Opened(1, text) /\ Stays /\ ~BufferView[u].open
    BY <2>2, <2>3 DEF BufferView, Closed
  <2>5. Opened(1, text) \in [open : BOOLEAN, version : Nat, text : Seq(Char)]
    BY <2>2 DEF Opened
  <2>6. BufferView' \in Views /\ BufferView' = [BufferView EXCEPT ![u] = Opened(1, text)]
    BY <1>3, <2>4, <2>5
  <2> DEFINE m == [kind |-> "didOpen", uri |-> u, version |-> 1, changes |-> <<>>, after |-> text]
  <2>7. sent' = Append(sent, m) /\ DOMAIN buffer' \subseteq Uris
    BY <1>1, <2>1, <2>3 DEF Notify
  <2>8. Follows(encoding, BufferView, m, BufferView')
    BY <2>4, <2>6 DEF Follows
  <2> HIDE DEF m
  <2> QED
    BY <1>1, <2>6, <2>7, <2>8, SyncAppend
<1>5. CASE EditorChanges(u)
  <2>1. PICK version \in (buffer[u].version + 1)..MaxVersion,
             b \in Batches(buffer[u].text, MaxChanges - changes[u]) :
           /\ buffer' = [buffer EXCEPT ![u] = [version |-> version, text |-> b.after]]
           /\ Notify("didChange", u, version, b.changes, b.after)
    BY <1>5 DEF EditorChanges
  <2>2. u \in DOMAIN buffer
    BY <1>5 DEF EditorChanges
  <2>3. /\ BufferView[u] = Opened(buffer[u].version, buffer[u].text)
        /\ BufferView[u].version = buffer[u].version /\ BufferView[u].text = buffer[u].text
        /\ BufferView[u].open
    BY <2>2 DEF BufferView, Opened
  <2>4. buffer[u].version \in Nat /\ buffer[u].text \in Seq(Char)
    <3> HIDE DEF BufferView
    <3>1. BufferView[u] \in [open : BOOLEAN, version : Nat, text : Seq(Char)]
      BY <1>1 DEF Views
    <3> QED
      BY <2>3, <3>1
  <2>5. Rewrites(encoding, buffer[u].text, b.changes, b.after) /\ b.after \in Seq(Char)
    BY <1>1, <2>4, BatchRewrites
  <2>6. version \in Nat /\ buffer[u].version < version
    BY <2>1, <2>4, DocumentsAssumption
  <2>7. /\ DOMAIN buffer' = DOMAIN buffer
        /\ buffer'[u] = [version |-> version, text |-> b.after]
        /\ \A v \in DOMAIN buffer : v # u => buffer'[v] = buffer[v]
    BY <2>1, <2>2
  <2>8. BufferView'[u] = Opened(version, b.after) /\ Stays
    BY <2>2, <2>7 DEF BufferView
  <2>9. Opened(version, b.after) \in [open : BOOLEAN, version : Nat, text : Seq(Char)]
    BY <2>5, <2>6 DEF Opened
  <2>10. BufferView' \in Views /\ BufferView' = [BufferView EXCEPT ![u] = Opened(version, b.after)]
    BY <1>3, <2>8, <2>9
  <2> DEFINE m == [kind |-> "didChange", uri |-> u, version |-> version,
                   changes |-> b.changes, after |-> b.after]
  <2>11. sent' = Append(sent, m) /\ DOMAIN buffer' \subseteq Uris
    BY <1>1, <2>1, <2>7 DEF Notify
  <2>12. Follows(encoding, BufferView, m, BufferView')
    BY <2>3, <2>5, <2>6, <2>10 DEF Follows
  <2> HIDE DEF m
  <2> QED
    BY <1>1, <2>10, <2>11, <2>12, SyncAppend
<1>6. CASE EditorCloses(u)
  <2>1. buffer' = Without(buffer, u) /\ Notify("didClose", u, 0, <<>>, <<>>) /\ u \in DOMAIN buffer
    BY <1>6 DEF EditorCloses
  <2>2. /\ DOMAIN buffer' = DOMAIN buffer \ {u}
        /\ \A v \in DOMAIN buffer : v # u => buffer'[v] = buffer[v]
    BY <2>1 DEF Without
  <2>3. BufferView'[u] = Closed /\ Stays /\ BufferView[u].open
    BY <2>1, <2>2 DEF BufferView, Opened
  <2>4. Closed \in [open : BOOLEAN, version : Nat, text : Seq(Char)]
    BY DEF Closed
  <2>5. BufferView' \in Views /\ BufferView' = [BufferView EXCEPT ![u] = Closed]
    BY <1>3, <2>3, <2>4
  <2> DEFINE m == [kind |-> "didClose", uri |-> u, version |-> 0, changes |-> <<>>, after |-> <<>>]
  <2>6. sent' = Append(sent, m) /\ DOMAIN buffer' \subseteq Uris
    BY <1>1, <2>1, <2>2 DEF Notify
  <2>7. Follows(encoding, BufferView, m, BufferView')
    BY <2>3, <2>5 DEF Follows
  <2> HIDE DEF m
  <2> QED
    BY <1>1, <2>5, <2>6, <2>7, SyncAppend
<1> QED
  BY <1>4, <1>5, <1>6

\* The store's view after a document was stored.
LEMMA StoreViewWith ==
    ASSUME NEW u \in Uris, NEW version, NEW text, NEW index,
           DOMAIN docs' = DOMAIN docs \cup {u},
           docs'[u] = [version |-> version, text |-> text, index |-> index],
           \A v \in DOMAIN docs : v # u => docs'[v] = docs[v]
    PROVE  StoreView' = [StoreView EXCEPT ![u] = Opened(version, text)]
<1>1. /\ StoreView = [v \in Uris |-> StoreView[v]]
      /\ StoreView' = [v \in Uris |-> StoreView'[v]]
  BY DEF StoreView
<1>2. StoreView'[u] = Opened(version, text)
  BY DEF StoreView
<1>3. \A v \in Uris : v # u => StoreView'[v] = StoreView[v]
  BY DEF StoreView
<1> HIDE DEF StoreView
<1>4. \A v \in Uris : StoreView'[v] = IF v = u THEN Opened(version, text) ELSE StoreView[v]
  BY <1>2, <1>3
<1> QED
  BY <1>1, <1>4

\* Every step keeps what is on the way, and what the store has followed.
LEMMA SyncStep ==
    ASSUME InvertedRanges = FALSE, SyncInv, ShadowInv, CacheInv, [Next]_vars
    PROVE  SyncInv' /\ ShadowInv'
<1>1. ASSUME NEW u \in Uris, EditorOpens(u) \/ EditorChanges(u) \/ EditorCloses(u)
      PROVE  SyncInv' /\ ShadowInv'
  <2>1. SyncInv'
    BY <1>1, SyncEditor
  <2>2. UNCHANGED <<docs, shadow>>
    BY <1>1 DEF EditorOpens, EditorChanges, EditorCloses, storeVars
  <2> QED
    BY <2>1, <2>2 DEF ShadowInv
<1>2. ASSUME NEW u \in Uris, ReadIndex(u) PROVE SyncInv' /\ ShadowInv'
  <2> DEFINE new == NewLineIndex(docs[u].text)
  <2>1. docs[u] = [version |-> docs[u].version, text |-> docs[u].text, index |-> docs[u].index]
    BY <1>2 DEF ReadIndex, CacheInv, EntriesWhole
  <2>2. /\ u \in DOMAIN docs /\ DOMAIN docs' = DOMAIN docs
        /\ docs'[u] = [docs[u] EXCEPT !.index = new]
        /\ \A v \in DOMAIN docs : v # u => docs'[v] = docs[v]
        /\ UNCHANGED <<encoding, buffer, sent, shadow>>
    BY <1>2 DEF ReadIndex, editorVars
  <2> HIDE DEF new
  <2>3. docs'[u].version = docs[u].version /\ docs'[u].text = docs[u].text
    BY <2>1, <2>2
  <2>4. \A v \in DOMAIN docs : docs'[v].version = docs[v].version /\ docs'[v].text = docs[v].text
    BY <2>2, <2>3
  <2>5. StoreView' = StoreView
    BY <2>2, <2>4 DEF StoreView
  <2>6. SyncInv'
    BY <2>2, <2>5, SyncFrame
  <2>7. ShadowInv'
    BY <2>2, <2>4 DEF ShadowInv
  <2> QED
    BY <2>6, <2>7
<1>3. CASE HandleOpen
  <2> DEFINE m == Head(sent)
             u == m.uri
  <2>1. /\ sent # <<>> /\ m.kind = "didOpen" /\ sent' = Tail(sent)
        /\ docs' = With(docs, u, Entry(m.version, m.after))
        /\ shadow' = With(shadow, u, m.after)
        /\ UNCHANGED <<encoding, buffer>>
    BY <1>3 DEF HandleOpen, Takes, DidOpen, editorVars
  <2>2. PICK x \in Views : /\ Follows(encoding, StoreView, m, x)
                           /\ Chain(encoding, x, Tail(sent), BufferView)
    BY <2>1, FirstMessage
  <2>3. u \in Uris /\ x = [StoreView EXCEPT ![u] = Opened(m.version, m.after)]
    BY <2>1, <2>2 DEF Follows
  <2> HIDE DEF m, u
  <2>4. /\ DOMAIN docs' = DOMAIN docs \cup {u}
        /\ docs'[u] = [version |-> m.version, text |-> m.after, index |-> NoIndex]
        /\ \A v \in DOMAIN docs : v # u => docs'[v] = docs[v]
    BY <2>1 DEF With, Entry
  <2>5. StoreView' = x
    BY <2>3, <2>4, StoreViewWith
  <2>6. SyncInv'
    BY <2>1, <2>2, <2>3, <2>4, <2>5, SyncTake DEF SyncInv
  <2>7. /\ DOMAIN shadow' = DOMAIN shadow \cup {u} /\ shadow'[u] = m.after
        /\ \A v \in DOMAIN shadow : v # u => shadow'[v] = shadow[v]
    BY <2>1 DEF With
  <2>8. docs'[u].text = m.after
    BY <2>4
  <2>9. ShadowInv'
    BY <2>4, <2>7, <2>8 DEF ShadowInv
  <2> QED
    BY <2>6, <2>9
<1>4. CASE HandleChange
  <2> DEFINE m == Head(sent)
             u == m.uri
  <2>1. /\ sent # <<>> /\ m.kind = "didChange" /\ sent' = Tail(sent)
        /\ DidChange(u, m.version, m.changes)
        /\ shadow' = [shadow EXCEPT ![u] = m.after]
        /\ UNCHANGED <<encoding, buffer>>
    BY <1>4 DEF HandleChange, Takes, editorVars
  <2>2. /\ u \in DOMAIN docs /\ docs[u].version < m.version
        /\ ApplyBatch(docs[u].text, m.changes) = [text |-> m.after, panics |-> FALSE]
        /\ Chain(encoding, [StoreView EXCEPT ![u] = Opened(m.version, m.after)],
                 Tail(sent), BufferView)
    BY <2>1, FirstChange
  <2>3. ~(m.version < docs[u].version)
    <3>1. docs[u].version \in Nat /\ m.version \in Nat
      <4>1. PICK x \in Views : Follows(encoding, StoreView, m, x)
        BY <2>1, FirstMessage
      <4>2. u \in Uris /\ x = [StoreView EXCEPT ![u] = Opened(m.version, m.after)]
        BY <2>1, <4>1 DEF Follows
      <4>3. StoreView \in Views
        BY ChainEnds DEF SyncInv
      <4>4. StoreView[u].version = docs[u].version
        BY <2>2, <4>2 DEF StoreView, Opened
      <4> HIDE DEF StoreView, m, u
      <4>5. x[u] = Opened(m.version, m.after)
        BY <4>2, <4>3 DEF Views
      <4>6. x[u].version \in Nat /\ StoreView[u].version \in Nat
        BY <4>2, <4>3 DEF Views
      <4> QED
        BY <4>4, <4>5, <4>6 DEF Opened
    <3> HIDE DEF m, u
    <3> QED
      BY <2>2, <3>1
  <2>u. u \in Uris
    BY <2>2 DEF SyncInv
  <2> HIDE DEF m, u
  <2>4. docs' = [docs EXCEPT ![u] = Entry(m.version, m.after)]
    BY <2>1, <2>2, <2>3 DEF DidChange
  <2>5. /\ DOMAIN docs' = DOMAIN docs /\ DOMAIN docs' = DOMAIN docs \cup {u}
        /\ docs'[u] = [version |-> m.version, text |-> m.after, index |-> NoIndex]
        /\ \A v \in DOMAIN docs : v # u => docs'[v] = docs[v]
    BY <2>2, <2>4 DEF Entry
  <2>6. StoreView' = [StoreView EXCEPT ![u] = Opened(m.version, m.after)]
    BY <2>u, <2>5, StoreViewWith
  <2>7. SyncInv'
    BY <2>1, <2>2, <2>5, <2>6, SyncTake DEF SyncInv
  <2>8. /\ DOMAIN shadow' = DOMAIN shadow /\ shadow'[u] = m.after
        /\ \A v \in DOMAIN shadow : v # u => shadow'[v] = shadow[v]
    BY <2>1, <2>2 DEF ShadowInv
  <2>9. docs'[u].text = m.after
    BY <2>5
  <2>10. ShadowInv'
    BY <2>5, <2>8, <2>9 DEF ShadowInv
  <2> QED
    BY <2>7, <2>10
<1>5. CASE HandleClose
  <2> DEFINE m == Head(sent)
             u == m.uri
  <2>1. /\ sent # <<>> /\ m.kind = "didClose" /\ sent' = Tail(sent)
        /\ docs' = Without(docs, u) /\ shadow' = Without(shadow, u)
        /\ UNCHANGED <<encoding, buffer>>
    BY <1>5 DEF HandleClose, Takes, DidClose, editorVars
  <2>2. PICK x \in Views : /\ Follows(encoding, StoreView, m, x)
                           /\ Chain(encoding, x, Tail(sent), BufferView)
    BY <2>1, FirstMessage
  <2>3. u \in Uris /\ x = [StoreView EXCEPT ![u] = Closed]
    BY <2>1, <2>2 DEF Follows
  <2> HIDE DEF m, u
  <2>4. /\ DOMAIN docs' = DOMAIN docs \ {u}
        /\ \A v \in DOMAIN docs : v # u => docs'[v] = docs[v]
        /\ DOMAIN shadow' = DOMAIN shadow \ {u}
        /\ \A v \in DOMAIN shadow : v # u => shadow'[v] = shadow[v]
    BY <2>1 DEF Without
  <2>5. StoreView' = x
    <3>1. /\ StoreView = [v \in Uris |-> StoreView[v]]
          /\ StoreView' = [v \in Uris |-> StoreView'[v]]
      BY DEF StoreView
    <3>2. \A v \in Uris : StoreView'[v] = IF v = u THEN Closed ELSE StoreView[v]
      BY <2>4 DEF StoreView
    <3> HIDE DEF StoreView
    <3> QED
      BY <2>3, <3>1, <3>2
  <2>6. SyncInv'
    BY <2>1, <2>2, <2>4, <2>5, SyncTake DEF SyncInv
  <2>7. ShadowInv'
    BY <2>4 DEF ShadowInv
  <2> QED
    BY <2>6, <2>7
<1>6. ASSUME NEW m \in stale, Replay(m) PROVE SyncInv' /\ ShadowInv'
  <2>1. UNCHANGED <<encoding, docs, buffer, sent, shadow>>
    BY <1>6 DEF Replay, DidChange, editorVars
  <2>2. StoreView' = StoreView
    BY <2>1 DEF StoreView
  <2> QED
    BY <2>1, <2>2, SyncFrame DEF ShadowInv
<1>7. CASE Done \/ UNCHANGED vars
  <2>1. UNCHANGED <<encoding, docs, buffer, sent, shadow>>
    BY <1>7 DEF Done, vars, storeVars, editorVars
  <2>2. StoreView' = StoreView
    BY <2>1 DEF StoreView
  <2> QED
    BY <2>1, <2>2, SyncFrame DEF ShadowInv
<1> QED
  BY <1>1, <1>2, <1>3, <1>4, <1>5, <1>6, <1>7 DEF Next

\* The change that the store handles next does not panic.
LEMMA SyncNoPanic == ASSUME SyncInv PROVE NoPanicAhead
<1> SUFFICES ASSUME NEW u \in DOMAIN docs, sent # <<>>, Head(sent).kind = "didChange",
                    Head(sent).uri = u
             PROVE  ~ApplyBatch(docs[u].text, Head(sent).changes).panics
  BY DEF NoPanicAhead
<1>1. ApplyBatch(docs[u].text, Head(sent).changes) = [text |-> Head(sent).after, panics |-> FALSE]
  BY FirstChange
<1> QED
  BY <1>1

\* At first there are no documents, and nothing is on the way.
LEMMA SyncInit == ASSUME Init PROVE SyncInv /\ ShadowInv /\ CacheInv
<1>1. /\ encoding \in Encodings /\ docs = <<>> /\ buffer = <<>> /\ sent = <<>>
      /\ DOMAIN docs = {} /\ DOMAIN buffer = {} /\ shadow = <<>> /\ DOMAIN shadow = {}
  BY DEF Init
<1>2. StoreView = [u \in Uris |-> Closed] /\ BufferView = StoreView
  BY <1>1 DEF StoreView, BufferView
<1>3. StoreView \in Views
  BY <1>2 DEF Views, Closed
<1>4. Chain(encoding, StoreView, <<>>, BufferView)
  BY <1>2, <1>3, ChainEmpty
<1>5. IsSequence(sent)
  BY <1>1 DEF IsSequence
<1> HIDE DEF StoreView, BufferView
<1> QED
  BY <1>1, <1>4, <1>5 DEF SyncInv, ShadowInv, CacheInv, EntriesWhole, IndexMatchesText

\* A store that has nothing to follow has the editor's documents and versions.
LEMMA SyncMatches == ASSUME SyncInv, ShadowInv PROVE StoreMatchesBuffer
<1>1. ASSUME sent = <<>>
      PROVE  /\ DOMAIN docs = DOMAIN buffer
             /\ \A u \in DOMAIN docs : docs[u].version = buffer[u].version
  <2>1. StoreView = BufferView
    BY <1>1, ChainEmpty DEF SyncInv
  <2>2. DOMAIN docs \subseteq Uris /\ DOMAIN buffer \subseteq Uris
    BY DEF SyncInv
  <2>3. ASSUME NEW u \in Uris
        PROVE  /\ u \in DOMAIN docs <=> u \in DOMAIN buffer
               /\ u \in DOMAIN docs => docs[u].version = buffer[u].version
    <3>1. StoreView[u] = BufferView[u]
      BY <2>1
    <3>2. (StoreView[u].open <=> u \in DOMAIN docs) /\ (BufferView[u].open <=> u \in DOMAIN buffer)
      BY DEF StoreView, BufferView, Opened, Closed
    <3>3. /\ u \in DOMAIN docs => StoreView[u].version = docs[u].version
          /\ u \in DOMAIN buffer => BufferView[u].version = buffer[u].version
      BY DEF StoreView, BufferView, Opened
    <3> QED
      BY <3>1, <3>2, <3>3
  <2> QED
    BY <2>2, <2>3
<1> QED
  BY <1>1 DEF StoreMatchesBuffer, ShadowInv

\* The store and its caches, as long as no range is inverted.
LEMMA SyncInvariant ==
    ASSUME InvertedRanges = FALSE
    PROVE  Spec => [](SyncInv /\ ShadowInv /\ CacheInv)
<1>1. Init => SyncInv /\ ShadowInv /\ CacheInv
  BY SyncInit
<1>2. SyncInv /\ ShadowInv /\ CacheInv /\ [Next]_vars => (SyncInv /\ ShadowInv /\ CacheInv)'
  BY SyncStep, SyncNoPanic, CacheStep
<1> QED
  BY <1>1, <1>2, PTL DEF Spec

\* An editor that sends no inverted range finds in the store the texts it had
\* after the last notification handled, and its documents and versions once all
\* were: whatever the texts, the batches, the encoding and the stale changes
\* that are delivered again (did_open, did_change and did_close of
\* src/src/documents.rs).
THEOREM StoreFollowsEditor ==
    ASSUME InvertedRanges = FALSE
    PROVE  Spec => []StoreMatchesBuffer
<1>1. SyncInv /\ ShadowInv /\ CacheInv => StoreMatchesBuffer
  BY SyncMatches
<1> QED
  BY <1>1, SyncInvariant, PTL

\* Without inverted ranges no batch panics, so no cached index goes out of date
\* at all.
THEOREM CacheStaysTrue ==
    ASSUME InvertedRanges = FALSE
    PROVE  Spec => [](NoPanicAhead /\ IndexMatchesText)
<1>1. SyncInv /\ ShadowInv /\ CacheInv => NoPanicAhead /\ IndexMatchesText
  BY SyncNoPanic DEF CacheInv
<1> QED
  BY <1>1, SyncInvariant, PTL
=============================================================================
