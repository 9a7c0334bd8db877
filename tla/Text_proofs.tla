------------------------------ MODULE Text_proofs ------------------------------
(***************************************************************************)
(* Proofs about the conversions between positions and offsets, for texts   *)
(* of every length in every encoding: sizes, cuts, columns and lines, and  *)
(* from them that the conversions are inverse, keep the order of positions *)
(* and agree with the cached index; about apply_edits, for any number of   *)
(* edits: that it makes of a text what they make all at once; and about    *)
(* semantic tokens: that the cells of the ranges that were pushed are read *)
(* back from the numbers that are built.                                   *)
(*                                                                         *)
(* What the recursive functions of TextIndex compute is proved by          *)
(* induction on a set of naturals, which needs no operator parameter: a    *)
(* nonempty set of naturals has a least element.                           *)
(***************************************************************************)
EXTENDS TextInputs, TokenInputs, WellFoundedInduction, FiniteSetTheorems, SequenceTheorems, TLAPS

-----------------------------------------------------------------------------
(* Induction and recursion over the naturals, on sets and functions *)

\* A set of naturals that is not empty has a least element.
LEMMA LeastNatural ==
    ASSUME NEW T \in SUBSET Nat, T # {}
    PROVE  \E x \in T : \A y \in T : x <= y
<1> DEFINE R == OpToRel(<, Nat)
<1>1. IsWellFoundedOn(R, Nat)
  BY NatLessThanWellFounded
<1>2. \A x, y \in Nat : y < x => <<y, x>> \in R
  BY DEF OpToRel
<1> HIDE DEF R
<1>3. PICK x \in T : \A y \in T : ~(<<y, x>> \in R)
  BY <1>1, WFMin
<1>4. ASSUME NEW y \in T PROVE x <= y
  <2>1. x \in Nat /\ y \in Nat
    BY <1>3
  <2>2. ~(y < x)
    BY <1>2, <1>3, <2>1
  <2> QED
    BY <2>1, <2>2
<1> QED
  BY <1>4

\* Induction, for a set: what has 0 and the successors of its elements has
\* every natural.
LEMMA Induction ==
    ASSUME NEW S, 0 \in S, \A n \in Nat : n \in S => n + 1 \in S
    PROVE  \A n \in Nat : n \in S
<1> DEFINE T == {n \in Nat : n \notin S}
<1> SUFFICES ASSUME T # {} PROVE FALSE
  OBVIOUS
<1>1. PICK x \in T : \A y \in T : x <= y
  BY LeastNatural
<1>2. x # 0 /\ x - 1 \in Nat /\ ~(x <= x - 1)
  BY <1>1
<1>3. x - 1 \in S
  BY <1>1, <1>2
<1> QED
  BY <1>3, <1>2, <1>1

\* A function on 0..n that begins with v and goes on with a step.
Recurs(g, n, v, step) == g[0] = v /\ \A i \in 1..n : g[i] = step[<<g[i - 1], i>>]

\* There is one, for every first value and every step that is a function.
LEMMA Recursion ==
    ASSUME NEW V, NEW v \in V, NEW step \in [V \X Nat -> V], NEW N \in Nat
    PROVE  \E g \in [0..N -> V] : Recurs(g, N, v, step)
<1> DEFINE Is(g, n) == Recurs(g, n, v, step)
           S == {n \in Nat : \E g \in [0..n -> V] : Is(g, n)}
<1>1. 0 \in S
  <2>1. [i \in 0..0 |-> v] \in [0..0 -> V] /\ Is([i \in 0..0 |-> v], 0)
    BY DEF Recurs
  <2> QED
    BY <2>1
<1>2. ASSUME NEW n \in Nat, n \in S PROVE n + 1 \in S
  <2>1. PICK g \in [0..n -> V] : Is(g, n)
    BY <1>2
  <2> DEFINE last == step[<<g[n], n + 1>>]
             h == [i \in 0..(n + 1) |-> IF i <= n THEN g[i] ELSE last]
  <2>2. last \in V
    BY <2>1
  <2> HIDE DEF last
  <2>3. h \in [0..(n + 1) -> V]
    BY <2>1, <2>2
  <2>4. h[0] = v
    BY <2>1 DEF Recurs
  <2>5. ASSUME NEW i \in 1..(n + 1) PROVE h[i] = step[<<h[i - 1], i>>]
    <3>1. CASE i <= n
      BY <2>1, <3>1 DEF Recurs
    <3>2. CASE ~(i <= n)
      <4>1. i = n + 1 /\ h[i - 1] = g[n] /\ h[i] = last
        BY <3>2
      <4> QED
        BY <4>1 DEF last
    <3> QED
      BY <3>1, <3>2
  <2> HIDE DEF h
  <2>6. Is(h, n + 1)
    BY <2>4, <2>5 DEF Recurs
  <2> QED
    BY <2>3, <2>6
<1> HIDE DEF S
<1>3. \A n \in Nat : n \in S
  BY <1>1, <1>2, Induction
<1> QED
  BY <1>3 DEF S

-----------------------------------------------------------------------------
(* The size of a text *)

\* A character takes one code unit at least in each encoding.
LEMMA UnitsType ==
    ASSUME NEW c \in Char, NEW enc \in Encodings
    PROVE  Units[c][enc] \in Nat /\ Units[c][enc] >= 1
  BY DEF Char, Units, Encodings

\* The size is what the recursion over the characters adds up to.
LEMMA SizeSums ==
    ASSUME NEW s \in Seq(Char), NEW enc \in Encodings
    PROVE  \E f \in [0..Len(s) -> Nat] :
              /\ f[0] = 0 /\ Size(s, enc) = f[Len(s)]
              /\ \A k \in 1..Len(s) : f[k] = f[k - 1] + Units[s[k]][enc]
<1> DEFINE step == [x \in Nat \X Nat |->
                       IF x[2] \in 1..Len(s) THEN x[1] + Units[s[x[2]]][enc] ELSE 0]
<1>0. Len(s) \in Nat /\ \A k \in 1..Len(s) : s[k] \in Char
  OBVIOUS
<1>1. step \in [Nat \X Nat -> Nat]
  BY <1>0, UnitsType
<1> HIDE DEF step
<1>2. PICK g \in [0..Len(s) -> Nat] : Recurs(g, Len(s), 0, step)
  BY <1>0, <1>1, Recursion
<1> USE DEF step
<1>3. ASSUME NEW i \in 1..Len(s) PROVE g[i] = g[i - 1] + Units[s[i]][enc]
  <2>1. g[i - 1] \in Nat /\ i \in Nat
    BY <1>0
  <2> QED
    BY <1>2, <2>1 DEF Recurs
<1> DEFINE upTo[k \in 0..Len(s)] == IF k = 0 THEN 0 ELSE upTo[k - 1] + Units[s[k]][enc]
<1> HIDE DEF step
<1>4. g = [k \in 0..Len(s) |-> IF k = 0 THEN 0 ELSE g[k - 1] + Units[s[k]][enc]]
  BY <1>0, <1>2, <1>3 DEF Recurs
<1>5. upTo = [k \in 0..Len(s) |-> IF k = 0 THEN 0 ELSE upTo[k - 1] + Units[s[k]][enc]]
  BY <1>4
<1>6. Size(s, enc) = upTo[Len(s)]
  BY DEF Size
<1> HIDE DEF upTo
<1> DEFINE S == {k \in Nat : k <= Len(s) => upTo[k] = g[k]}
<1>7. 0 \in S
  BY <1>0, <1>2, <1>5 DEF Recurs
<1>8. ASSUME NEW n \in Nat, n \in S PROVE n + 1 \in S
  BY <1>0, <1>3, <1>5, <1>8
<1> HIDE DEF S
<1>9. \A n \in Nat : n \in S
  BY <1>7, <1>8, Induction
<1>10. upTo[Len(s)] = g[Len(s)]
  BY <1>0, <1>9 DEF S
<1> QED
  BY <1>2, <1>3, <1>6, <1>10 DEF Recurs

\* The size is a natural number, and 0 for the empty text.
LEMMA SizeType ==
    ASSUME NEW s \in Seq(Char), NEW enc \in Encodings
    PROVE  Size(s, enc) \in Nat /\ (s = <<>> => Size(s, enc) = 0)
<1>1. PICK f \in [0..Len(s) -> Nat] : f[0] = 0 /\ Size(s, enc) = f[Len(s)]
  BY SizeSums
<1>2. Len(s) \in Nat /\ (s = <<>> => Len(s) = 0)
  OBVIOUS
<1> QED
  BY <1>1, <1>2

\* What a prefix is.
LEMMA PrefixIs ==
    ASSUME NEW s \in Seq(Char), NEW k \in 0..Len(s)
    PROVE  /\ Prefix(s, k) \in Seq(Char) /\ Len(Prefix(s, k)) = k
           /\ \A j \in 1..k : Prefix(s, k)[j] = s[j]
           /\ k = 0 => Prefix(s, k) = <<>>
           /\ k = Len(s) => Prefix(s, k) = s
<1>1. Len(s) \in Nat
  OBVIOUS
<1> QED
  BY <1>1 DEF Prefix

\* One more character adds its code units.
LEMMA SizeStep ==
    ASSUME NEW s \in Seq(Char), NEW enc \in Encodings, NEW k \in 1..Len(s)
    PROVE  Size(Prefix(s, k), enc) = Size(Prefix(s, k - 1), enc) + Units[s[k]][enc]
<1> DEFINE a == Prefix(s, k - 1) b == Prefix(s, k)
<1>0. Len(s) \in Nat /\ k \in 0..Len(s) /\ k - 1 \in 0..Len(s) /\ k \in Nat
  OBVIOUS
<1>1. /\ a \in Seq(Char) /\ Len(a) = k - 1 /\ \A j \in 1..(k - 1) : a[j] = s[j]
      /\ b \in Seq(Char) /\ Len(b) = k /\ \A j \in 1..k : b[j] = s[j]
  BY <1>0, PrefixIs
<1> HIDE DEF a, b
<1>2. PICK f \in [0..Len(a) -> Nat] : /\ f[0] = 0 /\ Size(a, enc) = f[Len(a)]
                                      /\ \A j \in 1..Len(a) : f[j] = f[j - 1] + Units[a[j]][enc]
  BY <1>1, SizeSums
<1>3. PICK g \in [0..Len(b) -> Nat] : /\ g[0] = 0 /\ Size(b, enc) = g[Len(b)]
                                      /\ \A j \in 1..Len(b) : g[j] = g[j - 1] + Units[b[j]][enc]
  BY <1>1, SizeSums
<1> DEFINE S == {j \in Nat : j <= k - 1 => f[j] = g[j]}
<1>4. 0 \in S
  BY <1>2, <1>3
<1>5. ASSUME NEW n \in Nat, n \in S PROVE n + 1 \in S
  <2> SUFFICES ASSUME n + 1 <= k - 1 PROVE f[n + 1] = g[n + 1]
    OBVIOUS
  <2>1. n + 1 \in 1..(k - 1) /\ n + 1 \in 1..k /\ (n + 1) - 1 = n /\ f[n] = g[n]
    BY <1>0, <1>5
  <2>2. f[n + 1] = f[n] + Units[s[n + 1]][enc]
    BY <2>1, <1>1, <1>2
  <2>3. g[n + 1] = g[n] + Units[s[n + 1]][enc]
    BY <2>1, <1>1, <1>3
  <2> QED
    BY <2>1, <2>2, <2>3
<1> HIDE DEF S
<1>6. \A n \in Nat : n \in S
  BY <1>4, <1>5, Induction
<1>7. f[k - 1] = g[k - 1]
  BY <1>0, <1>6 DEF S
<1>8. g[k] = g[k - 1] + Units[s[k]][enc]
  <2>1. k \in 1..k /\ k \in 1..Len(b)
    BY <1>0, <1>1
  <2>2. b[k] = s[k]
    BY <1>1, <2>1
  <2> QED
    BY <1>3, <2>1, <2>2
<1> QED
  BY <1>1, <1>2, <1>3, <1>7, <1>8 DEF a, b

\* A part of a text.
LEMMA PartIs ==
    ASSUME NEW s \in Seq(Char), NEW i \in 0..Len(s), NEW k \in i..Len(s)
    PROVE  /\ SubSeq(s, i + 1, k) \in Seq(Char) /\ Len(SubSeq(s, i + 1, k)) = k - i
           /\ \A j \in 1..(k - i) : SubSeq(s, i + 1, k)[j] = s[i + j]
           /\ \A m \in 0..(k - i) : Prefix(SubSeq(s, i + 1, k), m) = SubSeq(s, i + 1, i + m)
<1> DEFINE t == SubSeq(s, i + 1, k)
<1>1. Len(s) \in Nat /\ i \in Nat /\ k \in Nat
  OBVIOUS
<1>2. /\ t \in Seq(Char) /\ Len(t) = k - i
      /\ \A j \in 1..(k - i) : t[j] = s[i + j]
  BY <1>1
<1> HIDE DEF t
<1>3. ASSUME NEW m \in 0..(k - i) PROVE Prefix(t, m) = SubSeq(s, i + 1, i + m)
  <2>1. Prefix(t, m) \in Seq(Char) /\ Len(Prefix(t, m)) = m /\ \A j \in 1..m : Prefix(t, m)[j] = t[j]
    BY <1>2, PrefixIs
  <2>2. \A j \in 1..m : Prefix(t, m)[j] = s[i + j]
    <3>1. \A j \in 1..m : j \in 1..(k - i)
      BY <1>1
    <3> QED
      BY <2>1, <1>2, <3>1
  <2>3. SubSeq(s, i + 1, i + m) \in Seq(Char) /\ Len(SubSeq(s, i + 1, i + m)) = m
    BY <1>1
  <2>4. \A j \in 1..m : SubSeq(s, i + 1, i + m)[j] = s[i + j]
    BY <1>1, SMTT(30)
  <2> QED
    BY <2>1, <2>2, <2>3, <2>4, SeqEqual
<1> QED
  BY <1>2, <1>3 DEF t

\* The size of a part is the difference of the sizes up to its ends.
LEMMA SizeBetween ==
    ASSUME NEW s \in Seq(Char), NEW enc \in Encodings,
           NEW i \in 0..Len(s), NEW k \in i..Len(s)
    PROVE  Size(Prefix(s, k), enc) = Size(Prefix(s, i), enc) + Size(SubSeq(s, i + 1, k), enc)
<1> DEFINE t == SubSeq(s, i + 1, Len(s))
<1>0. Len(s) \in Nat /\ i \in Nat /\ k \in Nat /\ Len(s) \in i..Len(s) /\ k - i \in 0..(Len(s) - i)
  OBVIOUS
<1>1. /\ t \in Seq(Char) /\ Len(t) = Len(s) - i
      /\ \A j \in 1..(Len(s) - i) : t[j] = s[i + j]
      /\ \A m \in 0..(Len(s) - i) : Prefix(t, m) = SubSeq(s, i + 1, i + m)
  BY <1>0, PartIs
<1> HIDE DEF t
<1> DEFINE S == {m \in Nat : m <= Len(s) - i =>
                   Size(Prefix(s, i + m), enc) = Size(Prefix(s, i), enc) + Size(Prefix(t, m), enc)}
<1>2. 0 \in S
  <2>1. Prefix(t, 0) = <<>> /\ Prefix(t, 0) \in Seq(Char) /\ Prefix(s, i) \in Seq(Char) /\ i + 0 = i
    BY <1>0, <1>1, PrefixIs
  <2>2. Size(Prefix(t, 0), enc) = 0 /\ Size(Prefix(s, i), enc) \in Nat
    BY <2>1, SizeType
  <2> QED
    BY <2>1, <2>2
<1>3. ASSUME NEW n \in Nat, n \in S PROVE n + 1 \in S
  <2> SUFFICES ASSUME n + 1 <= Len(s) - i
               PROVE  Size(Prefix(s, i + (n + 1)), enc)
                         = Size(Prefix(s, i), enc) + Size(Prefix(t, n + 1), enc)
    OBVIOUS
  <2>1. Size(Prefix(s, i + n), enc) = Size(Prefix(s, i), enc) + Size(Prefix(t, n), enc)
    BY <1>0, <1>3
  <2>2. n + 1 \in 1..Len(t) /\ i + (n + 1) \in 1..Len(s) /\ t[n + 1] = s[i + (n + 1)]
        /\ (n + 1) - 1 = n /\ (i + (n + 1)) - 1 = i + n
    BY <1>0, <1>1
  <2>3. Size(Prefix(t, n + 1), enc) = Size(Prefix(t, n), enc) + Units[t[n + 1]][enc]
    BY <2>2, <1>1, SizeStep
  <2>4. Size(Prefix(s, i + (n + 1)), enc) = Size(Prefix(s, i + n), enc) + Units[s[i + (n + 1)]][enc]
    BY <2>2, SizeStep
  <2>5. Prefix(t, n) \in Seq(Char) /\ Prefix(s, i) \in Seq(Char) /\ s[i + (n + 1)] \in Char
    BY <2>2, <1>0, <1>1, PrefixIs
  <2>6. Size(Prefix(t, n), enc) \in Nat /\ Size(Prefix(s, i), enc) \in Nat
        /\ Units[s[i + (n + 1)]][enc] \in Nat
    BY <2>5, SizeType, UnitsType
  <2>7. Size(Prefix(t, n + 1), enc) = Size(Prefix(t, n), enc) + Units[s[i + (n + 1)]][enc]
    BY <2>2, <2>3
  <2> QED
    BY ONLY <2>1, <2>4, <2>6, <2>7
<1> HIDE DEF S
<1>4. \A n \in Nat : n \in S
  BY <1>2, <1>3, Induction
<1>5. Size(Prefix(s, i + (k - i)), enc) = Size(Prefix(s, i), enc) + Size(Prefix(t, k - i), enc)
  BY <1>0, <1>4 DEF S
<1>6. i + (k - i) = k
  BY <1>0
<1>7. Prefix(t, k - i) = SubSeq(s, i + 1, k)
  BY <1>0, <1>1, <1>6
<1> QED
  BY <1>5, <1>6, <1>7

\* A text that is not empty has a positive size.
LEMMA SizePositive ==
    ASSUME NEW s \in Seq(Char), NEW enc \in Encodings, s # <<>>
    PROVE  Size(s, enc) \in Nat /\ Size(s, enc) >= 1
<1>1. Len(s) \in 1..Len(s) /\ Len(s) \in 0..Len(s) /\ Len(s) - 1 \in 0..Len(s) /\ s[Len(s)] \in Char
  OBVIOUS
<1>2. Size(Prefix(s, Len(s)), enc) = Size(Prefix(s, Len(s) - 1), enc) + Units[s[Len(s)]][enc]
  BY <1>1, SizeStep
<1>3. Prefix(s, Len(s)) = s /\ Prefix(s, Len(s) - 1) \in Seq(Char)
  BY <1>1, PrefixIs
<1>4. Size(Prefix(s, Len(s) - 1), enc) \in Nat /\ Units[s[Len(s)]][enc] \in Nat
      /\ Units[s[Len(s)]][enc] >= 1
  BY <1>1, <1>3, SizeType, UnitsType
<1> QED
  BY <1>2, <1>3, <1>4

\* Sizes grow strictly with the place they are taken up to.
LEMMA SizeGrows ==
    ASSUME NEW s \in Seq(Char), NEW enc \in Encodings,
           NEW i \in 0..Len(s), NEW k \in 0..Len(s)
    PROVE  /\ Size(Prefix(s, i), enc) \in Nat
           /\ i < k <=> Size(Prefix(s, i), enc) < Size(Prefix(s, k), enc)
           /\ i <= k <=> Size(Prefix(s, i), enc) <= Size(Prefix(s, k), enc)
           /\ i = k <=> Size(Prefix(s, i), enc) = Size(Prefix(s, k), enc)
<1>0. Len(s) \in Nat /\ i \in Nat /\ k \in Nat
  OBVIOUS
<1>1. Size(Prefix(s, i), enc) \in Nat /\ Size(Prefix(s, k), enc) \in Nat
  BY PrefixIs, SizeType
<1>2. ASSUME NEW a \in 0..Len(s), NEW b \in 0..Len(s), a < b
      PROVE  Size(Prefix(s, a), enc) < Size(Prefix(s, b), enc)
  <2>1. b \in a..Len(s) /\ Size(Prefix(s, a), enc) \in Nat
    BY <1>0, <1>2, PrefixIs, SizeType
  <2>2. SubSeq(s, a + 1, b) \in Seq(Char) /\ Len(SubSeq(s, a + 1, b)) = b - a
    BY <2>1, PartIs
  <2>3. SubSeq(s, a + 1, b) # <<>>
    BY <2>2, <1>0, <1>2
  <2>4. Size(SubSeq(s, a + 1, b), enc) \in Nat /\ Size(SubSeq(s, a + 1, b), enc) >= 1
    BY <2>2, <2>3, SizePositive
  <2>5. Size(Prefix(s, b), enc) = Size(Prefix(s, a), enc) + Size(SubSeq(s, a + 1, b), enc)
    BY <2>1, SizeBetween
  <2> QED
    BY <2>1, <2>4, <2>5
<1>3. i < k \/ i = k \/ k < i
  BY <1>0
<1>4. CASE i < k
  BY <1>0, <1>1, <1>2, <1>4
<1>5. CASE i = k
  BY <1>0, <1>1, <1>5
<1>6. CASE k < i
  BY <1>0, <1>1, <1>2, <1>6
<1> QED
  BY <1>3, <1>4, <1>5, <1>6

-----------------------------------------------------------------------------
(* Cutting a text *)

\* A set of places that is not empty has a first and a last one.
LEMMA FirstAndLast ==
    ASSUME NEW n \in Nat, NEW T \in SUBSET (0..n), T # {}
    PROVE  /\ \E x \in T : \A y \in T : x <= y
           /\ \E x \in T : \A y \in T : y <= x
<1>1. \E x \in T : \A y \in T : x <= y
  <2>1. T \in SUBSET Nat
    OBVIOUS
  <2> QED
    BY <2>1, LeastNatural
<1>2. \E x \in T : \A y \in T : y <= x
  <2> DEFINE M == {m \in 0..n : n - m \in T}
  <2>1. M \in SUBSET Nat
    OBVIOUS
  <2>2. M # {}
    <3>1. PICK x \in T : TRUE
      OBVIOUS
    <3>2. n - x \in 0..n /\ n - (n - x) = x
      BY <3>1
    <3> QED
      BY <3>1, <3>2
  <2>3. PICK m \in M : \A y \in M : m <= y
    BY <2>1, <2>2, LeastNatural
  <2>4. ASSUME NEW y \in T PROVE y <= n - m
    <3>1. y \in 0..n /\ n - y \in 0..n /\ n - (n - y) = y
      OBVIOUS
    <3>2. m <= n - y
      BY <2>3, <3>1
    <3> QED
      BY <2>3, <3>1, <3>2
  <2>5. n - m \in T
    BY <2>3
  <2> QED
    BY <2>4, <2>5
<1> QED
  BY <1>1, <1>2

\* CharsBefore undoes the offset of a place.
LEMMA CharsBeforePlace ==
    ASSUME NEW s \in Seq(Char), NEW k \in 0..Len(s)
    PROVE  CharsBefore(s, Bytes(Prefix(s, k))) = k
<1>1. \A j \in 0..Len(s) : Bytes(Prefix(s, j)) = Bytes(Prefix(s, k)) => j = k
  BY SizeGrows DEF Bytes, Encodings
<1> HIDE DEF Bytes
<1> QED
  BY <1>1 DEF CharsBefore

\* A slice between two places is the part of the text between them.
LEMMA SliceBetween ==
    ASSUME NEW s \in Seq(Char), NEW i \in 0..Len(s), NEW k \in 0..Len(s)
    PROVE  Slice(s, Bytes(Prefix(s, i)), Bytes(Prefix(s, k))) = SubSeq(s, i + 1, k)
  BY CharsBeforePlace DEF Slice

\* The offset of the first and of the last place.
LEMMA EndPlaces ==
    ASSUME NEW s \in Seq(Char)
    PROVE  /\ 0 \in 0..Len(s) /\ Len(s) \in 0..Len(s)
           /\ Bytes(Prefix(s, 0)) = 0 /\ Bytes(Prefix(s, Len(s))) = Bytes(s)
           /\ Bytes(s) \in Nat
<1>1. 0 \in 0..Len(s) /\ Len(s) \in 0..Len(s)
  OBVIOUS
<1>2. Prefix(s, 0) = <<>> /\ Prefix(s, 0) \in Seq(Char) /\ Prefix(s, Len(s)) = s
  BY <1>1, PrefixIs
<1>3. Size(Prefix(s, 0), "utf8") = 0 /\ Size(s, "utf8") \in Nat
  BY <1>2, SizeType DEF Encodings
<1> QED
  BY <1>1, <1>2, <1>3 DEF Bytes

\* Offsets are in the order of their places.
LEMMA OffsetsOrdered ==
    ASSUME NEW s \in Seq(Char), NEW i \in 0..Len(s), NEW k \in 0..Len(s)
    PROVE  /\ Bytes(Prefix(s, i)) \in Nat
           /\ i < k <=> Bytes(Prefix(s, i)) < Bytes(Prefix(s, k))
           /\ i <= k <=> Bytes(Prefix(s, i)) <= Bytes(Prefix(s, k))
           /\ i = k <=> Bytes(Prefix(s, i)) = Bytes(Prefix(s, k))
  BY SizeGrows DEF Bytes, Encodings

\* The last place at or before an offset.
IsFloor(s, k, offset) ==
    /\ k \in 0..Len(s) /\ Bytes(Prefix(s, k)) <= offset
    /\ \A j \in 0..Len(s) : Bytes(Prefix(s, j)) <= offset => j <= k

\* FloorCharBoundary finds the last place at or before the offset.
LEMMA FloorIs ==
    ASSUME NEW s \in Seq(Char), NEW offset \in Nat
    PROVE  \E k \in 0..Len(s) : /\ IsFloor(s, k, offset)
                                /\ FloorCharBoundary(s, offset) = Bytes(Prefix(s, k))
<1> DEFINE T == {k \in 0..Len(s) : Bytes(Prefix(s, k)) <= offset}
           B == {b \in Boundaries(s) : b <= offset}
<1>1. Len(s) \in Nat /\ T \in SUBSET (0..Len(s)) /\ T # {}
  BY EndPlaces
<1>2. PICK k \in T : \A j \in T : j <= k
  BY <1>1, FirstAndLast
<1>4. Bytes(Prefix(s, k)) \in B
  BY <1>2 DEF Boundaries
<1>5. ASSUME NEW b \in B PROVE b \in Nat /\ b <= Bytes(Prefix(s, k))
  <2>1. PICK j \in 0..Len(s) : b = Bytes(Prefix(s, j))
    BY DEF Boundaries
  <2>2. j <= k /\ k \in 0..Len(s)
    BY <1>2, <2>1
  <2> QED
    BY <2>1, <2>2, OffsetsOrdered
<1>6. \A b \in B : (\A c \in B : b >= c) => b = Bytes(Prefix(s, k))
  BY <1>4, <1>5
<1>7. Max(B) = Bytes(Prefix(s, k))
  <2> HIDE DEF B
  <2>1. Bytes(Prefix(s, k)) \in B /\ \A c \in B : Bytes(Prefix(s, k)) >= c
    BY <1>4, <1>5
  <2> QED
    BY <2>1, <1>6 DEF Max
<1>8. IsFloor(s, k, offset)
  BY <1>2 DEF IsFloor
<1> QED
  BY <1>2, <1>7, <1>8 DEF FloorCharBoundary

\* Only one place is the last one at or before an offset.
LEMMA FloorUnique ==
    ASSUME NEW s \in Seq(Char), NEW offset \in Nat,
           NEW k \in 0..Len(s), IsFloor(s, k, offset)
    PROVE  FloorCharBoundary(s, offset) = Bytes(Prefix(s, k))
<1>1. PICK j \in 0..Len(s) : IsFloor(s, j, offset) /\ FloorCharBoundary(s, offset) = Bytes(Prefix(s, j))
  BY FloorIs
<1>2. j = k
  BY <1>1 DEF IsFloor
<1> QED
  BY <1>1, <1>2

\* A place is its own floor, and the end of the text that of what lies past it.
LEMMA FloorAtPlace ==
    ASSUME NEW s \in Seq(Char), NEW k \in 0..Len(s)
    PROVE  FloorCharBoundary(s, Bytes(Prefix(s, k))) = Bytes(Prefix(s, k))
<1>1. Bytes(Prefix(s, k)) \in Nat /\ Bytes(Prefix(s, k)) <= Bytes(Prefix(s, k))
  BY OffsetsOrdered
<1>2. \A j \in 0..Len(s) : Bytes(Prefix(s, j)) <= Bytes(Prefix(s, k)) => j <= k
  BY OffsetsOrdered
<1>3. IsFloor(s, k, Bytes(Prefix(s, k)))
  BY <1>1, <1>2 DEF IsFloor
<1> QED
  BY <1>1, <1>3, FloorUnique

-----------------------------------------------------------------------------
(* Columns *)

\* The place in a line that a column stands for: the last one at or before it
\* in UTF-8, and in the others the first one at or after it, or the line's end.
IsColumn(line, m, column, enc) ==
    /\ m \in 0..Len(line)
    /\ IF enc = "utf8"
       THEN IsFloor(line, m, column)
       ELSE /\ \A j \in 0..Len(line) : Size(Prefix(line, j), enc) >= column => m <= j
            /\ m # Len(line) => Size(Prefix(line, m), enc) >= column

\* ColumnToByte finds that place.
LEMMA ColumnIs ==
    ASSUME NEW line \in Seq(Char), NEW column \in Nat, NEW enc \in Encodings
    PROVE  \E m \in 0..Len(line) : /\ IsColumn(line, m, column, enc)
                                   /\ ColumnToByte(line, column, enc) = Bytes(Prefix(line, m))
<1>1. CASE enc = "utf8"
  <2>1. PICK k \in 0..Len(line) : /\ IsFloor(line, k, column)
                                 /\ FloorCharBoundary(line, column) = Bytes(Prefix(line, k))
    BY FloorIs
  <2> QED
    BY <1>1, <2>1 DEF IsColumn, ColumnToByte
<1>2. CASE enc # "utf8"
  <2> DEFINE T == {k \in 0..Len(line) : Size(Prefix(line, k), enc) >= column}
             U == T \cup {Len(line)}
             B == {Bytes(Prefix(line, k)) : k \in T} \cup {Bytes(line)}
  <2>1. Len(line) \in Nat /\ U \in SUBSET (0..Len(line)) /\ U # {}
    OBVIOUS
  <2>2. PICK m \in U : \A j \in U : m <= j
    BY <2>1, FirstAndLast
  <2>4. B = {Bytes(Prefix(line, k)) : k \in U}
    BY EndPlaces
  <2>5. m \in 0..Len(line) /\ \A k \in U : k \in 0..Len(line)
    BY <2>1, <2>2
  <2> HIDE DEF B, U
  <2>3. Bytes(Prefix(line, m)) \in B
    BY <2>2, <2>4
  <2>6. ASSUME NEW b \in B PROVE b \in Nat /\ Bytes(Prefix(line, m)) <= b
    <3>1. PICK j \in U : b = Bytes(Prefix(line, j))
      BY <2>4
    <3>2. m <= j /\ j \in 0..Len(line)
      BY <2>2, <2>5, <3>1
    <3> QED
      BY <2>5, <3>1, <3>2, OffsetsOrdered
  <2>7. Min(B) = Bytes(Prefix(line, m))
    <3>1. \A b \in B : (\A c \in B : b <= c) => b = Bytes(Prefix(line, m))
      BY <2>3, <2>6
    <3> QED
      BY <2>3, <2>6, <3>1 DEF Min
  <2>8. ColumnToByte(line, column, enc) = Min(B)
    BY <1>2 DEF ColumnToByte, B
  <2>9. IsColumn(line, m, column, enc)
    BY <1>2, <2>2, <2>5 DEF IsColumn, U
  <2> QED
    BY <2>5, <2>7, <2>8, <2>9
<1> QED
  BY <1>1, <1>2

\* A column stands for one place, and a later column for no earlier one.
LEMMA ColumnsOrdered ==
    ASSUME NEW line \in Seq(Char), NEW enc \in Encodings,
           NEW c \in Nat, NEW d \in Nat, c <= d,
           NEW m, NEW n, IsColumn(line, m, c, enc), IsColumn(line, n, d, enc)
    PROVE  m <= n
<1>1. Len(line) \in Nat /\ m \in 0..Len(line) /\ n \in 0..Len(line)
  BY DEF IsColumn
<1>2. CASE enc = "utf8"
  <2>1. Bytes(Prefix(line, m)) \in Nat
    BY <1>1, OffsetsOrdered
  <2> QED
    BY <1>1, <1>2, <2>1 DEF IsColumn, IsFloor
<1>3. CASE enc # "utf8"
  <2>1. Size(Prefix(line, n), enc) \in Nat
    BY <1>1, SizeGrows
  <2> QED
    BY <1>1, <1>3, <2>1 DEF IsColumn
<1> QED
  BY <1>2, <1>3

\* The column of a place stands for it, and any column past the line's last
\* for its end.
LEMMA ColumnAtPlace ==
    ASSUME NEW line \in Seq(Char), NEW enc \in Encodings, NEW m \in 0..Len(line),
           NEW column \in Nat,
           \/ column = Size(Prefix(line, m), enc)
           \/ m = Len(line) /\ column >= Size(line, enc)
    PROVE  ColumnToByte(line, column, enc) = Bytes(Prefix(line, m))
<1>1. PICK n \in 0..Len(line) : /\ IsColumn(line, n, column, enc)
                               /\ ColumnToByte(line, column, enc) = Bytes(Prefix(line, n))
  BY ColumnIs
<1>2. IsColumn(line, m, column, enc)
  <2>1. Len(line) \in Nat /\ Prefix(line, Len(line)) = line /\ Len(line) \in 0..Len(line)
    BY PrefixIs, EndPlaces
  <2>2. Size(Prefix(line, m), enc) \in Nat /\ Size(Prefix(line, m), enc) <= column
    BY <2>1, SizeGrows
  <2>3. ASSUME NEW j \in 0..Len(line)
        PROVE  /\ Size(Prefix(line, j), enc) <= column => j <= m
               /\ Size(Prefix(line, j), enc) >= column => m <= j
    <3>1. /\ Size(Prefix(line, j), enc) \in Nat
          /\ j <= m <=> Size(Prefix(line, j), enc) <= Size(Prefix(line, m), enc)
          /\ m <= j <=> Size(Prefix(line, m), enc) <= Size(Prefix(line, j), enc)
      BY SizeGrows
    <3>2. m = Len(line) => j <= m
      BY <2>1
    <3> QED
      BY <2>1, <2>2, <3>1, <3>2
  <2>4. m # Len(line) => Size(Prefix(line, m), enc) >= column
    BY <2>2
  <2> QED
    BY <2>2, <2>3, <2>4 DEF IsColumn, IsFloor, Bytes
<1>3. column <= column
  OBVIOUS
<1>4. m <= n
  BY <1>1, <1>2, <1>3, ColumnsOrdered
<1>5. n <= m
  BY <1>1, <1>2, <1>3, ColumnsOrdered
<1>6. m = n
  BY <1>4, <1>5
<1> QED
  BY <1>1, <1>6

\* The column of a place is the size of the line up to it.
LEMMA ByteToColumnAtPlace ==
    ASSUME NEW line \in Seq(Char), NEW enc \in Encodings, NEW m \in 0..Len(line)
    PROVE  ByteToColumn(line, Bytes(Prefix(line, m)), enc) = Size(Prefix(line, m), enc)
<1>1. FloorCharBoundary(line, Bytes(Prefix(line, m))) = Bytes(Prefix(line, m))
  BY FloorAtPlace
<1>2. Bytes(Prefix(line, 0)) = 0 /\ 0 \in 0..Len(line)
  BY EndPlaces
<1>3. Slice(line, Bytes(Prefix(line, 0)), Bytes(Prefix(line, m))) = SubSeq(line, 1, m)
  <2>1. Slice(line, Bytes(Prefix(line, 0)), Bytes(Prefix(line, m))) = SubSeq(line, 0 + 1, m)
    BY <1>2, SliceBetween
  <2> QED
    BY <2>1
<1> QED
  BY <1>1, <1>2, <1>3 DEF ByteToColumn, Prefix

-----------------------------------------------------------------------------
(* Lines *)

\* The line grows by one at each newline, and at nothing else.
LEMMA LineSteps ==
    ASSUME NEW text \in Seq(Char)
    PROVE  /\ LineOf(text, 0) = 0
           /\ \A k \in 0..Len(text) : LineOf(text, k) \in Nat
           /\ \A k \in 1..Len(text) :
                 LineOf(text, k) = LineOf(text, k - 1) + (IF text[k] = "newline" THEN 1 ELSE 0)
<1> DEFINE N(k) == {j \in 1..k : text[j] = "newline"}
<1>0. Len(text) \in Nat
  OBVIOUS
<1>1. ASSUME NEW k \in 0..Len(text) PROVE IsFiniteSet(N(k)) /\ Cardinality(N(k)) \in Nat
  <2>1. IsFiniteSet(1..k)
    BY FS_Interval
  <2>2. IsFiniteSet(N(k))
    BY <2>1, FS_Subset
  <2> QED
    BY <2>2, FS_CardinalityType
<1>2. N(0) = {}
  OBVIOUS
<1>3. ASSUME NEW k \in 1..Len(text)
      PROVE  LineOf(text, k) = LineOf(text, k - 1) + (IF text[k] = "newline" THEN 1 ELSE 0)
  <2>1. k - 1 \in 0..Len(text) /\ k \in Nat /\ 1..k = (1..(k - 1)) \cup {k} /\ k \notin 1..(k - 1)
    BY <1>0
  <2>2. IsFiniteSet(N(k - 1)) /\ Cardinality(N(k - 1)) \in Nat
    BY <1>1, <2>1
  <2>3. CASE text[k] = "newline"
    <3>1. N(k) = N(k - 1) \cup {k} /\ k \notin N(k - 1)
      BY <2>1, <2>3
    <3> HIDE DEF N
    <3>2. Cardinality(N(k)) = Cardinality(N(k - 1)) + 1
      BY <2>2, <3>1, FS_AddElement
    <3> QED
      BY <2>3, <3>2 DEF LineOf, N
  <2>4. CASE text[k] # "newline"
    <3>1. N(k) = N(k - 1)
      BY <2>1, <2>4
    <3>2. LineOf(text, k) = Cardinality(N(k)) /\ LineOf(text, k - 1) = Cardinality(N(k - 1))
      BY DEF LineOf
    <3> HIDE DEF N
    <3> QED
      BY <2>2, <2>4, <3>1, <3>2
  <2> QED
    BY <2>3, <2>4
<1>4. LineOf(text, 0) = 0
  BY <1>2, FS_EmptySet DEF LineOf
<1>5. \A k \in 0..Len(text) : LineOf(text, k) \in Nat
  BY <1>1 DEF LineOf
<1> QED
  BY <1>3, <1>4, <1>5

\* A later place is on no earlier line, and one past a newline on a later one.
LEMMA LinesOrdered ==
    ASSUME NEW text \in Seq(Char), NEW i \in 0..Len(text), NEW k \in i..Len(text)
    PROVE  /\ LineOf(text, i) \in Nat /\ LineOf(text, k) \in Nat
           /\ LineOf(text, i) <= LineOf(text, k)
           /\ i < k /\ text[k] = "newline" => LineOf(text, i) < LineOf(text, k)
<1>0. Len(text) \in Nat /\ i \in Nat /\ k \in Nat /\ k \in 0..Len(text)
  OBVIOUS
<1>1. LineOf(text, i) \in Nat /\ LineOf(text, k) \in Nat
  BY <1>0, LineSteps
<1>2. ASSUME NEW m \in i..Len(text) PROVE LineOf(text, i) <= LineOf(text, m)
  <2> DEFINE T == {j \in 1..m : text[j] = "newline"}
  <2>1. IsFiniteSet(1..m)
    BY <1>0, FS_Interval
  <2>2. IsFiniteSet(T)
    BY <2>1, FS_Subset
  <2>3. {j \in 1..i : text[j] = "newline"} \subseteq T
    BY <1>0
  <2>4. Cardinality({j \in 1..i : text[j] = "newline"}) <= Cardinality(T)
    BY <2>2, <2>3, FS_Subset
  <2> QED
    BY <2>4 DEF LineOf
<1>3. ASSUME i < k, text[k] = "newline" PROVE LineOf(text, i) < LineOf(text, k)
  <2>1. k \in 1..Len(text) /\ k - 1 \in i..Len(text) /\ k - 1 \in 0..Len(text)
    BY <1>0, <1>3
  <2>2. LineOf(text, k) = LineOf(text, k - 1) + 1
    BY <1>3, <2>1, LineSteps
  <2>3. LineOf(text, i) <= LineOf(text, k - 1) /\ LineOf(text, k - 1) \in Nat
    BY <1>2, <2>1, LineSteps
  <2> QED
    BY <1>1, <2>2, <2>3
<1> QED
  BY <1>1, <1>2, <1>3

\* The lines of a text that have a newline before them are those after line 0.
LEMMA NewlineBefore ==
    ASSUME NEW text \in Seq(Char), NEW l \in 1..LineOf(text, Len(text))
    PROVE  \E k \in 1..Len(text) : text[k] = "newline" /\ LineOf(text, k) = l
<1> DEFINE T == {k \in 0..Len(text) : l <= LineOf(text, k)}
<1>0. Len(text) \in Nat /\ Len(text) \in 0..Len(text)
  OBVIOUS
<1>1. l \in Nat /\ LineOf(text, Len(text)) \in Nat /\ LineOf(text, 0) = 0 /\ 0 < l
  BY <1>0, LineSteps
<1>2. T \in SUBSET (0..Len(text)) /\ Len(text) \in T
  BY <1>0, <1>1
<1>3. PICK x \in T : \A y \in T : x <= y
  <2> HIDE DEF T
  <2> QED
    BY <1>0, <1>2, FirstAndLast
<1>4. x \in 1..Len(text) /\ x - 1 \in 0..Len(text)
  BY <1>0, <1>1
<1>5. ~(l <= LineOf(text, x - 1))
  BY <1>3, <1>4
<1>6. LineOf(text, x) = LineOf(text, x - 1) + (IF text[x] = "newline" THEN 1 ELSE 0)
      /\ LineOf(text, x - 1) \in Nat /\ l <= LineOf(text, x)
  BY <1>4, LineSteps
<1>7. text[x] = "newline" /\ LineOf(text, x) = l
  BY <1>1, <1>5, <1>6
<1> QED
  BY <1>4, <1>7

\* A line starts at place 0, or after the newline that ends the one before.
LEMMA LineStartIs ==
    ASSUME NEW text \in Seq(Char), NEW l \in 0..LineOf(text, Len(text))
    PROVE  /\ LineStart(text, l) \in 0..Len(text)
           /\ LineOf(text, LineStart(text, l)) = l
           /\ l = 0 => LineStart(text, l) = 0
           /\ l # 0 => LineStart(text, l) >= 1 /\ text[LineStart(text, l)] = "newline"
<1>0. Len(text) \in Nat /\ DOMAIN text = 1..Len(text) /\ Len(text) \in 0..Len(text)
  OBVIOUS
<1>1. LineOf(text, 0) = 0 /\ LineOf(text, Len(text)) \in Nat
  BY <1>0, LineSteps
<1>2. CASE l = 0
  BY <1>0, <1>1, <1>2 DEF LineStart
<1>3. CASE l # 0
  <2>1. l \in 1..LineOf(text, Len(text))
    BY <1>1, <1>3
  <2>2. \E k \in DOMAIN text : text[k] = "newline" /\ LineOf(text, k) = l
    BY <1>0, <2>1, NewlineBefore
  <2>3. LineStart(text, l) = CHOOSE k \in DOMAIN text : text[k] = "newline" /\ LineOf(text, k) = l
    BY <1>3 DEF LineStart
  <2>4. /\ LineStart(text, l) \in DOMAIN text /\ text[LineStart(text, l)] = "newline"
        /\ LineOf(text, LineStart(text, l)) = l
    BY <2>2, <2>3
  <2> QED
    BY <1>0, <1>3, <2>4
<1> QED
  BY <1>2, <1>3

\* A place is on a line or a later one exactly when the line starts at or
\* before the place.
LEMMA LineStartFirst ==
    ASSUME NEW text \in Seq(Char), NEW l \in 0..LineOf(text, Len(text)),
           NEW k \in 0..Len(text)
    PROVE  LineStart(text, l) <= k <=> l <= LineOf(text, k)
<1> DEFINE s == LineStart(text, l)
<1>0. Len(text) \in Nat /\ k \in Nat /\ LineOf(text, k) \in Nat /\ LineOf(text, Len(text)) \in Nat
  BY LineSteps
<1>1. /\ s \in 0..Len(text) /\ LineOf(text, s) = l /\ l \in Nat
      /\ l = 0 => s = 0
      /\ l # 0 => s >= 1 /\ text[s] = "newline"
  BY <1>0, LineStartIs
<1> HIDE DEF s
<1>2. ASSUME s <= k PROVE l <= LineOf(text, k)
  <2>1. k \in s..Len(text)
    BY <1>0, <1>1, <1>2
  <2> QED
    BY <1>1, <2>1, LinesOrdered
<1>3. ASSUME ~(s <= k) PROVE ~(l <= LineOf(text, k))
  <2>1. s \in k..Len(text) /\ k < s /\ text[s] = "newline"
    BY <1>0, <1>1, <1>3
  <2>2. LineOf(text, k) < LineOf(text, s)
    BY <2>1, LinesOrdered
  <2> QED
    BY <1>0, <1>1, <2>2
<1> QED
  BY <1>2, <1>3 DEF s

\* A line ends at the last place on it: before the next line's newline, or at
\* the end of the text.
LEMMA LineEndIs ==
    ASSUME NEW text \in Seq(Char), NEW l \in 0..LineOf(text, Len(text))
    PROVE  /\ LineEnd(text, l) \in LineStart(text, l)..Len(text)
           /\ LineOf(text, LineEnd(text, l)) = l
           /\ l < LineOf(text, Len(text)) =>
                 LineStart(text, l + 1) = LineEnd(text, l) + 1
           /\ l = LineOf(text, Len(text)) => LineEnd(text, l) = Len(text)
           /\ \A k \in 0..Len(text) : k <= LineEnd(text, l) <=> LineOf(text, k) <= l
<1> DEFINE n == LineOf(text, Len(text))
<1>0. Len(text) \in Nat /\ n \in Nat /\ l \in Nat /\ Len(text) \in 0..Len(text) /\ l <= n
  BY LineSteps
<1>1. LineStart(text, l) \in 0..Len(text) /\ LineOf(text, LineStart(text, l)) = l
  BY LineStartIs
<1>2. CASE l = n
  <2>1. LineEnd(text, l) = Len(text)
    BY <1>0, <1>2 DEF LineEnd
  <2>2. ASSUME NEW k \in 0..Len(text) PROVE LineOf(text, k) <= l
    <3>1. Len(text) \in k..Len(text)
      BY <1>0
    <3> QED
      BY <1>2, <3>1, LinesOrdered
  <2> QED
    BY <1>0, <1>1, <1>2, <2>1, <2>2
<1>3. CASE l # n
  <2> DEFINE s == LineStart(text, l + 1)
  <2>1. l < n /\ l + 1 \in 0..n /\ l + 1 # 0
    BY <1>0, <1>3
  <2>2. s \in 1..Len(text) /\ LineOf(text, s) = l + 1 /\ text[s] = "newline"
    BY <1>0, <2>1, LineStartIs
  <2>3. LineEnd(text, l) = s - 1
    BY <2>1 DEF LineEnd
  <2> HIDE DEF s
  <2>4. s - 1 \in 0..Len(text) /\ LineOf(text, s - 1) = l
    <3>1. s - 1 \in 0..Len(text)
      BY <1>0, <2>2
    <3>2. LineOf(text, s) = LineOf(text, s - 1) + 1 /\ LineOf(text, s - 1) \in Nat
      BY <2>2, <3>1, LineSteps
    <3> QED
      BY <1>0, <2>2, <3>1, <3>2
  <2>5. LineStart(text, l) <= s - 1
    BY <1>0, <2>4, LineStartFirst
  <2>6. ASSUME NEW k \in 0..Len(text) PROVE k <= s - 1 <=> LineOf(text, k) <= l
    <3>1. s <= k <=> l + 1 <= LineOf(text, k)
      BY <2>1, LineStartFirst DEF s
    <3>2. LineOf(text, k) \in Nat /\ k \in Nat /\ s \in Nat
      BY <1>0, <2>2, LineSteps
    <3> QED
      BY <1>0, <3>1, <3>2
  <2>7. LineEnd(text, l) \in LineStart(text, l)..Len(text) /\ s = LineEnd(text, l) + 1
    BY <1>0, <1>1, <2>2, <2>3, <2>4, <2>5
  <2>8. LineOf(text, LineEnd(text, l)) = l
        /\ \A k \in 0..Len(text) : k <= LineEnd(text, l) <=> LineOf(text, k) <= l
    BY <2>3, <2>4, <2>6
  <2> QED
    BY <1>3, <2>7, <2>8 DEF s
<1> QED
  BY <1>2, <1>3

\* A place lies between the start and the end of its line.
LEMMA PlaceOnLine ==
    ASSUME NEW text \in Seq(Char), NEW k \in 0..Len(text)
    PROVE  /\ LineOf(text, k) \in 0..LineOf(text, Len(text))
           /\ k \in LineStart(text, LineOf(text, k))..LineEnd(text, LineOf(text, k))
           /\ LineEnd(text, LineOf(text, k)) \in 0..Len(text)
           /\ LineStart(text, LineOf(text, k)) \in 0..Len(text)
<1>1. Len(text) \in Nat /\ Len(text) \in k..Len(text)
  OBVIOUS
<1>2. LineOf(text, k) \in 0..LineOf(text, Len(text))
  BY <1>1, LinesOrdered
<1>3. LineOf(text, k) \in Nat
  BY LineSteps
<1>4. LineStart(text, LineOf(text, k)) <= k /\ LineStart(text, LineOf(text, k)) \in 0..Len(text)
  BY <1>2, <1>3, LineStartFirst, LineStartIs
<1>5. k <= LineEnd(text, LineOf(text, k))
      /\ LineEnd(text, LineOf(text, k)) \in LineStart(text, LineOf(text, k))..Len(text)
  BY <1>2, <1>3, LineEndIs
<1> QED
  BY <1>1, <1>2, <1>4, <1>5

\* The last newline before a place is where its line starts.
LEMMA LastNewline ==
    ASSUME NEW text \in Seq(Char), NEW k \in 0..Len(text)
    PROVE  LET newlines == {j \in 1..k : text[j] = "newline"}
           IN (IF newlines = {} THEN 0 ELSE Max(newlines)) = LineStart(text, LineOf(text, k))
<1> DEFINE newlines == {j \in 1..k : text[j] = "newline"}
           l == LineOf(text, k)
           s == LineStart(text, l)
<1>0. Len(text) \in Nat /\ k \in Nat
  OBVIOUS
<1>1. l \in 0..LineOf(text, Len(text)) /\ s \in 0..Len(text) /\ s <= k /\ l \in Nat
  BY <1>0, PlaceOnLine, LineSteps
<1>2. /\ LineOf(text, s) = l
      /\ l = 0 => s = 0
      /\ l # 0 => s >= 1 /\ text[s] = "newline"
  BY <1>1, LineStartIs
<1>3. l = Cardinality(newlines)
  BY DEF LineOf
<1>4. ASSUME NEW j \in newlines PROVE j <= s
  <2>1. j \in 1..k /\ text[j] = "newline" /\ j \in 0..Len(text) /\ k \in j..Len(text)
    BY <1>0
  <2>2. LineOf(text, j) <= l /\ LineOf(text, j) \in Nat
    BY <2>1, LinesOrdered
  <2> SUFFICES ASSUME s < j PROVE FALSE
    BY <1>1, <2>1
  <2>3. j \in s..Len(text)
    BY <1>1, <2>1
  <2>4. LineOf(text, s) < LineOf(text, j)
    BY <1>1, <2>1, <2>3, LinesOrdered
  <2> QED
    BY <1>1, <1>2, <2>2, <2>4
<1>5. CASE l = 0
  <2>1. s = 0
    BY <1>2, <1>5
  <2>2. newlines = {}
    BY <1>0, <1>4, <2>1
  <2> QED
    BY <2>1, <2>2
<1>6. CASE l # 0
  <2>1. s \in newlines
    BY <1>0, <1>1, <1>2, <1>6
  <2>2. \A x \in newlines : x \in Nat
    BY <1>0
  <2> HIDE DEF newlines, s
  <2>3. Max(newlines) = s
    <3>1. \A x \in newlines : (\A y \in newlines : x >= y) => x = s
      BY <1>4, <2>1, <2>2
    <3>2. \A y \in newlines : s >= y
      BY <1>4, <2>1, <2>2
    <3> QED
      BY <2>1, <3>1, <3>2 DEF Max
  <2>4. newlines # {}
    BY <2>1
  <2> QED
    BY <2>3, <2>4 DEF newlines, s
<1> QED
  BY <1>5, <1>6

-----------------------------------------------------------------------------
(* Positions *)

Line(text, l) == SubSeq(text, LineStart(text, l) + 1, LineEnd(text, l))

\* A line's characters, and the offsets of the places on it.
LEMMA LineIs ==
    ASSUME NEW text \in Seq(Char), NEW l \in 0..LineOf(text, Len(text))
    PROVE  /\ Line(text, l) \in Seq(Char)
           /\ Len(Line(text, l)) = LineEnd(text, l) - LineStart(text, l)
           /\ \A m \in 0..Len(Line(text, l)) :
                 /\ LineStart(text, l) + m \in 0..Len(text)
                 /\ Prefix(Line(text, l), m)
                       = SubSeq(text, LineStart(text, l) + 1, LineStart(text, l) + m)
                 /\ Bytes(Prefix(text, LineStart(text, l) + m))
                       = Bytes(Prefix(text, LineStart(text, l))) + Bytes(Prefix(Line(text, l), m))
<1> DEFINE s == LineStart(text, l)
           e == LineEnd(text, l)
<1>1. Len(text) \in Nat /\ s \in 0..Len(text) /\ e \in s..Len(text)
  BY LineStartIs, LineEndIs
<1>2. Line(text, l) = SubSeq(text, s + 1, e)
  BY DEF Line
<1> HIDE DEF s, e
<1>3. /\ Line(text, l) \in Seq(Char) /\ Len(Line(text, l)) = e - s
      /\ \A m \in 0..(e - s) : Prefix(Line(text, l), m) = SubSeq(text, s + 1, s + m)
  BY <1>1, <1>2, PartIs
<1>4. ASSUME NEW m \in 0..(e - s)
      PROVE  /\ s + m \in 0..Len(text)
             /\ Bytes(Prefix(text, s + m)) = Bytes(Prefix(text, s)) + Bytes(Prefix(Line(text, l), m))
  <2>1. s + m \in 0..Len(text) /\ s + m \in s..Len(text)
    BY <1>1
  <2>2. Bytes(Prefix(text, s + m)) = Bytes(Prefix(text, s)) + Bytes(SubSeq(text, s + 1, s + m))
    BY <1>1, <2>1, SizeBetween DEF Bytes, Encodings
  <2> QED
    BY <1>3, <2>1, <2>2
<1>5. \A m \in 0..Len(Line(text, l)) : m \in 0..(e - s)
  BY <1>3
<1> QED
  BY <1>3, <1>4, <1>5 DEF s, e

\* Each line's characters and its newline lie between its start and the next.
LEMMA NextLineStart ==
    ASSUME NEW text \in Seq(Char), NEW l \in 0..LineOf(text, Len(text)),
           l < LineOf(text, Len(text))
    PROVE  Bytes(Prefix(text, LineStart(text, l + 1)))
              = Bytes(Prefix(text, LineEnd(text, l))) + 1
<1> DEFINE s == LineStart(text, l + 1)
<1>1. LineOf(text, Len(text)) \in Nat /\ l \in Nat
  BY EndPlaces, LineSteps
<1>2. l + 1 \in 0..LineOf(text, Len(text)) /\ l + 1 # 0
  BY <1>1
<1>3. s \in 0..Len(text) /\ s >= 1 /\ text[s] = "newline"
  BY <1>2, LineStartIs
<1>4. s = LineEnd(text, l) + 1 /\ LineEnd(text, l) \in Nat
  <2>1. s = LineEnd(text, l) + 1 /\ LineEnd(text, l) \in LineStart(text, l)..Len(text)
        /\ LineStart(text, l) \in 0..Len(text)
    BY LineEndIs, LineStartIs
  <2> QED
    BY <2>1
<1> HIDE DEF s
<1>5. s \in 1..Len(text) /\ s - 1 = LineEnd(text, l)
  BY <1>3, <1>4
<1>6. Size(Prefix(text, s), "utf8") = Size(Prefix(text, s - 1), "utf8") + Units["newline"]["utf8"]
  BY <1>3, <1>5, SizeStep DEF Encodings
<1>7. Units["newline"]["utf8"] = 1
  BY DEF Units
<1> QED
  BY <1>5, <1>6, <1>7 DEF s, Bytes

\* PositionToOffset's sum over the lines before a position is the offset of
\* the place where its line starts.
LEMMA PositionToOffsetIs ==
    ASSUME NEW text \in Seq(Char), NEW l \in Nat, NEW column \in Nat, NEW enc \in Encodings
    PROVE  PositionToOffset(text, Pos(l, column), enc)
              = IF l <= LineOf(text, Len(text))
                THEN Bytes(Prefix(text, LineStart(text, l))) + ColumnToByte(Line(text, l), column, enc)
                ELSE Bytes(text)
<1> DEFINE n == LineOf(text, Len(text))
           lines == Split(text)
<1>0. n \in Nat
  BY EndPlaces, LineSteps
<1>1. DOMAIN lines = 1..(n + 1) /\ \A i \in 1..(n + 1) : lines[i] = Line(text, i - 1)
  BY DEF Split, Line
<1>2. lines \in Seq(Seq(Char)) /\ Len(lines) = n + 1
  <2>1. ASSUME NEW i \in 1..(n + 1) PROVE lines[i] \in Seq(Char)
    <3>1. i - 1 \in 0..n
      BY <1>0
    <3> QED
      BY <3>1, <1>1, LineIs
  <2>2. lines = [i \in 1..(n + 1) |-> lines[i]]
    BY DEF Split
  <2> HIDE DEF lines
  <2> QED
    BY <1>0, <2>1, <2>2, SMTT(30)
<1> HIDE DEF n, lines
<1> DEFINE step == [x \in Nat \X Nat |->
                       IF x[2] \in 1..Len(lines) THEN x[1] + Bytes(lines[x[2]]) + 1 ELSE 0]
<1>3. \A i \in 1..Len(lines) : lines[i] \in Seq(Char) /\ Bytes(lines[i]) \in Nat
  BY <1>2, EndPlaces
<1>4. step \in [Nat \X Nat -> Nat]
  BY <1>3
<1> HIDE DEF step
<1>5. PICK g \in [0..Len(lines) -> Nat] : Recurs(g, Len(lines), 0, step)
  <2>1. Len(lines) \in Nat /\ 0 \in Nat
    BY <1>0, <1>2
  <2> QED
    BY <2>1, <1>4, Recursion
<1>6. ASSUME NEW i \in 1..Len(lines) PROVE g[i] = g[i - 1] + Bytes(lines[i]) + 1
  <2>1. g[i - 1] \in Nat /\ i \in Nat
    BY <1>0, <1>2
  <2> QED
    BY <1>5, <2>1 DEF Recurs, step
<1> DEFINE start[i \in 0..Len(lines)] == IF i = 0 THEN 0 ELSE start[i - 1] + Bytes(lines[i]) + 1
<1>7. g = [i \in 0..Len(lines) |-> IF i = 0 THEN 0 ELSE g[i - 1] + Bytes(lines[i]) + 1]
  BY <1>0, <1>2, <1>5, <1>6 DEF Recurs
<1>8. start = [i \in 0..Len(lines) |-> IF i = 0 THEN 0 ELSE start[i - 1] + Bytes(lines[i]) + 1]
  BY <1>7
<1>9. PositionToOffset(text, Pos(l, column), enc)
         = IF l < Len(lines) THEN start[l] + ColumnToByte(lines[l + 1], column, enc)
                             ELSE Bytes(text)
  BY DEF PositionToOffset, Pos, lines
<1> HIDE DEF start
<1> DEFINE S == {i \in Nat : i <= n => start[i] = Bytes(Prefix(text, LineStart(text, i)))}
<1>10. 0 \in S
  <2>1. LineStart(text, 0) = 0
    BY DEF LineStart
  <2> QED
    BY <1>0, <1>2, <1>8, <2>1, EndPlaces
<1>11. ASSUME NEW i \in Nat, i \in S PROVE i + 1 \in S
  <2> SUFFICES ASSUME i + 1 <= n
               PROVE  start[i + 1] = Bytes(Prefix(text, LineStart(text, i + 1)))
    OBVIOUS
  <2>1. i \in 0..n /\ i < n /\ i + 1 \in 1..(n + 1) /\ (i + 1) - 1 = i /\ i + 1 \in 1..Len(lines)
    BY <1>0, <1>2
  <2>2. start[i + 1] = start[i] + Bytes(Line(text, i)) + 1
    <3>1. lines[i + 1] = Line(text, i)
      BY <1>1, <2>1
    <3> QED
      BY <1>8, <2>1, <3>1
  <2>3. start[i] = Bytes(Prefix(text, LineStart(text, i)))
    BY <1>11, <2>1
  <2> DEFINE s == LineStart(text, i)
             e == LineEnd(text, i)
  <2>4. Line(text, i) \in Seq(Char) /\ Len(Line(text, i)) = e - s
        /\ s \in 0..Len(text) /\ e \in s..Len(text)
    BY <2>1, LineIs, LineStartIs, LineEndIs DEF n
  <2>5. e - s \in 0..Len(Line(text, i)) /\ s + (e - s) = e
        /\ Prefix(Line(text, i), Len(Line(text, i))) = Line(text, i)
    BY <2>4, PrefixIs, EndPlaces
  <2>6. Bytes(Prefix(text, s + (e - s))) = Bytes(Prefix(text, s)) + Bytes(Prefix(Line(text, i), e - s))
    BY <2>1, <2>5, LineIs DEF n
  <2>7. Bytes(Prefix(text, LineStart(text, i + 1))) = Bytes(Prefix(text, e)) + 1
    BY <2>1, NextLineStart DEF n
  <2>8. Prefix(Line(text, i), e - s) = Line(text, i)
    BY <2>4, <2>5
  <2>9. Bytes(Prefix(text, e)) = Bytes(Prefix(text, s)) + Bytes(Line(text, i))
    BY <2>5, <2>6, <2>8
  <2> QED
    BY <2>2, <2>3, <2>7, <2>9
<1> HIDE DEF S
<1>12. \A i \in Nat : i \in S
  BY <1>10, <1>11, Induction
<1>13. CASE l <= n
  <2>1. start[l] = Bytes(Prefix(text, LineStart(text, l)))
    BY <1>12, <1>13 DEF S
  <2>2. l < Len(lines) /\ l + 1 \in 1..(n + 1) /\ (l + 1) - 1 = l
    BY <1>0, <1>2, <1>13
  <2>3. lines[l + 1] = Line(text, l)
    BY <1>1, <2>2
  <2> QED
    BY <1>9, <1>13, <2>1, <2>2, <2>3 DEF n
<1>14. CASE ~(l <= n)
  <2>1. ~(l < Len(lines))
    BY <1>0, <1>2, <1>14
  <2> QED
    BY <1>9, <1>14, <2>1 DEF n
<1> QED
  BY <1>13, <1>14

\* The place on a line that a position stands for.
LEMMA PositionPlace ==
    ASSUME NEW text \in Seq(Char), NEW l \in 0..LineOf(text, Len(text)),
           NEW column \in Nat, NEW enc \in Encodings
    PROVE  \E m \in 0..Len(Line(text, l)) :
              /\ IsColumn(Line(text, l), m, column, enc)
              /\ PositionToOffset(text, Pos(l, column), enc)
                    = Bytes(Prefix(text, LineStart(text, l) + m))
<1>1. Line(text, l) \in Seq(Char) /\ l \in Nat /\ l <= LineOf(text, Len(text))
  BY LineIs, EndPlaces, LineSteps
<1>2. PICK m \in 0..Len(Line(text, l)) :
         /\ IsColumn(Line(text, l), m, column, enc)
         /\ ColumnToByte(Line(text, l), column, enc) = Bytes(Prefix(Line(text, l), m))
  BY <1>1, ColumnIs
<1>3. PositionToOffset(text, Pos(l, column), enc)
         = Bytes(Prefix(text, LineStart(text, l))) + ColumnToByte(Line(text, l), column, enc)
  BY <1>1, PositionToOffsetIs
<1>4. Bytes(Prefix(text, LineStart(text, l) + m))
         = Bytes(Prefix(text, LineStart(text, l))) + Bytes(Prefix(Line(text, l), m))
  BY LineIs
<1> QED
  BY <1>2, <1>3, <1>4

\* The column of a place, and at the end of a line any column after it, come
\* back to the place.
LEMMA PlaceOffset ==
    ASSUME NEW text \in Seq(Char), NEW k \in 0..Len(text), NEW enc \in Encodings,
           NEW column \in Nat,
           LET column0 == Size(SubSeq(text, LineStart(text, LineOf(text, k)) + 1, k), enc)
           IN \/ column = column0
              \/ k = LineEnd(text, LineOf(text, k)) /\ column >= column0
    PROVE  PositionToOffset(text, Pos(LineOf(text, k), column), enc) = Bytes(Prefix(text, k))
<1> DEFINE l == LineOf(text, k)
           s == LineStart(text, l)
           e == LineEnd(text, l)
           m == k - s
<1>1. /\ Len(text) \in Nat /\ l \in 0..LineOf(text, Len(text)) /\ l \in Nat
      /\ s \in 0..Len(text) /\ e \in 0..Len(text) /\ k \in s..e
      /\ LineOf(text, Len(text)) \in Nat
  BY PlaceOnLine, LineSteps, EndPlaces
<1>2. /\ Line(text, l) \in Seq(Char) /\ Len(Line(text, l)) = e - s
      /\ \A i \in 0..Len(Line(text, l)) :
            /\ Prefix(Line(text, l), i) = SubSeq(text, s + 1, s + i)
            /\ Bytes(Prefix(text, s + i)) = Bytes(Prefix(text, s)) + Bytes(Prefix(Line(text, l), i))
  BY <1>1, LineIs
<1>3. m \in 0..Len(Line(text, l)) /\ s + m = k
  BY <1>1, <1>2
<1>4. \/ column = Size(SubSeq(text, s + 1, k), enc)
      \/ k = e /\ column >= Size(SubSeq(text, s + 1, k), enc)
  OBVIOUS
<1> HIDE DEF l, s, e, m
<1>5. Prefix(Line(text, l), m) = SubSeq(text, s + 1, k)
  BY <1>2, <1>3
<1>6. \/ column = Size(Prefix(Line(text, l), m), enc)
      \/ m = Len(Line(text, l)) /\ column >= Size(Line(text, l), enc)
  <2>1. CASE column = Size(SubSeq(text, s + 1, k), enc)
    BY <1>5, <2>1
  <2>2. CASE k = e /\ column >= Size(SubSeq(text, s + 1, k), enc)
    <3>1. m = Len(Line(text, l))
      BY <1>1, <1>2, <2>2 DEF m
    <3>2. Prefix(Line(text, l), m) = Line(text, l)
      BY <1>2, <1>3, <3>1, PrefixIs
    <3> QED
      BY <1>5, <2>2, <3>1, <3>2
  <2> QED
    BY <1>4, <2>1, <2>2
<1>7. ColumnToByte(Line(text, l), column, enc) = Bytes(Prefix(Line(text, l), m))
  BY <1>2, <1>3, <1>6, ColumnAtPlace
<1>8. PositionToOffset(text, Pos(l, column), enc)
         = Bytes(Prefix(text, s)) + ColumnToByte(Line(text, l), column, enc)
  BY <1>1, PositionToOffsetIs DEF s
<1>9. Bytes(Prefix(text, k)) = Bytes(Prefix(text, s)) + Bytes(Prefix(Line(text, l), m))
  BY <1>2, <1>3
<1> QED
  BY <1>7, <1>8, <1>9 DEF l

\* A place ends its line at the end of the text and before a newline only.
LEMMA EndsLine ==
    ASSUME NEW text \in Seq(Char), NEW k \in 0..Len(text),
           k = Len(text) \/ text[k + 1] = "newline"
    PROVE  k = LineEnd(text, LineOf(text, k))
<1> DEFINE l == LineOf(text, k)
           e == LineEnd(text, l)
<1>1. Len(text) \in Nat /\ l \in 0..LineOf(text, Len(text)) /\ l \in Nat /\ k <= e
      /\ e \in 0..Len(text)
  BY PlaceOnLine, LineSteps
<1>2. ASSUME k < e PROVE FALSE
  <2>1. k + 1 \in 1..Len(text) /\ k + 1 \in 0..Len(text) /\ k + 1 <= e /\ (k + 1) - 1 = k
    BY <1>1, <1>2
  <2>2. LineOf(text, k + 1) = l + 1
    BY <1>1, <2>1, LineSteps
  <2>3. LineOf(text, k + 1) <= l
    BY <1>1, <2>1, LineEndIs
  <2> QED
    BY <1>1, <2>2, <2>3
<1> QED
  BY <1>1, <1>2

-----------------------------------------------------------------------------
(* The conversions are inverse *)

\* The reference position of a place is its line, and its size since the start
\* of the line.
LEMMA PositionAtIs ==
    ASSUME NEW text \in Seq(Char), NEW k \in 0..Len(text), NEW enc \in Encodings
    PROVE  PositionAt(text, enc, k)
              = Pos(LineOf(text, k),
                    Size(SubSeq(text, LineStart(text, LineOf(text, k)) + 1, k), enc))
  BY LastNewline DEF PositionAt, LineOf

\* The rest of a text after a line's start.
LEMMA RestIs ==
    ASSUME NEW text \in Seq(Char), NEW k \in 0..Len(text)
    PROVE  LET s == LineStart(text, LineOf(text, k))
               rest == Slice(text, Bytes(Prefix(text, s)), Bytes(text))
           IN /\ rest \in Seq(Char) /\ k - s \in 0..Len(rest)
              /\ Prefix(rest, k - s) = SubSeq(text, s + 1, k)
              /\ Bytes(Prefix(text, k)) - Bytes(Prefix(text, s)) = Bytes(Prefix(rest, k - s))
<1> DEFINE s == LineStart(text, LineOf(text, k))
           rest == Slice(text, Bytes(Prefix(text, s)), Bytes(text))
<1>1. Len(text) \in Nat /\ s \in 0..Len(text) /\ k \in s..Len(text) /\ s <= k
  BY PlaceOnLine
<1> HIDE DEF s
<1>2. rest = SubSeq(text, s + 1, Len(text))
  <2>1. Bytes(text) = Bytes(Prefix(text, Len(text))) /\ Len(text) \in 0..Len(text)
    BY EndPlaces
  <2> QED
    BY <1>1, <2>1, SliceBetween
<1> HIDE DEF rest
<1>3. Len(text) \in s..Len(text) /\ k - s \in 0..(Len(text) - s) /\ s + (k - s) = k
  BY <1>1
<1>4. /\ rest \in Seq(Char) /\ Len(rest) = Len(text) - s
      /\ Prefix(rest, k - s) = SubSeq(text, s + 1, s + (k - s))
  BY <1>1, <1>2, <1>3, PartIs
<1>5. Bytes(Prefix(text, k)) = Bytes(Prefix(text, s)) + Bytes(SubSeq(text, s + 1, k))
  BY <1>1, SizeBetween DEF Bytes, Encodings
<1>6. Prefix(rest, k - s) = SubSeq(text, s + 1, k)
  BY <1>3, <1>4
<1>7. Bytes(Prefix(text, s)) \in Nat /\ Bytes(SubSeq(text, s + 1, k)) \in Nat
  <2>1. SubSeq(text, s + 1, k) \in Seq(Char)
    BY <1>1, PartIs
  <2> QED
    BY <1>1, <2>1, EndPlaces, OffsetsOrdered
<1>8. Bytes(Prefix(text, k)) - Bytes(Prefix(text, s)) = Bytes(SubSeq(text, s + 1, k))
  BY <1>5, <1>7
<1>9. k - s \in 0..Len(rest)
  BY <1>3, <1>4
<1> QED
  BY <1>4, <1>6, <1>8, <1>9 DEF s, rest

\* The position of a place's offset is the reference position of the place.
LEMMA OffsetPosition ==
    ASSUME NEW text \in Seq(Char), NEW k \in 0..Len(text), NEW enc \in Encodings
    PROVE  OffsetToPosition(text, Bytes(Prefix(text, k)), enc) = PositionAt(text, enc, k)
<1> DEFINE at == Bytes(Prefix(text, k))
           s == LineStart(text, LineOf(text, k))
           start == Bytes(Prefix(text, s))
           rest == Slice(text, start, Bytes(text))
<1>1. FloorCharBoundary(text, at) = at /\ CharsBefore(text, at) = k
  BY FloorAtPlace, CharsBeforePlace
<1>2. OffsetToPosition(text, at, enc) = Pos(LineOf(text, k), ByteToColumn(rest, at - start, enc))
  BY <1>1 DEF OffsetToPosition
<1>3. /\ rest \in Seq(Char) /\ k - s \in 0..Len(rest)
      /\ Prefix(rest, k - s) = SubSeq(text, s + 1, k)
      /\ at - start = Bytes(Prefix(rest, k - s))
  BY RestIs
<1> HIDE DEF at, start, rest
<1>4. ByteToColumn(rest, at - start, enc) = Size(Prefix(rest, k - s), enc)
  BY <1>3, ByteToColumnAtPlace
<1>5. PositionAt(text, enc, k) = Pos(LineOf(text, k), Size(SubSeq(text, s + 1, k), enc))
  BY PositionAtIs
<1> HIDE DEF s
<1>6. OffsetToPosition(text, at, enc) = PositionAt(text, enc, k)
  BY <1>2, <1>3, <1>4, <1>5
<1> QED
  BY <1>6 DEF at

\* The offset of a place's reference position is that of the place.
LEMMA PositionOffset ==
    ASSUME NEW text \in Seq(Char), NEW k \in 0..Len(text), NEW enc \in Encodings
    PROVE  PositionToOffset(text, PositionAt(text, enc, k), enc) = Bytes(Prefix(text, k))
<1> DEFINE column == Size(SubSeq(text, LineStart(text, LineOf(text, k)) + 1, k), enc)
<1>1. column \in Nat
  <2>1. LineStart(text, LineOf(text, k)) \in 0..Len(text) /\ k \in LineStart(text, LineOf(text, k))..Len(text)
    BY PlaceOnLine
  <2>2. SubSeq(text, LineStart(text, LineOf(text, k)) + 1, k) \in Seq(Char)
    BY <2>1, PartIs
  <2> QED
    BY <2>2, SizeType
<1>2. PositionToOffset(text, Pos(LineOf(text, k), column), enc) = Bytes(Prefix(text, k))
  BY <1>1, PlaceOffset
<1> QED
  BY <1>2, PositionAtIs

\* A later column on the line, and the start of the next line, are no earlier
\* in the text.
LEMMA OffsetsKeepOrder ==
    ASSUME NEW text \in Seq(Char), NEW l \in Nat, NEW c \in Nat, NEW enc \in Encodings
    PROVE  /\ PositionToOffset(text, Pos(l, c), enc) <= PositionToOffset(text, Pos(l, c + 1), enc)
           /\ PositionToOffset(text, Pos(l, c), enc) <= PositionToOffset(text, Pos(l + 1, 0), enc)
<1> DEFINE n == LineOf(text, Len(text))
           s == LineStart(text, l)
<1>0. n \in Nat /\ Bytes(text) \in Nat /\ Len(text) \in Nat /\ c + 1 \in Nat /\ l + 1 \in Nat
      /\ Len(text) \in 0..Len(text) /\ Bytes(text) = Bytes(Prefix(text, Len(text)))
  BY EndPlaces, LineSteps
<1>1. CASE l <= n
  <2>0. l \in 0..n
    BY <1>0, <1>1
  <2>1. PICK i \in 0..Len(Line(text, l)) :
           /\ IsColumn(Line(text, l), i, c, enc)
           /\ PositionToOffset(text, Pos(l, c), enc) = Bytes(Prefix(text, s + i))
    BY <2>0, PositionPlace
  <2>2. PICK j \in 0..Len(Line(text, l)) :
           /\ IsColumn(Line(text, l), j, c + 1, enc)
           /\ PositionToOffset(text, Pos(l, c + 1), enc) = Bytes(Prefix(text, s + j))
    BY <1>0, <2>0, PositionPlace
  <2>3. Line(text, l) \in Seq(Char) /\ s + i \in 0..Len(text) /\ s + j \in 0..Len(text)
        /\ Len(Line(text, l)) = LineEnd(text, l) - s
        /\ s \in 0..Len(text) /\ LineEnd(text, l) \in s..Len(text)
    BY <2>0, <2>1, <2>2, LineIs, LineStartIs, LineEndIs
  <2>4. i <= j
    <3>1. c <= c + 1
      OBVIOUS
    <3> QED
      BY <1>0, <2>1, <2>2, <2>3, <3>1, ColumnsOrdered
  <2> HIDE DEF s
  <2>5. s + i <= s + j /\ s + i <= LineEnd(text, l) /\ s + i <= Len(text)
        /\ LineEnd(text, l) \in 0..Len(text)
    BY <1>0, <2>1, <2>2, <2>3, <2>4
  <2>6. Bytes(Prefix(text, s + i)) <= Bytes(Prefix(text, s + j))
    BY <2>3, <2>5, OffsetsOrdered
  <2>7. PositionToOffset(text, Pos(l, c), enc) <= PositionToOffset(text, Pos(l + 1, 0), enc)
    <3>1. CASE l < n
      <4>1. l + 1 \in 0..n
        BY <1>0, <3>1
      <4>2. PICK h \in 0..Len(Line(text, l + 1)) :
               PositionToOffset(text, Pos(l + 1, 0), enc) = Bytes(Prefix(text, LineStart(text, l + 1) + h))
        BY <4>1, PositionPlace
      <4>3. LineStart(text, l + 1) = LineEnd(text, l) + 1
        BY <2>0, <3>1, LineEndIs
      <4>4. LineStart(text, l + 1) + h \in 0..Len(text)
        BY <4>1, <4>2, LineIs
      <4>5. s + i <= LineStart(text, l + 1) + h
        BY <2>3, <2>5, <4>2, <4>3
      <4>6. Bytes(Prefix(text, s + i)) <= Bytes(Prefix(text, LineStart(text, l + 1) + h))
        BY <2>3, <4>4, <4>5, OffsetsOrdered
      <4> QED
        BY <2>1, <4>2, <4>6
    <3>2. CASE ~(l < n)
      <4>1. ~(l + 1 <= n)
        BY <1>0, <3>2
      <4>2. PositionToOffset(text, Pos(l + 1, 0), enc) = Bytes(text)
        BY <1>0, <4>1, PositionToOffsetIs
      <4>3. Bytes(Prefix(text, s + i)) <= Bytes(Prefix(text, Len(text)))
        BY <1>0, <2>3, <2>5, OffsetsOrdered
      <4> QED
        BY <1>0, <2>1, <4>2, <4>3
    <3> QED
      BY <3>1, <3>2
  <2> QED
    BY <2>1, <2>2, <2>6, <2>7
<1>2. CASE ~(l <= n)
  <2>1. ~(l + 1 <= n)
    BY <1>0, <1>2
  <2>2. /\ PositionToOffset(text, Pos(l, c), enc) = Bytes(text)
        /\ PositionToOffset(text, Pos(l, c + 1), enc) = Bytes(text)
        /\ PositionToOffset(text, Pos(l + 1, 0), enc) = Bytes(text)
    BY <1>0, <1>2, <2>1, PositionToOffsetIs
  <2> QED
    BY <1>0, <2>2
<1> QED
  BY <1>1, <1>2

\* What the inputs of kind "text" are.
LEMMA TextInput ==
    ASSUME InitText, input.kind = "text"
    PROVE  input.text \in Seq(Char) /\ input.enc \in Encodings
<1>1. CASE \E text \in TextsOf(Char, MaxChars), enc \in Encodings :
              input = [kind |-> "text", text |-> text, enc |-> enc]
  <2>1. PICK text \in TextsOf(Char, MaxChars), enc \in Encodings :
           input = [kind |-> "text", text |-> text, enc |-> enc]
    BY <1>1
  <2>2. text \in Seq(Char)
    <3>1. PICK k \in 0..MaxChars : text \in [1..k -> Char]
      BY DEF TextsOf
    <3>2. k \in Nat
      BY TextInputsAssumption
    <3> QED
      BY <3>1, <3>2
  <2> QED
    BY <2>1, <2>2
<1>2. CASE \E text \in TextsOf({"astral", "newline"}, MaxEditedChars), enc \in Encodings :
              \E n \in 0..MaxEdits : \E edits \in MeantEdits(text, n) :
                 input = [kind |-> "edits", text |-> text, enc |-> enc, edits |-> edits]
  <2>1. input.kind = "edits"
    BY <1>2
  <2> QED
    BY <2>1
<1> QED
  BY <1>1, <1>2 DEF InitText

\* For texts of any length, the places between characters are the fixed points
\* of the two conversions, in every encoding, and converting a position keeps
\* the order of positions: position_to_offset and offset_to_position of
\* src/src/text.rs.
THEOREM ConversionsInverse == InitText => ConversionsAreInverse
<1> SUFFICES ASSUME InitText, input.kind = "text" PROVE ConversionsAreInverse
  BY DEF ConversionsAreInverse
<1> DEFINE text == input.text
           enc == input.enc
<1>1. text \in Seq(Char) /\ enc \in Encodings
  BY TextInput
<1> HIDE DEF text, enc
<1>2. ASSUME NEW k \in 0..Len(text)
      PROVE  /\ OffsetToPosition(text, Bytes(Prefix(text, k)), enc) = PositionAt(text, enc, k)
             /\ PositionToOffset(text, PositionAt(text, enc, k), enc) = Bytes(Prefix(text, k))
  BY <1>1, OffsetPosition, PositionOffset
<1>3. ASSUME NEW l \in Lines, NEW c \in Columns
      PROVE  /\ PositionToOffset(text, Pos(l, c), enc) <= PositionToOffset(text, Pos(l, c + 1), enc)
             /\ PositionToOffset(text, Pos(l, c), enc) <= PositionToOffset(text, Pos(l + 1, 0), enc)
  <2>1. l \in Nat /\ c \in Nat
    BY TextInputsAssumption DEF Lines, Columns
  <2> QED
    BY <1>1, <2>1, OffsetsKeepOrder
<1> QED
  BY <1>2, <1>3 DEF ConversionsAreInverse, text, enc

-----------------------------------------------------------------------------
(* The cached index *)

\* The cached line starts are the offsets of the places where the lines start.
LEMMA IndexIs ==
    ASSUME NEW text \in Seq(Char)
    PROVE  LET starts == NewLineIndex(text).lineStarts
               n == LineOf(text, Len(text))
           IN /\ n \in Nat /\ Len(starts) = n + 1 /\ DOMAIN starts = 1..(n + 1)
              /\ \A l \in 0..n : starts[l + 1] = Bytes(Prefix(text, LineStart(text, l)))
              /\ NewLineIndex(text).len = Bytes(text)
<1> DEFINE n == LineOf(text, Len(text))
           starts == [l \in 1..(n + 1) |-> Bytes(Prefix(text, LineStart(text, l - 1)))]
<1>1. n \in Nat
  BY EndPlaces, LineSteps
<1>2. NewLineIndex(text).lineStarts = starts /\ NewLineIndex(text).len = Bytes(text)
  BY DEF NewLineIndex
<1>3. ASSUME NEW l \in 0..n PROVE starts[l + 1] = Bytes(Prefix(text, LineStart(text, l)))
  <2>1. l + 1 \in 1..(n + 1) /\ (l + 1) - 1 = l
    BY <1>1
  <2> QED
    BY <2>1
<1>4. starts \in Seq(Nat) /\ Len(starts) = n + 1
  <2>1. ASSUME NEW l \in 1..(n + 1) PROVE Bytes(Prefix(text, LineStart(text, l - 1))) \in Nat
    <3>1. l - 1 \in 0..n
      BY <1>1
    <3>2. LineStart(text, l - 1) \in 0..Len(text)
      BY <3>1, LineStartIs
    <3> QED
      BY <3>2, OffsetsOrdered
  <2>2. starts \in [1..(n + 1) -> Nat]
    BY <2>1
  <2> HIDE DEF starts
  <2> QED
    BY <1>1, <2>2
<1>5. DOMAIN starts = 1..(n + 1)
  OBVIOUS
<1> HIDE DEF starts
<1> QED
  BY <1>1, <1>2, <1>3, <1>4, <1>5

\* The index finds a position's offset where the scan does.
LEMMA IndexPositionAgrees ==
    ASSUME NEW text \in Seq(Char), NEW l \in Nat, NEW c \in Nat, NEW enc \in Encodings
    PROVE  IndexPositionToOffset(NewLineIndex(text), text, Pos(l, c), enc)
              = PositionToOffset(text, Pos(l, c), enc)
<1> DEFINE index == NewLineIndex(text)
           lines == index.lineStarts
           n == LineOf(text, Len(text))
           start == lines[l + 1]
           end == IF l + 2 <= Len(lines) THEN lines[l + 2] - 1 ELSE index.len
<1>1. /\ n \in Nat /\ Len(lines) = n + 1
      /\ \A i \in 0..n : lines[i + 1] = Bytes(Prefix(text, LineStart(text, i)))
      /\ index.len = Bytes(text)
  BY IndexIs
<1>2. IndexPositionToOffset(index, text, Pos(l, c), enc)
         = IF l >= Len(lines) THEN index.len
           ELSE start + ColumnToByte(Slice(text, start, end), c, enc)
  BY DEF IndexPositionToOffset, Pos
<1> HIDE DEF index, lines
<1>3. CASE l <= n
  <2>1. l \in 0..n /\ start = Bytes(Prefix(text, LineStart(text, l))) /\ ~(l >= Len(lines))
    BY <1>1, <1>3
  <2>2. end = Bytes(Prefix(text, LineEnd(text, l)))
    <3>1. CASE l < n
      <4>1. l + 1 \in 0..n /\ l + 2 = (l + 1) + 1 /\ l + 2 <= Len(lines)
        BY <1>1, <3>1
      <4>2. lines[l + 2] = Bytes(Prefix(text, LineStart(text, l + 1)))
        BY <1>1, <4>1
      <4>3. lines[l + 2] = Bytes(Prefix(text, LineEnd(text, l))) + 1
        BY <2>1, <3>1, <4>2, NextLineStart
      <4>4. Bytes(Prefix(text, LineEnd(text, l))) \in Nat
        <5>1. LineEnd(text, l) \in 0..Len(text)
          BY <2>1, LineEndIs, LineStartIs
        <5> QED
          BY <5>1, OffsetsOrdered
      <4> QED
        BY <4>1, <4>3, <4>4
    <3>2. CASE ~(l < n)
      <4>1. l = n /\ ~(l + 2 <= Len(lines))
        BY <1>1, <1>3, <3>2
      <4>2. LineEnd(text, l) = Len(text)
        BY <2>1, <4>1, LineEndIs
      <4> QED
        BY <1>1, <4>1, <4>2, EndPlaces
    <3> QED
      BY <3>1, <3>2
  <2>3. Slice(text, start, end) = Line(text, l)
    <3>1. LineStart(text, l) \in 0..Len(text) /\ LineEnd(text, l) \in 0..Len(text)
      BY <2>1, LineEndIs, LineStartIs
    <3> QED
      BY <2>1, <2>2, <3>1, SliceBetween DEF Line
  <2> HIDE DEF start, end
  <2>4. IndexPositionToOffset(index, text, Pos(l, c), enc)
           = Bytes(Prefix(text, LineStart(text, l))) + ColumnToByte(Line(text, l), c, enc)
    BY <1>2, <2>1, <2>3
  <2>5. PositionToOffset(text, Pos(l, c), enc)
           = Bytes(Prefix(text, LineStart(text, l))) + ColumnToByte(Line(text, l), c, enc)
    BY <1>3, PositionToOffsetIs DEF n
  <2> QED
    BY <2>4, <2>5 DEF index
<1>4. CASE ~(l <= n)
  <2>1. l >= Len(lines)
    BY <1>1, <1>4
  <2>2. PositionToOffset(text, Pos(l, c), enc) = Bytes(text)
    BY <1>4, PositionToOffsetIs
  <2> QED
    BY <1>1, <1>2, <2>1, <2>2 DEF index
<1> QED
  BY <1>3, <1>4

\* Cutting an offset at the end of the text does not change its floor.
LEMMA FloorClamped ==
    ASSUME NEW s \in Seq(Char), NEW offset \in Nat
    PROVE  FloorCharBoundary(s, Min({offset, Bytes(s)})) = FloorCharBoundary(s, offset)
<1>1. PICK k \in 0..Len(s) : /\ IsFloor(s, k, offset)
                             /\ FloorCharBoundary(s, offset) = Bytes(Prefix(s, k))
  BY FloorIs
<1>2. Bytes(s) \in Nat /\ Bytes(s) = Bytes(Prefix(s, Len(s))) /\ Len(s) \in 0..Len(s)
      /\ Len(s) \in Nat
  BY EndPlaces
<1> DEFINE m == IF offset <= Bytes(s) THEN offset ELSE Bytes(s)
<1>3. Min({offset, Bytes(s)}) = m
  <2>1. \A x \in {offset, Bytes(s)} : (\A y \in {offset, Bytes(s)} : x <= y) => x = m
    BY <1>2
  <2>2. m \in {offset, Bytes(s)} /\ \A y \in {offset, Bytes(s)} : m <= y
    BY <1>2
  <2> HIDE DEF m
  <2> QED
    BY <2>1, <2>2 DEF Min
<1>4. ASSUME NEW j \in 0..Len(s)
      PROVE  Bytes(Prefix(s, j)) <= offset <=> Bytes(Prefix(s, j)) <= m
  <2>1. Bytes(Prefix(s, j)) \in Nat /\ Bytes(Prefix(s, j)) <= Bytes(s)
    BY <1>2, OffsetsOrdered
  <2> QED
    BY <1>2, <2>1
<1>5. m \in Nat
  BY <1>2
<1> HIDE DEF m
<1>6. IsFloor(s, k, m)
  BY <1>1, <1>4 DEF IsFloor
<1>7. FloorCharBoundary(s, m) = Bytes(Prefix(s, k))
  BY <1>5, <1>6, FloorUnique
<1> QED
  BY <1>1, <1>3, <1>7

\* The index finds an offset's position where the scan does.
LEMMA IndexOffsetAgrees ==
    ASSUME NEW text \in Seq(Char), NEW offset \in Nat, NEW enc \in Encodings
    PROVE  IndexOffsetToPosition(NewLineIndex(text), text, offset, enc)
              = OffsetToPosition(text, offset, enc)
<1> DEFINE index == NewLineIndex(text)
           starts == index.lineStarts
           n == LineOf(text, Len(text))
           at == FloorCharBoundary(text, offset)
           before == {i \in DOMAIN starts : starts[i] <= at}
<1>1. /\ n \in Nat /\ DOMAIN starts = 1..(n + 1)
      /\ \A i \in 0..n : starts[i + 1] = Bytes(Prefix(text, LineStart(text, i)))
      /\ index.len = Bytes(text)
  BY IndexIs
<1>2. PICK k \in 0..Len(text) : at = Bytes(Prefix(text, k))
  BY FloorIs
<1> DEFINE l == LineOf(text, k)
           start == Bytes(Prefix(text, LineStart(text, l)))
           position == Pos(l, ByteToColumn(Slice(text, start, Bytes(text)), at - start, enc))
<1>3. l \in 0..n /\ l \in Nat
  BY PlaceOnLine, LineSteps
<1>4. OffsetToPosition(text, offset, enc) = position
  <2>1. CharsBefore(text, at) = k
    BY <1>2, CharsBeforePlace
  <2> QED
    BY <2>1 DEF OffsetToPosition
<1>5. FloorCharBoundary(text, Min({offset, index.len})) = at
  BY <1>1, FloorClamped
<1> HIDE DEF index, starts, at
<1>6. ASSUME NEW i \in 1..(n + 1) PROVE starts[i] <= at <=> i <= l + 1
  <2>1. i - 1 \in 0..n /\ (i - 1) + 1 = i
    BY <1>1
  <2>2. starts[i] = Bytes(Prefix(text, LineStart(text, i - 1)))
    BY <1>1, <2>1
  <2>3. LineStart(text, i - 1) \in 0..Len(text)
    BY <2>1, LineStartIs
  <2>4. starts[i] <= at <=> LineStart(text, i - 1) <= k
    BY <1>2, <2>2, <2>3, OffsetsOrdered
  <2>5. LineStart(text, i - 1) <= k <=> i - 1 <= l
    BY <2>1, LineStartFirst
  <2> QED
    BY <1>3, <2>4, <2>5
<1>7. before = 1..(l + 1)
  BY <1>1, <1>3, <1>6
<1>8. Cardinality(before) = l + 1
  <2>1. Cardinality(1..(l + 1)) = (l + 1) - 1 + 1
    BY <1>3, FS_Interval
  <2>2. (l + 1) - 1 + 1 = l + 1
    BY <1>3
  <2> HIDE DEF before, l
  <2> QED
    BY <1>7, <2>1, <2>2
<1> HIDE DEF before
<1>9. starts[Cardinality(before)] = start /\ Cardinality(before) - 1 = l
  BY <1>1, <1>3, <1>8
<1>10. IndexOffsetToPosition(index, text, offset, enc)
          = LET a == FloorCharBoundary(text, Min({offset, index.len}))
                line == Cardinality({i \in DOMAIN starts : starts[i] <= a})
            IN Pos(line - 1, ByteToColumn(Slice(text, starts[line], Bytes(text)),
                                          a - starts[line], enc))
  BY DEF IndexOffsetToPosition, starts
<1>11. IndexOffsetToPosition(index, text, offset, enc) = position
  BY <1>5, <1>9, <1>10 DEF before
<1> QED
  BY <1>4, <1>11 DEF index

\* For texts of any length, LineIndex and the scanning functions of
\* src/src/text.rs give the same answers, for every offset and position.
THEOREM IndexAgrees == InitText => IndexAgreesWithScan
<1> SUFFICES ASSUME InitText, input.kind = "text" PROVE IndexAgreesWithScan
  BY DEF IndexAgreesWithScan
<1> DEFINE text == input.text
           enc == input.enc
<1>1. text \in Seq(Char) /\ enc \in Encodings
  BY TextInput
<1> HIDE DEF text, enc
<1>2. ASSUME NEW l \in Lines, NEW c \in Columns
      PROVE  IndexPositionToOffset(NewLineIndex(text), text, Pos(l, c), enc)
                = PositionToOffset(text, Pos(l, c), enc)
  <2>1. l \in Nat /\ c \in Nat
    BY TextInputsAssumption DEF Lines, Columns
  <2> QED
    BY <1>1, <2>1, IndexPositionAgrees
<1>3. ASSUME NEW o \in Columns
      PROVE  IndexOffsetToPosition(NewLineIndex(text), text, o, enc)
                = OffsetToPosition(text, o, enc)
  <2>1. o \in Nat
    BY TextInputsAssumption DEF Columns
  <2> QED
    BY <1>1, <2>1, IndexOffsetAgrees
<1> QED
  BY <1>2, <1>3 DEF IndexAgreesWithScan, text, enc

-----------------------------------------------------------------------------
(* Sequences put end to end *)

\* A function on 1..n is a sequence of n.
LEMMA LengthIs ==
    ASSUME NEW n \in Nat, NEW W, NEW s \in [1..n -> W]
    PROVE  s \in Seq(W) /\ Len(s) = n
  OBVIOUS

Reassociates(a, b, c) == (a \o b) \o c = a \o (b \o c)

\* In which order sequences are joined makes no difference.
LEMMA JoinAssociative ==
    ASSUME NEW V, NEW a \in Seq(V), NEW b \in Seq(V), NEW c \in Seq(V)
    PROVE  Reassociates(a, b, c)
  BY ConcatAssociative DEF Reassociates

\* Flattening adds one sequence after the other.
LEMMA FlatSums ==
    ASSUME NEW V, NEW s \in Seq(Seq(V))
    PROVE  \E f \in [0..Len(s) -> Seq(V)] :
              /\ f[0] = <<>> /\ FlattenSeq(s) = f[Len(s)]
              /\ \A k \in 1..Len(s) : f[k] = f[k - 1] \o s[k]
<1> DEFINE n == Len(s)
           step == [x \in Seq(V) \X Nat |-> IF x[2] \in 1..n THEN x[1] \o s[x[2]] ELSE <<>>]
<1>0. n \in Nat /\ <<>> \in Seq(V) /\ \A k \in 1..n : s[k] \in Seq(V)
  OBVIOUS
<1>1. step \in [Seq(V) \X Nat -> Seq(V)]
  <2> SUFFICES ASSUME NEW x \in Seq(V) \X Nat
               PROVE  (IF x[2] \in 1..n THEN x[1] \o s[x[2]] ELSE <<>>) \in Seq(V)
    OBVIOUS
  <2>1. CASE x[2] \in 1..n
    <3>1. x[1] \in Seq(V) /\ s[x[2]] \in Seq(V)
      BY <1>0, <2>1
    <3> QED
      BY <2>1, <3>1, ConcatProperties
  <2> QED
    BY <1>0, <2>1
<1> HIDE DEF step, n
<1>2. PICK g \in [0..n -> Seq(V)] : Recurs(g, n, <<>>, step)
  BY <1>0, <1>1, Recursion
<1>3. g[0] = <<>> /\ \A i \in 1..n : g[i] = g[i - 1] \o s[i]
  <2>1. ASSUME NEW i \in 1..n PROVE g[i] = g[i - 1] \o s[i]
    <3>1. i - 1 \in 0..n /\ i \in Nat
      BY <1>0
    <3>2. g[i - 1] \in Seq(V)
      BY <1>2, <3>1
    <3>3. g[i] = step[<<g[i - 1], i>>]
      BY <1>2 DEF Recurs
    <3> QED
      BY <3>1, <3>2, <3>3 DEF step
  <2> QED
    BY <1>2, <2>1 DEF Recurs
<1>4. CASE n = 0
  <2>1. s = <<>>
    BY <1>4 DEF n
  <2> QED
    BY <1>2, <1>3, <1>4, <2>1 DEF FlattenSeq, n
<1>5. CASE n # 0
  <2> DEFINE flatten[i \in 1..n] == IF i = 1 THEN s[i] ELSE flatten[i - 1] \o s[i]
             h == [i \in 1..n |-> g[i]]
  <2>1. 1 \in 1..n /\ g[1] = s[1]
    <3>1. 1 \in 1..n /\ 1 - 1 = 0
      BY <1>0, <1>5
    <3>2. g[1] = <<>> \o s[1] /\ s[1] \in Seq(V)
      BY <1>0, <1>3, <3>1
    <3> QED
      BY <3>1, <3>2
  <2>2. h = [i \in 1..n |-> IF i = 1 THEN s[i] ELSE h[i - 1] \o s[i]]
    <3>1. ASSUME NEW i \in 1..n, i # 1 PROVE g[i] = h[i - 1] \o s[i]
      <4>1. i - 1 \in 1..n
        BY <1>0, <3>1
      <4> QED
        BY <1>3, <4>1
    <3> QED
      BY <2>1, <3>1
  <2>3. flatten = [i \in 1..n |-> IF i = 1 THEN s[i] ELSE flatten[i - 1] \o s[i]]
    BY <2>2
  <2>4. FlattenSeq(s) = flatten[n]
    BY <1>5 DEF FlattenSeq, n
  <2> HIDE DEF flatten, h
  <2> DEFINE S == {k \in Nat : k \in 1..n => flatten[k] = g[k]}
  <2>5. 0 \in S
    OBVIOUS
  <2>6. ASSUME NEW k \in Nat, k \in S PROVE k + 1 \in S
    <3> SUFFICES ASSUME k + 1 \in 1..n PROVE flatten[k + 1] = g[k + 1]
      OBVIOUS
    <3>1. CASE k = 0
      BY <2>1, <2>3, <3>1
    <3>2. CASE k # 0
      <4>1. k \in 1..n /\ k + 1 # 1 /\ (k + 1) - 1 = k
        BY <1>0, <3>2
      <4>2. flatten[k] = g[k]
        BY <2>6, <4>1
      <4>3. flatten[k + 1] = flatten[k] \o s[k + 1]
        BY <2>3, <4>1
      <4>4. g[k + 1] = g[k] \o s[k + 1]
        BY <1>3, <4>1
      <4> QED
        BY <4>2, <4>3, <4>4
    <3> QED
      BY <3>1, <3>2
  <2> HIDE DEF S
  <2>7. \A k \in Nat : k \in S
    BY <2>5, <2>6, Induction
  <2>8. flatten[n] = g[n]
    <3>1. n \in 1..n /\ n \in S
      BY <1>0, <1>5, <2>7
    <3> QED
      BY <3>1 DEF S
  <2> QED
    BY <1>2, <1>3, <2>4, <2>8 DEF n
<1> QED
  BY <1>4, <1>5

\* What adds one sequence after the other is the flattened one.
LEMMA FlatUnique ==
    ASSUME NEW V, NEW s \in Seq(Seq(V)), NEW f, f[0] = <<>>,
           \A k \in 1..Len(s) : f[k] = f[k - 1] \o s[k]
    PROVE  FlattenSeq(s) = f[Len(s)]
<1>1. PICK g \in [0..Len(s) -> Seq(V)] :
          /\ g[0] = <<>> /\ FlattenSeq(s) = g[Len(s)]
          /\ \A k \in 1..Len(s) : g[k] = g[k - 1] \o s[k]
  BY FlatSums
<1>2. Len(s) \in Nat
  OBVIOUS
<1> DEFINE S == {k \in Nat : k <= Len(s) => f[k] = g[k]}
<1>3. 0 \in S
  BY <1>1
<1>4. ASSUME NEW k \in Nat, k \in S PROVE k + 1 \in S
  <2> SUFFICES ASSUME k + 1 <= Len(s) PROVE f[k + 1] = g[k + 1]
    OBVIOUS
  <2>1. k + 1 \in 1..Len(s) /\ (k + 1) - 1 = k /\ f[k] = g[k]
    BY <1>2, <1>4
  <2> QED
    BY <1>1, <2>1
<1> HIDE DEF S
<1>5. \A k \in Nat : k \in S
  BY <1>3, <1>4, Induction
<1> QED
  BY <1>1, <1>2, <1>5 DEF S

\* The first k of n sequences, put end to end.
FlatTo(s, k) == FlattenSeq([j \in 1..k |-> s[j]])

\* One more sequence is added at the end.
LEMMA FlatToIs ==
    ASSUME NEW V, NEW n \in Nat, NEW s \in [1..n -> Seq(V)]
    PROVE  /\ \A k \in 0..n : FlatTo(s, k) \in Seq(V)
           /\ FlatTo(s, 0) = <<>> /\ FlatTo(s, n) = FlattenSeq(s)
           /\ \A k \in 1..n : FlatTo(s, k) = FlatTo(s, k - 1) \o s[k]
<1>1. s \in Seq(Seq(V)) /\ Len(s) = n
  OBVIOUS
<1>2. PICK f \in [0..n -> Seq(V)] : f[0] = <<>> /\ \A k \in 1..n : f[k] = f[k - 1] \o s[k]
  BY <1>1, FlatSums
<1>3. ASSUME NEW k \in 0..n PROVE FlatTo(s, k) = f[k]
  <2> DEFINE t == [j \in 1..k |-> s[j]]
  <2>1. t \in [1..k -> Seq(V)] /\ k \in Nat
    OBVIOUS
  <2>2. t \in Seq(Seq(V)) /\ Len(t) = k
    BY <2>1
  <2>3. ASSUME NEW j \in 1..k PROVE f[j] = f[j - 1] \o t[j]
    <3>1. j \in 1..n /\ t[j] = s[j]
      OBVIOUS
    <3> QED
      BY <1>2, <3>1
  <2> HIDE DEF t
  <2>4. FlattenSeq(t) = f[k]
    BY <1>2, <2>2, <2>3, FlatUnique
  <2> QED
    BY <2>4 DEF FlatTo, t
<1>4. FlatTo(s, n) = FlattenSeq(s)
  <2>1. [j \in 1..n |-> s[j]] = s
    OBVIOUS
  <2> QED
    BY <2>1 DEF FlatTo
<1>5. ASSUME NEW k \in 1..n PROVE FlatTo(s, k) = FlatTo(s, k - 1) \o s[k]
  <2>1. k \in 0..n /\ k - 1 \in 0..n
    OBVIOUS
  <2> QED
    BY <1>2, <1>3, <2>1
<1>6. 0 \in 0..n
  OBVIOUS
<1> QED
  BY <1>2, <1>3, <1>4, <1>5, <1>6

\* Empty sequences add nothing.
LEMMA FlatNothing ==
    ASSUME NEW n \in Nat, NEW s \in [1..n -> {<<>>}]
    PROVE  FlattenSeq(s) = <<>>
<1> DEFINE f == [k \in 0..n |-> <<>>]
<1>1. \A j \in 1..n : s[j] = <<>>
  OBVIOUS
<1>2. <<>> \in Seq({})
  OBVIOUS
<1>3. s \in [1..n -> Seq({})]
  BY <1>1, <1>2
<1>4. s \in Seq(Seq({})) /\ Len(s) = n
  BY <1>3
<1>5. f[0] = <<>> /\ \A k \in 1..n : f[k] = f[k - 1] \o s[k]
  <2>1. ASSUME NEW k \in 1..n PROVE f[k] = f[k - 1] \o s[k]
    <3>1. f[k] = <<>> /\ f[k - 1] = <<>> /\ s[k] = <<>>
      BY <1>1
    <3>2. <<>> \o <<>> = <<>>
      OBVIOUS
    <3> HIDE DEF f
    <3> QED
      BY <3>1, <3>2
  <2> QED
    BY <2>1
<1>6. f[n] = <<>>
  OBVIOUS
<1> HIDE DEF f
<1> QED
  BY <1>4, <1>5, <1>6, FlatUnique

\* In t a sequence is in the place of an empty one, e, with only empty ones
\* after it.
PutsLast(s, t, n, e) ==
    /\ s[e] = <<>>
    /\ \A j \in 1..n : j # e => t[j] = s[j]
    /\ \A j \in 1..n : j > e => s[j] = <<>>

IsJoined(whole, a, b) == whole = a \o b

\* It is then added at the end.
LEMMA FlatPut ==
    ASSUME NEW V, NEW n \in Nat, NEW s \in [1..n -> Seq(V)], NEW t \in [1..n -> Seq(V)],
           NEW e \in 1..n, PutsLast(s, t, n, e)
    PROVE  IsJoined(FlattenSeq(t), FlattenSeq(s), t[e])
<1> USE DEF PutsLast
<1>1. /\ \A k \in 0..n : FlatTo(s, k) \in Seq(V) /\ FlatTo(t, k) \in Seq(V)
      /\ FlatTo(s, n) = FlattenSeq(s) /\ FlatTo(t, n) = FlattenSeq(t)
      /\ \A k \in 1..n : /\ FlatTo(s, k) = FlatTo(s, k - 1) \o s[k]
                         /\ FlatTo(t, k) = FlatTo(t, k - 1) \o t[k]
  BY FlatToIs
<1> DEFINE b == FlatTo(s, e - 1)
           f == [k \in 0..n |-> FlatTo(s, k)]
           g == [k \in 0..n |-> FlatTo(t, k)]
           longer == b \o t[e]
           S == {k \in Nat : e <= k /\ k <= n => f[k] = b /\ g[k] = longer}
<1>2. /\ e - 1 \in 0..n /\ n \in 0..n /\ e \in Nat /\ n \in Nat /\ e <= n
      /\ b \in Seq(V) /\ t[e] \in Seq(V)
  BY <1>1
<1>3. FlatTo(t, e - 1) = b
  <2>1. [j \in 1..(e - 1) |-> t[j]] = [j \in 1..(e - 1) |-> s[j]]
    BY <1>2
  <2> QED
    BY <2>1 DEF FlatTo
<1>4. \A x \in Seq(V) : x \o <<>> = x
  OBVIOUS
<1>5. FlatTo(s, e) = b /\ FlatTo(t, e) = b \o t[e]
  BY <1>1, <1>2, <1>3, <1>4
<1>6. longer \in Seq(V)
  BY <1>2, ConcatProperties
<1>11. /\ f[e] = b /\ g[e] = longer /\ f[n] = FlatTo(s, n) /\ g[n] = FlatTo(t, n)
       /\ \A k \in 1..n : f[k] = f[k - 1] \o s[k] /\ g[k] = g[k - 1] \o t[k]
  <2>1. ASSUME NEW k \in 1..n PROVE f[k] = f[k - 1] \o s[k] /\ g[k] = g[k - 1] \o t[k]
    <3>1. k \in 0..n /\ k - 1 \in 0..n
      OBVIOUS
    <3> QED
      BY <1>1, <3>1
  <2>2. e \in 0..n /\ n \in 0..n
    BY <1>2
  <2> QED
    BY <1>5, <2>1, <2>2
<1> HIDE DEF b, f, g, longer
<1>7. 0 \in S
  BY <1>2
<1>8. ASSUME NEW k \in Nat, k \in S PROVE k + 1 \in S
  <2>1. ASSUME e <= k + 1, k + 1 <= n, k + 1 # e
        PROVE  f[k + 1] = b /\ g[k + 1] = longer
    <3>1. k + 1 \in 1..n /\ (k + 1) - 1 = k /\ k + 1 > e /\ e <= k /\ k <= n
      BY <1>2, <2>1
    <3>2. f[k] = b /\ g[k] = longer
      BY <1>8, <3>1
    <3>3. s[k + 1] = <<>> /\ t[k + 1] = <<>>
      BY <2>1, <3>1
    <3>4. f[k + 1] = f[k] \o s[k + 1] /\ g[k + 1] = g[k] \o t[k + 1]
      BY <1>11, <3>1
    <3> QED
      BY <1>2, <1>4, <1>6, <3>2, <3>3, <3>4
  <2>2. ASSUME k + 1 = e PROVE f[k + 1] = b /\ g[k + 1] = longer
    BY <1>11, <2>2
  <2> QED
    BY <2>1, <2>2
<1> HIDE DEF S
<1>9. \A k \in Nat : k \in S
  BY <1>7, <1>8, Induction
<1>10. f[n] = b /\ g[n] = longer
  BY <1>2, <1>9 DEF S
<1> QED
  BY <1>1, <1>10, <1>11 DEF b, longer, IsJoined

-----------------------------------------------------------------------------
(* The edits in their order *)

\* Edit j comes before edit i.
Precedes(resolved, j, i) ==
    \/ resolved[j].start < resolved[i].start
    \/ resolved[j].start = resolved[i].start /\ j < i
EditsBefore(resolved, i) == {j \in DOMAIN resolved : Precedes(resolved, j, i)}
Rank(resolved, i) == Cardinality(EditsBefore(resolved, i))

Starts(resolved, n) == DOMAIN resolved = 1..n /\ \A i \in 1..n : resolved[i].start \in Nat

\* Of two edits one comes before the other, and has less edits before it.
LEMMA RankIs ==
    ASSUME NEW n \in Nat, NEW resolved, Starts(resolved, n)
    PROVE  /\ \A i \in 1..n : Rank(resolved, i) \in 0..(n - 1)
           /\ \A i, j \in 1..n :
                 /\ i # j => Precedes(resolved, i, j) \/ Precedes(resolved, j, i)
                 /\ Precedes(resolved, j, i) => Rank(resolved, j) < Rank(resolved, i)
                 /\ Rank(resolved, i) = Rank(resolved, j) => i = j
                 /\ Rank(resolved, j) < Rank(resolved, i) => Precedes(resolved, j, i)
<1> USE DEF Starts
<1> DEFINE before(i) == EditsBefore(resolved, i)
<1>1. \A i \in 1..n : before(i) \subseteq 1..n /\ i \notin before(i)
  BY DEF EditsBefore, Precedes
<1>2. IsFiniteSet(1..n) /\ Cardinality(1..n) = n
  BY FS_Interval
<1>3. ASSUME NEW i \in 1..n
      PROVE  IsFiniteSet(before(i)) /\ Rank(resolved, i) \in 0..(n - 1)
  <2>1. IsFiniteSet((1..n) \ {i}) /\ Cardinality((1..n) \ {i}) = n - 1
    BY <1>2, FS_RemoveElement
  <2>2. before(i) \in SUBSET ((1..n) \ {i})
    BY <1>1
  <2>3. IsFiniteSet(before(i)) /\ Cardinality(before(i)) <= Cardinality((1..n) \ {i})
    BY <2>1, <2>2, FS_Subset
  <2>4. Cardinality(before(i)) \in Nat
    BY <2>3, FS_CardinalityType
  <2> QED
    BY <2>1, <2>3, <2>4 DEF Rank
<1>4. ASSUME NEW i \in 1..n, NEW j \in 1..n, Precedes(resolved, j, i)
      PROVE  Rank(resolved, j) < Rank(resolved, i)
  <2>1. before(j) \subseteq before(i) /\ j \in before(i) /\ j \notin before(j)
    BY <1>4 DEF EditsBefore, Precedes
  <2>2. before(j) \in SUBSET before(i) /\ before(i) # before(j)
    BY <2>1
  <2>3. /\ Cardinality(before(j)) <= Cardinality(before(i))
        /\ Cardinality(before(i)) # Cardinality(before(j))
    BY <1>3, <2>2, FS_Subset
  <2> QED
    BY <1>3, <2>3 DEF Rank
<1>5. \A i, j \in 1..n : i # j => Precedes(resolved, i, j) \/ Precedes(resolved, j, i)
  BY DEF Precedes
<1> QED
  <2>1. \A i \in 1..n : Rank(resolved, i) \in Nat
    BY <1>3
  <2> QED
    BY <1>3, <1>4, <1>5, <2>1

\* Each place is an edit's, by the number of those before it, and the later
\* comes after the earlier.
IsOrder(resolved, n, order) ==
    /\ \A k \in 1..n : Rank(resolved, order[k]) = k - 1
    /\ \A i \in 1..n : \E k \in 1..n : order[k] = i
    /\ \A k, l \in 1..n : k < l => order[k] # order[l]
    /\ \A k, l \in 1..n : k < l => Precedes(resolved, order[k], order[l])
    /\ SortedEdits(resolved) = [k \in 1..n |-> resolved[order[k]]]

\* The sorted edits are the edits in such an order.
LEMMA SortedIs ==
    ASSUME NEW n \in Nat, NEW resolved, Starts(resolved, n)
    PROVE  \E order \in [1..n -> 1..n] : IsOrder(resolved, n, order)
<1> DEFINE rank == [i \in 1..n |-> Rank(resolved, i)]
           order == [k \in 1..n |-> CHOOSE i \in 1..n : Rank(resolved, i) = k - 1]
<1>1. \A i, j \in 1..n : rank[i] = rank[j] => i = j
  BY RankIs
<1>2. rank \in [1..n -> 0..(n - 1)]
  BY RankIs
<1>3. rank \in Injection(1..n, 0..(n - 1))
  BY <1>1, <1>2 DEF Injection, IsInjective
<1>4. /\ IsFiniteSet(1..n) /\ Cardinality(1..n) = n
      /\ IsFiniteSet(0..(n - 1)) /\ Cardinality(0..(n - 1)) = n
  <2>1. 0 \in Int /\ 1 \in Int /\ n \in Int /\ n - 1 \in Int
    OBVIOUS
  <2>2. /\ IsFiniteSet(0..(n - 1))
        /\ Cardinality(0..(n - 1)) = IF 0 > n - 1 THEN 0 ELSE (n - 1) - 0 + 1
    BY <2>1, FS_Interval
  <2>3. IsFiniteSet(1..n) /\ Cardinality(1..n) = IF 1 > n THEN 0 ELSE n - 1 + 1
    BY <2>1, FS_Interval
  <2> QED
    BY <2>1, <2>2, <2>3
<1>5. rank \in Surjection(1..n, 0..(n - 1))
  BY <1>3, <1>4, FS_Injection
<1>6. ASSUME NEW k \in 1..n PROVE order[k] \in 1..n /\ Rank(resolved, order[k]) = k - 1
  <2>1. k - 1 \in 0..(n - 1)
    OBVIOUS
  <2>2. \E i \in 1..n : rank[i] = k - 1
    BY <1>5, <2>1 DEF Surjection
  <2>3. \E i \in 1..n : Rank(resolved, i) = k - 1
    BY <2>2
  <2> QED
    BY <2>3
<1>7. order \in [1..n -> 1..n]
  BY <1>6
<1>8. SortedEdits(resolved) = [k \in 1..n |-> resolved[order[k]]]
  BY DEF SortedEdits, Rank, EditsBefore, Precedes, Starts
<1> HIDE DEF order, rank
<1>9. ASSUME NEW i \in 1..n PROVE \E k \in 1..n : order[k] = i
  <2>1. Rank(resolved, i) \in 0..(n - 1)
    BY RankIs
  <2>2. Rank(resolved, i) + 1 \in 1..n
    BY <2>1
  <2>3. Rank(resolved, order[Rank(resolved, i) + 1]) = Rank(resolved, i)
    BY <1>6, <2>1, <2>2
  <2>4. order[Rank(resolved, i) + 1] = i
    BY <1>6, <2>2, <2>3, RankIs
  <2> QED
    BY <2>2, <2>4
<1>10. ASSUME NEW k \in 1..n, NEW l \in 1..n, k < l
       PROVE  order[k] # order[l] /\ Precedes(resolved, order[k], order[l])
  <2>1. Rank(resolved, order[k]) < Rank(resolved, order[l])
    BY <1>6, <1>10
  <2>2. order[k] # order[l]
    BY <1>6, <1>10
  <2> QED
    BY <1>6, <2>1, <2>2, RankIs
<1> QED
  <2>1. IsOrder(resolved, n, order)
    BY <1>6, <1>8, <1>9, <1>10 DEF IsOrder
  <2> QED
    BY <1>7, <2>1

\* A permutation that keeps the order of edits at one place sorts to the same.
LEMMA SortedAlike ==
    ASSUME NEW n \in Nat, NEW resolved, Starts(resolved, n),
           NEW p \in Bijection(1..n, 1..n),
           \A i, j \in 1..n : i < j /\ resolved[p[i]].start = resolved[p[j]].start => p[i] < p[j]
    PROVE  SortedEdits([i \in 1..n |-> resolved[p[i]]]) = SortedEdits(resolved)
<1> DEFINE moved == [i \in 1..n |-> resolved[p[i]]]
<1>1. /\ p \in [1..n -> 1..n] /\ \A i, j \in 1..n : p[i] = p[j] => i = j
      /\ \A i \in 1..n : \E j \in 1..n : p[j] = i
  BY DEF Bijection, Injection, Surjection, IsInjective
<1>2. Starts(moved, n)
  BY <1>1 DEF Starts
<1>3. ASSUME NEW i \in 1..n, NEW j \in 1..n
      PROVE  Precedes(moved, j, i) <=> Precedes(resolved, p[j], p[i])
  <2>1. p[i] \in 1..n /\ p[j] \in 1..n /\ moved[i] = resolved[p[i]] /\ moved[j] = resolved[p[j]]
    BY <1>1
  <2>2. resolved[p[i]].start \in Nat /\ resolved[p[j]].start \in Nat
    BY <2>1 DEF Starts
  <2>3. CASE resolved[p[i]].start # resolved[p[j]].start
    BY <2>1, <2>3 DEF Precedes
  <2>4. CASE resolved[p[i]].start = resolved[p[j]].start
    <3>1. j < i => p[j] < p[i]
      BY <2>4
    <3>2. i < j => p[i] < p[j]
      BY <2>4
    <3>3. p[i] = p[j] => i = j
      BY <1>1
    <3>4. j < i <=> p[j] < p[i]
      BY <2>1, <3>1, <3>2, <3>3
    <3> QED
      BY <2>1, <2>2, <2>4, <3>4 DEF Precedes
  <2> QED
    BY <2>3, <2>4
<1>4. ASSUME NEW i \in 1..n PROVE Rank(moved, i) = Rank(resolved, p[i])
  <2> DEFINE A == EditsBefore(moved, i)
             B == EditsBefore(resolved, p[i])
             f == [j \in A |-> p[j]]
  <2>1. A \subseteq 1..n /\ B \subseteq 1..n
    BY <1>2 DEF EditsBefore, Starts
  <2>2. \A j \in 1..n : j \in A <=> p[j] \in B
    BY <1>1, <1>2, <1>3 DEF EditsBefore, Starts
  <2> HIDE DEF A, B
  <2>3. f \in Bijection(A, B)
    <3>1. f \in [A -> B]
      BY <2>1, <2>2
    <3>2. \A a, b \in A : f[a] = f[b] => a = b
      BY <1>1, <2>1
    <3>3. \A b \in B : \E a \in A : f[a] = b
      BY <1>1, <2>1, <2>2
    <3> QED
      BY <3>1, <3>2, <3>3 DEF Bijection, Injection, Surjection, IsInjective
  <2>4. IsFiniteSet(A)
    <3>1. IsFiniteSet(1..n) /\ A \in SUBSET (1..n)
      BY <2>1, FS_Interval
    <3> QED
      BY <3>1, FS_Subset
  <2>5. ExistsBijection(A, B)
    BY <2>3 DEF ExistsBijection
  <2>6. Cardinality(B) = Cardinality(A)
    BY <2>4, <2>5, FS_Bijection
  <2> QED
    BY <2>6 DEF Rank, A, B
<1> HIDE DEF moved
<1>5. PICK o \in [1..n -> 1..n] : IsOrder(moved, n, o)
  BY <1>2, SortedIs
<1>6. PICK q \in [1..n -> 1..n] : IsOrder(resolved, n, q)
  BY SortedIs
<1>7. ASSUME NEW k \in 1..n PROVE moved[o[k]] = resolved[q[k]]
  <2>1. o[k] \in 1..n /\ q[k] \in 1..n /\ p[o[k]] \in 1..n
    BY <1>1
  <2>2. Rank(resolved, p[o[k]]) = Rank(resolved, q[k])
    BY <1>4, <1>5, <1>6, <2>1 DEF IsOrder
  <2>3. p[o[k]] = q[k]
    BY <2>1, <2>2, RankIs
  <2> QED
    BY <2>1, <2>3 DEF moved
<1>8. SortedEdits(moved) = SortedEdits(resolved)
  BY <1>5, <1>6, <1>7 DEF IsOrder
<1> QED
  BY <1>8 DEF moved

-----------------------------------------------------------------------------
(* What a set of edits makes of a text, up to a place *)

IsEdits(edits, n, text, V) ==
    /\ text \in Seq(Char) /\ Char \subseteq V /\ n \in Nat
    /\ edits \in [1..n -> [from : 0..Len(text), to : 0..Len(text), new : Seq(V)]]

Inserts(edits, S, k) ==
    [i \in DOMAIN edits |-> IF i \in S /\ edits[i].from = k THEN edits[i].new ELSE <<>>]
Inserted(edits, S, k) == FlattenSeq(Inserts(edits, S, k))
Kept(text, edits, S, k) ==
    IF \E i \in S : edits[i].from < k /\ k <= edits[i].to THEN <<>> ELSE <<text[k]>>
Pieces(text, edits, S, k) ==
    [j \in 1..k |-> Inserted(edits, S, j - 1) \o Kept(text, edits, S, j)]
EditedUpTo(text, edits, S, k) ==
    FlattenSeq(Pieces(text, edits, S, k)) \o Inserted(edits, S, k)

\* Characters kept and texts inserted.
LEMMA PieceTypes ==
    ASSUME NEW text, NEW V, NEW n, NEW edits, IsEdits(edits, n, text, V),
           NEW S \in SUBSET (1..n)
    PROVE  /\ \A k : Inserts(edits, S, k) \in [1..n -> Seq(V)] /\ Inserted(edits, S, k) \in Seq(V)
           /\ \A k \in 1..Len(text) : Kept(text, edits, S, k) \in Seq(V)
           /\ \A k \in 0..Len(text) : Pieces(text, edits, S, k) \in [1..k -> Seq(V)]
<1>0. text \in Seq(Char) /\ Char \subseteq V /\ n \in Nat
  BY DEF IsEdits
<1> USE <1>0
<1>1. ASSUME NEW k PROVE Inserts(edits, S, k) \in [1..n -> Seq(V)] /\ Inserted(edits, S, k) \in Seq(V)
  <2> DEFINE inserts == Inserts(edits, S, k)
  <2>1. inserts \in [1..n -> Seq(V)]
    BY DEF Inserts, IsEdits
  <2>2. n \in 0..n
    OBVIOUS
  <2> HIDE DEF inserts
  <2>3. FlatTo(inserts, n) \in Seq(V) /\ FlatTo(inserts, n) = FlattenSeq(inserts)
    BY <2>1, <2>2, FlatToIs
  <2> QED
    BY <2>1, <2>3 DEF Inserted, inserts
<1>2. ASSUME NEW k \in 1..Len(text) PROVE Kept(text, edits, S, k) \in Seq(V)
  <2>1. text[k] \in V
    OBVIOUS
  <2> QED
    BY <2>1 DEF Kept
<1>3. ASSUME NEW k \in 0..Len(text) PROVE Pieces(text, edits, S, k) \in [1..k -> Seq(V)]
  <2>1. ASSUME NEW j \in 1..k
        PROVE  Inserted(edits, S, j - 1) \o Kept(text, edits, S, j) \in Seq(V)
    <3>1. j \in 1..Len(text)
      OBVIOUS
    <3> QED
      BY <1>1, <1>2, <3>1, ConcatProperties
  <2> QED
    BY <2>1 DEF Pieces
<1> QED
  BY <1>1, <1>2, <1>3

\* One place further: the character, if it is kept, and what is inserted after
\* it.
StepsOn(text, edits, S, k) ==
    EditedUpTo(text, edits, S, k)
       = (EditedUpTo(text, edits, S, k - 1) \o Kept(text, edits, S, k)) \o Inserted(edits, S, k)

\* Every place up to the text's end is reached by such steps.
LEMMA EditedStep ==
    ASSUME NEW text, NEW V, NEW n, NEW edits, IsEdits(edits, n, text, V),
           NEW S \in SUBSET (1..n)
    PROVE  /\ EditedUpTo(text, edits, S, 0) = Inserted(edits, S, 0)
           /\ \A k \in 0..Len(text) : /\ FlattenSeq(Pieces(text, edits, S, k)) \in Seq(V)
                                      /\ EditedUpTo(text, edits, S, k) \in Seq(V)
           /\ \A k \in 1..Len(text) : StepsOn(text, edits, S, k)
<1>0. text \in Seq(Char) /\ Char \subseteq V /\ n \in Nat
  BY DEF IsEdits
<1> USE <1>0
<1> DEFINE L == Len(text)
           all == Pieces(text, edits, S, L)
<1>1. L \in Nat /\ 0 \in 0..L /\ L \in 0..L
  OBVIOUS
<1>2. all \in [1..L -> Seq(V)]
  BY <1>1, PieceTypes
<1>3. /\ \A k \in 0..L : FlatTo(all, k) \in Seq(V)
      /\ FlatTo(all, 0) = <<>>
      /\ \A k \in 1..L : FlatTo(all, k) = FlatTo(all, k - 1) \o all[k]
  BY <1>1, <1>2, FlatToIs
<1>4. ASSUME NEW k \in 0..L PROVE FlattenSeq(Pieces(text, edits, S, k)) = FlatTo(all, k)
  <2>1. Pieces(text, edits, S, k) = [j \in 1..k |-> all[j]]
    BY <1>1 DEF Pieces
  <2> QED
    BY <2>1 DEF FlatTo
<1>5. \A k : Inserted(edits, S, k) \in Seq(V)
  BY PieceTypes
<1>6. EditedUpTo(text, edits, S, 0) = Inserted(edits, S, 0)
  <2>1. FlattenSeq(Pieces(text, edits, S, 0)) = <<>> /\ Inserted(edits, S, 0) \in Seq(V)
    BY <1>1, <1>3, <1>4, <1>5
  <2>2. \A x \in Seq(V) : <<>> \o x = x
    OBVIOUS
  <2> QED
    BY <2>1, <2>2 DEF EditedUpTo
<1>7. ASSUME NEW k \in 0..L
      PROVE  /\ FlattenSeq(Pieces(text, edits, S, k)) \in Seq(V)
             /\ EditedUpTo(text, edits, S, k) \in Seq(V)
  <2>1. FlattenSeq(Pieces(text, edits, S, k)) \in Seq(V)
    BY <1>3, <1>4
  <2> QED
    BY <1>5, <2>1, ConcatProperties DEF EditedUpTo
<1>8. ASSUME NEW k \in 1..L
      PROVE  EditedUpTo(text, edits, S, k)
                = (EditedUpTo(text, edits, S, k - 1) \o Kept(text, edits, S, k))
                     \o Inserted(edits, S, k)
  <2> DEFINE a == FlattenSeq(Pieces(text, edits, S, k - 1))
             b == Inserted(edits, S, k - 1)
             c == Kept(text, edits, S, k)
             d == Inserted(edits, S, k)
  <2>1. k - 1 \in 0..L /\ k \in 0..L
    BY <1>1
  <2>2. all[k] = b \o c
    BY <1>1 DEF Pieces
  <2>3. FlattenSeq(Pieces(text, edits, S, k)) = a \o (b \o c)
    BY <1>3, <1>4, <2>1, <2>2
  <2>4. a \in Seq(V) /\ b \in Seq(V) /\ c \in Seq(V) /\ d \in Seq(V)
    BY <1>5, <1>7, <2>1, PieceTypes
  <2>5. EditedUpTo(text, edits, S, k) = (a \o (b \o c)) \o d
    BY <2>3 DEF EditedUpTo
  <2>6. EditedUpTo(text, edits, S, k - 1) = a \o b
    BY DEF EditedUpTo
  <2> HIDE DEF a, b, c, d
  <2>7. a \o (b \o c) = (a \o b) \o c
    <3>1. a \in Seq(V) /\ b \in Seq(V) /\ c \in Seq(V)
      BY ONLY <2>4
    <3>2. Reassociates(a, b, c)
      BY ONLY <3>1, JoinAssociative
    <3> QED
      BY ONLY <3>2 DEF Reassociates
  <2> QED
    BY <2>5, <2>6, <2>7 DEF c, d
<1>9. ASSUME NEW k \in 1..L PROVE StepsOn(text, edits, S, k)
  BY <1>8 DEF StepsOn
<1> QED
  BY <1>6, <1>7, <1>9

\* The characters between two places.
Between(text, i, k) == SubSeq(text, i + 1, k)

\* After place f nothing is inserted, and the characters up to t are dropped.
Drops(text, edits, S, f, t) ==
    /\ f \in 0..Len(text) /\ t \in f..Len(text)
    /\ \A k \in (f + 1)..Len(text) :
          /\ Inserted(edits, S, k) = <<>>
          /\ Kept(text, edits, S, k) = IF k <= t THEN <<>> ELSE <<text[k]>>

\* To any place after t: out, and the text from t on.
GoesOn(text, edits, S, out, t) ==
    \A g \in t..Len(text) : EditedUpTo(text, edits, S, g) = out \o Between(text, t, g)

\* The text after t is then added to what there is up to f.
LEMMA EditedTail ==
    ASSUME NEW text, NEW V, NEW n, NEW edits, IsEdits(edits, n, text, V),
           NEW S \in SUBSET (1..n), NEW f, NEW t, Drops(text, edits, S, f, t)
    PROVE  GoesOn(text, edits, S, EditedUpTo(text, edits, S, f), t)
<1>0. text \in Seq(Char) /\ Char \subseteq V /\ n \in Nat
  BY DEF IsEdits
<1> USE <1>0 DEF Drops
<1> DEFINE L == Len(text)
           w == [k \in 0..L |-> EditedUpTo(text, edits, S, k)]
           rest == [k \in 0..L |-> Between(text, t, k)]
           r == [k \in 0..L |-> w[f] \o rest[k]]
           G == {k \in Nat : f <= k /\ k <= L => w[k] = r[k]}
<1>1. L \in Nat /\ f \in 0..L /\ t \in 0..L /\ f \in Nat /\ t \in Nat /\ f <= t
  OBVIOUS
<1>2. w[f] \in Seq(V) /\ \A k \in 0..L : w[k] \in Seq(V)
  BY <1>1, EditedStep
<1>3. \A x \in Seq(V) : x \o <<>> = x
  OBVIOUS
<1>4. ASSUME NEW k \in 0..L, k <= t PROVE rest[k] = <<>>
  BY <1>1, <1>4 DEF Between
<1>5. ASSUME NEW k \in 1..L, k > t PROVE rest[k] = rest[k - 1] \o <<text[k]>>
  <2>1. k - 1 \in 0..L /\ k \in 0..L /\ k - 1 \in t..L
    BY <1>1, <1>5
  <2>2. SubSeq(text, t + 1, k) = SubSeq(text, t + 1, k - 1) \o <<text[k]>>
    <3>1. /\ SubSeq(text, t + 1, k - 1) \in Seq(Char) /\ Len(SubSeq(text, t + 1, k - 1)) = k - 1 - t
          /\ \A j \in 1..(k - 1 - t) : SubSeq(text, t + 1, k - 1)[j] = text[t + j]
      BY <1>1, <2>1, PartIs
    <3>2. /\ SubSeq(text, t + 1, k) \in Seq(Char) /\ Len(SubSeq(text, t + 1, k)) = k - t
          /\ \A j \in 1..(k - t) : SubSeq(text, t + 1, k)[j] = text[t + j]
      <4>1. k \in t..L
        BY <1>1, <1>5
      <4> QED
        BY <1>1, <4>1, PartIs
    <3>3. <<text[k]>> \in Seq(Char) /\ Len(<<text[k]>>) = 1 /\ <<text[k]>>[1] = text[k]
      OBVIOUS
    <3> DEFINE a == SubSeq(text, t + 1, k - 1)
               b == SubSeq(text, t + 1, k)
               c == <<text[k]>>
    <3> HIDE DEF a, b, c
    <3>4. /\ a \o c \in Seq(Char) /\ Len(a \o c) = k - t
          /\ \A j \in 1..(k - t) : (a \o c)[j] = IF j <= k - 1 - t THEN a[j] ELSE c[j - (k - 1 - t)]
      <4>1. Len(a) = k - 1 - t /\ Len(c) = 1 /\ a \in Seq(Char) /\ c \in Seq(Char)
        BY <3>1, <3>3 DEF a, c
      <4>2. Len(a) + Len(c) = k - t
        BY <1>1, <4>1
      <4>3. /\ a \o c \in Seq(Char) /\ Len(a \o c) = Len(a) + Len(c)
            /\ \A j \in 1..(Len(a) + Len(c)) :
                  (a \o c)[j] = IF j <= Len(a) THEN a[j] ELSE c[j - Len(a)]
        BY ONLY <4>1, ConcatProperties
      <4> QED
        BY <4>1, <4>2, <4>3
    <3>5. ASSUME NEW j \in 1..(k - t) PROVE (a \o c)[j] = b[j]
      <4>1. CASE j <= k - 1 - t
        <5>1. j \in 1..(k - 1 - t)
          BY <1>1, <4>1
        <5> QED
          BY <3>1, <3>2, <3>4, <4>1, <5>1 DEF a, b
      <4>2. CASE ~(j <= k - 1 - t)
        <5>1. j = k - t /\ j - (k - 1 - t) = 1 /\ t + j = k
          BY <1>1, <4>2
        <5>2. (a \o c)[j] = c[1]
          BY <3>4, <4>2, <5>1
        <5> QED
          BY <3>2, <3>3, <5>1, <5>2 DEF b, c
      <4> QED
        BY <4>1, <4>2
    <3>6. b \in Seq(Char) /\ Len(b) = k - t
      BY <3>2 DEF b
    <3>7. a \o c = b
      BY <3>4, <3>5, <3>6, SeqEqual
    <3> QED
      BY <3>7 DEF a, b, c
  <2> QED
    BY <2>1, <2>2 DEF Between
<1>6. \A k \in 0..L : rest[k] \in Seq(V)
  <2>1. ASSUME NEW k \in 0..L PROVE Between(text, t, k) \in Seq(V)
    <3>1. CASE k <= t
      BY <1>1, <3>1 DEF Between
    <3>2. CASE k > t
      <4>1. k \in t..L
        BY <1>1, <3>2
      <4>2. SubSeq(text, t + 1, k) \in Seq(Char)
        BY <1>1, <4>1, PartIs
      <4> QED
        BY <4>2 DEF Between
    <3> QED
      BY <3>1, <3>2
  <2> QED
    BY <2>1
<1>7. ASSUME NEW k \in (f + 1)..L
      PROVE  w[k] = (w[k - 1] \o Kept(text, edits, S, k)) \o <<>>
  <2>1. k \in 1..L /\ k \in 0..L /\ k - 1 \in 0..L /\ Inserted(edits, S, k) = <<>>
    BY <1>1
  <2>2. StepsOn(text, edits, S, k)
    BY <2>1, EditedStep
  <2>3. EditedUpTo(text, edits, S, k)
           = (EditedUpTo(text, edits, S, k - 1) \o Kept(text, edits, S, k)) \o <<>>
    BY <2>1, <2>2 DEF StepsOn
  <2> QED
    BY <2>1, <2>3
<1>8. \A k \in 0..L : r[k] = w[f] \o rest[k]
  OBVIOUS
<1> HIDE DEF w, rest, r
<1>9. 0 \in G
  <2>1. ASSUME f = 0 PROVE w[0] = r[0]
    <3>1. rest[0] = <<>>
      BY <1>1, <1>4
    <3> QED
      BY <1>1, <1>2, <1>3, <1>8, <2>1, <3>1
  <2> QED
    BY <1>1, <2>1
<1>10. ASSUME NEW k \in Nat, k \in G PROVE k + 1 \in G
  <2>1. ASSUME k + 1 = f PROVE w[k + 1] = r[k + 1]
    <3>1. rest[f] = <<>>
      BY <1>1, <1>4
    <3> QED
      BY <1>1, <1>2, <1>3, <1>8, <2>1, <3>1
  <2>2. ASSUME f <= k + 1, k + 1 <= L, k + 1 # f PROVE w[k + 1] = r[k + 1]
    <3>1. k \in 0..L /\ k + 1 \in 1..L /\ k + 1 \in 0..L /\ k + 1 \in (f + 1)..L /\ (k + 1) - 1 = k
      BY <1>1, <2>2
    <3>2. w[k] = r[k]
      BY <1>1, <1>10, <3>1
    <3>3. w[k + 1] = (r[k] \o Kept(text, edits, S, k + 1)) \o <<>>
      BY <1>7, <3>1, <3>2
    <3>4. r[k] \in Seq(V) /\ r[k] = w[f] \o rest[k] /\ r[k + 1] = w[f] \o rest[k + 1]
      BY <1>2, <1>8, <3>1, <3>2
    <3>5. CASE k + 1 <= t
      <4>1. Kept(text, edits, S, k + 1) = <<>> /\ rest[k] = <<>> /\ rest[k + 1] = <<>>
        BY <1>1, <1>4, <3>1, <3>5
      <4> QED
        BY <1>3, <3>3, <3>4, <4>1
    <3>6. CASE k + 1 > t
      <4>1. Kept(text, edits, S, k + 1) = <<text[k + 1]>>
        BY <1>1, <3>1, <3>6
      <4>2. rest[k + 1] = rest[k] \o <<text[k + 1]>>
        BY <1>5, <3>1, <3>6
      <4>3. <<text[k + 1]>> \in Seq(V) /\ rest[k] \in Seq(V) /\ r[k] \o <<text[k + 1]>> \in Seq(V)
        <5>1. text[k + 1] \in V
          BY <3>1
        <5>2. <<text[k + 1]>> \in Seq(V)
          BY <5>1
        <5> QED
          BY <1>6, <3>1, <3>4, <5>2, ConcatProperties
      <4>4. w[k + 1] = r[k] \o <<text[k + 1]>>
        BY <1>3, <3>3, <4>1, <4>3
      <4>5. (w[f] \o rest[k]) \o <<text[k + 1]>> = w[f] \o (rest[k] \o <<text[k + 1]>>)
        <5> DEFINE a == w[f] b == rest[k] c == <<text[k + 1]>>
        <5>1. a \in Seq(V) /\ b \in Seq(V) /\ c \in Seq(V)
          BY <1>2, <4>3
        <5> HIDE DEF a, b, c
        <5>2. Reassociates(a, b, c)
          BY ONLY <5>1, JoinAssociative
        <5>3. (a \o b) \o c = a \o (b \o c)
          BY ONLY <5>2 DEF Reassociates
        <5> QED
          BY <5>3 DEF a, b, c
      <4> QED
        BY <3>4, <4>2, <4>4, <4>5
    <3> QED
      BY <1>1, <3>5, <3>6
  <2> QED
    BY <2>1, <2>2
<1> HIDE DEF G
<1>11. \A k \in Nat : k \in G
  BY <1>9, <1>10, Induction
<1>12. ASSUME NEW g \in t..L PROVE w[g] = r[g]
  BY <1>1, <1>11 DEF G
<1>13. ASSUME NEW g \in t..L
       PROVE  EditedUpTo(text, edits, S, g)
                 = EditedUpTo(text, edits, S, f) \o Between(text, t, g)
  <2>1. g \in 0..L /\ f \in 0..L
    BY <1>1
  <2> QED
    BY <1>12, <2>1 DEF w, r, rest
<1> QED
  BY <1>13 DEF GoesOn

-----------------------------------------------------------------------------
(* One edit more *)

\* Without edits the text stays.
LEMMA EditedNone ==
    ASSUME NEW text, NEW V, NEW n, NEW edits, IsEdits(edits, n, text, V)
    PROVE  GoesOn(text, edits, {}, <<>>, 0)
<1>00. text \in Seq(Char) /\ Char \subseteq V /\ n \in Nat
  BY DEF IsEdits
<1> USE <1>00
<1>0. 0 \in 0..Len(text) /\ {} \in SUBSET (1..n) /\ 0 + 1 = 1 /\ 0 \in Nat /\ Len(text) \in Nat
  OBVIOUS
<1>1. \A k : Inserted(edits, {}, k) = <<>>
  <2>1. ASSUME NEW k PROVE Inserted(edits, {}, k) = <<>>
    <3>1. Inserts(edits, {}, k) \in [1..n -> {<<>>}]
      BY DEF Inserts, IsEdits
    <3> QED
      BY <3>1, FlatNothing DEF Inserted
  <2> QED
    BY <2>1
<1>2. Drops(text, edits, {}, 0, 0)
  BY <1>0, <1>1 DEF Kept, Drops
<1>3. GoesOn(text, edits, {}, EditedUpTo(text, edits, {}, 0), 0)
  BY <1>0, <1>2, EditedTail
<1>4. EditedUpTo(text, edits, {}, 0) = <<>>
  BY <1>0, <1>1, EditedStep
<1> QED
  BY <1>3, <1>4

\* An edit that begins where the others have ended, the last of those that begin
\* there: what they make up to its place, its text, and the text after it.
LEMMA EditedMore ==
    ASSUME NEW text, NEW V, NEW n, NEW edits, IsEdits(edits, n, text, V),
           NEW S \in SUBSET (1..n), NEW e \in 1..n, e \notin S,
           edits[e].from <= edits[e].to,
           \A i \in S : /\ edits[i].from <= edits[i].to /\ edits[i].to <= edits[e].from
                        /\ edits[i].from = edits[e].from => i < e
    PROVE  GoesOn(text, edits, S \cup {e},
                  EditedUpTo(text, edits, S, edits[e].from) \o edits[e].new, edits[e].to)
<1>00. text \in Seq(Char) /\ Char \subseteq V /\ n \in Nat
  BY DEF IsEdits
<1> USE <1>00
<1> DEFINE T == S \cup {e}
           f == edits[e].from
           t == edits[e].to
           new == edits[e].new
           L == Len(text)
<1>0. /\ T \in SUBSET (1..n) /\ L \in Nat /\ f \in 0..L /\ t \in f..L /\ f \in Nat /\ t \in Nat
      /\ new \in Seq(V) /\ S \subseteq 1..n
      /\ \A i \in 1..n : edits[i].from \in Nat /\ edits[i].to \in Nat
  BY DEF IsEdits
<1>1. /\ \A i \in S : edits[i].from <= edits[i].to /\ edits[i].to <= f /\ edits[i].from <= f
      /\ \A i \in S : edits[i].from = f => i < e
  BY <1>0
<1>2. DOMAIN edits = 1..n
  BY DEF IsEdits
<1> HIDE DEF f, t, new, T
<1>3. ASSUME NEW k, k # f PROVE Inserts(edits, T, k) = Inserts(edits, S, k)
  BY <1>2, <1>3 DEF Inserts, T, f
<1>4. ASSUME NEW k \in 1..L, k <= f PROVE Kept(text, edits, T, k) = Kept(text, edits, S, k)
  <2>1. ~(edits[e].from < k)
    BY <1>0, <1>4 DEF f
  <2> QED
    BY <2>1 DEF Kept, T
<1>5. Pieces(text, edits, T, f) = Pieces(text, edits, S, f)
  <2>1. ASSUME NEW j \in 1..f
        PROVE  Inserted(edits, T, j - 1) \o Kept(text, edits, T, j)
                  = Inserted(edits, S, j - 1) \o Kept(text, edits, S, j)
    <3>1. j \in 1..L /\ j <= f /\ j - 1 # f
      BY <1>0
    <3> QED
      BY <1>3, <1>4, <3>1 DEF Inserted
  <2> QED
    BY <2>1 DEF Pieces
<1>6. Inserted(edits, T, f) = Inserted(edits, S, f) \o new
  <2> DEFINE s == Inserts(edits, S, f)
             u == Inserts(edits, T, f)
  <2>1. /\ s \in [1..n -> Seq(V)] /\ u \in [1..n -> Seq(V)]
        /\ n \in Nat /\ e \in 1..n
    BY <1>0, PieceTypes
  <2>2. s[e] = <<>> /\ u[e] = new
    BY <1>2 DEF Inserts, T, f, new
  <2>3. \A j \in 1..n : j # e => u[j] = s[j]
    BY <1>2 DEF Inserts, T
  <2>4. \A j \in 1..n : j > e => s[j] = <<>>
    <3>1. ASSUME NEW j \in 1..n, j > e, j \in S, edits[j].from = f PROVE FALSE
      <4>1. j < e
        BY <1>1, <3>1
      <4> QED
        BY <3>1, <4>1
    <3> QED
      BY <1>2, <3>1 DEF Inserts
  <2> HIDE DEF s, u
  <2>6. PutsLast(s, u, n, e)
    BY <2>2, <2>3, <2>4 DEF PutsLast
  <2>7. IsJoined(FlattenSeq(u), FlattenSeq(s), u[e])
    BY ONLY <2>1, <2>6, FlatPut
  <2>5. FlattenSeq(u) = FlattenSeq(s) \o u[e]
    BY <2>7 DEF IsJoined
  <2> QED
    BY <2>2, <2>5 DEF Inserted, s, u
<1>7. EditedUpTo(text, edits, T, f) = EditedUpTo(text, edits, S, f) \o new
  <2> DEFINE a == FlattenSeq(Pieces(text, edits, S, f))
             b == Inserted(edits, S, f)
  <2>1. a \in Seq(V) /\ b \in Seq(V) /\ new \in Seq(V)
    BY <1>0, PieceTypes, EditedStep
  <2>2. EditedUpTo(text, edits, T, f) = a \o (b \o new) /\ EditedUpTo(text, edits, S, f) = a \o b
    BY <1>5, <1>6 DEF EditedUpTo
  <2> HIDE DEF a, b
  <2>4. Reassociates(a, b, new)
    BY ONLY <2>1, JoinAssociative
  <2>3. (a \o b) \o new = a \o (b \o new)
    BY ONLY <2>4 DEF Reassociates
  <2> QED
    BY <2>2, <2>3
<1>8. \A k \in (f + 1)..L : Inserted(edits, T, k) = <<>>
  <2>1. ASSUME NEW k \in (f + 1)..L PROVE Inserted(edits, T, k) = <<>>
    <3>1. k > f
      BY <1>0
    <3>2. ASSUME NEW i \in S PROVE edits[i].from # k
      <4>1. edits[i].from <= f /\ edits[i].from \in Nat
        BY <1>0, <1>1
      <4> QED
        BY <1>0, <3>1, <4>1
    <3>3. Inserts(edits, S, k) \in [1..n -> {<<>>}]
      BY <1>2, <3>2 DEF Inserts
    <3>4. Inserts(edits, T, k) = Inserts(edits, S, k)
      BY <1>0, <1>3, <3>1
    <3> QED
      BY <3>3, <3>4, FlatNothing DEF Inserted
  <2> QED
    BY <2>1
<1>9. Drops(text, edits, T, f, t)
  <2>1. ASSUME NEW k \in (f + 1)..L
        PROVE  (\E i \in T : edits[i].from < k /\ k <= edits[i].to) <=> k <= t
    <3>1. k > f
      BY <1>0
    <3>2. \A i \in S : ~(k <= edits[i].to)
      BY <1>0, <1>1, <3>1
    <3>3. edits[e].from < k /\ t = edits[e].to /\ e \in T
      BY <3>1, <1>0 DEF f, t, T
    <3>4. \A i \in T : i \in S \/ i = e
      BY DEF T
    <3> QED
      BY <3>2, <3>3, <3>4
  <2> QED
    BY <1>0, <1>8, <2>1 DEF Kept, Drops
<1>10. GoesOn(text, edits, T, EditedUpTo(text, edits, T, f), t)
  BY <1>0, <1>9, EditedTail
<1> QED
  BY <1>7, <1>10 DEF T, f, t, new

-----------------------------------------------------------------------------
(* The loop of apply_edits_with *)

\* An edit with its places as offsets.
Resolve(text, e) ==
    [start |-> Bytes(Prefix(text, e.from)), end |-> Bytes(Prefix(text, e.to)), newText |-> e.new]

\* An order of the edits in which each begins where the ones before have ended.
InOrder(edits, n, order) ==
    /\ order \in [1..n -> 1..n]
    /\ \A i \in 1..n : \E k \in 1..n : order[k] = i
    /\ \A k \in 1..n : edits[order[k]].from <= edits[order[k]].to
    /\ \A k, l \in 1..n : k < l =>
          /\ order[k] # order[l]
          /\ edits[order[k]].to <= edits[order[l]].from
          /\ edits[order[k]].from = edits[order[l]].from => order[k] < order[l]

\* The first k edits; the text up to the end of the k-th, and the place after it.
First(order, k) == {order[j] : j \in 1..k}
OutAfter(text, edits, order, k) ==
    IF k = 0 THEN <<>>
    ELSE EditedUpTo(text, edits, First(order, k - 1), edits[order[k]].from) \o edits[order[k]].new
PlaceAfter(edits, order, k) == IF k = 0 THEN 0 ELSE edits[order[k]].to

\* After k edits the rest of the text follows.
LEMMA AfterEdits ==
    ASSUME NEW text, NEW V, NEW n, NEW edits, IsEdits(edits, n, text, V),
           NEW order, InOrder(edits, n, order), NEW k \in 0..n
    PROVE  /\ PlaceAfter(edits, order, k) \in 0..Len(text)
           /\ GoesOn(text, edits, First(order, k), OutAfter(text, edits, order, k),
                     PlaceAfter(edits, order, k))
<1>0. n \in Nat /\ k \in Nat /\ text \in Seq(Char)
  BY DEF IsEdits
<1>01. order \in [1..n -> 1..n]
  BY DEF InOrder
<1>02. \A j, l \in 1..n : j < l =>
          /\ order[j] # order[l]
          /\ edits[order[j]].to <= edits[order[l]].from
          /\ edits[order[j]].from = edits[order[l]].from => order[j] < order[l]
  BY DEF InOrder
<1>03. \A j \in 1..n : edits[order[j]].from <= edits[order[j]].to
  BY DEF InOrder
<1>1. CASE k = 0
  <2>1. First(order, 0) = {}
    BY DEF First
  <2>2. GoesOn(text, edits, {}, <<>>, 0)
    BY EditedNone
  <2>3. OutAfter(text, edits, order, k) = <<>> /\ PlaceAfter(edits, order, k) = 0
    BY <1>1 DEF OutAfter, PlaceAfter
  <2>4. 0 \in 0..Len(text)
    BY <1>0
  <2> QED
    BY <1>1, <2>1, <2>2, <2>3, <2>4
<1>2. CASE k # 0
  <2> DEFINE S == First(order, k - 1)
             e == order[k]
  <2>1. k \in 1..n /\ k - 1 \in 0..n /\ \A j \in 1..(k - 1) : j \in 1..n /\ j < k
    BY <1>0, <1>2
  <2>20. \A j \in 1..(k - 1) : order[j] \in 1..n
    BY <1>01, <2>1
  <2>21. \A i \in S : i \in 1..n
    BY <2>20 DEF First
  <2>2. e \in 1..n /\ S \in SUBSET (1..n)
    BY <1>01, <2>1, <2>21
  <2>3. e \notin S
    BY <1>02, <2>1 DEF First
  <2>4. edits[e].from <= edits[e].to
    BY <1>03, <2>1
  <2>5. \A i \in S : /\ edits[i].from <= edits[i].to /\ edits[i].to <= edits[e].from
                     /\ edits[i].from = edits[e].from => i < e
    <3>1. ASSUME NEW j \in 1..(k - 1)
          PROVE  /\ edits[order[j]].from <= edits[order[j]].to
                 /\ edits[order[j]].to <= edits[order[k]].from
                 /\ edits[order[j]].from = edits[order[k]].from => order[j] < order[k]
      BY <1>02, <1>03, <2>1
    <3> QED
      BY <3>1 DEF First
  <2>6. First(order, k) = S \cup {e}
    <3>1. \A j : j \in 1..k <=> j \in 1..(k - 1) \/ j = k
      BY <2>1, <1>0
    <3> QED
      BY <3>1 DEF First
  <2>7. edits[e].to \in 0..Len(text)
    BY <2>2 DEF IsEdits
  <2> HIDE DEF S, e
  <2>8. GoesOn(text, edits, S \cup {e}, EditedUpTo(text, edits, S, edits[e].from) \o edits[e].new,
               edits[e].to)
    BY <2>2, <2>3, <2>4, <2>5, EditedMore
  <2> QED
    BY <1>2, <2>6, <2>7, <2>8 DEF OutAfter, PlaceAfter, S, e
<1> QED
  BY <1>1, <1>2

\* Copying the text up to each edit, its new text, and the rest at the end makes
\* what all edits at once make.
LEMMA SplicedIs ==
    ASSUME NEW text, NEW V, NEW n, NEW edits, IsEdits(edits, n, text, V),
           NEW order, InOrder(edits, n, order)
    PROVE  Spliced(text, [k \in 1..n |-> Resolve(text, edits[order[k]])])
              = EditedUpTo(text, edits, 1..n, Len(text))
<1> DEFINE sorted == [k \in 1..n |-> Resolve(text, edits[order[k]])]
           built[k \in 0..n] ==
               IF k = 0 THEN [out |-> <<>>, cursor |-> 0]
               ELSE [out |-> built[k - 1].out \o Slice(text, built[k - 1].cursor, sorted[k].start)
                                              \o sorted[k].newText,
                     cursor |-> sorted[k].end]
           out(k) == OutAfter(text, edits, order, k)
           place(k) == PlaceAfter(edits, order, k)
           g == [k \in 0..n |-> [out |-> out(k), cursor |-> Bytes(Prefix(text, place(k)))]]
<1>0. n \in Nat /\ text \in Seq(Char) /\ Len(text) \in Nat /\ n \in 0..n
  BY DEF IsEdits
<1>01. order \in [1..n -> 1..n]
  BY DEF InOrder
<1>1. Len(sorted) = n
  <2> DEFINE W == {Resolve(text, edits[order[k]]) : k \in 1..n}
  <2>2. sorted \in [1..n -> W]
    OBVIOUS
  <2> HIDE DEF W, sorted
  <2> QED
    BY <1>0, <2>2, LengthIs
<1>2. Spliced(text, sorted) = built[n].out \o Slice(text, built[n].cursor, Bytes(text))
  BY <1>1 DEF Spliced
<1>3. ASSUME NEW k \in 1..n
      PROVE  /\ k - 1 \in 0..n /\ k \in 0..n /\ order[k] \in 1..n
             /\ edits[order[k]].from \in place(k - 1)..Len(text)
             /\ edits[order[k]].to \in 0..Len(text)
             /\ place(k) = edits[order[k]].to
             /\ out(k) = EditedUpTo(text, edits, First(order, k - 1), edits[order[k]].from)
                            \o edits[order[k]].new
             /\ sorted[k] = Resolve(text, edits[order[k]])
  <2>1. k - 1 \in 0..n /\ k \in 0..n /\ order[k] \in 1..n /\ k # 0
    BY <1>0, <1>01
  <2>2. edits[order[k]].from \in 0..Len(text) /\ edits[order[k]].to \in 0..Len(text)
    BY <2>1 DEF IsEdits
  <2>3. place(k - 1) <= edits[order[k]].from
    <3>1. CASE k - 1 = 0
      BY <2>2, <3>1 DEF PlaceAfter
    <3>2. CASE k - 1 # 0
      <4>1. k - 1 \in 1..n /\ k - 1 < k
        BY <1>0, <3>2
      <4>2. edits[order[k - 1]].to <= edits[order[k]].from
        BY <4>1 DEF InOrder
      <4> QED
        BY <3>2, <4>2 DEF PlaceAfter
    <3> QED
      BY <3>1, <3>2
  <2>4. place(k - 1) \in 0..Len(text)
    BY <2>1, AfterEdits
  <2>5. place(k) = edits[order[k]].to
    BY <2>1 DEF PlaceAfter
  <2>6. out(k) = EditedUpTo(text, edits, First(order, k - 1), edits[order[k]].from)
                    \o edits[order[k]].new
    BY <2>1 DEF OutAfter
  <2>7. edits[order[k]].from \in place(k - 1)..Len(text)
    <3> HIDE DEF place
    <3> QED
      BY <2>2, <2>3, <2>4
  <2> QED
    BY <2>1, <2>2, <2>5, <2>6, <2>7
<1>4. ASSUME NEW k \in 1..n
      PROVE  EditedUpTo(text, edits, First(order, k - 1), edits[order[k]].from)
                = out(k - 1) \o Slice(text, Bytes(Prefix(text, place(k - 1))), sorted[k].start)
  <2>1. /\ place(k - 1) \in 0..Len(text)
        /\ GoesOn(text, edits, First(order, k - 1), out(k - 1), place(k - 1))
    BY <1>3, AfterEdits
  <2>2. sorted[k].start = Bytes(Prefix(text, edits[order[k]].from))
    BY DEF Resolve
  <2>3. Slice(text, Bytes(Prefix(text, place(k - 1))), sorted[k].start)
           = Between(text, place(k - 1), edits[order[k]].from)
    <3> DEFINE i == place(k - 1)
               j == edits[order[k]].from
    <3>1. i \in 0..Len(text) /\ j \in 0..Len(text)
      <4>1. edits[order[k]].from \in 0..Len(text)
        BY <1>3 DEF IsEdits
      <4> QED
        BY <2>1, <4>1
    <3> HIDE DEF i, j
    <3>2. Slice(text, Bytes(Prefix(text, i)), Bytes(Prefix(text, j))) = SubSeq(text, i + 1, j)
      BY <1>0, <3>1, SliceBetween
    <3> QED
      BY <2>2, <3>2 DEF Between, i, j
  <2>4. \A i \in place(k - 1)..Len(text) :
           EditedUpTo(text, edits, First(order, k - 1), i) = out(k - 1) \o Between(text, place(k - 1), i)
    BY <2>1 DEF GoesOn
  <2>5. edits[order[k]].from \in place(k - 1)..Len(text)
    BY <1>3
  <2> QED
    BY ONLY <2>3, <2>4, <2>5
<1>5. g[0] = [out |-> <<>>, cursor |-> 0]
  <2>1. Bytes(Prefix(text, 0)) = 0
    BY <1>0, EndPlaces
  <2> QED
    BY <1>0, <2>1 DEF OutAfter, PlaceAfter
<1>6. ASSUME NEW k \in 1..n
      PROVE  g[k] = [out |-> g[k - 1].out \o Slice(text, g[k - 1].cursor, sorted[k].start)
                                          \o sorted[k].newText,
                     cursor |-> sorted[k].end]
  <2>1. g[k - 1].out = out(k - 1) /\ g[k - 1].cursor = Bytes(Prefix(text, place(k - 1)))
    BY <1>3
  <2>2. sorted[k].newText = edits[order[k]].new /\ sorted[k].end = Bytes(Prefix(text, place(k)))
    BY <1>3 DEF Resolve
  <2>3. g[k] = [out |-> out(k), cursor |-> Bytes(Prefix(text, place(k)))]
    BY <1>3
  <2>4. out(k) = out(k - 1) \o Slice(text, Bytes(Prefix(text, place(k - 1))), sorted[k].start)
                             \o edits[order[k]].new
    BY <1>3, <1>4
  <2> QED
    BY ONLY <2>1, <2>2, <2>3, <2>4
<1> HIDE DEF g, sorted
<1>7. g = [k \in 0..n |->
              IF k = 0 THEN [out |-> <<>>, cursor |-> 0]
              ELSE [out |-> g[k - 1].out \o Slice(text, g[k - 1].cursor, sorted[k].start)
                                         \o sorted[k].newText,
                    cursor |-> sorted[k].end]]
  <2>1. \A k \in 0..n : k # 0 => k \in 1..n
    BY <1>0
  <2> DEFINE next(k) == [out |-> g[k - 1].out \o Slice(text, g[k - 1].cursor, sorted[k].start)
                                              \o sorted[k].newText,
                         cursor |-> sorted[k].end]
  <2>2. \A k \in 1..n : g[k] = next(k)
    BY <1>6
  <2> HIDE DEF next
  <2>3. g = [k \in 0..n |-> g[k]]
    BY DEF g
  <2>4. \A k \in 0..n : g[k] = IF k = 0 THEN [out |-> <<>>, cursor |-> 0] ELSE next(k)
    BY <1>5, <2>1, <2>2
  <2>5. g = [k \in 0..n |-> IF k = 0 THEN [out |-> <<>>, cursor |-> 0] ELSE next(k)]
    BY <2>3, <2>4
  <2> QED
    BY <2>5 DEF next
<1>8. built = [k \in 0..n |->
                  IF k = 0 THEN [out |-> <<>>, cursor |-> 0]
                  ELSE [out |-> built[k - 1].out
                                   \o Slice(text, built[k - 1].cursor, sorted[k].start)
                                   \o sorted[k].newText,
                        cursor |-> sorted[k].end]]
  BY <1>7
<1> HIDE DEF built
<1> DEFINE S == {k \in Nat : k \in 0..n => built[k] = g[k]}
<1>9. 0 \in S
  BY <1>0, <1>5, <1>8
<1>10. ASSUME NEW k \in Nat, k \in S PROVE k + 1 \in S
  <2> SUFFICES ASSUME k + 1 \in 0..n PROVE built[k + 1] = g[k + 1]
    OBVIOUS
  <2>1. k \in 0..n /\ k + 1 \in 1..n /\ (k + 1) - 1 = k /\ built[k] = g[k]
    BY <1>0, <1>10
  <2>2. k + 1 \in 0..n /\ k + 1 # 0
    BY <2>1
  <2>3. built[k + 1]
           = [out |-> built[k].out \o Slice(text, built[k].cursor, sorted[k + 1].start)
                                   \o sorted[k + 1].newText,
              cursor |-> sorted[k + 1].end]
    BY <1>8, <2>1, <2>2, Zenon
  <2>4. g[k + 1]
           = [out |-> g[k].out \o Slice(text, g[k].cursor, sorted[k + 1].start)
                               \o sorted[k + 1].newText,
              cursor |-> sorted[k + 1].end]
    BY <1>6, <2>1, Zenon
  <2> QED
    BY <2>1, <2>3, <2>4, Zenon
<1> HIDE DEF S
<1>11. \A k \in Nat : k \in S
  BY <1>9, <1>10, Induction
<1>12. built[n].out = out(n) /\ built[n].cursor = Bytes(Prefix(text, place(n)))
  <2>1. built[n] = g[n]
    BY <1>0, <1>11 DEF S
  <2>2. g[n] = [out |-> out(n), cursor |-> Bytes(Prefix(text, place(n)))]
    BY <1>0 DEF g
  <2> QED
    BY <2>1, <2>2
<1>13. /\ place(n) \in 0..Len(text) /\ Len(text) \in place(n)..Len(text)
       /\ GoesOn(text, edits, First(order, n), out(n), place(n))
  BY <1>0, AfterEdits
<1>14. Slice(text, Bytes(Prefix(text, place(n))), Bytes(text)) = Between(text, place(n), Len(text))
  <2>1. Bytes(Prefix(text, Len(text))) = Bytes(text)
    BY <1>0, EndPlaces
  <2> DEFINE i == place(n)
             j == Len(text)
  <2>2. i \in 0..Len(text) /\ j \in 0..Len(text)
    BY <1>0, <1>13
  <2> HIDE DEF i, j
  <2>3. Slice(text, Bytes(Prefix(text, i)), Bytes(Prefix(text, j))) = SubSeq(text, i + 1, j)
    BY <1>0, <2>2, SliceBetween
  <2> QED
    BY <2>1, <2>3 DEF Between, i, j
<1>15. First(order, n) = 1..n
  BY DEF First, InOrder
<1> QED
  BY <1>2, <1>12, <1>13, <1>14, <1>15 DEF GoesOn, sorted

-----------------------------------------------------------------------------
(* The answer of apply_edits_with *)

Resolved(text, edits, n) == [i \in 1..n |-> Resolve(text, edits[i])]

\* The answer, from the edits with their places as offsets.
Refused(resolved, sorted) ==
    \/ \E i \in DOMAIN resolved : resolved[i].start > resolved[i].end
    \/ \E k \in 1..(Len(sorted) - 1) : Overlaps(sorted[k + 1].start, sorted[k].end)
Answer(text, resolved) ==
    IF Refused(resolved, SortedEdits(resolved)) THEN EditError
    ELSE [ok |-> TRUE, text |-> Spliced(text, SortedEdits(resolved))]

\* The index gives the position of a place the offset of that place.
LEMMA PlaceResolved ==
    ASSUME NEW text \in Seq(Char), NEW k \in 0..Len(text), NEW enc \in Encodings
    PROVE  IndexPositionToOffset(NewLineIndex(text), text, PositionAt(text, enc, k), enc)
              = Bytes(Prefix(text, k))
<1> DEFINE line == LineOf(text, k)
           column == Size(SubSeq(text, LineStart(text, line) + 1, k), enc)
<1>1. PositionAt(text, enc, k) = Pos(line, column)
  BY PositionAtIs
<1>2. line \in Nat
  BY LineSteps
<1>3. column \in Nat
  <2>1. LineStart(text, line) \in 0..Len(text) /\ k \in LineStart(text, line)..Len(text)
    BY PlaceOnLine
  <2>2. SubSeq(text, LineStart(text, line) + 1, k) \in Seq(Char)
    BY <2>1, PartIs
  <2> QED
    BY <2>2, SizeType
<1>4. PositionToOffset(text, PositionAt(text, enc, k), enc) = Bytes(Prefix(text, k))
  BY PositionOffset
<1> HIDE DEF line, column
<1>5. IndexPositionToOffset(NewLineIndex(text), text, Pos(line, column), enc)
         = PositionToOffset(text, Pos(line, column), enc)
  BY <1>2, <1>3, IndexPositionAgrees
<1> QED
  BY <1>1, <1>4, <1>5

\* So apply_edits answers from the places that are meant.
LEMMA AppliedIs ==
    ASSUME NEW text, NEW V, NEW n, NEW edits, IsEdits(edits, n, text, V), NEW enc \in Encodings
    PROVE  ApplyEdits(text, [i \in DOMAIN edits |-> AsEdit(text, enc, edits[i])], enc)
              = Answer(text, Resolved(text, edits, n))
<1> DEFINE given == [i \in DOMAIN edits |-> AsEdit(text, enc, edits[i])]
           offset(pos) == IndexPositionToOffset(NewLineIndex(text), text, pos, enc)
           resolved == [i \in DOMAIN given |->
                           [start |-> offset(given[i].range.start), end |-> offset(given[i].range.end),
                            newText |-> given[i].newText]]
<1>1. DOMAIN edits = 1..n /\ text \in Seq(Char)
  BY DEF IsEdits
<1>2. ASSUME NEW i \in 1..n
      PROVE  /\ given[i].range.start = PositionAt(text, enc, edits[i].from)
             /\ given[i].range.end = PositionAt(text, enc, edits[i].to)
             /\ given[i].newText = edits[i].new
  BY <1>1 DEF AsEdit
<1>3. ASSUME NEW i \in 1..n
      PROVE  [start |-> offset(given[i].range.start), end |-> offset(given[i].range.end),
              newText |-> given[i].newText] = Resolve(text, edits[i])
  <2>1. edits[i].from \in 0..Len(text) /\ edits[i].to \in 0..Len(text)
    BY DEF IsEdits
  <2>2. /\ offset(PositionAt(text, enc, edits[i].from)) = Bytes(Prefix(text, edits[i].from))
        /\ offset(PositionAt(text, enc, edits[i].to)) = Bytes(Prefix(text, edits[i].to))
    BY <1>1, <2>1, PlaceResolved
  <2> QED
    BY <1>2, <2>2 DEF Resolve
<1>4. DOMAIN given = 1..n
  BY <1>1
<1>5. resolved = Resolved(text, edits, n)
  BY <1>3, <1>4 DEF Resolved
<1>6. ApplyEdits(text, given, enc)
         = IF \/ \E i \in DOMAIN given : resolved[i].start > resolved[i].end
              \/ \E k \in 1..(Len(SortedEdits(resolved)) - 1) :
                    Overlaps(SortedEdits(resolved)[k + 1].start, SortedEdits(resolved)[k].end)
           THEN EditError
           ELSE [ok |-> TRUE, text |-> Spliced(text, SortedEdits(resolved))]
  BY DEF ApplyEdits
<1>7. DOMAIN resolved = DOMAIN given
  OBVIOUS
<1> HIDE DEF resolved, given
<1>8. ApplyEdits(text, given, enc) = Answer(text, resolved)
  BY <1>6, <1>7 DEF Answer, Refused
<1> QED
  BY <1>5, <1>8 DEF given

\* What there is to know of the places and their offsets.
LEMMA ResolvedIs ==
    ASSUME NEW text, NEW V, NEW n, NEW edits, IsEdits(edits, n, text, V)
    PROVE  /\ n \in Nat /\ DOMAIN edits = 1..n /\ Starts(Resolved(text, edits, n), n)
           /\ \A i \in 1..n : /\ edits[i].from \in Nat /\ edits[i].to \in Nat
                              /\ Resolved(text, edits, n)[i] = Resolve(text, edits[i])
           /\ \A i, j \in 1..n :
                 /\ Resolve(text, edits[i]).start <= Resolve(text, edits[j]).start
                       <=> edits[i].from <= edits[j].from
                 /\ Resolve(text, edits[i]).start < Resolve(text, edits[j]).start
                       <=> edits[i].from < edits[j].from
                 /\ Resolve(text, edits[i]).start = Resolve(text, edits[j]).start
                       <=> edits[i].from = edits[j].from
                 /\ Resolve(text, edits[i]).start > Resolve(text, edits[j]).end
                       <=> edits[i].from > edits[j].to
                 /\ Resolve(text, edits[i]).start < Resolve(text, edits[j]).end
                       <=> edits[i].from < edits[j].to
<1>1. n \in Nat /\ DOMAIN edits = 1..n /\ text \in Seq(Char)
  BY DEF IsEdits
<1>2. ASSUME NEW i \in 1..n
      PROVE  /\ edits[i].from \in 0..Len(text) /\ edits[i].to \in 0..Len(text)
             /\ edits[i].from \in Nat /\ edits[i].to \in Nat
  BY DEF IsEdits
<1>3. ASSUME NEW i \in 1..n
      PROVE  /\ Resolved(text, edits, n)[i] = Resolve(text, edits[i])
             /\ Resolve(text, edits[i]).start = Bytes(Prefix(text, edits[i].from))
             /\ Resolve(text, edits[i]).end = Bytes(Prefix(text, edits[i].to))
  BY DEF Resolved, Resolve
<1>4. ASSUME NEW i \in 1..n
      PROVE  Bytes(Prefix(text, edits[i].from)) \in Nat /\ Bytes(Prefix(text, edits[i].to)) \in Nat
  BY <1>1, <1>2, OffsetsOrdered
<1>5. ASSUME NEW i \in 1..n, NEW j \in 1..n
      PROVE  /\ Resolve(text, edits[i]).start <= Resolve(text, edits[j]).start
                   <=> edits[i].from <= edits[j].from
             /\ Resolve(text, edits[i]).start < Resolve(text, edits[j]).start
                   <=> edits[i].from < edits[j].from
             /\ Resolve(text, edits[i]).start = Resolve(text, edits[j]).start
                   <=> edits[i].from = edits[j].from
             /\ Resolve(text, edits[i]).start > Resolve(text, edits[j]).end
                   <=> edits[i].from > edits[j].to
             /\ Resolve(text, edits[i]).start < Resolve(text, edits[j]).end
                   <=> edits[i].from < edits[j].to
  <2> DEFINE a == edits[i].from b == edits[j].from c == edits[j].to
  <2>1. a \in 0..Len(text) /\ b \in 0..Len(text) /\ c \in 0..Len(text)
    BY <1>2
  <2> HIDE DEF a, b, c
  <2>2. /\ a < b <=> Bytes(Prefix(text, a)) < Bytes(Prefix(text, b))
        /\ a <= b <=> Bytes(Prefix(text, a)) <= Bytes(Prefix(text, b))
        /\ a = b <=> Bytes(Prefix(text, a)) = Bytes(Prefix(text, b))
        /\ a < c <=> Bytes(Prefix(text, a)) < Bytes(Prefix(text, c))
        /\ c < a <=> Bytes(Prefix(text, c)) < Bytes(Prefix(text, a))
    BY <1>1, <2>1, OffsetsOrdered
  <2> QED
    BY <1>3, <2>2 DEF a, b, c
<1>6. Starts(Resolved(text, edits, n), n)
  <2>1. DOMAIN Resolved(text, edits, n) = 1..n
    BY DEF Resolved
  <2> QED
    BY <1>3, <1>4, <2>1 DEF Starts
<1> QED
  BY <1>1, <1>2, <1>3, <1>5, <1>6

\* In the order of their starts, with the given order among equals, edits that
\* are not inverted and whose neighbours do not overlap follow each other; and
\* they do just when no two conflict.
LEMMA OrderIs ==
    ASSUME NEW text, NEW V, NEW n, NEW edits, IsEdits(edits, n, text, V),
           NEW order \in [1..n -> 1..n], IsOrder(Resolved(text, edits, n), n, order)
    PROVE  /\ Acceptable(edits) <=> ~Refused(Resolved(text, edits, n),
                                             SortedEdits(Resolved(text, edits, n)))
           /\ Acceptable(edits) => InOrder(edits, n, order)
<1> DEFINE resolved == Resolved(text, edits, n)
           sorted == SortedEdits(resolved)
<1>1. /\ n \in Nat /\ DOMAIN edits = 1..n /\ Starts(resolved, n)
      /\ \A i \in 1..n : edits[i].from \in Nat /\ edits[i].to \in Nat
      /\ \A i \in 1..n : resolved[i] = Resolve(text, edits[i])
  BY ResolvedIs
<1>2. /\ sorted = [k \in 1..n |-> resolved[order[k]]]
      /\ \A i \in 1..n : \E k \in 1..n : order[k] = i
      /\ \A k, l \in 1..n : k < l => order[k] # order[l]
      /\ \A k, l \in 1..n : k < l => Precedes(resolved, order[k], order[l])
  BY DEF IsOrder
<1>3. \A k \in 1..n : order[k] \in 1..n
  OBVIOUS
<1>4. ASSUME NEW k \in 1..n, NEW l \in 1..n, k < l
      PROVE  /\ edits[order[k]].from <= edits[order[l]].from
             /\ edits[order[k]].from = edits[order[l]].from => order[k] < order[l]
  <2>1. Precedes(resolved, order[k], order[l]) /\ order[k] \in 1..n /\ order[l] \in 1..n
    BY <1>2, <1>3, <1>4
  <2> DEFINE i == order[k] j == order[l]
  <2> HIDE DEF i, j
  <2>2. /\ Resolve(text, edits[i]).start < Resolve(text, edits[j]).start
              <=> edits[i].from < edits[j].from
        /\ Resolve(text, edits[i]).start = Resolve(text, edits[j]).start
              <=> edits[i].from = edits[j].from
    BY <2>1, ResolvedIs DEF i, j
  <2>3. \/ edits[i].from < edits[j].from
        \/ edits[i].from = edits[j].from /\ i < j
    <3>1. /\ i \in 1..n /\ j \in 1..n /\ Precedes(resolved, i, j)
          /\ resolved[i] = Resolve(text, edits[i]) /\ resolved[j] = Resolve(text, edits[j])
      BY <1>1, <2>1 DEF i, j
    <3> HIDE DEF resolved
    <3>2. \/ resolved[i].start < resolved[j].start
          \/ resolved[i].start = resolved[j].start /\ i < j
      BY <3>1 DEF Precedes
    <3>3. \/ Resolve(text, edits[i]).start < Resolve(text, edits[j]).start
          \/ Resolve(text, edits[i]).start = Resolve(text, edits[j]).start /\ i < j
      BY <3>1, <3>2, Zenon
    <3> QED
      BY <2>2, <3>3
  <2>4. edits[i].from \in Nat /\ edits[j].from \in Nat
    BY <1>1, <2>1 DEF i, j
  <2>5. edits[i].from <= edits[j].from /\ (edits[i].from = edits[j].from => i < j)
    BY ONLY <2>3, <2>4
  <2> QED
    BY ONLY <2>5 DEF i, j
<1>5. Len(sorted) = n
  <2>1. DOMAIN resolved = 1..n
    BY <1>1 DEF Starts
  <2> DEFINE W == {resolved[order[k]] : k \in 1..n}
  <2>2. sorted \in [1..n -> W]
    BY <1>2
  <2> HIDE DEF W, sorted
  <2> QED
    BY <1>1, <2>2, LengthIs
<1>6. ASSUME NEW k \in 1..(n - 1)
      PROVE  /\ k \in 1..n /\ k + 1 \in 1..n /\ k < k + 1
             /\ Overlaps(sorted[k + 1].start, sorted[k].end)
                   <=> edits[order[k + 1]].from < edits[order[k]].to
  <2>1. k \in 1..n /\ k + 1 \in 1..n /\ k < k + 1
    BY <1>1
  <2>2. order[k] \in 1..n /\ order[k + 1] \in 1..n
    BY <1>3, <2>1
  <2>3. /\ sorted[k + 1] = Resolve(text, edits[order[k + 1]])
        /\ sorted[k] = Resolve(text, edits[order[k]])
    BY <1>1, <1>2, <2>1, <2>2
  <2> HIDE DEF sorted
  <2>4. Resolve(text, edits[order[k + 1]]).start < Resolve(text, edits[order[k]]).end
           <=> edits[order[k + 1]].from < edits[order[k]].to
    BY <2>2, ResolvedIs
  <2> QED
    BY <2>1, <2>3, <2>4 DEF Overlaps
<1>7. ASSUME NEW i \in 1..n
      PROVE  resolved[i].start > resolved[i].end <=> edits[i].from > edits[i].to
  <2>1. Resolve(text, edits[i]).start > Resolve(text, edits[i]).end <=> edits[i].from > edits[i].to
    BY ResolvedIs
  <2>2. resolved[i] = Resolve(text, edits[i])
    BY <1>1
  <2> HIDE DEF resolved
  <2> QED
    BY <2>1, <2>2
<1>8. Refused(resolved, sorted)
         <=> \/ \E i \in 1..n : edits[i].from > edits[i].to
             \/ \E k \in 1..(n - 1) : edits[order[k + 1]].from < edits[order[k]].to
  <2>1. DOMAIN resolved = 1..n
    BY <1>1 DEF Starts
  <2> HIDE DEF resolved, sorted
  <2> QED
    BY <1>5, <1>6, <1>7, <2>1 DEF Refused
<1>9. ASSUME Acceptable(edits) PROVE ~Refused(resolved, sorted)
  <2>1. \A i \in 1..n : edits[i].from <= edits[i].to
    BY <1>1, <1>9 DEF Acceptable
  <2>2. ASSUME NEW k \in 1..(n - 1), edits[order[k + 1]].from < edits[order[k]].to PROVE FALSE
    <3> DEFINE i == order[k] j == order[k + 1]
    <3>1. /\ i \in 1..n /\ j \in 1..n /\ i # j
          /\ edits[i].from <= edits[j].from
          /\ edits[i].from = edits[j].from => i < j
          /\ edits[j].from < edits[i].to
      BY <1>2, <1>3, <1>4, <1>6, <2>2
    <3> HIDE DEF i, j
    <3>2. CASE i < j
      <4>1. ~Conflict(edits[i], edits[j])
        BY <1>1, <1>9, <3>1, <3>2 DEF Acceptable
      <4>2. edits[i].from < edits[j].from \/ edits[i].from = edits[j].from
        BY <1>1, <3>1
      <4>3. edits[i].from < edits[i].to /\ edits[j].from < edits[i].to
        BY <1>1, <3>1
      <4> QED
        BY ONLY <4>1, <4>2, <4>3 DEF Conflict
    <3>3. CASE j < i
      <4>1. ~Conflict(edits[j], edits[i])
        BY <1>1, <1>9, <3>1, <3>3 DEF Acceptable
      <4>2. edits[i].from < edits[j].from /\ edits[j].from < edits[i].to
        BY <1>1, <3>1, <3>3
      <4> QED
        BY ONLY <4>1, <4>2 DEF Conflict
    <3> QED
      BY <3>1, <3>2, <3>3
  <2>3. ~ \E i \in 1..n : edits[i].from > edits[i].to
    BY <1>1, <2>1
  <2> QED
    BY <1>8, <2>2, <2>3
<1>10. ASSUME ~Refused(resolved, sorted) PROVE InOrder(edits, n, order)
  <2>1. \A i \in 1..n : edits[i].from <= edits[i].to
    BY <1>1, <1>8, <1>10
  <2>2. ASSUME NEW k \in 1..n, NEW l \in 1..n, k < l
        PROVE  edits[order[k]].to <= edits[order[l]].from
    <3>1. k \in 1..(n - 1) /\ k + 1 \in 1..n /\ (k + 1 < l \/ k + 1 = l)
      BY <1>1, <2>2
    <3>2. ~(edits[order[k + 1]].from < edits[order[k]].to)
      BY <1>8, <1>10, <3>1
    <3>3. edits[order[k + 1]].from <= edits[order[l]].from
      <4>1. CASE k + 1 < l
        BY <1>4, <3>1, <4>1
      <4>2. CASE k + 1 = l
        BY <1>1, <1>3, <4>2
      <4> QED
        BY <3>1, <4>1, <4>2
    <3>4. /\ edits[order[k]].to \in Nat /\ edits[order[k + 1]].from \in Nat
          /\ edits[order[l]].from \in Nat
      BY <1>1, <1>3, <3>1
    <3> QED
      BY <3>2, <3>3, <3>4
  <2> QED
    BY <1>2, <1>3, <1>4, <2>1, <2>2 DEF InOrder
<1>11. ASSUME InOrder(edits, n, order) PROVE Acceptable(edits)
  <2>1. /\ \A k \in 1..n : edits[order[k]].from <= edits[order[k]].to
        /\ \A k, l \in 1..n : k < l =>
              /\ edits[order[k]].to <= edits[order[l]].from
              /\ edits[order[k]].from = edits[order[l]].from => order[k] < order[l]
    BY <1>11 DEF InOrder
  <2>2. \A i \in 1..n : edits[i].from <= edits[i].to
    BY <1>2, <2>1
  <2>3. ASSUME NEW i \in 1..n, NEW j \in 1..n, i < j PROVE ~Conflict(edits[i], edits[j])
    <3>1. PICK k \in 1..n : order[k] = i
      BY <1>2
    <3>2. PICK l \in 1..n : order[l] = j
      BY <1>2
    <3>3. /\ edits[i].from \in Nat /\ edits[i].to \in Nat
          /\ edits[j].from \in Nat /\ edits[j].to \in Nat
          /\ edits[i].from <= edits[i].to /\ edits[j].from <= edits[j].to
      BY <1>1, <2>2
    <3>4. CASE k < l
      <4>1. edits[i].to <= edits[j].from
        BY <2>1, <3>1, <3>2, <3>4
      <4> QED
        BY <3>3, <4>1 DEF Conflict
    <3>5. CASE l < k
      <4>1. edits[j].to <= edits[i].from /\ (edits[j].from = edits[i].from => j < i)
        BY <2>1, <3>1, <3>2, <3>5
      <4>2. edits[j].from # edits[i].from
        BY <2>3, <4>1
      <4>3. /\ ~(edits[i].from < edits[j].from) /\ ~(edits[i].from < edits[j].to)
            /\ edits[i].from # edits[j].from
        BY <3>3, <4>1, <4>2
      <4> QED
        BY <4>3 DEF Conflict
    <3>6. k # l
      BY <2>3, <3>1, <3>2
    <3> QED
      BY <3>4, <3>5, <3>6
  <2> QED
    BY <1>1, <2>2, <2>3 DEF Acceptable
<1> QED
  BY <1>9, <1>10, <1>11

\* All edits at once, as the reference makes them.
LEMMA AtOnceIs ==
    ASSUME NEW text, NEW V, NEW n, NEW edits, IsEdits(edits, n, text, V)
    PROVE  EditedAtOnce(text, edits) = EditedUpTo(text, edits, 1..n, Len(text))
<1>1. DOMAIN edits = 1..n
  BY DEF IsEdits
<1>2. \A k : Inserts(edits, 1..n, k)
                = [i \in DOMAIN edits |-> IF edits[i].from = k THEN edits[i].new ELSE <<>>]
  BY <1>1 DEF Inserts
<1> QED
  BY <1>1, <1>2 DEF EditedAtOnce, EditedUpTo, Pieces, Inserted, Kept

-----------------------------------------------------------------------------
(* The property *)

\* What the inputs of kind "edits" are.
LEMMA EditsInput ==
    ASSUME InitText, input.kind = "edits"
    PROVE  /\ input.enc \in Encodings
           /\ \E n : IsEdits(input.edits, n, input.text, Char \cup Nat)
<1>1. CASE \E text \in TextsOf(Char, MaxChars), enc \in Encodings :
              input = [kind |-> "text", text |-> text, enc |-> enc]
  <2>1. input.kind = "text"
    BY <1>1
  <2> QED
    BY <2>1
<1>2. CASE \E text \in TextsOf({"astral", "newline"}, MaxEditedChars), enc \in Encodings :
              \E n \in 0..MaxEdits : \E edits \in MeantEdits(text, n) :
                 input = [kind |-> "edits", text |-> text, enc |-> enc, edits |-> edits]
  <2>1. PICK text \in TextsOf({"astral", "newline"}, MaxEditedChars), enc \in Encodings :
           \E n \in 0..MaxEdits : \E edits \in MeantEdits(text, n) :
              input = [kind |-> "edits", text |-> text, enc |-> enc, edits |-> edits]
    BY <1>2
  <2>2. PICK n \in 0..MaxEdits : \E edits \in MeantEdits(text, n) :
           input = [kind |-> "edits", text |-> text, enc |-> enc, edits |-> edits]
    BY <2>1
  <2>3. PICK edits \in MeantEdits(text, n) :
           input = [kind |-> "edits", text |-> text, enc |-> enc, edits |-> edits]
    BY <2>2
  <2>4. text \in Seq(Char)
    <3>1. PICK k \in 0..MaxEditedChars : text \in [1..k -> {"astral", "newline"}]
      BY DEF TextsOf
    <3>2. k \in Nat /\ {"astral", "newline"} \subseteq Char
      BY TextInputsAssumption DEF Char, Units
    <3>3. text \in [1..k -> Char]
      BY <3>1, <3>2
    <3> QED
      BY <3>2, <3>3
  <2>5. n \in Nat
    BY TextInputsAssumption
  <2> DEFINE V == Char \cup Nat
  <2>6. ASSUME NEW i \in 1..n
        PROVE  MeantEdit(text, i) \subseteq [from : 0..Len(text), to : 0..Len(text), new : Seq(V)]
    <3>1. <<>> \in Seq(V)
      OBVIOUS
    <3>2. i \in V
      BY <2>5
    <3>3. <<i>> \in Seq(V)
      BY <3>2
    <3>4. {<<>>, <<i>>} \subseteq Seq(V)
      BY <3>1, <3>3
    <3> HIDE DEF V
    <3> QED
      BY <3>4 DEF MeantEdit
  <2>7. edits \in [1..n -> [from : 0..Len(text), to : 0..Len(text), new : Seq(V)]]
    <3>1. edits \in [1..n -> UNION {MeantEdit(text, i) : i \in 1..n}]
      BY DEF MeantEdits
    <3>2. \A i \in 1..n : edits[i] \in MeantEdit(text, i)
      BY DEF MeantEdits
    <3> HIDE DEF V
    <3>3. \A i \in 1..n : edits[i] \in [from : 0..Len(text), to : 0..Len(text), new : Seq(V)]
      BY <2>6, <3>2
    <3>4. DOMAIN edits = 1..n /\ edits = [i \in 1..n |-> edits[i]]
      BY <3>1
    <3> QED
      BY <3>3, <3>4
  <2>8. IsEdits(edits, n, text, V)
    BY <2>4, <2>5, <2>7 DEF IsEdits
  <2>9. input.edits = edits /\ input.text = text /\ input.enc = enc
    BY <2>3
  <2> QED
    BY <2>1, <2>8, <2>9
<1> QED
  BY <1>1, <1>2 DEF InitText

\* apply_edits accepts what is acceptable, and answers what the edits make at
\* once.
LEMMA EditsAnswer ==
    ASSUME NEW text, NEW V, NEW n, NEW edits, IsEdits(edits, n, text, V)
    PROVE  /\ Answer(text, Resolved(text, edits, n)).ok <=> Acceptable(edits)
           /\ Answer(text, Resolved(text, edits, n)).ok =>
                 Answer(text, Resolved(text, edits, n)).text = EditedAtOnce(text, edits)
<1> DEFINE resolved == Resolved(text, edits, n)
<1>1. n \in Nat /\ Starts(resolved, n) /\ \A i \in 1..n : resolved[i] = Resolve(text, edits[i])
  BY ResolvedIs
<1> HIDE DEF resolved
<1>2. PICK order \in [1..n -> 1..n] : IsOrder(resolved, n, order)
  BY <1>1, SortedIs
<1>3. Acceptable(edits) <=> ~Refused(resolved, SortedEdits(resolved))
  BY <1>2, OrderIs DEF resolved
<1>4. ASSUME Acceptable(edits)
      PROVE  Spliced(text, SortedEdits(resolved)) = EditedAtOnce(text, edits)
  <2>1. InOrder(edits, n, order)
    BY <1>2, <1>4, OrderIs DEF resolved
  <2>2. SortedEdits(resolved) = [k \in 1..n |-> Resolve(text, edits[order[k]])]
    <3>1. SortedEdits(resolved) = [k \in 1..n |-> resolved[order[k]]]
      BY <1>2 DEF IsOrder
    <3>2. \A k \in 1..n : resolved[order[k]] = Resolve(text, edits[order[k]])
      BY <1>1, <1>2
    <3> QED
      BY <3>1, <3>2
  <2>3. Spliced(text, [k \in 1..n |-> Resolve(text, edits[order[k]])])
           = EditedUpTo(text, edits, 1..n, Len(text))
    BY <2>1, SplicedIs
  <2>4. EditedAtOnce(text, edits) = EditedUpTo(text, edits, 1..n, Len(text))
    BY AtOnceIs
  <2> QED
    BY <2>2, <2>3, <2>4
<1> QED
  BY <1>3, <1>4 DEF Answer, EditError, resolved

\* The order in which the edits are given matters for those at one place alone.
LEMMA EditsReordered ==
    ASSUME NEW text, NEW V, NEW n, NEW edits, IsEdits(edits, n, text, V),
           NEW p \in Bijection(DOMAIN edits, DOMAIN edits), KeepsTies(edits, p)
    PROVE  /\ IsEdits(Reordered(edits, p), n, text, V)
           /\ Answer(text, Resolved(text, Reordered(edits, p), n))
                 = Answer(text, Resolved(text, edits, n))
<1> DEFINE resolved == Resolved(text, edits, n)
           moved == [i \in 1..n |-> resolved[p[i]]]
<1>1. /\ n \in Nat /\ DOMAIN edits = 1..n /\ Starts(resolved, n)
      /\ \A i \in 1..n : resolved[i] = Resolve(text, edits[i])
  BY ResolvedIs
<1>2. /\ p \in Bijection(1..n, 1..n) /\ p \in [1..n -> 1..n]
      /\ \A i \in 1..n : \E j \in 1..n : p[j] = i
  BY <1>1 DEF Bijection, Injection, Surjection
<1>3. IsEdits(Reordered(edits, p), n, text, V)
  BY <1>1, <1>2 DEF IsEdits, Reordered
<1>4. Resolved(text, Reordered(edits, p), n) = moved
  <2>1. ASSUME NEW i \in 1..n PROVE Resolve(text, Reordered(edits, p)[i]) = resolved[p[i]]
    BY <1>1, <1>2 DEF Reordered
  <2> QED
    BY <2>1 DEF Resolved
<1>5. ASSUME NEW i \in 1..n, NEW j \in 1..n, i < j, resolved[p[i]].start = resolved[p[j]].start
      PROVE  p[i] < p[j]
  <2>1. p[i] \in 1..n /\ p[j] \in 1..n
    BY <1>2
  <2>2. Resolve(text, edits[p[i]]).start = Resolve(text, edits[p[j]]).start
    BY <1>1, <1>5, <2>1
  <2>3. edits[p[i]].from = edits[p[j]].from
    BY <2>1, <2>2, ResolvedIs
  <2> QED
    BY <1>1, <1>5, <2>3 DEF KeepsTies
<1>6. SortedEdits(moved) = SortedEdits(resolved)
  <2> HIDE DEF resolved
  <2> QED
    BY <1>1, <1>2, <1>5, SortedAlike
<1>7. (\E i \in 1..n : moved[i].start > moved[i].end)
         <=> (\E i \in 1..n : resolved[i].start > resolved[i].end)
  <2> HIDE DEF resolved
  <2>1. \A i \in 1..n : moved[i] = resolved[p[i]] /\ p[i] \in 1..n
    BY <1>2
  <2> HIDE DEF moved
  <2>2. ASSUME NEW i \in 1..n, moved[i].start > moved[i].end
        PROVE  \E j \in 1..n : resolved[j].start > resolved[j].end
    BY ONLY <2>1, <2>2, Zenon
  <2>3. ASSUME NEW i \in 1..n, resolved[i].start > resolved[i].end
        PROVE  \E j \in 1..n : moved[j].start > moved[j].end
    <3>1. PICK j \in 1..n : p[j] = i
      BY <1>2
    <3>2. moved[j] = resolved[i]
      BY <2>1, <3>1
    <3> QED
      BY <2>3, <3>2, Zenon
  <2> QED
    BY <2>2, <2>3, Zenon
<1>8. DOMAIN moved = 1..n /\ DOMAIN resolved = 1..n
  BY <1>1 DEF Starts
<1> HIDE DEF moved, resolved
<1>9. Answer(text, moved) = Answer(text, resolved)
  BY <1>6, <1>7, <1>8 DEF Answer, Refused
<1> QED
  BY <1>3, <1>4, <1>9 DEF resolved

\* For texts of every length, in every encoding, and any number of edits:
\* apply_edits of src/src/text.rs accepts the edits that are not inverted and of
\* which no two conflict, makes of the text what they make all at once, and
\* does so whatever the order they are given in, but for edits at one place.
THEOREM EditsAtOnce == InitText => EditsApplyAtOnce
<1> SUFFICES ASSUME InitText, input.kind = "edits" PROVE EditsApplyAtOnce
  BY DEF EditsApplyAtOnce
<1> DEFINE text == input.text
           enc == input.enc
           edits == input.edits
           V == Char \cup Nat
<1>1. enc \in Encodings /\ \E n : IsEdits(edits, n, text, V)
  BY EditsInput
<1>2. PICK n : IsEdits(edits, n, text, V)
  BY <1>1
<1> HIDE DEF V, text, enc, edits
<1>3. ASSUME NEW e, IsEdits(e, n, text, V)
      PROVE  Applied(e) = Answer(text, Resolved(text, e, n))
  BY <1>1, <1>3, AppliedIs DEF Applied, text, enc
<1>4. /\ Applied(edits).ok <=> Acceptable(edits)
      /\ Applied(edits).ok => Applied(edits).text = EditedAtOnce(text, edits)
  BY <1>2, <1>3, EditsAnswer
<1>5. ASSUME NEW p \in Bijection(DOMAIN edits, DOMAIN edits), KeepsTies(edits, p)
      PROVE  Applied(Reordered(edits, p)) = Applied(edits)
  BY <1>2, <1>3, <1>5, EditsReordered
<1> QED
  BY <1>4, <1>5 DEF EditsApplyAtOnce, edits, text

-----------------------------------------------------------------------------
(* Orders *)

\* R orders 1..n: of two, one comes before the other.
Orders(R, n) ==
    /\ \A i \in 1..n : <<i, i>> \notin R
    /\ \A i, j \in 1..n : i # j => <<i, j>> \in R \/ <<j, i>> \in R
    /\ \A i, j, k \in 1..n : <<i, j>> \in R /\ <<j, k>> \in R => <<i, k>> \in R

Below(R, n, i) == {j \in 1..n : <<j, i>> \in R}

\* How many come before it tells where each stands.
LEMMA Standing ==
    ASSUME NEW n \in Nat, NEW R, Orders(R, n)
    PROVE  /\ \A i \in 1..n : Cardinality(Below(R, n, i)) \in 0..(n - 1)
           /\ \A i, j \in 1..n :
                 /\ <<j, i>> \in R => Cardinality(Below(R, n, j)) < Cardinality(Below(R, n, i))
                 /\ Cardinality(Below(R, n, i)) = Cardinality(Below(R, n, j)) => i = j
                 /\ Cardinality(Below(R, n, j)) < Cardinality(Below(R, n, i)) => <<j, i>> \in R
<1> USE DEF Orders
<1> DEFINE before(i) == Below(R, n, i)
           rank(i) == Cardinality(before(i))
<1>1. \A i \in 1..n : before(i) \subseteq 1..n /\ i \notin before(i)
  BY DEF Below
<1>2. IsFiniteSet(1..n) /\ Cardinality(1..n) = n
  BY FS_Interval
<1>3. ASSUME NEW i \in 1..n
      PROVE  IsFiniteSet(before(i)) /\ rank(i) \in 0..(n - 1)
  <2>1. IsFiniteSet((1..n) \ {i}) /\ Cardinality((1..n) \ {i}) = n - 1
    BY <1>2, FS_RemoveElement
  <2>2. before(i) \in SUBSET ((1..n) \ {i})
    BY <1>1
  <2>3. IsFiniteSet(before(i)) /\ Cardinality(before(i)) <= Cardinality((1..n) \ {i})
    BY <2>1, <2>2, FS_Subset
  <2>4. Cardinality(before(i)) \in Nat
    BY <2>3, FS_CardinalityType
  <2> QED
    BY <2>1, <2>3, <2>4
<1>4. ASSUME NEW i \in 1..n, NEW j \in 1..n, <<j, i>> \in R
      PROVE  rank(j) < rank(i)
  <2>1. before(j) \subseteq before(i) /\ j \in before(i) /\ j \notin before(j)
    BY <1>4 DEF Below
  <2>2. before(j) \in SUBSET before(i) /\ before(i) # before(j)
    BY <2>1
  <2>3. /\ Cardinality(before(j)) <= Cardinality(before(i))
        /\ Cardinality(before(i)) # Cardinality(before(j))
    BY <1>3, <2>2, FS_Subset
  <2> QED
    BY <1>3, <2>3
<1>5. \A i \in 1..n : rank(i) \in Nat
  BY <1>3
<1> HIDE DEF rank
<1>6. ASSUME NEW i \in 1..n, NEW j \in 1..n
      PROVE  /\ rank(i) = rank(j) => i = j
             /\ rank(j) < rank(i) => <<j, i>> \in R
  <2>1. i # j => <<i, j>> \in R \/ <<j, i>> \in R
    OBVIOUS
  <2>2. rank(i) \in Nat /\ rank(j) \in Nat
    BY <1>5
  <2> QED
    BY <1>4, <2>1, <2>2
<1> QED
  BY <1>3, <1>4, <1>6 DEF rank

\* The sequence of them in order.
Ranked(R, n, order) ==
    /\ \A i \in 1..n : \E k \in 1..n : order[k] = i
    /\ \A k, l \in 1..n : k < l => order[k] # order[l] /\ <<order[k], order[l]>> \in R
    /\ \A k \in 1..n : Cardinality(Below(R, n, order[k])) = k - 1

\* There is one.
LEMMA OrderOf ==
    ASSUME NEW n \in Nat, NEW R, Orders(R, n)
    PROVE  \E order \in [1..n -> 1..n] : Ranked(R, n, order)
<1> DEFINE Rk(i) == Cardinality(Below(R, n, i))
           rank == [i \in 1..n |-> Rk(i)]
           order == [k \in 1..n |-> CHOOSE i \in 1..n : Rk(i) = k - 1]
<1>1. \A i, j \in 1..n : rank[i] = rank[j] => i = j
  BY Standing
<1>2. rank \in [1..n -> 0..(n - 1)]
  BY Standing
<1>3. rank \in Injection(1..n, 0..(n - 1))
  BY <1>1, <1>2 DEF Injection, IsInjective
<1>4. /\ IsFiniteSet(1..n) /\ Cardinality(1..n) = n
      /\ IsFiniteSet(0..(n - 1)) /\ Cardinality(0..(n - 1)) = n
  <2>1. 0 \in Int /\ 1 \in Int /\ n \in Int /\ n - 1 \in Int
    OBVIOUS
  <2>2. /\ IsFiniteSet(0..(n - 1))
        /\ Cardinality(0..(n - 1)) = IF 0 > n - 1 THEN 0 ELSE (n - 1) - 0 + 1
    BY <2>1, FS_Interval
  <2>3. IsFiniteSet(1..n) /\ Cardinality(1..n) = IF 1 > n THEN 0 ELSE n - 1 + 1
    BY <2>1, FS_Interval
  <2> QED
    BY <2>1, <2>2, <2>3
<1>5. rank \in Surjection(1..n, 0..(n - 1))
  BY <1>3, <1>4, FS_Injection
<1>6. ASSUME NEW k \in 1..n PROVE order[k] \in 1..n /\ Rk(order[k]) = k - 1
  <2>1. k - 1 \in 0..(n - 1)
    OBVIOUS
  <2>2. \E i \in 1..n : rank[i] = k - 1
    BY <1>5, <2>1 DEF Surjection
  <2>3. \E i \in 1..n : Rk(i) = k - 1
    BY <2>2
  <2> QED
    BY <2>3
<1>7. order \in [1..n -> 1..n]
  BY <1>6
<1>8. \A k \in 1..n : Cardinality(Below(R, n, order[k])) = k - 1
  BY <1>6
<1>9. /\ \A i \in 1..n : Rk(i) \in 0..(n - 1)
      /\ \A i, j \in 1..n : (Rk(i) = Rk(j) => i = j) /\ (Rk(j) < Rk(i) => <<j, i>> \in R)
  BY Standing
<1> HIDE DEF order, rank, Rk
<1>10. ASSUME NEW i \in 1..n PROVE \E k \in 1..n : order[k] = i
  <2>1. Rk(i) \in 0..(n - 1)
    BY <1>9
  <2>2. Rk(i) + 1 \in 1..n /\ (Rk(i) + 1) - 1 = Rk(i)
    BY <2>1
  <2>3. Rk(order[Rk(i) + 1]) = Rk(i) /\ order[Rk(i) + 1] \in 1..n
    BY <1>6, <2>2
  <2>4. order[Rk(i) + 1] = i
    BY <1>9, <2>3
  <2> QED
    BY <2>2, <2>4
<1>11. ASSUME NEW k \in 1..n, NEW l \in 1..n, k < l
       PROVE  order[k] # order[l] /\ <<order[k], order[l]>> \in R
  <2>1. Rk(order[k]) < Rk(order[l]) /\ order[k] \in 1..n /\ order[l] \in 1..n
    BY <1>6, <1>11
  <2>2. order[k] # order[l]
    BY <1>6, <1>11
  <2> QED
    BY <1>9, <2>1, <2>2
<1> QED
  <2>1. Ranked(R, n, order)
    BY <1>8, <1>10, <1>11 DEF Ranked
  <2> QED
    BY <1>7, <2>1

-----------------------------------------------------------------------------
(* Tokens in their order *)

Bits == SUBSET (0..(Width - 1))
AToken == [line : Nat, start : Nat, length : Nat, type : Nat, bits : Bits]

\* The most significant bit that two sets differ in is in b.
Decides(m, a, b) == m \in b /\ m \notin a /\ \A x \in Nat : x > m => (x \in a <=> x \in b)

\* That is what FewerBits finds, and one of two sets is the smaller.
LEMMA FewerBitsIs ==
    ASSUME NEW a \in Bits, NEW b \in Bits
    PROVE  /\ FewerBits(a, b) <=> \E m \in Nat : Decides(m, a, b)
           /\ FewerBits(a, b) \/ FewerBits(b, a) \/ a = b
<1> DEFINE D == (a \ b) \cup (b \ a)
<1>1. D \in SUBSET (0..31) /\ \A x \in a \cup b : x \in Nat
  BY DEF Bits, Width
<1>2. CASE a = b
  <2>1. ~FewerBits(a, b) /\ ~\E m \in Nat : Decides(m, a, b)
    BY <1>2 DEF FewerBits, Decides
  <2> QED
    BY <1>2, <2>1
<1>3. CASE a # b
  <2>1. D # {}
    BY <1>3
  <2>2. PICK x \in D : \A y \in D : y <= x
    BY <1>1, <2>1, FirstAndLast
  <2>3. \A z \in D : (\A y \in D : z >= y) => z = x
    BY <1>1, <2>2
  <2>4. Max(D) = x
    <3> HIDE DEF D
    <3>1. x \in D /\ \A y \in D : x >= y
      BY <1>1, <2>2
    <3> QED
      BY <2>3, <3>1 DEF Max
  <2>5. (FewerBits(a, b) <=> x \in b) /\ (FewerBits(b, a) <=> x \in a)
    <3>1. (b \ a) \cup (a \ b) = D
      OBVIOUS
    <3> HIDE DEF D
    <3>2. FewerBits(a, b) <=> Max(D) \in b
      BY <1>3 DEF FewerBits, D
    <3>3. FewerBits(b, a) <=> Max(D) \in a
      BY <1>3, <3>1 DEF FewerBits
    <3> QED
      BY <2>4, <3>2, <3>3
  <2>6. x \in Nat /\ \A y \in Nat : y > x => (y \in a <=> y \in b)
    BY <1>1, <2>2
  <2>7. x \in b => Decides(x, a, b)
    BY <2>2, <2>6 DEF Decides
  <2>8. ASSUME NEW m \in Nat, Decides(m, a, b) PROVE x \in b
    <3>1. m \in D /\ m <= x
      BY <2>2, <2>8 DEF Decides
    <3>2. m = x \/ x > m
      BY <1>1, <2>2, <3>1
    <3> QED
      BY <2>2, <2>6, <2>8, <3>2 DEF Decides
  <2> QED
    BY <2>2, <2>5, <2>6, <2>7, <2>8
<1> QED
  BY <1>2, <1>3

\* Sets of bits are in one order.
LEMMA BitsOrder ==
    ASSUME NEW a \in Bits, NEW b \in Bits, NEW c \in Bits
    PROVE  /\ ~FewerBits(a, a)
           /\ FewerBits(a, b) /\ FewerBits(b, c) => FewerBits(a, c)
<1>1. ~FewerBits(a, a)
  BY DEF FewerBits
<1>2. ASSUME FewerBits(a, b), FewerBits(b, c) PROVE FewerBits(a, c)
  <2>1. PICK m \in Nat : Decides(m, a, b)
    BY <1>2, FewerBitsIs
  <2>2. PICK k \in Nat : Decides(k, b, c)
    BY <1>2, FewerBitsIs
  <2>3. CASE m < k
    <3>1. Decides(k, a, c)
      BY <2>1, <2>2, <2>3 DEF Decides
    <3> QED
      BY <3>1, FewerBitsIs
  <2>4. CASE k < m
    <3>1. Decides(m, a, c)
      BY <2>1, <2>2, <2>4 DEF Decides
    <3> QED
      BY <3>1, FewerBitsIs
  <2>5. CASE k = m
    BY <2>1, <2>2, <2>5 DEF Decides
  <2> QED
    BY <2>3, <2>4, <2>5
<1> QED
  BY <1>1, <1>2

\* What precedes in the order of tuples.
SamePlace(a, b) == a.line = b.line /\ a.start = b.start /\ a.length = b.length /\ a.type = b.type
SmallerPlace(a, b) ==
    \/ a.line < b.line
    \/ a.line = b.line /\ a.start < b.start
    \/ a.line = b.line /\ a.start = b.start /\ a.length < b.length
    \/ a.line = b.line /\ a.start = b.start /\ a.length = b.length /\ a.type < b.type

\* That is Before, with the modifiers last.
LEMMA BeforeIs ==
    ASSUME NEW a \in AToken, NEW b \in AToken
    PROVE  Before(a, b) <=> SmallerPlace(a, b) \/ (SamePlace(a, b) /\ FewerBits(a.bits, b.bits))
<1> DEFINE x == [a EXCEPT !.bits = {}]
           y == [b EXCEPT !.bits = {}]
<1>1. {} \in Bits
  BY DEF Bits
<1>2. x = [line |-> a.line, start |-> a.start, length |-> a.length, type |-> a.type, bits |-> {}]
  BY DEF AToken
<1>3. y = [line |-> b.line, start |-> b.start, length |-> b.length, type |-> b.type, bits |-> {}]
  BY DEF AToken
<1>4. x = y <=> SamePlace(a, b)
  BY <1>2, <1>3 DEF SamePlace
<1>5. Before(a, b) <=> SmallerPlace(a, b) \/ (x = y /\ FewerBits(a.bits, b.bits))
  BY DEF Before, SmallerPlace
<1> HIDE DEF x, y
<1> QED
  BY <1>4, <1>5

\* Tuples are in one order.
LEMMA BeforeOrder ==
    ASSUME NEW a \in AToken, NEW b \in AToken, NEW c \in AToken
    PROVE  /\ ~Before(a, a)
           /\ Before(a, b) \/ Before(b, a) \/ a = b
           /\ Before(a, b) /\ Before(b, c) => Before(a, c)
<1>1. \A t \in {a, b, c} : /\ t.line \in Nat /\ t.start \in Nat /\ t.length \in Nat /\ t.type \in Nat
                           /\ t.bits \in Bits
  BY DEF AToken
<1>2. ~Before(a, a)
  <2>1. ~SmallerPlace(a, a)
    BY <1>1 DEF SmallerPlace
  <2> QED
    BY <1>1, <2>1, BeforeIs, BitsOrder
<1>3. Before(a, b) \/ Before(b, a) \/ a = b
  <2>1. SmallerPlace(a, b) \/ SmallerPlace(b, a) \/ SamePlace(a, b)
    BY <1>1 DEF SmallerPlace, SamePlace
  <2>2. SamePlace(a, b) => SamePlace(b, a)
    BY DEF SamePlace
  <2>3. SamePlace(a, b) /\ a.bits = b.bits => a = b
    BY DEF SamePlace, AToken
  <2>4. FewerBits(a.bits, b.bits) \/ FewerBits(b.bits, a.bits) \/ a.bits = b.bits
    BY <1>1, FewerBitsIs
  <2> QED
    BY <2>1, <2>2, <2>3, <2>4, BeforeIs
<1>4. ASSUME Before(a, b), Before(b, c) PROVE Before(a, c)
  <2>1. SmallerPlace(a, b) /\ SmallerPlace(b, c) => SmallerPlace(a, c)
    BY <1>1 DEF SmallerPlace
  <2>2. SmallerPlace(a, b) /\ SamePlace(b, c) => SmallerPlace(a, c)
    BY <1>1 DEF SmallerPlace, SamePlace
  <2>3. SamePlace(a, b) /\ SmallerPlace(b, c) => SmallerPlace(a, c)
    BY <1>1 DEF SmallerPlace, SamePlace
  <2>4. SamePlace(a, b) /\ SamePlace(b, c) => SamePlace(a, c)
    BY DEF SamePlace
  <2>5. FewerBits(a.bits, b.bits) /\ FewerBits(b.bits, c.bits) => FewerBits(a.bits, c.bits)
    BY <1>1, BitsOrder
  <2>6. Before(a, b) <=> SmallerPlace(a, b) \/ (SamePlace(a, b) /\ FewerBits(a.bits, b.bits))
    BY BeforeIs
  <2>7. Before(b, c) <=> SmallerPlace(b, c) \/ (SamePlace(b, c) /\ FewerBits(b.bits, c.bits))
    BY BeforeIs
  <2>8. Before(a, c) <=> SmallerPlace(a, c) \/ (SamePlace(a, c) /\ FewerBits(a.bits, c.bits))
    BY BeforeIs
  <2> QED
    BY <1>4, <2>1, <2>2, <2>3, <2>4, <2>5, <2>6, <2>7, <2>8
<1> QED
  BY <1>2, <1>3, <1>4

\* A token is at or after another on its line, or on a later one.
AtOrAfter(a, b) == a.line < b.line \/ (a.line = b.line /\ a.start <= b.start)

\* t has the tokens of s, each in one place.
Arranges(t, s, order) ==
    /\ \A k \in 1..Len(s) : t[k] = s[order[k]]
    /\ \A i \in 1..Len(s) : \E k \in 1..Len(s) : order[k] = i
    /\ \A k, l \in 1..Len(s) : k # l => order[k] # order[l]

\* The tokens that come before one.
EarlierTokens(tokens, i) ==
    {j \in DOMAIN tokens :
        \/ Before(tokens[j], tokens[i])
        \/ tokens[j] = tokens[i] /\ j < i}

\* The sorted tokens are the tokens, each at or after the one before it.
LEMMA TokensSorted ==
    ASSUME NEW tokens \in Seq(AToken)
    PROVE  /\ SortedTokens(tokens) \in Seq(AToken) /\ Len(SortedTokens(tokens)) = Len(tokens)
           /\ \A k \in 1..(Len(tokens) - 1) :
                 AtOrAfter(SortedTokens(tokens)[k], SortedTokens(tokens)[k + 1])
           /\ \E order \in [1..Len(tokens) -> 1..Len(tokens)] :
                 Arranges(SortedTokens(tokens), tokens, order)
<1> DEFINE n == Len(tokens)
           s == SortedTokens(tokens)
           R == {p \in (1..n) \X (1..n) :
                    \/ Before(tokens[p[1]], tokens[p[2]])
                    \/ tokens[p[1]] = tokens[p[2]] /\ p[1] < p[2]}
<1>1. n \in Nat /\ DOMAIN tokens = 1..n /\ \A i \in 1..n : tokens[i] \in AToken
  OBVIOUS
<1>2. \A i, j \in 1..n : <<i, j>> \in R <=> Before(tokens[i], tokens[j])
                                              \/ (tokens[i] = tokens[j] /\ i < j)
  OBVIOUS
<1> DEFINE c(k) == CHOOSE i \in DOMAIN tokens : Cardinality(EarlierTokens(tokens, i)) = k - 1
<1>3. s = [k \in 1..n |-> tokens[c(k)]]
  BY <1>1 DEF SortedTokens, EarlierTokens
<1> HIDE DEF s, n, R
<1>4. Orders(R, n)
  <2>1. ASSUME NEW i \in 1..n PROVE <<i, i>> \notin R
    <3>1. ~Before(tokens[i], tokens[i])
      BY <1>1, BeforeOrder
    <3>2. ~(i < i)
      OBVIOUS
    <3> QED
      BY <1>2, <3>1, <3>2
  <2>2. ASSUME NEW i \in 1..n, NEW j \in 1..n, i # j PROVE <<i, j>> \in R \/ <<j, i>> \in R
    <3>1. Before(tokens[i], tokens[j]) \/ Before(tokens[j], tokens[i]) \/ tokens[i] = tokens[j]
      BY <1>1, BeforeOrder
    <3>2. i < j \/ j < i
      BY <1>1, <2>2
    <3> QED
      BY <1>2, <3>1, <3>2
  <2>3. ASSUME NEW i \in 1..n, NEW j \in 1..n, NEW k \in 1..n, <<i, j>> \in R, <<j, k>> \in R
        PROVE  <<i, k>> \in R
    <3>1. Before(tokens[i], tokens[j]) /\ Before(tokens[j], tokens[k]) => Before(tokens[i], tokens[k])
      BY <1>1, BeforeOrder
    <3>2. i < j /\ j < k => i < k
      BY <1>1
    <3> QED
      BY <1>2, <2>3, <3>1, <3>2
  <2> QED
    BY <2>1, <2>2, <2>3 DEF Orders
<1>5. PICK order \in [1..n -> 1..n] : Ranked(R, n, order)
  BY <1>1, <1>4, OrderOf
<1>e. ASSUME NEW k \in 1..n PROVE c(k) = order[k]
  <2>1. \A i \in 1..n : EarlierTokens(tokens, i) = Below(R, n, i)
    BY <1>1, <1>2 DEF Below, EarlierTokens
  <2>2. order[k] \in 1..n /\ Cardinality(EarlierTokens(tokens, order[k])) = k - 1
    BY <1>5, <2>1 DEF Ranked
  <2>3. c(k) \in 1..n /\ Cardinality(EarlierTokens(tokens, c(k))) = k - 1
    BY <1>1, <2>2
  <2> HIDE DEF c
  <2>4. Cardinality(Below(R, n, c(k))) = Cardinality(Below(R, n, order[k]))
    BY <2>1, <2>2, <2>3
  <2> QED
    BY <1>1, <1>4, <2>2, <2>3, <2>4, Standing
<1> HIDE DEF c
<1>6. s = [k \in 1..n |-> tokens[order[k]]]
  BY <1>3, <1>e
<1>7. s \in Seq(AToken) /\ Len(s) = n /\ \A k \in 1..n : s[k] = tokens[order[k]]
  <2>1. s \in [1..n -> AToken]
    BY <1>1, <1>6
  <2>2. s \in Seq(AToken) /\ Len(s) = n
    BY ONLY <1>1, <2>1, LengthIs
  <2> QED
    BY <1>6, <2>2
<1>8. ASSUME NEW k \in 1..(n - 1) PROVE AtOrAfter(s[k], s[k + 1])
  <2>1. k \in 1..n /\ k + 1 \in 1..n /\ k < k + 1
    BY <1>1
  <2>2. <<order[k], order[k + 1]>> \in R /\ order[k] \in 1..n /\ order[k + 1] \in 1..n
    BY <1>5, <2>1 DEF Ranked
  <2>3. Before(s[k], s[k + 1]) \/ s[k] = s[k + 1]
    BY <1>2, <1>7, <2>1, <2>2, SMTT(20)
  <2>4. s[k] \in AToken /\ s[k + 1] \in AToken
    BY <1>1, <1>7, <2>1, <2>2
  <2>5. s[k].line \in Nat /\ s[k].start \in Nat /\ s[k + 1].line \in Nat /\ s[k + 1].start \in Nat
    BY <2>4 DEF AToken
  <2>6. Before(s[k], s[k + 1]) => SmallerPlace(s[k], s[k + 1]) \/ SamePlace(s[k], s[k + 1])
    BY <2>4, BeforeIs
  <2> QED
    BY <2>3, <2>5, <2>6 DEF SmallerPlace, SamePlace, AtOrAfter
<1>9. Arranges(s, tokens, order)
  <2>1. ASSUME NEW k \in 1..n, NEW l \in 1..n, k # l PROVE order[k] # order[l]
    <3>1. k < l \/ l < k
      BY <1>1, <2>1
    <3> QED
      BY <1>5, <3>1 DEF Ranked
  <2> QED
    BY <1>5, <1>7, <2>1 DEF Arranges, Ranked, n
<1> QED
  BY <1>7, <1>8, <1>9 DEF n, s

-----------------------------------------------------------------------------
(* Encoded and read back *)

\* Where the tokens of data end up: each from where the last one starts.
Ends(data, at) ==
    /\ at[0] = Pos(0, 0)
    /\ \A i \in 1..Len(data) :
          at[i] = Pos(at[i - 1].line + data[i].deltaLine,
                      (IF data[i].deltaLine > 0 THEN 0 ELSE at[i - 1].character)
                          + data[i].deltaStart)

AnyDelta == [deltaLine : Nat, deltaStart : Nat, length : Nat, type : Nat, bits : Bits]

\* A token is its five parts.
LEMMA TokenIs ==
    ASSUME NEW t \in AToken
    PROVE  Token(t.line, t.start, t.length, t.type, t.bits) = t
  BY DEF Token, AToken

\* An editor reads the tokens where they end up.
LEMMA AbsoluteIs ==
    ASSUME NEW data \in Seq(AnyDelta)
    PROVE  \E at : /\ Ends(data, at)
                   /\ Absolute(data) = [i \in 1..Len(data) |->
                         Token(at[i].line, at[i].character, data[i].length, data[i].type, data[i].bits)]
<1> DEFINE n == Len(data)
           P == [line : Nat, character : Nat]
           step == [x \in P \X Nat |->
                       IF x[2] \in 1..n
                       THEN Pos(x[1].line + data[x[2]].deltaLine,
                                (IF data[x[2]].deltaLine > 0 THEN 0 ELSE x[1].character)
                                    + data[x[2]].deltaStart)
                       ELSE Pos(0, 0)]
           at[i \in 0..n] ==
               IF i = 0 THEN Pos(0, 0)
               ELSE Pos(at[i - 1].line + data[i].deltaLine,
                        (IF data[i].deltaLine > 0 THEN 0 ELSE at[i - 1].character)
                            + data[i].deltaStart)
<1>1. n \in Nat /\ DOMAIN data = 1..n /\ \A i \in 1..n : data[i] \in AnyDelta
  OBVIOUS
<1>2. \A i \in 1..n : data[i].deltaLine \in Nat /\ data[i].deltaStart \in Nat
  BY <1>1 DEF AnyDelta
<1>3. Pos(0, 0) \in P
  BY DEF Pos
<1>4. step \in [P \X Nat -> P]
  <2> SUFFICES ASSUME NEW x \in P \X Nat PROVE step[x] \in P
    OBVIOUS
  <2>1. x[1] \in P /\ x[1].line \in Nat /\ x[1].character \in Nat
    OBVIOUS
  <2>2. CASE x[2] \in 1..n
    <3>1. data[x[2]].deltaLine \in Nat /\ data[x[2]].deltaStart \in Nat
      BY <1>2, <2>2
    <3> QED
      BY <2>1, <2>2, <3>1 DEF Pos
  <2>3. CASE x[2] \notin 1..n
    BY <1>3, <2>3
  <2> QED
    BY <2>2, <2>3
<1> HIDE DEF n, step, P
<1>5. PICK g \in [0..n -> P] : Recurs(g, n, Pos(0, 0), step)
  BY <1>1, <1>3, <1>4, Recursion
<1>6. g[0] = Pos(0, 0) /\ \A i \in 1..n : i - 1 \in 0..n /\ i # 0 /\
          g[i] = Pos(g[i - 1].line + data[i].deltaLine,
                     (IF data[i].deltaLine > 0 THEN 0 ELSE g[i - 1].character) + data[i].deltaStart)
  <2>1. ASSUME NEW i \in 1..n
        PROVE  g[i] = Pos(g[i - 1].line + data[i].deltaLine,
                     (IF data[i].deltaLine > 0 THEN 0 ELSE g[i - 1].character) + data[i].deltaStart)
    <3>1. i - 1 \in 0..n /\ i \in Nat
      BY <1>1
    <3>2. g[i - 1] \in P
      BY <1>5, <3>1
    <3>3. g[i] = step[<<g[i - 1], i>>]
      BY <1>5 DEF Recurs
    <3> QED
      BY <3>1, <3>2, <3>3 DEF step
  <2>2. \A i \in 1..n : i - 1 \in 0..n /\ i # 0
    BY <1>1
  <2> QED
    BY <1>5, <2>1, <2>2, SMTT(20) DEF Recurs
<1>7. at = [i \in 0..n |->
               IF i = 0 THEN Pos(0, 0)
               ELSE Pos(at[i - 1].line + data[i].deltaLine,
                        (IF data[i].deltaLine > 0 THEN 0 ELSE at[i - 1].character)
                            + data[i].deltaStart)]
  <2>1. g = [i \in 0..n |->
               IF i = 0 THEN Pos(0, 0)
               ELSE Pos(g[i - 1].line + data[i].deltaLine,
                        (IF data[i].deltaLine > 0 THEN 0 ELSE g[i - 1].character)
                            + data[i].deltaStart)]
    <3>1. \A i \in 0..n : i # 0 => i \in 1..n
      BY <1>1
    <3> QED
      BY <1>5, <1>6, <3>1
  <2> QED
    BY <2>1
<1>8. Ends(data, at)
  <2> HIDE DEF at
  <2>1. 0 \in 0..n /\ \A i \in 1..n : i \in 0..n /\ i # 0
    BY <1>1
  <2> QED
    BY <1>7, <2>1 DEF Ends, n
<1>9. Absolute(data) = [i \in 1..n |->
                         Token(at[i].line, at[i].character, data[i].length, data[i].type, data[i].bits)]
  BY <1>1 DEF Absolute, n
<1> QED
  BY <1>8, <1>9 DEF n

\* What build writes is never negative, and an editor reads the sorted tokens
\* from it.
LEMMA ReadsSorted ==
    ASSUME NEW tokens \in Seq(AToken)
    PROVE  /\ Build(tokens) \in Seq(AnyDelta)
           /\ Absolute(Build(tokens)) = SortedTokens(tokens)
<1> DEFINE s == SortedTokens(tokens)
           n == Len(tokens)
           previous(i) == IF i = 1 THEN Token(0, 0, 0, 0, {}) ELSE s[i - 1]
           deltaLine(i) == s[i].line - previous(i).line
           d == Build(tokens)
           is(i) == [deltaLine |-> deltaLine(i),
                     deltaStart |-> IF deltaLine(i) = 0 THEN s[i].start - previous(i).start
                                    ELSE s[i].start,
                     length |-> s[i].length, type |-> s[i].type, bits |-> s[i].bits]
<1>1. /\ s \in Seq(AToken) /\ Len(s) = n /\ n \in Nat
      /\ \A k \in 1..(n - 1) : AtOrAfter(s[k], s[k + 1])
  BY TokensSorted
<1>2. DOMAIN s = 1..n /\ \A i \in 1..n : s[i] \in AToken
  BY <1>1
<1>3. d = [i \in 1..n |-> is(i)]
  BY <1>2 DEF Build
<1> HIDE DEF s, n, d
<1>4. \A i \in 1..n : s[i].line \in Nat /\ s[i].start \in Nat /\ s[i].length \in Nat
                      /\ s[i].type \in Nat /\ s[i].bits \in Bits
  BY <1>2 DEF AToken
<1>5. ASSUME NEW i \in 1..n
      PROVE  /\ previous(i).line \in Nat /\ previous(i).start \in Nat
             /\ previous(i).line <= s[i].line
             /\ previous(i).line = s[i].line => previous(i).start <= s[i].start
  <2>1. CASE i = 1
    <3>1. previous(i).line = 0 /\ previous(i).start = 0
      BY <2>1 DEF Token
    <3> QED
      BY <1>4, <3>1
  <2>2. CASE i # 1
    <3>1. i - 1 \in 1..(n - 1) /\ i - 1 \in 1..n /\ (i - 1) + 1 = i
      BY <1>1, <2>2
    <3>2. previous(i) = s[i - 1] /\ AtOrAfter(s[i - 1], s[i])
      BY <1>1, <2>2, <3>1
    <3> HIDE DEF previous
    <3> QED
      BY <1>4, <3>1, <3>2 DEF AtOrAfter
  <2> QED
    BY <2>1, <2>2
<1> HIDE DEF previous
<1>6. ASSUME NEW i \in 1..n PROVE is(i) \in AnyDelta
  <2>1. deltaLine(i) \in Nat
    BY <1>4, <1>5
  <2>2. deltaLine(i) = 0 => s[i].start - previous(i).start \in Nat
    BY <1>4, <1>5
  <2> HIDE DEF deltaLine
  <2> QED
    BY <1>4, <2>1, <2>2 DEF AnyDelta
<1>7. d \in Seq(AnyDelta) /\ Len(d) = n /\ \A i \in 1..n : d[i] = is(i)
  <2>1. d \in [1..n -> AnyDelta]
    BY <1>3, <1>6
  <2>2. d \in Seq(AnyDelta) /\ Len(d) = n
    BY ONLY <1>1, <2>1, LengthIs
  <2> QED
    BY <1>3, <2>2
<1>8. \A i \in 1..n : /\ d[i].deltaLine = s[i].line - previous(i).line
                      /\ d[i].deltaStart = IF d[i].deltaLine = 0 THEN s[i].start - previous(i).start
                                           ELSE s[i].start
                      /\ d[i].length = s[i].length /\ d[i].type = s[i].type /\ d[i].bits = s[i].bits
  BY <1>7
<1>9. PICK at : /\ Ends(d, at)
                /\ Absolute(d) = [i \in 1..n |->
                      Token(at[i].line, at[i].character, d[i].length, d[i].type, d[i].bits)]
  BY <1>7, AbsoluteIs
<1> DEFINE S == {k \in Nat : k \in 1..n => at[k] = Pos(s[k].line, s[k].start)}
<1>10. 0 \in S
  OBVIOUS
<1>11. ASSUME NEW k \in Nat, k \in S PROVE k + 1 \in S
  <2> SUFFICES ASSUME k + 1 \in 1..n PROVE at[k + 1] = Pos(s[k + 1].line, s[k + 1].start)
    OBVIOUS
  <2>1. (k + 1) - 1 = k
    OBVIOUS
  <2>2. at[k].line = previous(k + 1).line /\ at[k].character = previous(k + 1).start
    <3>1. CASE k = 0
      <4>1. at[k] = Pos(0, 0)
        BY <1>9, <3>1 DEF Ends
      <4>2. previous(k + 1).line = 0 /\ previous(k + 1).start = 0
        BY <3>1 DEF previous, Token
      <4> QED
        BY <4>1, <4>2 DEF Pos
    <3>2. CASE k # 0
      <4>1. k \in 1..n /\ k + 1 # 1
        BY <1>1, <3>2
      <4>2. at[k] = Pos(s[k].line, s[k].start)
        BY <1>11, <4>1
      <4>3. previous(k + 1) = s[k]
        BY <2>1, <4>1 DEF previous
      <4> QED
        BY <4>2, <4>3 DEF Pos
    <3> QED
      BY <3>1, <3>2
  <2>3. at[k + 1] = Pos(at[k].line + d[k + 1].deltaLine,
                        (IF d[k + 1].deltaLine > 0 THEN 0 ELSE at[k].character)
                            + d[k + 1].deltaStart)
    BY <1>7, <1>9, <2>1 DEF Ends
  <2> DEFINE i == k + 1
  <2>4. /\ d[i].deltaLine = s[i].line - previous(i).line
        /\ d[i].deltaStart = IF d[i].deltaLine = 0 THEN s[i].start - previous(i).start
                             ELSE s[i].start
        /\ s[i].line \in Nat /\ s[i].start \in Nat
        /\ previous(i).line \in Nat /\ previous(i).start \in Nat
        /\ previous(i).line <= s[i].line
    BY <1>4, <1>5, <1>8
  <2>5. previous(i).line + d[i].deltaLine = s[i].line
    BY <2>4
  <2>6. (IF d[i].deltaLine > 0 THEN 0 ELSE previous(i).start) + d[i].deltaStart = s[i].start
    BY <2>4
  <2> QED
    BY <2>2, <2>3, <2>5, <2>6
<1> HIDE DEF S
<1>12. \A k \in Nat : k \in S
  BY <1>10, <1>11, Induction
<1>13. \A k \in 1..n : at[k] = Pos(s[k].line, s[k].start)
  BY <1>12 DEF S
<1>14. Absolute(d) = s
  <2>1. ASSUME NEW i \in 1..n
        PROVE  Token(at[i].line, at[i].character, d[i].length, d[i].type, d[i].bits) = s[i]
    <3>1. at[i].line = s[i].line /\ at[i].character = s[i].start
      <4>1. at[i] = Pos(s[i].line, s[i].start)
        BY <1>13
      <4> QED
        BY ONLY <4>1 DEF Pos
    <3>2. d[i].length = s[i].length /\ d[i].type = s[i].type /\ d[i].bits = s[i].bits
      BY <1>8
    <3>3. s[i] \in AToken
      BY <1>2
    <3> QED
      BY <3>1, <3>2, <3>3, TokenIs
  <2>2. s = [i \in 1..n |-> s[i]]
    BY <1>1, <1>2
  <2>3. Absolute(d) = [i \in 1..n |-> s[i]]
    BY <1>9, <2>1
  <2> QED
    BY <2>2, <2>3
<1> QED
  BY <1>7, <1>14 DEF d, s

-----------------------------------------------------------------------------
(* The lines that a range has a part of *)

\* f has the elements of the sequences of s that have one, in one place each.
Gathers(f, s, n, at) ==
    /\ at \in [1..Len(f) -> 1..n]
    /\ \A k \in 1..Len(f) : s[at[k]] = <<f[k]>>
    /\ \A k, l \in 1..Len(f) : k # l => at[k] # at[l]
    /\ \A i \in 1..n : s[i] # <<>> => \E k \in 1..Len(f) : at[k] = i

\* Flattening sequences of one element or none gathers those elements.
LEMMA FlatGathers ==
    ASSUME NEW V, NEW n \in Nat, NEW s \in [1..n -> Seq(V)],
           \A i \in 1..n : s[i] = <<>> \/ \E x \in V : s[i] = <<x>>
    PROVE  FlattenSeq(s) \in Seq(V) /\ \E at : Gathers(FlattenSeq(s), s, n, at)
<1> DEFINE F(k) == FlatTo(s, k)
           S == {k \in Nat : k <= n => \E at : Gathers(F(k), s, k, at)}
<1>1. /\ \A k \in 0..n : F(k) \in Seq(V)
      /\ F(0) = <<>> /\ F(n) = FlattenSeq(s)
      /\ \A k \in 1..n : F(k) = F(k - 1) \o s[k]
  BY FlatToIs
<1> HIDE DEF F
<1>2. 0 \in S
  <2>1. Len(F(0)) = 0 /\ 1..0 = {}
    BY <1>1
  <2>2. Gathers(F(0), s, 0, [k \in 1..0 |-> 0])
    BY <2>1 DEF Gathers
  <2> QED
    BY <2>2
<1>3. ASSUME NEW m \in Nat, m \in S PROVE m + 1 \in S
  <2> SUFFICES ASSUME m + 1 <= n PROVE \E at : Gathers(F(m + 1), s, m + 1, at)
    OBVIOUS
  <2>1. m + 1 \in 1..n /\ (m + 1) - 1 = m /\ m \in 0..n /\ m <= n
    OBVIOUS
  <2> DEFINE a == F(m)
             b == F(m + 1)
             L == Len(a)
  <2>2. PICK at : Gathers(a, s, m, at)
    BY <1>3, <2>1
  <2>3. b = a \o s[m + 1] /\ a \in Seq(V) /\ L \in Nat
    <3>1. F(m + 1) = F((m + 1) - 1) \o s[m + 1]
      BY <1>1, <2>1
    <3>2. F(m) \in Seq(V)
      BY <1>1, <2>1
    <3> QED
      BY <2>1, <3>1, <3>2
  <2>4. CASE s[m + 1] = <<>>
    <3>1. b = a
      BY <2>3, <2>4
    <3> HIDE DEF a, b
    <3>2. at \in [1..L -> 1..(m + 1)]
      BY <2>2, <2>3 DEF Gathers
    <3>3. ASSUME NEW i \in 1..(m + 1), s[i] # <<>> PROVE \E k \in 1..L : at[k] = i
      <4>1. i \in 1..m
        BY <2>4, <3>3
      <4> QED
        BY <2>2, <3>3, <4>1 DEF Gathers
    <3>4. Gathers(a, s, m + 1, at)
      BY <2>2, <3>2, <3>3 DEF Gathers
    <3> QED
      BY <3>1, <3>4 DEF b
  <2>5. CASE \E x \in V : s[m + 1] = <<x>>
    <3>1. PICK x \in V : s[m + 1] = <<x>>
      BY <2>5
    <3>2. b = Append(a, x)
      BY <2>3, <3>1
    <3> DEFINE more == [k \in 1..(L + 1) |-> IF k <= L THEN at[k] ELSE m + 1]
    <3> HIDE DEF a, b, L
    <3>3. Len(b) = L + 1 /\ b[L + 1] = x /\ \A k \in 1..L : b[k] = a[k]
      BY <2>3, <3>1, <3>2 DEF L
    <3>4. \A k \in 1..L : at[k] \in 1..m /\ more[k] = at[k] /\ k \in 1..(L + 1) /\ k # L + 1
      <4>1. at \in [1..L -> 1..m]
        BY <2>2 DEF Gathers, L
      <4>2. \A k \in 1..L : k \in 1..(L + 1) /\ k # L + 1 /\ k <= L
        BY <2>3
      <4> QED
        BY <4>1, <4>2
    <3>5. more[L + 1] = m + 1 /\ L + 1 \in 1..(L + 1) /\ m + 1 \in 1..(m + 1)
      BY <2>3
    <3>6. \A k \in 1..(L + 1) : k \in 1..L \/ k = L + 1
      BY <2>3
    <3>7. more \in [1..(L + 1) -> 1..(m + 1)]
      <4>1. \A k \in 1..L : at[k] \in 1..(m + 1)
        <5>1. \A i \in 1..m : i \in 1..(m + 1)
          OBVIOUS
        <5> QED
          BY <3>4, <5>1
      <4> QED
        BY <2>3, <3>5, <4>1
    <3> HIDE DEF more
    <3>8. \A k \in 1..(L + 1) : s[more[k]] = <<b[k]>>
      BY <2>2, <3>1, <3>3, <3>4, <3>5, <3>6 DEF Gathers, L
    <3>9. ASSUME NEW k \in 1..(L + 1), NEW l \in 1..(L + 1), k # l PROVE more[k] # more[l]
      <4>1. m + 1 \notin 1..m
        OBVIOUS
      <4>2. k \in 1..L /\ l \in 1..L => at[k] # at[l]
        BY <2>2, <3>9 DEF Gathers, L
      <4> QED
        BY <3>4, <3>5, <3>6, <3>9, <4>1, <4>2
    <3>10. ASSUME NEW i \in 1..(m + 1), s[i] # <<>> PROVE \E k \in 1..(L + 1) : more[k] = i
      <4>1. CASE i = m + 1
        BY <3>5, <4>1
      <4>2. CASE i # m + 1
        <5>1. i \in 1..m
          BY <4>2
        <5>2. PICK k \in 1..L : at[k] = i
          BY <2>2, <3>10, <5>1 DEF Gathers, L
        <5> QED
          BY <3>4, <5>2
      <4> QED
        BY <4>1, <4>2
    <3>11. Gathers(b, s, m + 1, more)
      BY <3>3, <3>7, <3>8, <3>9, <3>10 DEF Gathers
    <3> QED
      BY <3>11 DEF b
  <2> QED
    BY <2>1, <2>4, <2>5
<1> HIDE DEF S
<1>4. \A k \in Nat : k \in S
  BY <1>2, <1>3, Induction
<1>5. \E at : Gathers(F(n), s, n, at)
  BY <1>4 DEF S
<1>6. F(n) \in Seq(V)
  BY <1>1
<1> QED
  BY <1>1, <1>5, <1>6

\* The smaller of two.
LEMMA MinTwo ==
    ASSUME NEW a \in Nat, NEW b \in Nat
    PROVE  Min({a, b}) = IF a <= b THEN a ELSE b
<1> DEFINE m == IF a <= b THEN a ELSE b
           T == {a, b}
<1>1. m \in T /\ \A y \in T : m <= y
  OBVIOUS
<1>2. \A x \in T : (\A y \in T : x <= y) => x = m
  OBVIOUS
<1> HIDE DEF m, T
<1>3. Min(T) = m
  BY <1>1, <1>2 DEF Min
<1> QED
  BY <1>3 DEF m, T

APosition == [line : Nat, character : Nat]
ARange == [start : APosition, end : APosition]
APart == [line : Nat, start : Nat, length : Nat]

\* The columns of a line that a range has, and the part of it that is pushed.
CellColumns(range, line, units) ==
    {c \in 0..(units - 1) :
        /\ line > range.start.line \/ (line = range.start.line /\ c >= range.start.character)
        /\ line < range.end.line \/ (line = range.end.line /\ c < range.end.character)}
PartOf(text, range, enc, l) ==
    IF l - 1 \in range.start.line..range.end.line THEN LinePart(text, range, enc, l - 1) ELSE <<>>
LineCount(text) == LineOf(text, Len(text)) + 1
UnitsOf(text, enc, l) == Size(Split(text)[l], enc)

\* A text's lines are counted, and each has a size.
LEMMA LinesAre ==
    ASSUME NEW text \in Seq(Char), NEW enc \in Encodings
    PROVE  /\ LineCount(text) \in Nat /\ DOMAIN Split(text) = 1..LineCount(text)
           /\ \A l \in 1..LineCount(text) : UnitsOf(text, enc, l) \in Nat
<1>1. LineOf(text, Len(text)) \in Nat
  BY EndPlaces, LineSteps
<1>2. DOMAIN Split(text) = 1..LineCount(text)
  BY DEF Split, LineCount
<1>3. ASSUME NEW l \in 1..LineCount(text) PROVE UnitsOf(text, enc, l) \in Nat
  <2>1. l - 1 \in 0..LineOf(text, Len(text))
    BY <1>1 DEF LineCount
  <2>2. Split(text)[l] = Line(text, l - 1)
    BY <1>1 DEF Split, Line, LineCount
  <2> QED
    BY <2>1, <2>2, LineIs, SizeType DEF UnitsOf
<1> QED
  BY <1>1, <1>2, <1>3 DEF LineCount

\* The part that is pushed is the columns that the range has, if it has any.
IsPart(part, range, line, units) ==
    \/ part = <<>> /\ CellColumns(range, line, units) = {}
    \/ \E x \in APart : /\ part = <<x>> /\ x.line = line /\ x.length > 0
                        /\ CellColumns(range, line, units) = x.start..(x.start + x.length - 1)

\* LinePart is that part.
LEMMA PartIsColumns ==
    ASSUME NEW text \in Seq(Char), NEW enc \in Encodings, NEW range \in ARange,
           NEW l \in 1..LineCount(text)
    PROVE  IsPart(PartOf(text, range, enc, l), range, l - 1, UnitsOf(text, enc, l))
<1> DEFINE units == UnitsOf(text, enc, l)
           line == l - 1
           C == CellColumns(range, line, units)
           start == IF line = range.start.line THEN Min({range.start.character, units}) ELSE 0
           end == IF line = range.end.line THEN Min({range.end.character, units}) ELSE units
           x == [line |-> line, start |-> start, length |-> end - start]
<1>1. /\ range.start.line \in Nat /\ range.start.character \in Nat
      /\ range.end.line \in Nat /\ range.end.character \in Nat
  BY DEF ARange, APosition
<1>2. units \in Nat /\ line \in Nat /\ line + 1 = l
  BY LinesAre
<1>3. LinePart(text, range, enc, line) = IF end > start THEN <<x>> ELSE <<>>
  BY <1>2 DEF LinePart, UnitsOf
<1> HIDE DEF units, line
<1>4. start = IF line = range.start.line
              THEN (IF range.start.character <= units THEN range.start.character ELSE units) ELSE 0
  BY <1>1, <1>2, MinTwo
<1>5. end = IF line = range.end.line
            THEN (IF range.end.character <= units THEN range.end.character ELSE units) ELSE units
  BY <1>1, <1>2, MinTwo
<1> HIDE DEF start, end
<1>6. start \in Nat /\ end \in Nat
  BY <1>1, <1>2, <1>4, <1>5
<1>7. CASE line \in range.start.line..range.end.line
  <2>1. PartOf(text, range, enc, l) = IF end > start THEN <<x>> ELSE <<>>
    BY <1>3, <1>7 DEF PartOf, line
  <2>2. C = start..(end - 1)
    <3>1. ASSUME NEW c \in Nat
          PROVE c \in C <=> c \in start..(end - 1)
      BY <1>1, <1>2, <1>4, <1>5, <1>6, <1>7, SMTT(20) DEF CellColumns
    <3>2. (\A c \in C : c \in Nat) /\ \A c \in start..(end - 1) : c \in Nat
      BY <1>2, <1>6 DEF CellColumns
    <3> HIDE DEF C
    <3> QED
      BY <3>1, <3>2
  <2> HIDE DEF C
  <2>3. CASE end > start
    <3>1. x \in APart /\ x.line = line /\ x.length > 0 /\ x.start = start
          /\ x.start + x.length - 1 = end - 1
      BY <1>2, <1>6, <2>3 DEF APart
    <3>2. PartOf(text, range, enc, l) = <<x>>
      BY <2>1, <2>3
    <3> HIDE DEF x
    <3> QED
      BY <2>2, <3>1, <3>2 DEF IsPart, C, line, units
  <2>4. CASE ~(end > start)
    <3>1. C = {} /\ PartOf(text, range, enc, l) = <<>>
      BY <1>6, <2>1, <2>2, <2>4
    <3> QED
      BY <3>1 DEF IsPart, C, line, units
  <2> QED
    BY <2>3, <2>4
<1>8. CASE line \notin range.start.line..range.end.line
  <2>1. PartOf(text, range, enc, l) = <<>>
    BY <1>8 DEF PartOf, line
  <2>2. C = {}
    BY <1>1, <1>2, <1>8 DEF CellColumns
  <2> QED
    BY <2>1, <2>2 DEF IsPart, line, units
<1> QED
  BY <1>7, <1>8

\* The parts of all lines.
PartsOf(text, range, enc) ==
    FlattenSeq([l \in 1..LineCount(text) |-> PartOf(text, range, enc, l)])

\* The columns that a part covers are those that the range has of its line.
Covers(x, range, text, enc) ==
    /\ x \in APart /\ x.line + 1 \in 1..LineCount(text) /\ x.length > 0
    /\ CellColumns(range, x.line, UnitsOf(text, enc, x.line + 1)) = x.start..(x.start + x.length - 1)

\* There is one part of each line that the range has columns of.
LEMMA PartsAre ==
    ASSUME NEW text \in Seq(Char), NEW enc \in Encodings, NEW range \in ARange,
           NEW parts, parts = PartsOf(text, range, enc)
    PROVE  /\ parts \in Seq(APart)
           /\ \A k \in 1..Len(parts) : Covers(parts[k], range, text, enc)
           /\ \A k, m \in 1..Len(parts) : k # m => parts[k].line # parts[m].line
           /\ \A l \in 1..LineCount(text) :
                 CellColumns(range, l - 1, UnitsOf(text, enc, l)) # {} =>
                    \E k \in 1..Len(parts) : parts[k].line = l - 1
<1> DEFINE n == LineCount(text)
           s == [l \in 1..n |-> PartOf(text, range, enc, l)]
           C(l) == CellColumns(range, l - 1, UnitsOf(text, enc, l))
<1>1. n \in Nat
  BY LinesAre
<1>2. \A l \in 1..n : IsPart(s[l], range, l - 1, UnitsOf(text, enc, l))
  BY PartIsColumns
<1>3. parts = FlattenSeq(s)
  BY DEF PartsOf
<1>4. DOMAIN s = 1..n /\ s = [l \in 1..n |-> s[l]]
  OBVIOUS
<1> HIDE DEF n, s
<1>5. \A l \in 1..n : s[l] = <<>> \/ \E x \in APart : s[l] = <<x>>
  BY <1>2 DEF IsPart
<1>6. s \in [1..n -> Seq(APart)]
  <2>1. \A x \in APart : <<x>> \in Seq(APart)
    OBVIOUS
  <2>2. <<>> \in Seq(APart)
    OBVIOUS
  <2>3. \A l \in 1..n : s[l] \in Seq(APart)
    BY <1>5, <2>1, <2>2
  <2> QED
    BY <1>4, <2>3
<1>7. parts \in Seq(APart) /\ \E at : Gathers(parts, s, n, at)
  BY <1>1, <1>3, <1>5, <1>6, FlatGathers
<1>8. PICK at : Gathers(parts, s, n, at)
  BY <1>7
<1>9. ASSUME NEW k \in 1..Len(parts)
      PROVE  /\ at[k] \in 1..n /\ parts[k].line = at[k] - 1
             /\ Covers(parts[k], range, text, enc)
  <2>1. at[k] \in 1..n /\ s[at[k]] = <<parts[k]>>
    BY <1>8 DEF Gathers
  <2>2. <<parts[k]>> # <<>>
    OBVIOUS
  <2>3. PICK x \in APart : /\ s[at[k]] = <<x>> /\ x.line = at[k] - 1 /\ x.length > 0
                           /\ C(at[k]) = x.start..(x.start + x.length - 1)
    BY <1>2, <2>1, <2>2 DEF IsPart
  <2>4. x = parts[k]
    BY <2>1, <2>3
  <2>5. x.line + 1 = at[k]
    BY <1>1, <2>1, <2>3
  <2>6. CellColumns(range, x.line, UnitsOf(text, enc, x.line + 1)) = x.start..(x.start + x.length - 1)
    BY <2>3, <2>5
  <2>7. x.line + 1 \in 1..LineCount(text)
    BY <2>1, <2>5 DEF n
  <2> QED
    BY <2>1, <2>3, <2>4, <2>6, <2>7 DEF Covers
<1>10. ASSUME NEW k \in 1..Len(parts), NEW m \in 1..Len(parts), k # m
       PROVE  parts[k].line # parts[m].line
  <2>1. at[k] # at[m]
    BY <1>8, <1>10 DEF Gathers
  <2>2. /\ at[k] \in 1..n /\ parts[k].line = at[k] - 1
        /\ at[m] \in 1..n /\ parts[m].line = at[m] - 1
    BY <1>9
  <2> QED
    BY <1>1, <2>1, <2>2
<1>11. ASSUME NEW l \in 1..n, C(l) # {} PROVE \E k \in 1..Len(parts) : parts[k].line = l - 1
  <2>1. s[l] # <<>>
    <3>1. PICK x \in APart : s[l] = <<x>>
      BY <1>2, <1>11 DEF IsPart
    <3> QED
      BY <3>1
  <2>2. PICK k \in 1..Len(parts) : at[k] = l
    BY <1>8, <2>1 DEF Gathers
  <2> QED
    BY <1>9, <2>2
<1> QED
  BY <1>7, <1>9, <1>10, <1>11 DEF n

\* The cells of a range are the columns that it has of each line.
LEMMA CellsAre ==
    ASSUME NEW text \in Seq(Char), NEW enc \in Encodings, NEW range
    PROVE  \A cell : cell \in Cells(text, range, enc) <=>
              \E l \in 1..LineCount(text) : \E c \in CellColumns(range, l - 1, UnitsOf(text, enc, l)) :
                 cell = Pos(l - 1, c)
<1>1. DOMAIN Split(text) = 1..LineCount(text)
  BY LinesAre
<1>2. \A l, c : Pos(l, c).line = l /\ Pos(l, c).character = c
  BY DEF Pos
<1> HIDE DEF Pos
<1> QED
  BY <1>1, <1>2 DEF Cells, CellColumns, UnitsOf

-----------------------------------------------------------------------------
(* Colours *)

\* The tokens of a type are in these cells and are in each, one to a line.
Marks(t, type, bits, cells) ==
    /\ \A i \in 1..Len(t) : t[i].type = type =>
          t[i].bits = bits /\ t[i].length > 0 /\ \A cell \in CellsOf(t[i]) : cell \in cells
    /\ \A cell \in cells : \E i \in 1..Len(t) : t[i].type = type /\ cell \in CellsOf(t[i])
    /\ \A i, k \in 1..Len(t) :
          t[i].type = type /\ t[k].type = type /\ i # k => t[i].line # t[k].line

\* What marks cells paints them.
LEMMA MarksPaint ==
    ASSUME NEW t \in Seq(AToken), NEW type, NEW bits, NEW cells, Marks(t, type, bits, cells)
    PROVE  Paints(t, type, bits, cells)
<1> DEFINE T == {i \in DOMAIN t : t[i].type = type}
<1>1. DOMAIN t = 1..Len(t)
  OBVIOUS
<1>2. UNION {CellsOf(t[i]) : i \in T} = cells
  <2>1. ASSUME NEW cell \in UNION {CellsOf(t[i]) : i \in T} PROVE cell \in cells
    BY <1>1 DEF Marks
  <2>2. ASSUME NEW cell \in cells PROVE cell \in UNION {CellsOf(t[i]) : i \in T}
    BY <1>1 DEF Marks
  <2> QED
    BY <2>1, <2>2
<1>3. \A i \in T : t[i].bits = bits /\ t[i].length > 0
  BY <1>1 DEF Marks
<1>4. \A i, k \in T : i # k => t[i].line # t[k].line
  BY <1>1 DEF Marks
<1> QED
  BY <1>2, <1>3, <1>4 DEF Paints

\* The order of tokens makes no difference.
LEMMA MarksArranged ==
    ASSUME NEW s \in Seq(AToken), NEW t \in Seq(AToken), Len(t) = Len(s),
           NEW order \in [1..Len(s) -> 1..Len(s)], Arranges(t, s, order),
           NEW type, NEW bits, NEW cells, Marks(s, type, bits, cells)
    PROVE  Marks(t, type, bits, cells)
<1> DEFINE n == Len(s)
<1>1. \A k \in 1..n : order[k] \in 1..n /\ t[k] = s[order[k]]
  BY DEF Arranges
<1>2. (\A i \in 1..n : \E k \in 1..n : order[k] = i) /\ \A k, l \in 1..n : k # l => order[k] # order[l]
  BY DEF Arranges
<1>3. /\ \A i \in 1..n : s[i].type = type =>
            s[i].bits = bits /\ s[i].length > 0 /\ \A cell \in CellsOf(s[i]) : cell \in cells
      /\ \A cell \in cells : \E i \in 1..n : s[i].type = type /\ cell \in CellsOf(s[i])
      /\ \A i, k \in 1..n :
            s[i].type = type /\ s[k].type = type /\ i # k => s[i].line # s[k].line
  BY DEF Marks
<1>4. Len(t) = n
  OBVIOUS
<1> HIDE DEF n
<1>5. ASSUME NEW cell \in cells PROVE \E k \in 1..n : t[k].type = type /\ cell \in CellsOf(t[k])
  <2>1. PICK i \in 1..n : s[i].type = type /\ cell \in CellsOf(s[i])
    BY <1>3
  <2>2. PICK k \in 1..n : order[k] = i
    BY <1>2
  <2> QED
    BY <1>1, <2>1, <2>2
<1>6. ASSUME NEW k \in 1..n, NEW l \in 1..n, t[k].type = type, t[l].type = type, k # l
      PROVE  t[k].line # t[l].line
  <2>1. order[k] # order[l]
    BY <1>2, <1>6
  <2>2. /\ order[k] \in 1..n /\ t[k] = s[order[k]]
        /\ order[l] \in 1..n /\ t[l] = s[order[l]]
    BY <1>1
  <2> QED
    BY <1>3, <1>6, <2>1, <2>2
<1>7. ASSUME NEW k \in 1..n, t[k].type = type
      PROVE  t[k].bits = bits /\ t[k].length > 0 /\ \A cell \in CellsOf(t[k]) : cell \in cells
  BY <1>1, <1>3, <1>7
<1> QED
  BY <1>4, <1>5, <1>6, <1>7 DEF Marks

\* Tokens for the parts.
Coloured(parts, type, bits) ==
    [i \in DOMAIN parts |-> Token(parts[i].line, parts[i].start, parts[i].length, type, bits)]

\* One for each.
LEMMA ColouredIs ==
    ASSUME NEW parts \in Seq(APart), NEW type \in Nat, NEW bits \in Bits
    PROVE  /\ Coloured(parts, type, bits) \in Seq(AToken)
           /\ Len(Coloured(parts, type, bits)) = Len(parts)
           /\ \A i \in 1..Len(parts) :
                 Coloured(parts, type, bits)[i]
                    = Token(parts[i].line, parts[i].start, parts[i].length, type, bits)
<1> DEFINE n == Len(parts)
           t == Coloured(parts, type, bits)
<1>1. n \in Nat /\ DOMAIN parts = 1..n /\ \A i \in 1..n : parts[i] \in APart
  OBVIOUS
<1>2. t = [i \in 1..n |-> Token(parts[i].line, parts[i].start, parts[i].length, type, bits)]
  BY <1>1 DEF Coloured
<1>3. ASSUME NEW i \in 1..n
      PROVE  Token(parts[i].line, parts[i].start, parts[i].length, type, bits) \in AToken
  BY <1>1 DEF Token, AToken, APart
<1> HIDE DEF t, n
<1>4. t \in [1..n -> AToken]
  BY <1>2, <1>3
<1>5. t \in Seq(AToken) /\ Len(t) = n
  BY ONLY <1>1, <1>4, LengthIs
<1> QED
  BY <1>2, <1>5 DEF t, n

\* They mark the cells of the range.
LEMMA PartsMark ==
    ASSUME NEW text \in Seq(Char), NEW enc \in Encodings, NEW range \in ARange,
           NEW type \in Nat, NEW bits \in Bits
    PROVE  /\ PartsOf(text, range, enc) \in Seq(APart)
           /\ Marks(Coloured(PartsOf(text, range, enc), type, bits), type, bits,
                    Cells(text, range, enc))
           /\ PartsOf(text, range, enc) = <<>> <=> Cells(text, range, enc) = {}
<1> DEFINE parts == PartsOf(text, range, enc)
           t == Coloured(parts, type, bits)
           cells == Cells(text, range, enc)
           n == Len(parts)
           C(l) == CellColumns(range, l - 1, UnitsOf(text, enc, l))
<1>1. /\ parts \in Seq(APart)
      /\ \A k \in 1..n : Covers(parts[k], range, text, enc)
      /\ \A k, m \in 1..n : k # m => parts[k].line # parts[m].line
      /\ \A l \in 1..LineCount(text) : C(l) # {} => \E k \in 1..n : parts[k].line = l - 1
  <2> HIDE DEF parts
  <2> QED
    BY PartsAre DEF parts
<1>2. /\ t \in Seq(AToken) /\ Len(t) = n
      /\ \A i \in 1..n : t[i] = Token(parts[i].line, parts[i].start, parts[i].length, type, bits)
  BY <1>1, ColouredIs
<1>3. \A cell : cell \in cells <=> \E l \in 1..LineCount(text) : \E c \in C(l) : cell = Pos(l - 1, c)
  BY CellsAre
<1>4. n \in Nat /\ LineCount(text) \in Nat
  BY <1>1, LinesAre
<1> HIDE DEF parts, t, cells, n, C
<1>5. ASSUME NEW k \in 1..n
      PROVE  /\ t[k].type = type /\ t[k].bits = bits /\ t[k].length > 0 /\ t[k].line = parts[k].line
             /\ parts[k].line + 1 \in 1..LineCount(text) /\ parts[k].line \in Nat
             /\ CellsOf(t[k]) = {Pos(parts[k].line, c) : c \in C(parts[k].line + 1)}
  <2>1. Covers(parts[k], range, text, enc)
    BY <1>1
  <2>2. parts[k].line \in Nat /\ (parts[k].line + 1) - 1 = parts[k].line
    BY <2>1 DEF Covers, APart
  <2>3. C(parts[k].line + 1) = parts[k].start..(parts[k].start + parts[k].length - 1)
    BY <2>1, <2>2 DEF Covers, C
  <2>4. /\ t[k].type = type /\ t[k].bits = bits /\ t[k].length = parts[k].length
        /\ t[k].line = parts[k].line /\ t[k].start = parts[k].start
    <3>1. t[k] = Token(parts[k].line, parts[k].start, parts[k].length, type, bits)
      BY <1>2
    <3> QED
      BY ONLY <3>1 DEF Token
  <2>5. CellsOf(t[k]) = {Pos(parts[k].line, c) : c \in C(parts[k].line + 1)}
    BY <2>3, <2>4 DEF CellsOf
  <2> QED
    BY <2>1, <2>2, <2>4, <2>5 DEF Covers
<1>6. ASSUME NEW k \in 1..n, NEW cell \in CellsOf(t[k]) PROVE cell \in cells
  <2>1. PICK c \in C(parts[k].line + 1) : cell = Pos(parts[k].line, c)
    BY <1>5, <1>6
  <2>2. parts[k].line + 1 \in 1..LineCount(text) /\ (parts[k].line + 1) - 1 = parts[k].line
    BY <1>5
  <2> QED
    BY <1>3, <2>1, <2>2
<1>7. ASSUME NEW cell \in cells PROVE \E k \in 1..n : t[k].type = type /\ cell \in CellsOf(t[k])
  <2>0. PICK l \in 1..LineCount(text) : \E c \in C(l) : cell = Pos(l - 1, c)
    BY <1>3
  <2>1. PICK c \in C(l) : cell = Pos(l - 1, c)
    BY <2>0
  <2>2. PICK k \in 1..n : parts[k].line = l - 1
    BY <1>1, <2>1
  <2>3. parts[k].line + 1 = l
    BY <1>4, <2>2
  <2> QED
    BY <1>5, <2>1, <2>2, <2>3
<1>8. Marks(t, type, bits, cells)
  <2>1. \A i, k \in 1..n : i # k => t[i].line # t[k].line
    BY <1>1, <1>5
  <2> QED
    BY <1>2, <1>5, <1>6, <1>7, <2>1 DEF Marks
<1>9. parts = <<>> <=> cells = {}
  <2>1. CASE parts = <<>>
    <3>1. n = 0
      BY <2>1 DEF n
    <3>2. 1..n = {}
      BY <3>1
    <3> QED
      BY <1>7, <2>1, <3>2
  <2>2. CASE parts # <<>>
    <3>1. 1 \in 1..n
      BY <1>1, <1>4, <2>2 DEF n
    <3>2. parts[1].length > 0 /\ parts[1].start \in Nat /\ parts[1].length \in Nat
          /\ C(parts[1].line + 1) = parts[1].start..(parts[1].start + parts[1].length - 1)
      <4>1. Covers(parts[1], range, text, enc)
        BY <1>1, <3>1
      <4>2. (parts[1].line + 1) - 1 = parts[1].line
        BY <4>1 DEF Covers, APart
      <4> QED
        BY <4>1, <4>2 DEF Covers, APart, C
    <3>3. parts[1].start \in C(parts[1].line + 1)
      BY <3>2
    <3>4. Pos(parts[1].line, parts[1].start) \in cells
      BY <1>5, <1>6, <3>1, <3>3
    <3> QED
      BY <2>2, <3>4
  <2> QED
    BY <2>1, <2>2
<1> QED
  BY <1>1, <1>8, <1>9 DEF parts, t, cells

\* Tokens of another type mark nothing, whether pushed before or after.
LEMMA MarksJoined ==
    ASSUME NEW a \in Seq(AToken), NEW b \in Seq(AToken), NEW type, NEW bits, NEW cells,
           \/ Marks(a, type, bits, cells) /\ \A i \in 1..Len(b) : b[i].type # type
           \/ Marks(b, type, bits, cells) /\ \A i \in 1..Len(a) : a[i].type # type
    PROVE  a \o b \in Seq(AToken) /\ Marks(a \o b, type, bits, cells)
<1> DEFINE t == a \o b
           m == Len(a)
           n == Len(b)
<1>1. /\ t \in Seq(AToken) /\ Len(t) = m + n /\ m \in Nat /\ n \in Nat
      /\ (\A i \in 1..m : t[i] = a[i]) /\ \A i \in 1..n : t[m + i] = b[i]
  OBVIOUS
<1> HIDE DEF t, m, n
<1>2. \A i \in 1..(m + n) : i \in 1..m \/ (i - m \in 1..n /\ m + (i - m) = i)
  BY <1>1
<1>3. (\A i \in 1..m : i \in 1..(m + n)) /\ \A i \in 1..n : m + i \in 1..(m + n)
  BY <1>1
<1>4. CASE Marks(a, type, bits, cells) /\ \A i \in 1..Len(b) : b[i].type # type
  <2>1. \A i \in 1..(m + n) : t[i].type = type => i \in 1..m /\ t[i] = a[i]
    <3>1. \A i \in 1..n : t[m + i].type # type
      BY <1>1, <1>4 DEF n
    <3> QED
      BY <1>1, <1>2, <3>1
  <2>2. \A i \in 1..m : i \in 1..(m + n) /\ t[i] = a[i]
    BY <1>1, <1>3
  <2> QED
    BY <1>1, <1>4, <2>1, <2>2 DEF Marks, t, m
<1>5. CASE Marks(b, type, bits, cells) /\ \A i \in 1..Len(a) : a[i].type # type
  <2>1. ASSUME NEW i \in 1..(m + n), t[i].type = type
        PROVE  i - m \in 1..n /\ t[i] = b[i - m] /\ m + (i - m) = i
    <3>1. \A k \in 1..m : t[k].type # type
      BY <1>1, <1>5 DEF m
    <3>2. i - m \in 1..n /\ m + (i - m) = i
      BY <1>2, <2>1, <3>1
    <3>3. t[m + (i - m)] = b[i - m]
      BY <1>1, <3>2
    <3> QED
      BY <3>2, <3>3
  <2>2. \A i \in 1..n : m + i \in 1..(m + n) /\ t[m + i] = b[i]
    BY <1>1, <1>3
  <2>3. ASSUME NEW i \in 1..(m + n), NEW k \in 1..(m + n), t[i].type = type, t[k].type = type, i # k
        PROVE  t[i].line # t[k].line
    <3>1. i - m \in 1..n /\ t[i] = b[i - m] /\ m + (i - m) = i
      BY <2>1, <2>3
    <3>2. k - m \in 1..n /\ t[k] = b[k - m] /\ m + (k - m) = k
      BY <2>1, <2>3
    <3>3. i - m # k - m
      BY <2>3, <3>1, <3>2
    <3> QED
      BY <1>5, <2>3, <3>1, <3>2, <3>3 DEF Marks, n
  <2>4. ASSUME NEW i \in 1..(m + n), t[i].type = type
        PROVE  t[i].bits = bits /\ t[i].length > 0 /\ \A cell \in CellsOf(t[i]) : cell \in cells
    <3>1. i - m \in 1..n /\ t[i] = b[i - m]
      BY <2>1, <2>4
    <3> QED
      BY <1>5, <2>4, <3>1 DEF Marks, n
  <2>5. ASSUME NEW cell \in cells
        PROVE  \E i \in 1..(m + n) : t[i].type = type /\ cell \in CellsOf(t[i])
    <3>1. PICK i \in 1..n : b[i].type = type /\ cell \in CellsOf(b[i])
      BY <1>5 DEF Marks, n
    <3> QED
      BY <2>2, <3>1
  <2> QED
    BY <1>1, <2>3, <2>4, <2>5 DEF Marks, t
<1> QED
  BY <1>4, <1>5

-----------------------------------------------------------------------------
(* Names *)

\* The smallest of one number.
LEMMA MinOne == ASSUME NEW a \in Nat PROVE Min({a}) = a
<1> DEFINE T == {a}
<1>1. a \in T /\ (\A y \in T : a <= y) /\ \A x \in T : x = a
  OBVIOUS
<1> HIDE DEF T
<1>2. Min(T) = a
  BY <1>1 DEF Min
<1> QED
  BY <1>2 DEF T

\* Where a name stands in the full legend.
LEMMA NamesAt ==
    /\ Position(FullLegend.types, "keyword") = {0} /\ Position(FullLegend.types, "variable") = {1}
    /\ \A m \in 1..Width : Position(FullLegend.modifiers, m) = {m - 1}
    /\ Position(FullLegend.modifiers, UnknownModifier) = {}
<1> DEFINE at(names, name) == {i \in DOMAIN names : names[i] = name}
           types == <<"keyword", "variable">>
           mods == [i \in 1..Width |-> i]
<1>1. FullLegend.types = types /\ FullLegend.modifiers = mods
  BY DEF FullLegend
<1>2. DOMAIN types = 1..2 /\ types[1] = "keyword" /\ types[2] = "variable"
  OBVIOUS
<1>3. DOMAIN mods = 1..32 /\ \A i \in 1..32 : mods[i] = i
  BY DEF Width
<1> HIDE DEF types, mods
<1>4. at(types, "keyword") = {1} /\ at(types, "variable") = {2}
  BY <1>2
<1>5. ASSUME NEW m \in 1..32 PROVE at(mods, m) = {m}
  BY <1>3
<1>6. at(mods, 33) = {}
  BY <1>3
<1>7. \A a \in Nat : {a} # {} /\ Min({a}) = a
  BY MinOne
<1>8. \A names, name :
         Position(names, name) = IF at(names, name) = {} THEN {} ELSE {Min(at(names, name)) - 1}
  BY DEF Position
<1> HIDE DEF at
<1>9. Position(types, "keyword") = {1 - 1} /\ Position(types, "variable") = {2 - 1}
  BY <1>4, <1>7, <1>8
<1>10. ASSUME NEW m \in 1..32 PROVE Position(mods, m) = {m - 1}
  <2>1. at(mods, m) = {m} /\ m \in Nat
    BY <1>5
  <2>2. {m} # {} /\ Min({m}) = m
    BY <1>7, <2>1
  <2>3. Position(mods, m) = IF at(mods, m) = {} THEN {} ELSE {Min(at(mods, m)) - 1}
    BY <1>8
  <2> QED
    BY <2>1, <2>2, <2>3
<1>11. Position(mods, 33) = {}
  BY <1>6, <1>8
<1> QED
  BY <1>1, <1>9, <1>10, <1>11 DEF Width, UnknownModifier

\* The names of the full legend make a token of the type's index and a bit for
\* each modifier; one name that it does not have is an error.
LEMMA NamesResolved ==
    ASSUME NEW type, NEW t \in Nat, Position(FullLegend.types, type) = {t},
           NEW modifiers \in Seq(1..UnknownModifier)
    PROVE  /\ (\E i \in DOMAIN modifiers : modifiers[i] = UnknownModifier) =>
                 ResolveNames(FullLegend, type, modifiers) = {[outcome |-> "error"]}
           /\ (\A i \in DOMAIN modifiers : modifiers[i] # UnknownModifier) =>
                 /\ {modifiers[i] - 1 : i \in DOMAIN modifiers} \in Bits
                 /\ ResolveNames(FullLegend, type, modifiers)
                       = {[outcome |-> "token", type |-> t,
                           bits |-> {modifiers[i] - 1 : i \in DOMAIN modifiers}]}
<1> DEFINE D == DOMAIN modifiers
           index(i) == Position(FullLegend.modifiers, modifiers[i])
           unknown == {i \in D : index(i) = {}}
           wide == {i \in D \ unknown : Min(index(i)) >= Width}
           bits == {Min(index(i)) % Width : i \in D}
           meant == {modifiers[i] - 1 : i \in D}
<1>0. UnknownModifier = 33 /\ Width = 32
  BY DEF UnknownModifier, Width
<1>1. \A i \in D : modifiers[i] \in 1..33
  <2> DEFINE S == 1..33
  <2>1. modifiers \in Seq(S)
    BY <1>0
  <2> HIDE DEF S
  <2>2. \A i \in D : modifiers[i] \in S
    BY <2>1
  <2> QED
    BY <2>2 DEF S
<1>2. ASSUME NEW i \in D, modifiers[i] # 33
      PROVE  index(i) = {modifiers[i] - 1} /\ Min(index(i)) = modifiers[i] - 1
             /\ modifiers[i] - 1 \in 0..31
  <2> DEFINE m == modifiers[i]
  <2>a. m \in 1..33 /\ m # 33
    BY <1>1, <1>2
  <2> HIDE DEF m
  <2>b. m \in 1..32 /\ m - 1 \in 0..31
    BY <2>a
  <2>c. m - 1 \in Nat
    BY <2>b
  <2>1. modifiers[i] \in 1..32 /\ modifiers[i] - 1 \in Nat /\ modifiers[i] - 1 \in 0..31
    BY ONLY <2>b, <2>c DEF m
  <2>2. index(i) = {modifiers[i] - 1}
    BY <1>0, <2>1, NamesAt
  <2>3. Min({modifiers[i] - 1}) = modifiers[i] - 1
    BY <2>1, MinOne
  <2> QED
    BY <2>1, <2>2, <2>3
<1>3. ASSUME NEW i \in D, modifiers[i] = 33 PROVE index(i) = {}
  BY <1>0, <1>3, NamesAt
<1>4. Position(FullLegend.types, type) = {t} /\ {t} # {} /\ Min({t}) = t
  BY MinOne
<1> HIDE DEF D, index
<1>5. \A i \in D : i \in unknown <=> modifiers[i] = 33
  BY <1>2, <1>3
<1>6. wide = {}
  <2>1. ASSUME NEW i \in D \ unknown PROVE ~(Min(index(i)) >= Width)
    <3> DEFINE x == Min(index(i))
    <3>1. x \in 0..31
      BY <1>2, <1>5
    <3> HIDE DEF x
    <3>2. ~(x >= 32)
      BY <3>1
    <3> QED
      BY <1>0, <3>2 DEF x
  <2> QED
    BY <2>1
<1>7. ResolveNames(FullLegend, type, modifiers)
         = IF {t} = {} THEN {[outcome |-> "error"]}
           ELSE (IF \E i \in wide : \A k \in unknown : i < k THEN {[outcome |-> "panic"]} ELSE {})
                \cup (IF unknown # {} THEN {[outcome |-> "error"]}
                      ELSE {[outcome |-> "token", type |-> Min({t}), bits |-> bits]})
  BY <1>4 DEF ResolveNames, D, index
<1> HIDE DEF wide
<1>8. ResolveNames(FullLegend, type, modifiers)
         = IF unknown # {} THEN {[outcome |-> "error"]}
           ELSE {[outcome |-> "token", type |-> t, bits |-> bits]}
  <2> HIDE DEF unknown, bits
  <2> QED
    BY <1>4, <1>6, <1>7
<1>9. CASE \E i \in D : modifiers[i] = 33
  <2>1. unknown # {}
    BY <1>5, <1>9
  <2> HIDE DEF unknown, bits
  <2> QED
    BY <1>8, <1>9, <2>1 DEF D, UnknownModifier, Width
<1>10. CASE \A i \in D : modifiers[i] # 33
  <2>1. unknown = {}
    BY <1>5, <1>10
  <2>a. \A k \in 0..31 : (k % 32) = k
    OBVIOUS
  <2>2. ASSUME NEW i \in D
        PROVE  (Min(index(i)) % Width) = modifiers[i] - 1 /\ modifiers[i] - 1 \in 0..31
    <3> DEFINE x == modifiers[i] - 1
    <3>1. Min(index(i)) = x /\ x \in 0..31
      BY <1>2, <1>10
    <3> HIDE DEF x
    <3>2. (x % 32) = x
      BY <2>a, <3>1
    <3> QED
      BY <1>0, <3>1, <3>2 DEF x
  <2>3. bits = meant
    BY <2>2
  <2>c. meant \in SUBSET (0..31)
    BY <2>2
  <2>d. 32 - 1 = 31
    OBVIOUS
  <2>e. meant \in Bits
    BY <1>0, <2>c, <2>d DEF Bits
  <2>4. \A i \in D : modifiers[i] # UnknownModifier
    BY <1>10 DEF UnknownModifier, Width
  <2> HIDE DEF unknown, bits
  <2> QED
    BY <1>8, <2>1, <2>3, <2>4, <2>e DEF D
<1> QED
  BY <1>9, <1>10

-----------------------------------------------------------------------------
(* Pushed and built *)

\* What is returned for these parts and this answer to the names.
Pushed(tokens, parts, names) ==
    IF parts = <<>> THEN [outcome |-> "pushed", tokens |-> tokens]
    ELSE IF names.outcome # "token" THEN names
    ELSE [outcome |-> "pushed", tokens |-> tokens \o Coloured(parts, names.type, names.bits)]

\* A range is pushed as tokens for its parts, or refused if it has any.
LEMMA RangePushed ==
    ASSUME NEW tokens \in Seq(AToken), NEW text, NEW enc, NEW range, NEW type, NEW modifiers,
           NEW names, ResolveNames(FullLegend, type, modifiers) = {names},
           DOMAIN Split(text) = 1..LineCount(text)
    PROVE  PushRange(tokens, FullLegend, text, range, enc, type, modifiers)
              = {Pushed(tokens, PartsOf(text, range, enc), names)}
<1> DEFINE parts == PartsOf(text, range, enc)
           res(nm) == IF nm.outcome # "token" THEN nm
                      ELSE [outcome |-> "pushed",
                            tokens |-> tokens \o Coloured(parts, nm.type, nm.bits)]
<1>1. PushRange(tokens, FullLegend, text, range, enc, type, modifiers)
         = IF parts = <<>> THEN {[outcome |-> "pushed", tokens |-> tokens]}
           ELSE {res(nm) : nm \in ResolveNames(FullLegend, type, modifiers)}
  BY DEF PushRange, PartsOf, PartOf, Coloured
<1> HIDE DEF parts
<1>2. {res(nm) : nm \in ResolveNames(FullLegend, type, modifiers)} = {res(names)}
  OBVIOUS
<1> QED
  BY <1>1, <1>2 DEF parts, Pushed

BitsOf(modifiers) == {modifiers[i] - 1 : i \in DOMAIN modifiers}
HasUnknown(modifiers) == \E i \in DOMAIN modifiers : modifiers[i] = UnknownModifier

\* What was pushed has tokens of type t for these cells, or an unknown name of a
\* modifier was refused.
Adds(pushed, tokens, t, modifiers, cells) ==
    IF HasUnknown(modifiers) /\ cells # {} THEN pushed = {[outcome |-> "error"]}
    ELSE \E added \in Seq(AToken) :
            /\ pushed = {[outcome |-> "pushed", tokens |-> tokens \o added]}
            /\ \A i \in 1..Len(added) : added[i].type = t
            /\ Marks(added, t, BitsOf(modifiers), cells)

\* What a range adds to the tokens marks its cells, in the type and the
\* modifiers that it was pushed with.
LEMMA RangeColoured ==
    ASSUME NEW text \in Seq(Char), NEW enc \in Encodings, NEW range \in ARange,
           NEW tokens \in Seq(AToken), NEW type, NEW t \in Nat, Position(FullLegend.types, type) = {t},
           NEW modifiers \in Seq(1..UnknownModifier)
    PROVE  Adds(PushRange(tokens, FullLegend, text, range, enc, type, modifiers),
                tokens, t, modifiers, Cells(text, range, enc))
<1> USE DEF Adds
<1> DEFINE cells == Cells(text, range, enc)
           parts == PartsOf(text, range, enc)
           bits == BitsOf(modifiers)
           pushed == PushRange(tokens, FullLegend, text, range, enc, type, modifiers)
           error == [outcome |-> "error"]
           token == [outcome |-> "token", type |-> t, bits |-> bits]
<1>1. parts \in Seq(APart) /\ (parts = <<>> <=> cells = {})
  <2>1. {} \in Bits
    BY DEF Bits
  <2> QED
    BY <2>1, PartsMark DEF cells
<1>2. DOMAIN Split(text) = 1..LineCount(text)
  BY LinesAre
<1>3. error.outcome # "token" /\ token.outcome = "token" /\ token.type = t /\ token.bits = bits
  OBVIOUS
<1>4. /\ HasUnknown(modifiers) => ResolveNames(FullLegend, type, modifiers) = {error}
      /\ ~HasUnknown(modifiers) => bits \in Bits /\ ResolveNames(FullLegend, type, modifiers) = {token}
  <2>1. ~HasUnknown(modifiers) => \A i \in DOMAIN modifiers : modifiers[i] # UnknownModifier
    BY DEF HasUnknown
  <2> QED
    BY <2>1, NamesResolved DEF HasUnknown, BitsOf
<1>5. ASSUME NEW names, ResolveNames(FullLegend, type, modifiers) = {names}
      PROVE  pushed = {Pushed(tokens, parts, names)}
  <2>1. tokens \in Seq(AToken)
    OBVIOUS
  <2> QED
    BY ONLY <1>2, <1>5, <2>1, RangePushed DEF pushed, parts
<1> HIDE DEF bits, pushed, parts, error, token, cells
<1>6. CASE parts = <<>>
  <2>1. \E names : ResolveNames(FullLegend, type, modifiers) = {names}
    BY <1>4
  <2>2. pushed = {[outcome |-> "pushed", tokens |-> tokens]}
    BY <1>5, <1>6, <2>1 DEF Pushed
  <2>3. <<>> \in Seq(AToken) /\ Len(<<>>) = 0 /\ 1..0 = {}
    OBVIOUS
  <2>4. tokens \o <<>> = tokens
    OBVIOUS
  <2>5. cells = {}
    BY <1>1, <1>6
  <2>6. Marks(<<>>, t, bits, cells) /\ \A i \in 1..Len(<<>>) : <<>>[i].type = t
    BY <2>3, <2>5 DEF Marks
  <2> QED
    BY <2>2, <2>3, <2>4, <2>5, <2>6 DEF pushed, bits, cells
<1>7. CASE parts # <<>> /\ HasUnknown(modifiers)
  <2>1. cells # {}
    BY <1>1, <1>7
  <2>2. pushed = {error}
    BY <1>3, <1>4, <1>5, <1>7 DEF Pushed
  <2> QED
    BY <1>7, <2>1, <2>2 DEF pushed, error, cells
<1>8. CASE parts # <<>> /\ ~HasUnknown(modifiers)
  <2> DEFINE added == Coloured(parts, t, bits)
  <2>1. bits \in Bits /\ ResolveNames(FullLegend, type, modifiers) = {token}
    BY <1>4, <1>8
  <2>2. pushed = {[outcome |-> "pushed", tokens |-> tokens \o added]}
    BY <1>3, <1>5, <1>8, <2>1 DEF Pushed
  <2>3. /\ added \in Seq(AToken) /\ Len(added) = Len(parts)
        /\ \A i \in 1..Len(parts) :
              added[i] = Token(parts[i].line, parts[i].start, parts[i].length, t, bits)
    BY <1>1, <2>1, ColouredIs
  <2>4. Marks(added, t, bits, cells)
    BY <2>1, PartsMark DEF parts, cells
  <2> HIDE DEF added
  <2>5. ASSUME NEW i \in 1..Len(added) PROVE added[i].type = t
    <3>1. added[i] = Token(parts[i].line, parts[i].start, parts[i].length, t, bits)
      BY <2>3
    <3>2. \A l, s, n : Token(l, s, n, t, bits).type = t
      BY DEF Token
    <3> QED
      BY <3>1, <3>2
  <2> QED
    BY <1>8, <2>2, <2>3, <2>4, <2>5 DEF pushed, bits, cells
<1> QED
  BY <1>6, <1>7, <1>8

\* What was pushed has tokens for both, or an unknown name of a modifier was
\* refused.
AddsBoth(pushed, modifiers, cells1, cells2) ==
    IF HasUnknown(modifiers) /\ cells2 # {} THEN pushed = {[outcome |-> "error"]}
    ELSE \E tokens \in Seq(AToken) :
            /\ pushed = {[outcome |-> "pushed", tokens |-> tokens]}
            /\ Marks(tokens, 1, {0}, cells1)
            /\ Marks(tokens, 0, BitsOf(modifiers), cells2)

\* Pushing two ranges is refused for an unknown name, or makes tokens that mark
\* the cells of both.
LEMMA BothColoured ==
    ASSUME NEW text \in Seq(Char), NEW enc \in Encodings, NEW first \in ARange, NEW second \in ARange,
           NEW modifiers \in Seq(1..UnknownModifier)
    PROVE  AddsBoth(PushBoth(text, enc, first, second, modifiers), modifiers,
                    Cells(text, first, enc), Cells(text, second, enc))
<1> DEFINE cells1 == Cells(text, first, enc)
           cells2 == Cells(text, second, enc)
           both == PushBoth(text, enc, first, second, modifiers)
<1>0. /\ text \in Seq(Char) /\ enc \in Encodings /\ first \in ARange /\ second \in ARange
      /\ modifiers \in Seq(1..UnknownModifier) /\ 0 \in Nat /\ 1 \in Nat
      /\ cells1 = Cells(text, first, enc) /\ cells2 = Cells(text, second, enc)
  OBVIOUS
<1> HIDE DEF cells1, cells2, both
<1>1. Position(FullLegend.types, "keyword") = {0} /\ Position(FullLegend.types, "variable") = {1}
  BY NamesAt
<1>2. /\ <<1>> \in Seq(1..UnknownModifier) /\ ~HasUnknown(<<1>>) /\ BitsOf(<<1>>) = {0}
      /\ <<>> \in Seq(AToken)
  <2>1. DOMAIN <<1>> = {1} /\ <<1>>[1] = 1 /\ UnknownModifier = 33
    BY DEF UnknownModifier, Width
  <2>2. 1 \in 1..UnknownModifier
    BY <2>1
  <2>3. ~HasUnknown(<<1>>)
    BY <2>1 DEF HasUnknown
  <2>4. BitsOf(<<1>>) = {1 - 1}
    BY <2>1 DEF BitsOf
  <2> QED
    BY <2>2, <2>3, <2>4
<1>3. PICK t1 \in Seq(AToken) :
         /\ PushRange(<<>>, FullLegend, text, first, enc, "variable", <<1>>)
               = {[outcome |-> "pushed", tokens |-> <<>> \o t1]}
         /\ \A i \in 1..Len(t1) : t1[i].type = 1
         /\ Marks(t1, 1, {0}, cells1)
  <2> DEFINE one == <<1>>
             none == <<>>
  <2>1. one \in Seq(1..UnknownModifier) /\ ~HasUnknown(one) /\ none \in Seq(AToken)
    BY <1>2
  <2>2. BitsOf(one) = {0}
    BY <1>2
  <2> HIDE DEF one, none
  <2> DEFINE pushed == PushRange(none, FullLegend, text, first, enc, "variable", one)
  <2>3. Adds(pushed, none, 1, one, Cells(text, first, enc))
    BY ONLY <1>0, <1>1, <2>1, RangeColoured, Zenon
  <2> HIDE DEF pushed
  <2>4. \E added \in Seq(AToken) :
           /\ pushed = {[outcome |-> "pushed", tokens |-> none \o added]}
           /\ \A i \in 1..Len(added) : added[i].type = 1
           /\ Marks(added, 1, {0}, cells1)
    BY ONLY <1>0, <2>1, <2>2, <2>3, Zenon DEF Adds
  <2> QED
    BY <2>4 DEF one, none, pushed
<1>4. <<>> \o t1 = t1
  OBVIOUS
<1>5. both = PushRange(t1, FullLegend, text, second, enc, "keyword", modifiers)
  <2> DEFINE again(one) == PushRange(one.tokens, FullLegend, text, second, enc, "keyword", modifiers)
             made == [outcome |-> "pushed", tokens |-> t1]
  <2>1. both = UNION {again(one) : one \in {made}}
    BY <1>3, <1>4 DEF PushBoth, both
  <2>2. made.tokens = t1
    OBVIOUS
  <2>3. again(made) = PushRange(t1, FullLegend, text, second, enc, "keyword", modifiers)
    BY <2>2
  <2> HIDE DEF again, made
  <2>4. UNION {again(one) : one \in {made}} = again(made)
    OBVIOUS
  <2> QED
    BY <2>1, <2>3, <2>4
<1> DEFINE pushed == PushRange(t1, FullLegend, text, second, enc, "keyword", modifiers)
<1>a. Adds(pushed, t1, 0, modifiers, cells2)
  <2>1. t1 \in Seq(AToken)
    OBVIOUS
  <2>2. Adds(pushed, t1, 0, modifiers, Cells(text, second, enc))
    BY ONLY <1>0, <1>1, <2>1, RangeColoured, Zenon
  <2> QED
    BY ONLY <1>0, <2>2
<1> HIDE DEF pushed
<1>6. CASE HasUnknown(modifiers) /\ cells2 # {}
  <2>1. pushed = {[outcome |-> "error"]}
    BY ONLY <1>6, <1>a DEF Adds
  <2>2. both = {[outcome |-> "error"]}
    BY <1>5, <2>1 DEF pushed
  <2> QED
    BY ONLY <1>6, <2>2 DEF AddsBoth, both, cells1, cells2
<1>7. CASE ~(HasUnknown(modifiers) /\ cells2 # {})
  <2>1. PICK t2 \in Seq(AToken) :
           /\ pushed = {[outcome |-> "pushed", tokens |-> t1 \o t2]}
           /\ \A i \in 1..Len(t2) : t2[i].type = 0
           /\ Marks(t2, 0, BitsOf(modifiers), cells2)
    BY ONLY <1>7, <1>a DEF Adds
  <2>2. (\A i \in 1..Len(t1) : t1[i].type # 0) /\ \A i \in 1..Len(t2) : t2[i].type # 1
    <3>1. 1 # 0
      OBVIOUS
    <3> QED
      BY ONLY <1>3, <2>1, <3>1
  <2>3. t1 \o t2 \in Seq(AToken) /\ Marks(t1 \o t2, 1, {0}, cells1)
    BY <1>3, <2>2, MarksJoined
  <2>4. Marks(t1 \o t2, 0, BitsOf(modifiers), cells2)
    BY <2>1, <2>2, MarksJoined
  <2>5. both = {[outcome |-> "pushed", tokens |-> t1 \o t2]}
    BY <1>5, <2>1 DEF pushed
  <2> QED
    BY ONLY <1>7, <2>3, <2>4, <2>5 DEF AddsBoth, both, cells1, cells2
<1> QED
  BY <1>6, <1>7

\* What is read back from the built tokens paints what the tokens mark.
LEMMA BuiltPaints ==
    ASSUME NEW tokens \in Seq(AToken), NEW type, NEW bits, NEW cells, Marks(tokens, type, bits, cells)
    PROVE  Paints(Absolute(Build(tokens)), type, bits, cells)
<1>1. /\ SortedTokens(tokens) \in Seq(AToken) /\ Len(SortedTokens(tokens)) = Len(tokens)
      /\ \E order \in [1..Len(tokens) -> 1..Len(tokens)] : Arranges(SortedTokens(tokens), tokens, order)
  BY TokensSorted
<1>2. Marks(SortedTokens(tokens), type, bits, cells)
  BY <1>1, MarksArranged
<1>3. Paints(SortedTokens(tokens), type, bits, cells)
  BY <1>1, <1>2, MarksPaint
<1> QED
  BY <1>3, ReadsSorted

\* What the inputs of kind "tokens" are.
LEMMA TokensInput ==
    ASSUME InitTokens
    PROVE  /\ input.text \in Seq(Char) /\ input.enc \in Encodings
           /\ input.first \in ARange /\ input.second \in ARange
           /\ input.modifiers \in Seq(1..UnknownModifier)
<1>1. PICK text \in UNION {[1..n -> PaintedChars] : n \in 0..MaxPainted}, enc \in Encodings,
           start \in SomePositions, end \in SomePositions, first \in {WholeText, FirstCell},
           modifiers \in SomeModifiers :
         input = [kind |-> "tokens", text |-> text, enc |-> enc, first |-> first,
                  second |-> [start |-> start, end |-> end], modifiers |-> modifiers]
  BY DEF InitTokens
<1>2. text \in Seq(Char)
  <2>1. PICK k \in 0..MaxPainted : text \in [1..k -> PaintedChars]
    OBVIOUS
  <2>2. k \in Nat /\ PaintedChars \subseteq Char
    BY TokenInputsAssumption
  <2>3. text \in [1..k -> Char]
    BY <2>1, <2>2
  <2> QED
    BY <2>2, <2>3
<1>3. \A x, y \in Nat : Pos(x, y) \in APosition
  BY DEF Pos, APosition
<1>4. \A p \in SomePositions : p \in APosition
  <2>1. \A x \in 0..MaxPlace : x \in Nat
    BY TokenInputsAssumption
  <2> QED
    BY <1>3, <2>1 DEF SomePositions
<1>5. WholeText \in ARange /\ FirstCell \in ARange
  <2>1. Pos(0, 0) \in APosition /\ Pos(9, 0) \in APosition /\ Pos(0, 1) \in APosition
    BY <1>3
  <2> QED
    BY <2>1 DEF WholeText, FirstCell, ARange
<1>6. [start |-> start, end |-> end] \in ARange
  BY <1>4 DEF ARange
<1>7. modifiers \in Seq(1..UnknownModifier)
  <2>1. UnknownModifier = 33 /\ Width = 32
    BY DEF UnknownModifier, Width
  <2>2. 1 \in 1..33 /\ 2 \in 1..33 /\ 3 \in 1..33 /\ 32 \in 1..33 /\ 33 \in 1..33
    OBVIOUS
  <2>3. modifiers \in {<<>>, <<2, 1>>, <<3, 32>>, <<1, 33>>}
    BY <2>1 DEF SomeModifiers
  <2> DEFINE S == 1..33
  <2>4. 1 \in S /\ 2 \in S /\ 3 \in S /\ 32 \in S /\ 33 \in S
    BY <2>2
  <2> HIDE DEF S
  <2>a. <<>> \in Seq(S)
    OBVIOUS
  <2>b. \A x, y \in S : <<x, y>> \in Seq(S)
    OBVIOUS
  <2>5. modifiers \in Seq(S)
    BY ONLY <2>3, <2>4, <2>a, <2>b, Zenon
  <2> QED
    BY <2>1, <2>5 DEF S
<1> QED
  BY <1>1, <1>2, <1>5, <1>6, <1>7

\* For texts of any length and ranges anywhere, in every encoding: the built
\* tokens, read back from one to the next, colour exactly the cells of the two
\* ranges, each with its type and its modifiers, one token to a line and range;
\* no difference is below zero, and an unknown name is an error as soon as there
\* is a token to push: push_range, push and build of
\* src/src/lsp/semantic_tokens.rs.
THEOREM TokensRead == InitTokens => TokensDecodeBack
<1> SUFFICES ASSUME InitTokens PROVE TokensDecodeBack
  OBVIOUS
<1> DEFINE text == input.text
           enc == input.enc
           modifiers == input.modifiers
           first == Cells(text, input.first, enc)
           second == Cells(text, input.second, enc)
           both == PushBoth(text, enc, input.first, input.second, modifiers)
           unknown == HasUnknown(modifiers)
           bits == BitsOf(modifiers)
           error == [outcome |-> "error"]
           pushed(tokens) == [outcome |-> "pushed", tokens |-> tokens]
           right(outcome) ==
              IF unknown /\ second # {} THEN outcome.outcome = "error"
              ELSE /\ outcome.outcome = "pushed"
                   /\ \A i \in DOMAIN Build(outcome.tokens) :
                         /\ Build(outcome.tokens)[i].deltaLine \in Nat
                         /\ Build(outcome.tokens)[i].deltaStart \in Nat
                   /\ Paints(Absolute(Build(outcome.tokens)), 1, {0}, first)
                   /\ Paints(Absolute(Build(outcome.tokens)), 0, bits, second)
<1>1. /\ unknown /\ second # {} => both = {error}
      /\ ~(unknown /\ second # {}) =>
            \E tokens \in Seq(AToken) : /\ both = {pushed(tokens)}
                                        /\ Marks(tokens, 1, {0}, first)
                                        /\ Marks(tokens, 0, bits, second)
  <2>1. /\ text \in Seq(Char) /\ enc \in Encodings
        /\ input.first \in ARange /\ input.second \in ARange
        /\ modifiers \in Seq(1..UnknownModifier)
    BY TokensInput
  <2> HIDE DEF text, enc, modifiers
  <2>2. AddsBoth(PushBoth(text, enc, input.first, input.second, modifiers), modifiers,
                 Cells(text, input.first, enc), Cells(text, input.second, enc))
    BY ONLY <2>1, BothColoured
  <2>3. AddsBoth(both, modifiers, first, second)
    BY ONLY <2>2 DEF both, first, second
  <2> QED
    BY ONLY <2>3 DEF AddsBoth, first, second, both, unknown, bits, error, pushed
<1>2. (\A outcome \in both : right(outcome)) => TokensDecodeBack
  BY DEF TokensDecodeBack, BitsOf, HasUnknown
<1>3. /\ error.outcome = "error"
      /\ \A tokens : pushed(tokens).outcome = "pushed" /\ pushed(tokens).tokens = tokens
  OBVIOUS
<1> HIDE DEF first, second, both, unknown, bits, error, pushed
<1>4. ASSUME NEW tokens \in Seq(AToken), NEW type, NEW b, NEW cells, Marks(tokens, type, b, cells)
      PROVE  /\ \A i \in DOMAIN Build(tokens) :
                   Build(tokens)[i].deltaLine \in Nat /\ Build(tokens)[i].deltaStart \in Nat
             /\ Paints(Absolute(Build(tokens)), type, b, cells)
  <2>1. Build(tokens) \in Seq(AnyDelta)
    BY ReadsSorted
  <2>2. \A i \in DOMAIN Build(tokens) : Build(tokens)[i] \in AnyDelta
    BY <2>1
  <2> QED
    BY <1>4, <2>2, BuiltPaints DEF AnyDelta
<1>5. CASE unknown /\ second # {}
  BY <1>1, <1>2, <1>3, <1>5
<1>6. CASE ~(unknown /\ second # {})
  <2>1. PICK tokens \in Seq(AToken) : /\ both = {pushed(tokens)}
                                      /\ Marks(tokens, 1, {0}, first)
                                      /\ Marks(tokens, 0, bits, second)
    BY <1>1, <1>6
  <2>2. pushed(tokens).outcome = "pushed" /\ pushed(tokens).tokens = tokens
    BY <1>3
  <2>3. right(pushed(tokens))
    BY <1>4, <1>6, <2>1, <2>2
  <2> QED
    BY <1>2, <2>1, <2>3
<1> QED
  BY <1>5, <1>6
=============================================================================
