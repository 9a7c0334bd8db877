------------------------------- MODULE Uri_proofs -------------------------------
(***************************************************************************)
(* Proofs about document identities, for URIs and paths of every length:   *)
(* that Uri::new makes one key of the spellings of a URI and keeps others  *)
(* apart, and that paths, their URIs, join and parent agree.               *)
(*                                                                         *)
(* Where the escapes of a string are depends on its percent signs only, so *)
(* that a change of case leaves the escapes and the scheme where they are. *)
(* An encoded path is a string whose escapes are complete.  Joining keeps  *)
(* that and decoding goes part by part; so what encoding a path and        *)
(* decoding it does follows from what it does to one character, by         *)
(* induction on sets of sequences and of naturals, which needs no operator *)
(* parameter.                                                              *)
(***************************************************************************)
EXTENDS Text_proofs, UriInputs

-----------------------------------------------------------------------------
(* The scan for escapes *)

\* Where the scan goes on after each character.
Scans(s, g) ==
    /\ g[0] = 1
    /\ \A i \in 1..Len(s) : g[i] = IF g[i - 1] <= i /\ s[i] = Percent THEN i + 3 ELSE g[i - 1]

\* The escapes are at the percent signs that the scan comes to.
LEMMA EscapesAre ==
    ASSUME NEW s \in Seq(Nat)
    PROVE  \E g \in [0..Len(s) -> Nat] :
              Scans(s, g) /\ Escapes(s) = {i \in 1..Len(s) : s[i] = Percent /\ g[i - 1] <= i}
<1> DEFINE n == Len(s)
           step == [x \in Nat \X Nat |-> IF x[1] <= x[2] /\ s[x[2]] = Percent THEN x[2] + 3 ELSE x[1]]
<1>0. n \in Nat /\ 1 \in Nat /\ DOMAIN s = 1..n
  OBVIOUS
<1>1. step \in [Nat \X Nat -> Nat]
  OBVIOUS
<1> HIDE DEF step, n
<1>2. PICK g \in [0..n -> Nat] : Recurs(g, n, 1, step)
  BY <1>0, <1>1, Recursion
<1>3. ASSUME NEW i \in 1..n
      PROVE  g[i] = IF g[i - 1] <= i /\ s[i] = Percent THEN i + 3 ELSE g[i - 1]
  <2>1. g[i - 1] \in Nat /\ i \in Nat
    BY <1>0, <1>2
  <2> QED
    BY <1>2, <2>1 DEF Recurs, step
<1>4. Scans(s, g)
  BY <1>2, <1>3 DEF Scans, Recurs, n
<1> DEFINE next[i \in 0..n] == IF i = 0 THEN 1
                               ELSE LET from == next[i - 1]
                                    IN IF from <= i /\ s[i] = Percent THEN i + 3 ELSE from
           body(f) == [i \in 0..n |-> IF i = 0 THEN 1
                                      ELSE IF f[i - 1] <= i /\ s[i] = Percent THEN i + 3 ELSE f[i - 1]]
<1>5. g = body(g)
  <2>1. \A i \in 0..n : i # 0 => i \in 1..n
    BY <1>0
  <2> QED
    BY <1>2, <1>3, <2>1 DEF Recurs
<1>6. next = body(next)
  BY <1>5
<1>7. Escapes(s) = {i \in 1..n : s[i] = Percent /\ next[i - 1] <= i}
  BY <1>0 DEF Escapes, n
<1> HIDE DEF next
<1> DEFINE S == {k \in Nat : k <= n => next[k] = g[k]}
<1>8. 0 \in S
  <2>1. next[0] = 1
    BY <1>0, <1>6
  <2> QED
    BY <2>1, <1>4 DEF Scans
<1>9. ASSUME NEW k \in Nat, k \in S PROVE k + 1 \in S
  <2> SUFFICES ASSUME k + 1 <= n PROVE next[k + 1] = g[k + 1]
    OBVIOUS
  <2>1. k + 1 \in 1..n /\ (k + 1) - 1 = k /\ next[k] = g[k] /\ k + 1 \in 0..n /\ k + 1 # 0
    BY <1>0, <1>9
  <2>2. next[k + 1] = IF next[k] <= k + 1 /\ s[k + 1] = Percent THEN (k + 1) + 3 ELSE next[k]
    BY <1>6, <2>1
  <2> QED
    BY <1>3, <2>1, <2>2
<1> HIDE DEF S
<1>10. \A k \in Nat : k \in S
  BY <1>8, <1>9, Induction
<1>11. \A i \in 1..n : next[i - 1] = g[i - 1]
  BY <1>0, <1>10 DEF S
<1>12. Escapes(s) = {i \in 1..n : s[i] = Percent /\ g[i - 1] <= i}
  BY <1>7, <1>11
<1> QED
  BY <1>2, <1>4, <1>12 DEF n

\* They depend on the places of the percent signs alone.
LEMMA EscapesAlike ==
    ASSUME NEW s \in Seq(Nat), NEW t \in Seq(Nat), Len(s) = Len(t),
           \A i \in 1..Len(s) : s[i] = Percent <=> t[i] = Percent
    PROVE  Escapes(s) = Escapes(t)
<1>1. PICK g \in [0..Len(s) -> Nat] :
          Scans(s, g) /\ Escapes(s) = {i \in 1..Len(s) : s[i] = Percent /\ g[i - 1] <= i}
  BY EscapesAre
<1>2. PICK h \in [0..Len(s) -> Nat] :
          Scans(t, h) /\ Escapes(t) = {i \in 1..Len(s) : t[i] = Percent /\ h[i - 1] <= i}
  BY EscapesAre
<1>3. Len(s) \in Nat
  OBVIOUS
<1> DEFINE S == {k \in Nat : k <= Len(s) => g[k] = h[k]}
<1>4. 0 \in S
  BY <1>1, <1>2 DEF Scans
<1>5. ASSUME NEW k \in Nat, k \in S PROVE k + 1 \in S
  <2> SUFFICES ASSUME k + 1 <= Len(s) PROVE g[k + 1] = h[k + 1]
    OBVIOUS
  <2>1. k + 1 \in 1..Len(s) /\ (k + 1) - 1 = k /\ g[k] = h[k]
    BY <1>3, <1>5
  <2>2. g[k + 1] = IF g[k] <= k + 1 /\ s[k + 1] = Percent THEN (k + 1) + 3 ELSE g[k]
    BY <1>1, <2>1 DEF Scans
  <2>3. h[k + 1] = IF h[k] <= k + 1 /\ t[k + 1] = Percent THEN (k + 1) + 3 ELSE h[k]
    BY <1>2, <2>1 DEF Scans
  <2> QED
    BY <2>1, <2>2, <2>3
<1> HIDE DEF S
<1>6. \A k \in Nat : k \in S
  BY <1>4, <1>5, Induction
<1>7. \A i \in 1..Len(s) : g[i - 1] = h[i - 1]
  BY <1>3, <1>6 DEF S
<1> QED
  BY <1>1, <1>2, <1>7

\* Hex digits and the characters of a scheme are no separators.
LEMMA CharFacts ==
    ASSUME NEW c \in Nat
    PROVE  /\ IsHex(c) => c # Percent /\ c # Slash
           /\ IsAlpha(c) \/ IsDigit(c) \/ c \in {43, 45, 46} => c # Percent /\ c # Colon /\ c # Slash
  BY DEF IsHex, IsAlpha, IsUpper, IsLower, IsDigit, Percent, Colon, Slash

\* In a string whose percent signs all begin escapes the scan comes to each.
LEMMA EscapesAll ==
    ASSUME NEW s \in Seq(Nat), WellFormed(s)
    PROVE  Escapes(s) = {i \in 1..Len(s) : s[i] = Percent}
<1>1. PICK g \in [0..Len(s) -> Nat] :
          Scans(s, g) /\ Escapes(s) = {i \in 1..Len(s) : s[i] = Percent /\ g[i - 1] <= i}
  BY EscapesAre
<1>2. Len(s) \in Nat /\ DOMAIN s = 1..Len(s)
  OBVIOUS
<1> DEFINE S == {k \in Nat : k <= Len(s) => \A j \in 1..Len(s) : k < j /\ j < g[k] => s[j] # Percent}
<1>3. 0 \in S
  BY <1>1 DEF Scans
<1>4. ASSUME NEW k \in Nat, k \in S PROVE k + 1 \in S
  <2> SUFFICES ASSUME k + 1 <= Len(s), NEW j \in 1..Len(s), k + 1 < j, j < g[k + 1]
               PROVE  s[j] # Percent
    OBVIOUS
  <2>1. k + 1 \in 1..Len(s) /\ (k + 1) - 1 = k /\ g[k] \in Nat
    BY <1>1, <1>2
  <2>2. g[k + 1] = IF g[k] <= k + 1 /\ s[k + 1] = Percent THEN (k + 1) + 3 ELSE g[k]
    BY <1>1, <2>1 DEF Scans
  <2>3. CASE g[k] <= k + 1 /\ s[k + 1] = Percent
    <3>1. IsHex(s[(k + 1) + 1]) /\ IsHex(s[(k + 1) + 2])
      BY <1>2, <2>1, <2>3 DEF WellFormed
    <3>2. j = (k + 1) + 1 \/ j = (k + 1) + 2
      BY <2>2, <2>3
    <3>3. IsHex(s[j])
      BY <3>1, <3>2
    <3>4. s[j] \in Nat
      OBVIOUS
    <3> QED
      BY <3>3, <3>4, CharFacts
  <2>4. CASE ~(g[k] <= k + 1 /\ s[k + 1] = Percent)
    <3>1. k < j /\ j < g[k]
      BY <2>2, <2>4
    <3> QED
      BY <1>4, <3>1, <2>1
  <2> QED
    BY <2>3, <2>4
<1> HIDE DEF S
<1>5. \A k \in Nat : k \in S
  BY <1>3, <1>4, Induction
<1>6. ASSUME NEW i \in 1..Len(s), s[i] = Percent PROVE g[i - 1] <= i
  <2>1. i - 1 \in Nat /\ i - 1 <= Len(s) /\ i - 1 < i /\ g[i - 1] \in Nat
    <3>1. i - 1 \in 0..Len(s) /\ i - 1 \in Nat /\ i - 1 <= Len(s) /\ i - 1 < i
      BY ONLY <1>2, i \in 1..Len(s)
    <3>2. g \in [0..Len(s) -> Nat]
      OBVIOUS
    <3>3. g[i - 1] \in Nat
      BY ONLY <3>1, <3>2
    <3> QED
      BY ONLY <3>1, <3>3
  <2>2. ~(i < g[i - 1])
    BY <1>5, <1>6, <2>1 DEF S
  <2>3. i \in Nat
    OBVIOUS
  <2> QED
    BY ONLY <2>1, <2>2, <2>3
<1> QED
  BY <1>1, <1>6

-----------------------------------------------------------------------------
(* Keys *)

\* d is c, but for its case.
Recased(c, d) == d = c \/ d = FlipCase(c)

\* What a letter's case leaves alone.
LEMMA CaseFacts ==
    ASSUME NEW c \in Nat, NEW d, Recased(c, d)
    PROVE  /\ d \in Nat
           /\ d = Colon <=> c = Colon
           /\ d = Percent <=> c = Percent
           /\ IsAlpha(d) <=> IsAlpha(c)
           /\ IsDigit(d) <=> IsDigit(c)
           /\ IsHex(d) <=> IsHex(c)
           /\ d \in {43, 45, 46} <=> c \in {43, 45, 46}
           /\ ToLower(d) = ToLower(c) /\ ToUpper(d) = ToUpper(c)
  BY DEF Recased, FlipCase, IsAlpha, IsUpper, IsLower, IsDigit, IsHex, ToLower, ToUpper, Colon, Percent

\* Upper and lower case are the character's cases.
LEMMA RecasedIs ==
    ASSUME NEW c \in Nat
    PROVE  Recased(c, c) /\ Recased(c, FlipCase(c)) /\ Recased(c, ToLower(c)) /\ Recased(c, ToUpper(c))
           /\ FlipCase(c) \in Nat /\ ToLower(c) \in Nat /\ ToUpper(c) \in Nat
  BY DEF Recased, FlipCase, IsUpper, IsLower, ToLower, ToUpper

\* Strings that differ in the case of letters only.
CaseVariant(s, t) == Len(t) = Len(s) /\ \A i \in 1..Len(s) : Recased(s[i], t[i])

\* The first place of a character.
LEMMA FirstIs ==
    ASSUME NEW s \in Seq(Nat), NEW c
    PROVE  /\ FirstOf(s, c) \in 0..Len(s)
           /\ FirstOf(s, c) > 0 => s[FirstOf(s, c)] = c
           /\ \A i \in 1..Len(s) : s[i] = c => FirstOf(s, c) > 0 /\ FirstOf(s, c) <= i
<1>1. Len(s) \in Nat /\ DOMAIN s = 1..Len(s)
  OBVIOUS
<1> DEFINE at == {i \in DOMAIN s : s[i] = c}
<1>2. CASE at = {}
  <2>1. FirstOf(s, c) = 0
    BY <1>2 DEF FirstOf
  <2> QED
    BY <1>1, <1>2, <2>1
<1>3. CASE at # {}
  <2>1. at \in SUBSET Nat
    BY <1>1
  <2>2. \E x \in at : \A y \in at : x <= y
    BY <1>3, <2>1, LeastNatural
  <2>3. FirstOf(s, c) = CHOOSE i \in at : \A k \in at : i <= k
    BY <1>3 DEF FirstOf
  <2>4. FirstOf(s, c) \in at /\ \A k \in at : FirstOf(s, c) <= k
    BY <2>2, <2>3
  <2> QED
    BY <1>1, <2>4
<1> QED
  BY <1>2, <1>3

\* The scheme is the letters, digits and + - . before the first colon.
LEMMA SchemeIs ==
    ASSUME NEW s \in Seq(Nat)
    PROVE  /\ SchemeLen(s) \in 0..Len(s)
           /\ \A i \in 1..SchemeLen(s) : s[i] # Percent
<1> DEFINE colon == FirstOf(s, Colon)
           p == SubSeq(s, 1, colon - 1)
<1>1. Len(s) \in Nat /\ colon \in 0..Len(s)
  BY FirstIs
<1> HIDE DEF colon
<1>2. CASE colon > 0 /\ IsValidScheme(p)
  <2>1. SchemeLen(s) = colon - 1
    BY <1>2 DEF SchemeLen, colon
  <2>2. ASSUME NEW i \in 1..(colon - 1) PROVE s[i] # Percent
    <3>1. i \in DOMAIN p /\ p[i] = s[i] /\ s[i] \in Nat
      BY <1>1, <1>2, <2>2
    <3>2. IsAlpha(s[i]) \/ IsDigit(s[i]) \/ s[i] \in {43, 45, 46}
      BY <1>2, <3>1 DEF IsValidScheme
    <3> QED
      BY <3>1, <3>2, CharFacts
  <2> QED
    BY <1>1, <1>2, <2>1, <2>2
<1>3. CASE ~(colon > 0 /\ IsValidScheme(p))
  <2>1. SchemeLen(s) = 0
    BY <1>3 DEF SchemeLen, colon
  <2> QED
    BY <1>1, <2>1
<1> QED
  BY <1>2, <1>3

\* A variant has a scheme of the same length.
LEMMA SchemeAlike ==
    ASSUME NEW s \in Seq(Nat), NEW t \in Seq(Nat), CaseVariant(s, t)
    PROVE  SchemeLen(t) = SchemeLen(s)
<1>1. Len(s) \in Nat /\ DOMAIN s = 1..Len(s) /\ DOMAIN t = 1..Len(s) /\ Len(t) = Len(s)
  BY DEF CaseVariant
<1>2. \A i \in 1..Len(s) : s[i] \in Nat /\ Recased(s[i], t[i])
  BY <1>1 DEF CaseVariant
<1>3. \A i \in 1..Len(s) : /\ t[i] = Colon <=> s[i] = Colon
                           /\ IsAlpha(t[i]) <=> IsAlpha(s[i])
                           /\ IsDigit(t[i]) <=> IsDigit(s[i])
                           /\ t[i] \in {43, 45, 46} <=> s[i] \in {43, 45, 46}
  BY <1>2, CaseFacts
<1>5. FirstOf(t, Colon) = FirstOf(s, Colon)
  <2>1. /\ FirstOf(s, Colon) \in 0..Len(s) /\ FirstOf(t, Colon) \in 0..Len(s)
        /\ FirstOf(s, Colon) > 0 => s[FirstOf(s, Colon)] = Colon
        /\ FirstOf(t, Colon) > 0 => t[FirstOf(t, Colon)] = Colon
        /\ \A i \in 1..Len(s) : s[i] = Colon => FirstOf(s, Colon) > 0 /\ FirstOf(s, Colon) <= i
        /\ \A i \in 1..Len(s) : t[i] = Colon => FirstOf(t, Colon) > 0 /\ FirstOf(t, Colon) <= i
    BY <1>1, FirstIs
  <2> QED
    BY <1>1, <1>3, <2>1
<1> DEFINE colon == FirstOf(s, Colon)
           p == SubSeq(s, 1, colon - 1)
           q == SubSeq(t, 1, colon - 1)
<1>6. ASSUME colon > 0 PROVE IsValidScheme(p) <=> IsValidScheme(q)
  <2>1. colon \in 1..Len(s)
    BY <1>1, <1>6, FirstIs
  <2> HIDE DEF colon
  <2>2. /\ p \in Seq(Nat) /\ Len(p) = colon - 1 /\ \A i \in 1..(colon - 1) : p[i] = s[i]
        /\ q \in Seq(Nat) /\ Len(q) = colon - 1 /\ \A i \in 1..(colon - 1) : q[i] = t[i]
    BY <1>1, <2>1
  <2> HIDE DEF p, q
  <2>3. DOMAIN p = 1..(colon - 1) /\ DOMAIN q = 1..(colon - 1) /\ (p = <<>> <=> q = <<>>)
    BY <2>2
  <2>4. \A i \in 1..(colon - 1) : i \in 1..Len(s)
    BY <2>1, <1>1
  <2>5. p # <<>> => 1 \in 1..(colon - 1)
    BY <2>1, <2>2, <1>1
  <2> QED
    BY <1>3, <2>2, <2>3, <2>4, <2>5 DEF IsValidScheme
<1> QED
  BY <1>5, <1>6 DEF SchemeLen

\* The places of the digits of escapes.
Digits(s) == UNION {{i + 1, i + 2} : i \in Escapes(s)}

\* A variant has its scheme and its escapes in the same places.
LEMMA ShapeAlike ==
    ASSUME NEW s \in Seq(Nat), NEW t \in Seq(Nat), CaseVariant(s, t)
    PROVE  SchemeLen(t) = SchemeLen(s) /\ Digits(t) = Digits(s)
<1>1. \A i \in 1..Len(s) : s[i] \in Nat /\ Recased(s[i], t[i])
  BY DEF CaseVariant
<1>2. \A i \in 1..Len(s) : s[i] = Percent <=> t[i] = Percent
  BY <1>1, CaseFacts
<1>3. Escapes(t) = Escapes(s)
  BY <1>2, EscapesAlike DEF CaseVariant
<1> QED
  BY <1>3, SchemeAlike DEF Digits

\* A character of the key.
KeyAt(s, i) ==
    IF i \in Digits(s) /\ IsHex(s[i]) THEN ToUpper(s[i])
    ELSE IF i <= SchemeLen(s) THEN ToLower(s[i]) ELSE s[i]

\* Normalize makes that key.
LEMMA NormalizeIs ==
    ASSUME NEW s \in Seq(Nat)
    PROVE  /\ Normalize(s) \in Seq(Nat) /\ Len(Normalize(s)) = Len(s)
           /\ \A i \in 1..Len(s) : Normalize(s)[i] = KeyAt(s, i)
           /\ CaseVariant(s, Normalize(s))
<1>1. Len(s) \in Nat /\ DOMAIN s = 1..Len(s) /\ \A i \in 1..Len(s) : s[i] \in Nat
  OBVIOUS
<1>2. Normalize(s) = [i \in 1..Len(s) |-> KeyAt(s, i)]
  BY <1>1 DEF Normalize, KeyAt, Digits
<1>3. \A i \in 1..Len(s) : Recased(s[i], KeyAt(s, i)) /\ KeyAt(s, i) \in Nat
  BY <1>1, RecasedIs DEF KeyAt
<1>4. [i \in 1..Len(s) |-> KeyAt(s, i)] \in [1..Len(s) -> Nat]
  BY <1>3
<1> QED
  BY <1>1, <1>2, <1>3, <1>4, LengthIs DEF CaseVariant

\* Two strings of the same length that have the same characters are the same.
LEMMA SameKey ==
    ASSUME NEW s \in Seq(Nat), NEW t \in Seq(Nat), Len(s) = Len(t),
           \A i \in 1..Len(s) : KeyAt(s, i) = KeyAt(t, i)
    PROVE  Normalize(s) = Normalize(t)
<1>1. /\ Normalize(s) \in Seq(Nat) /\ Len(Normalize(s)) = Len(s)
      /\ Normalize(t) \in Seq(Nat) /\ Len(Normalize(t)) = Len(s)
      /\ \A i \in 1..Len(s) : Normalize(s)[i] = KeyAt(s, i) /\ Normalize(t)[i] = KeyAt(t, i)
  BY NormalizeIs
<1> DEFINE a == Normalize(s)
           b == Normalize(t)
<1>2. \A i \in 1..Len(a) : a[i] = b[i]
  BY <1>1
<1>3. a \in Seq(Nat) /\ b \in Seq(Nat) /\ Len(a) = Len(b)
  BY <1>1
<1> HIDE DEF a, b
<1>4. a = b
  BY <1>2, <1>3, SeqEqual
<1> QED
  BY <1>4 DEF a, b

\* A key is its own key.
LEMMA KeyOfKey ==
    ASSUME NEW s \in Seq(Nat)
    PROVE  Normalize(Normalize(s)) = Normalize(s)
<1> DEFINE t == Normalize(s)
<1>1. /\ t \in Seq(Nat) /\ Len(t) = Len(s) /\ CaseVariant(s, t)
      /\ \A i \in 1..Len(s) : t[i] = KeyAt(s, i)
  BY NormalizeIs
<1> HIDE DEF t
<1>2. SchemeLen(t) = SchemeLen(s) /\ Digits(t) = Digits(s)
  BY <1>1, ShapeAlike
<1>3. ASSUME NEW i \in 1..Len(s) PROVE KeyAt(t, i) = KeyAt(s, i)
  <2>1. s[i] \in Nat /\ Recased(s[i], t[i]) /\ t[i] = KeyAt(s, i)
    BY <1>1 DEF CaseVariant
  <2>2. (IsHex(t[i]) <=> IsHex(s[i])) /\ ToLower(t[i]) = ToLower(s[i]) /\ ToUpper(t[i]) = ToUpper(s[i])
    BY <2>1, CaseFacts
  <2>3. ToLower(ToLower(s[i])) = ToLower(s[i]) /\ ToUpper(ToUpper(s[i])) = ToUpper(s[i])
    BY <2>1, RecasedIs, CaseFacts
  <2> QED
    BY <1>2, <2>1, <2>2, <2>3 DEF KeyAt
<1>4. Normalize(t) = Normalize(s)
  BY <1>1, <1>3, SameKey
<1> QED
  BY <1>4 DEF t

\* What a flipped string is.
LEMMA FlippedIs ==
    ASSUME NEW s \in Seq(Nat), NEW places
    PROVE  /\ Flipped(s, places) \in Seq(Nat) /\ CaseVariant(s, Flipped(s, places))
           /\ \A i \in 1..Len(s) : Flipped(s, places)[i] = IF i \in places THEN FlipCase(s[i]) ELSE s[i]
<1>1. Len(s) \in Nat /\ DOMAIN s = 1..Len(s) /\ \A i \in 1..Len(s) : s[i] \in Nat
  OBVIOUS
<1>2. Flipped(s, places) = [i \in 1..Len(s) |-> IF i \in places THEN FlipCase(s[i]) ELSE s[i]]
  BY <1>1 DEF Flipped
<1>3. \A i \in 1..Len(s) : FlipCase(s[i]) \in Nat /\ Recased(s[i], s[i]) /\ Recased(s[i], FlipCase(s[i]))
  BY <1>1, RecasedIs
<1>4. Flipped(s, places) \in [1..Len(s) -> Nat]
  BY <1>1, <1>2, <1>3
<1> QED
  BY <1>1, <1>2, <1>3, <1>4, LengthIs DEF CaseVariant

\* In a well-formed string the places where case makes no difference are the
\* scheme and the digits of the escapes, and these are hex digits.
LEMMA CaseFreeIs ==
    ASSUME NEW s \in Seq(Nat), WellFormed(s)
    PROVE  /\ \A i \in 1..Len(s) : i \in CaseFree(s) <=> i <= SchemeLen(s) \/ i \in Digits(s)
           /\ \A i \in Digits(s) : i \in 1..Len(s) /\ IsHex(s[i])
<1>1. Len(s) \in Nat /\ DOMAIN s = 1..Len(s)
  OBVIOUS
<1>2. Escapes(s) = {i \in 1..Len(s) : s[i] = Percent}
  BY EscapesAll
<1>3. ASSUME NEW i PROVE i \in Digits(s) <=> \E k \in 1..Len(s) : s[k] = Percent /\ i \in {k + 1, k + 2}
  BY <1>2 DEF Digits
<1>4. ASSUME NEW i \in Digits(s) PROVE i \in 1..Len(s) /\ IsHex(s[i])
  <2>1. PICK k \in 1..Len(s) : s[k] = Percent /\ i \in {k + 1, k + 2}
    BY <1>3, <1>4
  <2>2. k + 2 <= Len(s) /\ IsHex(s[k + 1]) /\ IsHex(s[k + 2])
    BY <1>1, <2>1 DEF WellFormed
  <2> QED
    BY <1>1, <2>1, <2>2
<1> QED
  BY <1>1, <1>3, <1>4 DEF CaseFree

\* A string with letters flipped where case makes no difference has the same
\* key; and another one if a letter is flipped elsewhere.
LEMMA FlippedKey ==
    ASSUME NEW s \in Seq(Nat), WellFormed(s), NEW places
    PROVE  /\ (\A i \in places : i \in 1..Len(s) => i \in CaseFree(s))
                 => Normalize(Flipped(s, places)) = Normalize(s)
           /\ (\E i \in 1..Len(s) : i \in places /\ i \notin CaseFree(s) /\ FlipCase(s[i]) # s[i])
                 => Normalize(Flipped(s, places)) # Normalize(s)
<1> DEFINE t == Flipped(s, places)
<1>1. /\ t \in Seq(Nat) /\ CaseVariant(s, t)
      /\ \A i \in 1..Len(s) : t[i] = IF i \in places THEN FlipCase(s[i]) ELSE s[i]
  BY FlippedIs
<1> HIDE DEF t
<1>2. SchemeLen(t) = SchemeLen(s) /\ Digits(t) = Digits(s) /\ Len(t) = Len(s)
  BY <1>1, ShapeAlike DEF CaseVariant
<1>3. /\ \A i \in 1..Len(s) : i \in CaseFree(s) <=> i <= SchemeLen(s) \/ i \in Digits(s)
      /\ \A i \in Digits(s) : i \in 1..Len(s) /\ IsHex(s[i])
  BY CaseFreeIs
<1>4. ASSUME \A i \in places : i \in 1..Len(s) => i \in CaseFree(s)
      PROVE  Normalize(t) = Normalize(s)
  <2>1. ASSUME NEW i \in 1..Len(s) PROVE KeyAt(t, i) = KeyAt(s, i)
    <3>1. s[i] \in Nat /\ Recased(s[i], t[i])
      BY <1>1 DEF CaseVariant
    <3>2. (IsHex(t[i]) <=> IsHex(s[i])) /\ ToLower(t[i]) = ToLower(s[i]) /\ ToUpper(t[i]) = ToUpper(s[i])
      BY <3>1, CaseFacts
    <3>3. CASE i \in CaseFree(s)
      BY <1>2, <1>3, <3>2, <3>3 DEF KeyAt
    <3>4. CASE i \notin CaseFree(s)
      <4>1. t[i] = s[i]
        BY <1>1, <1>4, <3>4
      <4> QED
        BY <1>2, <4>1 DEF KeyAt
    <3> QED
      BY <3>3, <3>4
  <2> QED
    BY <1>1, <1>2, <2>1, SameKey
<1>5. ASSUME NEW i \in 1..Len(s), i \in places, i \notin CaseFree(s), FlipCase(s[i]) # s[i]
      PROVE  Normalize(t) # Normalize(s)
  <2>1. i \notin Digits(s) /\ ~(i <= SchemeLen(s))
    BY <1>3, <1>5
  <2>2. KeyAt(s, i) = s[i] /\ KeyAt(t, i) = FlipCase(s[i])
    BY <1>1, <1>2, <1>5, <2>1 DEF KeyAt
  <2>3. Normalize(s)[i] = s[i] /\ Normalize(t)[i] = FlipCase(s[i])
    BY <1>1, <1>2, <2>2, NormalizeIs
  <2> QED
    BY <1>5, <2>3
<1> QED
  BY <1>4, <1>5 DEF t

\* The property, for every string of characters.
LEMMA EveryKeyCanonical ==
    ASSUME NEW s \in Seq(Nat)
    PROVE  CanonicalKey(s, Normalize(s))
<1>1. Len(s) \in Nat /\ DOMAIN s = 1..Len(s)
  OBVIOUS
<1>2. \A i \in DOMAIN s : Normalize(s)[i] \in {s[i], FlipCase(s[i])}
  BY <1>1, NormalizeIs DEF CaseVariant, Recased
<1>3. ASSUME WellFormed(s) PROVE Normalize(Flipped(s, CaseFree(s))) = Normalize(s)
  BY <1>3, FlippedKey
<1>4. ASSUME WellFormed(s), NEW i \in DOMAIN s, FlipCase(s[i]) # s[i]
      PROVE  Normalize(Flipped(s, {i})) = Normalize(s) <=> i \in CaseFree(s)
  <2>1. i \in 1..Len(s) /\ \A j \in {i} : j = i
    BY <1>1
  <2>2. CASE i \in CaseFree(s)
    BY <1>4, <2>1, <2>2, FlippedKey
  <2>3. CASE i \notin CaseFree(s)
    BY <1>4, <2>1, <2>3, FlippedKey
  <2> QED
    BY <2>2, <2>3
<1> QED
  BY <1>2, <1>3, <1>4, KeyOfKey DEF CanonicalKey

-----------------------------------------------------------------------------
(* Sequences of sequences *)

\* Induction over sequences, for a set: what has the empty one and with each
\* sequence those that are longer by one has every sequence.
LEMMA SequenceInduction ==
    ASSUME NEW C, NEW T, <<>> \in T,
           \A p \in Seq(C), c \in C : p \in T => Append(p, c) \in T
    PROVE  \A p \in Seq(C) : p \in T
<1> DEFINE S == {n \in Nat : \A p \in Seq(C) : Len(p) = n => p \in T}
<1>1. 0 \in S
  <2>1. \A p \in Seq(C) : Len(p) = 0 => p = <<>>
    OBVIOUS
  <2> QED
    BY <2>1
<1>2. ASSUME NEW n \in Nat, n \in S PROVE n + 1 \in S
  <2> SUFFICES ASSUME NEW p \in Seq(C), Len(p) = n + 1 PROVE p \in T
    OBVIOUS
  <2> DEFINE q == [i \in 1..n |-> p[i]]
  <2>1. p \in [1..(n + 1) -> C]
    OBVIOUS
  <2>2. q \in [1..n -> C] /\ p[n + 1] \in C
    BY <2>1
  <2>3. q \in Seq(C) /\ Len(q) = n
    BY <2>2
  <2>4. p = Append(q, p[n + 1])
    <3>1. Append(q, p[n + 1]) \in Seq(C) /\ Len(Append(q, p[n + 1])) = n + 1
      BY <2>2, <2>3
    <3>2. ASSUME NEW i \in 1..(n + 1) PROVE Append(q, p[n + 1])[i] = p[i]
      <4>1. CASE i <= n
        <5>1. i \in 1..n
          BY <4>1
        <5>2. Append(q, p[n + 1])[i] = q[i]
          BY <2>3, <5>1, AppendProperties
        <5> QED
          BY <5>1, <5>2
      <4>2. CASE i = n + 1
        BY <2>2, <2>3, <4>2, AppendProperties
      <4> QED
        BY <4>1, <4>2
    <3> DEFINE a == Append(q, p[n + 1])
    <3>3. a \in Seq(C) /\ Len(p) = Len(a) /\ \A i \in 1..Len(p) : p[i] = a[i]
      BY <3>1, <3>2
    <3> HIDE DEF a
    <3>4. p = a
      BY <3>3, SeqEqual
    <3> QED
      BY <3>4 DEF a
  <2>5. q \in T
    BY <1>2, <2>3
  <2> HIDE DEF q
  <2> QED
    BY <2>2, <2>3, <2>4, <2>5
<1> HIDE DEF S
<1>3. \A n \in Nat : n \in S
  BY <1>1, <1>2, Induction
<1> QED
  BY <1>3 DEF S

\* Flattening two lists of sequences that are joined joins what they flatten to.
LEMMA FlatJoin ==
    ASSUME NEW V, NEW u \in Seq(Seq(V)), NEW v \in Seq(Seq(V))
    PROVE  /\ FlattenSeq(u) \in Seq(V) /\ FlattenSeq(v) \in Seq(V)
           /\ IsJoined(FlattenSeq(u \o v), FlattenSeq(u), FlattenSeq(v))
<1> DEFINE m == Len(u)
           n == Len(v)
           w == u \o v
<1>1. PICK f \in [0..m -> Seq(V)] :
          f[0] = <<>> /\ FlattenSeq(u) = f[m] /\ \A k \in 1..m : f[k] = f[k - 1] \o u[k]
  BY FlatSums
<1>2. PICK g \in [0..n -> Seq(V)] :
          g[0] = <<>> /\ FlattenSeq(v) = g[n] /\ \A k \in 1..n : g[k] = g[k - 1] \o v[k]
  BY FlatSums
<1>3. m \in Nat /\ n \in Nat /\ w \in Seq(Seq(V)) /\ Len(w) = m + n
      /\ (\A k \in 1..m : w[k] = u[k]) /\ \A k \in 1..n : w[m + k] = v[k]
  OBVIOUS
<1>4. \A k \in 1..n : v[k] \in Seq(V)
  OBVIOUS
<1> HIDE DEF m, n, w
<1>5. f[m] \in Seq(V) /\ \A k \in 0..n : g[k] \in Seq(V)
  BY <1>1, <1>2, <1>3
<1> DEFINE whole(k) == f[m] \o g[k]
           h == [k \in 0..(m + n) |-> IF k <= m THEN f[k] ELSE whole(k - m)]
<1>6. ASSUME NEW k \in 0..n PROVE h[m + k] = whole(k)
  <2>1. CASE k = 0
    <3>1. h[m + k] = f[m]
      BY <1>3, <2>1
    <3>2. f[m] \o <<>> = f[m]
      BY <1>5
    <3> QED
      BY <1>2, <2>1, <3>1, <3>2
  <2>2. CASE k # 0
    <3>1. m + k \in 0..(m + n) /\ ~(m + k <= m) /\ (m + k) - m = k
      BY <1>3, <2>2
    <3> QED
      BY <3>1
  <2> QED
    BY <2>1, <2>2
<1>7. ASSUME NEW k \in 1..(m + n) PROVE h[k] = h[k - 1] \o w[k]
  <2>1. CASE k <= m
    <3>1. k \in 1..m /\ k \in 0..(m + n) /\ k - 1 \in 0..(m + n) /\ k - 1 <= m
      BY <1>3, <2>1
    <3> QED
      BY <1>1, <1>3, <2>1, <3>1
  <2>2. CASE ~(k <= m)
    <3> DEFINE j == k - m
    <3>1. j \in 1..n /\ j \in 0..n /\ j - 1 \in 0..n /\ m + j = k /\ m + (j - 1) = k - 1
      BY <1>3, <2>2
    <3> HIDE DEF j
    <3>2. g[j] = g[j - 1] \o v[j] /\ w[k] = v[j]
      BY <1>2, <1>3, <3>1
    <3>3. h[k] = whole(j) /\ h[k - 1] = whole(j - 1)
      BY <1>6, <3>1
    <3>4. Reassociates(f[m], g[j - 1], v[j])
      BY <1>4, <1>5, <3>1, JoinAssociative
    <3>5. whole(j) = whole(j - 1) \o v[j]
      BY <3>2, <3>4 DEF Reassociates
    <3> QED
      BY <3>2, <3>3, <3>5
  <2> QED
    BY <2>1, <2>2
<1>8. h[0] = f[0]
  BY <1>3
<1>9. h[m + n] = whole(n)
  <2>1. n \in 0..n
    BY <1>3
  <2> QED
    BY <1>6, <2>1
<1> HIDE DEF h
<1>10. FlattenSeq(w) = h[m + n]
  <2>1. h[0] = <<>> /\ \A k \in 1..Len(w) : h[k] = h[k - 1] \o w[k]
    BY <1>1, <1>3, <1>7, <1>8
  <2>2. FlattenSeq(w) = h[Len(w)]
    BY <1>3, <2>1, FlatUnique
  <2> QED
    BY <1>3, <2>2
<1>11. FlattenSeq(u \o v) = FlattenSeq(u) \o FlattenSeq(v)
  BY <1>1, <1>2, <1>9, <1>10 DEF w
<1> QED
  BY <1>1, <1>2, <1>3, <1>5, <1>11 DEF IsJoined

\* A list of one sequence, and of none.
LEMMA FlatOne ==
    ASSUME NEW V, NEW a \in Seq(V)
    PROVE  FlattenSeq(<<a>>) = a /\ FlattenSeq(<<>>) = <<>>
<1>1. <<a>> \in [1..1 -> Seq(V)] /\ 1 \in Nat /\ 1 \in 1..1 /\ <<a>>[1] = a /\ 1 - 1 = 0
  OBVIOUS
<1> DEFINE s == <<a>>
<1>2. FlatTo(s, 0) = <<>> /\ FlatTo(s, 1) = FlattenSeq(s) /\ FlatTo(s, 1) = FlatTo(s, 1 - 1) \o s[1]
  BY <1>1, FlatToIs
<1>3. <<>> \o a = a
  OBVIOUS
<1>4. FlattenSeq(<<>>) = <<>>
  BY DEF FlattenSeq
<1> QED
  BY <1>1, <1>2, <1>3, <1>4

\* What the function e gives for the elements of p, put end to end.
Each(e, p) == FlattenSeq([i \in DOMAIN p |-> e[p[i]]])

\* It joins what joined sequences give.
LEMMA EachJoin ==
    ASSUME NEW C, NEW V, NEW e \in [C -> Seq(V)], NEW p \in Seq(C), NEW q \in Seq(C)
    PROVE  /\ Each(e, p) \in Seq(V)
           /\ IsJoined(Each(e, p \o q), Each(e, p), Each(e, q))
<1> DEFINE u == [i \in DOMAIN p |-> e[p[i]]]
           v == [i \in DOMAIN q |-> e[q[i]]]
           w == [i \in DOMAIN (p \o q) |-> e[(p \o q)[i]]]
<1>1. Len(p) \in Nat /\ Len(q) \in Nat /\ DOMAIN p = 1..Len(p) /\ DOMAIN q = 1..Len(q)
  OBVIOUS
<1>2. u \in [1..Len(p) -> Seq(V)] /\ v \in [1..Len(q) -> Seq(V)]
  BY <1>1
<1>3. u \in Seq(Seq(V)) /\ Len(u) = Len(p) /\ v \in Seq(Seq(V)) /\ Len(v) = Len(q)
  BY <1>1, <1>2
<1>4. p \o q \in Seq(C) /\ Len(p \o q) = Len(p) + Len(q) /\ DOMAIN (p \o q) = 1..(Len(p) + Len(q))
      /\ (\A i \in 1..Len(p) : (p \o q)[i] = p[i])
      /\ \A i \in 1..Len(q) : (p \o q)[Len(p) + i] = q[i]
  BY <1>1
<1>5. w \in [1..(Len(p) + Len(q)) -> Seq(V)]
  BY <1>4
<1>6. w \in Seq(Seq(V)) /\ Len(w) = Len(p) + Len(q)
  BY <1>1, <1>5
<1>7. (\A i \in 1..Len(p) : w[i] = u[i]) /\ \A i \in 1..Len(q) : w[Len(p) + i] = v[i]
  <2>1. ASSUME NEW i \in 1..Len(p) PROVE w[i] = u[i]
    <3>1. i \in 1..(Len(p) + Len(q))
      BY <1>1
    <3> QED
      BY <1>1, <1>4, <3>1
  <2>2. ASSUME NEW i \in 1..Len(q) PROVE w[Len(p) + i] = v[i]
    <3>1. Len(p) + i \in 1..(Len(p) + Len(q))
      BY <1>1
    <3> QED
      BY <1>1, <1>4, <3>1
  <2> QED
    BY <2>1, <2>2
<1> HIDE DEF u, v, w
<1> DEFINE x == u \o v
<1>8. x \in Seq(Seq(V)) /\ Len(x) = Len(p) + Len(q)
      /\ (\A i \in 1..Len(p) : x[i] = u[i]) /\ \A i \in 1..Len(q) : x[Len(p) + i] = v[i]
  <2> DEFINE W == Seq(V)
  <2>1. u \in Seq(W) /\ v \in Seq(W)
    BY <1>3
  <2> HIDE DEF W
  <2>2. /\ x \in Seq(W) /\ Len(x) = Len(u) + Len(v)
        /\ \A i \in 1..Len(u) : x[i] = u[i]
        /\ \A i \in 1..Len(v) : x[Len(u) + i] = v[i]
    BY <2>1 DEF x
  <2> QED
    BY <1>3, <2>2 DEF W
<1> HIDE DEF x
<1>9. ASSUME NEW i \in 1..Len(w) PROVE w[i] = x[i]
  <2>1. CASE i <= Len(p)
    BY <1>1, <1>6, <1>7, <1>8, <2>1
  <2>2. CASE ~(i <= Len(p))
    <3>1. i - Len(p) \in 1..Len(q) /\ Len(p) + (i - Len(p)) = i
      BY <1>1, <1>6, <2>2
    <3> QED
      BY <1>7, <1>8, <3>1
  <2> QED
    BY <2>1, <2>2
<1>10. w = x
  BY <1>6, <1>8, <1>9, SeqEqual
<1>11. IsJoined(FlattenSeq(x), FlattenSeq(u), FlattenSeq(v)) /\ FlattenSeq(u) \in Seq(V)
  BY <1>3, FlatJoin DEF x
<1> QED
  BY <1>10, <1>11 DEF Each, u, v, w

\* One element, and none.
LEMMA EachOne ==
    ASSUME NEW C, NEW V, NEW e \in [C -> Seq(V)], NEW c \in C
    PROVE  Each(e, <<c>>) = e[c] /\ Each(e, <<>>) = <<>>
<1>1. [i \in DOMAIN <<c>> |-> e[<<c>>[i]]] = <<e[c]>>
  OBVIOUS
<1>2. [i \in DOMAIN <<>> |-> e[<<>>[i]]] = <<>>
  OBVIOUS
<1>3. e[c] \in Seq(V)
  OBVIOUS
<1> QED
  BY <1>1, <1>2, <1>3, FlatOne DEF Each

-----------------------------------------------------------------------------
(* Escaped strings *)

\* The characters of a path, those of its URI, and the bytes of either.
PathChar == 0..2047
UriChar == 0..127
Byte == 0..255

UpperHex(c) == IsDigit(c) \/ c \in 65..70

\* An ASCII string in which each percent sign is followed by two upper-case
\* hex digits.
Escaped(s) ==
    /\ s \in Seq(UriChar)
    /\ \A i \in 1..Len(s) : s[i] = Percent =>
          i + 2 <= Len(s) /\ UpperHex(s[i + 1]) /\ UpperHex(s[i + 2])

\* A sequence of elements of S is one of elements of more than S.
LEMMA WiderSeq ==
    ASSUME NEW S, NEW T, S \subseteq T, NEW s \in Seq(S)
    PROVE  s \in Seq(T)
<1>1. s \in [1..Len(s) -> S] /\ Len(s) \in Nat
  OBVIOUS
<1>2. s \in [1..Len(s) -> T]
  BY <1>1
<1> QED
  BY <1>1, <1>2

\* Characters are numbers.
LEMMA CharType ==
    /\ UriChar \subseteq Nat /\ PathChar \subseteq Nat /\ UriChar \subseteq PathChar
    /\ \A c \in UriChar : c < 128
  BY DEF UriChar, PathChar

\* Such a string is well-formed.
LEMMA EscapedFormed ==
    ASSUME NEW s, Escaped(s)
    PROVE  s \in Seq(Nat) /\ WellFormed(s)
<1>1. s \in Seq(UriChar) /\ Len(s) \in Nat /\ DOMAIN s = 1..Len(s)
  BY DEF Escaped
<1>2. s \in Seq(Nat)
  BY <1>1, CharType, WiderSeq
<1>3. \A c : UpperHex(c) => IsHex(c)
  BY DEF UpperHex, IsHex
<1> QED
  BY <1>1, <1>2, <1>3 DEF Escaped, WellFormed

\* What such strings are joined to is one.
LEMMA EscapedJoin ==
    ASSUME NEW a, NEW b, Escaped(a), Escaped(b)
    PROVE  Escaped(a \o b)
<1> DEFINE s == a \o b
<1>1. a \in Seq(UriChar) /\ b \in Seq(UriChar) /\ Len(a) \in Nat /\ Len(b) \in Nat
  BY DEF Escaped
<1>2. /\ s \in Seq(UriChar) /\ Len(s) = Len(a) + Len(b)
      /\ (\A i \in 1..Len(a) : s[i] = a[i]) /\ \A i \in 1..Len(b) : s[Len(a) + i] = b[i]
  BY <1>1
<1> HIDE DEF s
<1>3. ASSUME NEW i \in 1..Len(s), s[i] = Percent
      PROVE  i + 2 <= Len(s) /\ UpperHex(s[i + 1]) /\ UpperHex(s[i + 2])
  <2>1. CASE i <= Len(a)
    <3>1. i \in 1..Len(a) /\ a[i] = Percent
      BY <1>1, <1>2, <1>3, <2>1
    <3>2. i + 2 <= Len(a) /\ UpperHex(a[i + 1]) /\ UpperHex(a[i + 2])
      BY <3>1 DEF Escaped
    <3>3. i + 1 \in 1..Len(a) /\ i + 2 \in 1..Len(a)
      BY <1>1, <3>1, <3>2
    <3> QED
      BY <1>1, <1>2, <3>2, <3>3
  <2>2. CASE ~(i <= Len(a))
    <3> DEFINE j == i - Len(a)
    <3>1. j \in 1..Len(b) /\ Len(a) + j = i
      BY <1>1, <1>2, <2>2
    <3> HIDE DEF j
    <3>2. b[j] = Percent
      BY <1>2, <1>3, <3>1
    <3>3. j + 2 <= Len(b) /\ UpperHex(b[j + 1]) /\ UpperHex(b[j + 2])
      BY <3>1, <3>2 DEF Escaped
    <3>4. j + 1 \in 1..Len(b) /\ j + 2 \in 1..Len(b) /\ Len(a) + (j + 1) = i + 1 /\ Len(a) + (j + 2) = i + 2
      BY <1>1, <3>1, <3>3
    <3>5. s[i + 1] = b[j + 1] /\ s[i + 2] = b[j + 2]
      <4>1. s[Len(a) + (j + 1)] = b[j + 1] /\ s[Len(a) + (j + 2)] = b[j + 2]
        BY <1>2, <3>4
      <4> QED
        BY <3>4, <4>1
    <3> QED
      BY <1>1, <1>2, <3>1, <3>3, <3>5
  <2> QED
    BY <2>1, <2>2
<1>4. Escaped(s)
  BY <1>2, <1>3 DEF Escaped
<1> QED
  BY <1>4 DEF s

-----------------------------------------------------------------------------
(* Decoding *)

\* What a character of such a string stands for.
Part(s, i) ==
    IF s[i] = Percent THEN <<16 * HexValue(s[i + 1]) + HexValue(s[i + 2])>>
    ELSE IF \E k \in 1..Len(s) : s[k] = Percent /\ i \in {k + 1, k + 2} THEN <<>> ELSE <<s[i]>>

Parts(s) == [i \in 1..Len(s) |-> Part(s, i)]
Decoded(s) == FlattenSeq(Parts(s))

\* The digits of an escape are a number.
LEMMA HexType ==
    ASSUME NEW c, UpperHex(c)
    PROVE  HexValue(c) \in Nat
  BY DEF UpperHex, HexValue, IsDigit, ToUpper, IsLower

\* They are bytes.
LEMMA PartsType ==
    ASSUME NEW s, Escaped(s)
    PROVE  /\ Parts(s) \in Seq(Seq(Nat)) /\ Len(Parts(s)) = Len(s)
           /\ Decoded(s) \in Seq(Nat)
<1>1. s \in Seq(UriChar) /\ Len(s) \in Nat /\ \A i \in 1..Len(s) : s[i] \in UriChar
  BY DEF Escaped
<1>2. ASSUME NEW i \in 1..Len(s) PROVE Part(s, i) \in Seq(Nat)
  <2>1. CASE s[i] = Percent
    <3>1. HexValue(s[i + 1]) \in Nat /\ HexValue(s[i + 2]) \in Nat
      BY <1>1, <2>1, HexType DEF Escaped
    <3> DEFINE n == 16 * HexValue(s[i + 1]) + HexValue(s[i + 2])
    <3>2. n \in Nat
      BY <3>1
    <3> HIDE DEF n
    <3>3. <<n>> \in Seq(Nat)
      BY <3>2
    <3> QED
      BY <2>1, <3>3 DEF Part, n
  <2>2. CASE s[i] # Percent
    <3>1. s[i] \in Nat
      BY <1>1, CharType
    <3>2. <<s[i]>> \in Seq(Nat) /\ <<>> \in Seq(Nat)
      BY <3>1
    <3> QED
      BY <2>2, <3>2 DEF Part
  <2> QED
    BY <2>1, <2>2
<1>3. Parts(s) \in [1..Len(s) -> Seq(Nat)]
  BY <1>2 DEF Parts
<1>4. Parts(s) \in Seq(Seq(Nat)) /\ Len(Parts(s)) = Len(s)
  BY <1>1, <1>3
<1>5. Decoded(s) \in Seq(Nat)
  BY <1>4, FlatJoin DEF Decoded
<1> QED
  BY <1>4, <1>5

\* percent_decode reads as UTF-8 what the characters stand for.
LEMMA PercentDecodeIs ==
    ASSUME NEW s, Escaped(s)
    PROVE  PercentDecode(s) = FromUtf8(Decoded(s))
<1>1. s \in Seq(Nat) /\ s \in Seq(UriChar) /\ WellFormed(s) /\ Len(s) \in Nat /\ DOMAIN s = 1..Len(s)
  BY EscapedFormed DEF Escaped
<1> DEFINE escapes == {i \in 1..Len(s) : s[i] = Percent}
           inside == UNION {{i + 1, i + 2} : i \in escapes}
           bytes(i) == CASE i \in escapes -> <<16 * HexValue(s[i + 1]) + HexValue(s[i + 2])>>
                         [] i \in inside -> <<>>
                         [] OTHER -> Utf8(s[i])
<1>2. Escapes(s) = escapes
  BY <1>1, EscapesAll
<1>3. ASSUME NEW i \in escapes PROVE ~(i + 2 > Len(s) \/ ~IsHex(s[i + 1]) \/ ~IsHex(s[i + 2]))
  <2>1. i \in 1..Len(s) /\ s[i] = Percent
    OBVIOUS
  <2>2. i + 2 <= Len(s) /\ IsHex(s[i + 1]) /\ IsHex(s[i + 2])
    BY <1>1, <2>1 DEF WellFormed
  <2> QED
    BY <1>1, <2>1, <2>2
<1>4. ASSUME NEW i \in 1..Len(s) PROVE bytes(i) = Part(s, i)
  <2>1. i \in escapes <=> s[i] = Percent
    OBVIOUS
  <2>2. i \in inside <=> \E k \in 1..Len(s) : s[k] = Percent /\ i \in {k + 1, k + 2}
    OBVIOUS
  <2>3. Utf8(s[i]) = <<s[i]>>
    <3>1. s[i] \in UriChar
      BY <1>1
    <3> QED
      BY <3>1, CharType DEF Utf8
  <2> HIDE DEF escapes, inside
  <2> DEFINE n == 16 * HexValue(s[i + 1]) + HexValue(s[i + 2])
  <2> HIDE DEF n
  <2>4. CASE i \in escapes
    <3>0. i \notin inside
      <4>1. ASSUME NEW k \in 1..Len(s), s[k] = Percent, i \in {k + 1, k + 2} PROVE FALSE
        <5>1. IsHex(s[i])
          BY <1>1, <4>1 DEF WellFormed
        <5>2. s[i] \in Nat
          BY <1>1
        <5> QED
          BY <2>1, <2>4, <5>1, <5>2, CharFacts
      <4> QED
        BY <2>2, <4>1
    <3>1. bytes(i) = <<n>>
      BY <2>4, <3>0 DEF n
    <3>2. Part(s, i) = <<n>>
      BY <2>1, <2>4 DEF Part, n
    <3> QED
      BY <3>1, <3>2
  <2>5. CASE i \notin escapes /\ i \in inside
    BY <2>1, <2>2, <2>5 DEF Part
  <2>6. CASE i \notin escapes /\ i \notin inside
    BY <2>1, <2>2, <2>3, <2>6 DEF Part
  <2> QED
    BY <2>4, <2>5, <2>6
<1>5. [i \in DOMAIN s |-> bytes(i)] = Parts(s)
  BY <1>1, <1>4 DEF Parts
<1>6. PercentDecode(s) = FromUtf8(FlattenSeq([i \in DOMAIN s |-> bytes(i)]))
  BY <1>2, <1>3 DEF PercentDecode
<1> QED
  BY <1>5, <1>6 DEF Decoded

\* It decodes the parts of what is joined each by itself.
LEMMA DecodeJoin ==
    ASSUME NEW a, NEW b, Escaped(a), Escaped(b)
    PROVE  IsJoined(Decoded(a \o b), Decoded(a), Decoded(b))
<1> DEFINE s == a \o b
           u == Parts(a)
           v == Parts(b)
           w == Parts(s)
           x == u \o v
           W == Seq(Nat)
<1>0. Escaped(s)
  BY EscapedJoin
<1>1. a \in Seq(UriChar) /\ b \in Seq(UriChar) /\ Len(a) \in Nat /\ Len(b) \in Nat
  BY DEF Escaped
<1>2. /\ s \in Seq(UriChar) /\ Len(s) = Len(a) + Len(b)
      /\ (\A i \in 1..Len(a) : s[i] = a[i]) /\ \A i \in 1..Len(b) : s[Len(a) + i] = b[i]
  BY <1>1
<1> HIDE DEF s
<1>3. /\ u \in Seq(W) /\ Len(u) = Len(a) /\ v \in Seq(W) /\ Len(v) = Len(b)
      /\ w \in Seq(W) /\ Len(w) = Len(a) + Len(b)
  BY <1>0, <1>2, PartsType
<1>4. ASSUME NEW i \in 1..Len(a), a[i] = Percent
      PROVE  i + 2 <= Len(a) /\ s[i + 1] = a[i + 1] /\ s[i + 2] = a[i + 2]
  <2>1. i + 2 <= Len(a)
    BY <1>4 DEF Escaped
  <2>2. i + 1 \in 1..Len(a) /\ i + 2 \in 1..Len(a)
    BY <1>1, <2>1
  <2> QED
    BY <1>2, <2>1, <2>2
<1>5. ASSUME NEW i \in 1..Len(b), b[i] = Percent
      PROVE  s[Len(a) + i + 1] = b[i + 1] /\ s[Len(a) + i + 2] = b[i + 2]
  <2>1. i + 2 <= Len(b)
    BY <1>5 DEF Escaped
  <2>2. i + 1 \in 1..Len(b) /\ i + 2 \in 1..Len(b)
        /\ Len(a) + (i + 1) = Len(a) + i + 1 /\ Len(a) + (i + 2) = Len(a) + i + 2
    BY <1>1, <2>1
  <2>3. s[Len(a) + (i + 1)] = b[i + 1] /\ s[Len(a) + (i + 2)] = b[i + 2]
    BY <1>2, <2>2
  <2> QED
    BY <2>2, <2>3
<1> DEFINE In(t, i) == \E k \in 1..Len(t) : t[k] = Percent /\ i \in {k + 1, k + 2}
<1>6. ASSUME NEW i \in 1..Len(a) PROVE Part(s, i) = Part(a, i)
  <2>1. In(s, i) => In(a, i)
    <3> SUFFICES ASSUME NEW k \in 1..Len(s), s[k] = Percent, i \in {k + 1, k + 2}
                 PROVE  In(a, i)
      OBVIOUS
    <3>1. k \in 1..Len(a)
      BY <1>1, <1>2
    <3> QED
      BY <1>2, <3>1
  <2>2. In(a, i) => In(s, i)
    <3> SUFFICES ASSUME NEW k \in 1..Len(a), a[k] = Percent, i \in {k + 1, k + 2}
                 PROVE  In(s, i)
      OBVIOUS
    <3>1. k \in 1..Len(s)
      BY <1>1, <1>2
    <3> QED
      BY <1>2, <3>1
  <2>3. s[i] = a[i]
    BY <1>2
  <2> HIDE DEF In
  <2>4. CASE a[i] = Percent
    BY <1>4, <2>3, <2>4 DEF Part
  <2>5. CASE a[i] # Percent
    BY <2>1, <2>2, <2>3, <2>5 DEF Part, In
  <2> QED
    BY <2>4, <2>5
<1>7. ASSUME NEW i \in 1..Len(b) PROVE Part(s, Len(a) + i) = Part(b, i)
  <2>1. In(s, Len(a) + i) => In(b, i)
    <3> SUFFICES ASSUME NEW k \in 1..Len(s), s[k] = Percent, Len(a) + i \in {k + 1, k + 2}
                 PROVE  In(b, i)
      OBVIOUS
    <3>1. CASE k <= Len(a)
      <4>1. k \in 1..Len(a) /\ a[k] = Percent
        BY <1>1, <1>2, <3>1
      <4>2. k + 2 <= Len(a)
        BY <1>4, <4>1
      <4> QED
        BY <1>1, <4>1, <4>2
    <3>2. CASE ~(k <= Len(a))
      <4> DEFINE j == k - Len(a)
      <4>1. j \in 1..Len(b) /\ Len(a) + j = k /\ i \in {j + 1, j + 2}
        BY <1>1, <1>2, <3>2
      <4> HIDE DEF j
      <4>2. b[j] = Percent
        BY <1>2, <4>1
      <4> QED
        BY <4>1, <4>2
    <3> QED
      BY <3>1, <3>2
  <2>2. In(b, i) => In(s, Len(a) + i)
    <3> SUFFICES ASSUME NEW k \in 1..Len(b), b[k] = Percent, i \in {k + 1, k + 2}
                 PROVE  In(s, Len(a) + i)
      OBVIOUS
    <3> DEFINE j == Len(a) + k
    <3>1. j \in 1..Len(s) /\ Len(a) + i \in {j + 1, j + 2}
      <4>1. j \in 1..Len(s) /\ k \in Nat /\ i \in Nat
        BY <1>1, <1>2
      <4>2. i = k + 1 => Len(a) + i = j + 1
        BY <1>1, <4>1
      <4>3. i = k + 2 => Len(a) + i = j + 2
        BY <1>1, <4>1
      <4> QED
        BY <4>1, <4>2, <4>3
    <3>2. s[j] = Percent
      BY <1>2
    <3> HIDE DEF j
    <3> QED
      BY <3>1, <3>2
  <2>3. s[Len(a) + i] = b[i]
    BY <1>2
  <2> HIDE DEF In
  <2>4. CASE b[i] = Percent
    BY <1>5, <2>3, <2>4 DEF Part
  <2>5. CASE b[i] # Percent
    BY <2>1, <2>2, <2>3, <2>5 DEF Part, In
  <2> QED
    BY <2>4, <2>5
<1>8. /\ \A i \in 1..Len(s) : w[i] = Part(s, i)
      /\ \A i \in 1..Len(a) : u[i] = Part(a, i)
      /\ \A i \in 1..Len(b) : v[i] = Part(b, i)
  BY DEF Parts
<1> HIDE DEF u, v, w, W, In
<1>9. /\ x \in Seq(W) /\ Len(x) = Len(a) + Len(b)
      /\ \A i \in 1..Len(a) : x[i] = u[i]
      /\ \A i \in 1..Len(b) : x[Len(a) + i] = v[i]
  <2>1. /\ x \in Seq(W) /\ Len(x) = Len(u) + Len(v)
        /\ \A i \in 1..Len(u) : x[i] = u[i]
        /\ \A i \in 1..Len(v) : x[Len(u) + i] = v[i]
    BY <1>3, SMTT(20)
  <2> QED
    BY <1>3, <2>1
<1> HIDE DEF x
<1>10. ASSUME NEW i \in 1..Len(w) PROVE w[i] = x[i]
  <2>1. CASE i <= Len(a)
    <3>1. i \in 1..Len(a) /\ i \in 1..Len(s)
      BY <1>1, <1>2, <1>3, <2>1
    <3> QED
      BY <1>6, <1>8, <1>9, <3>1
  <2>2. CASE ~(i <= Len(a))
    <3> DEFINE j == i - Len(a)
    <3>1. j \in 1..Len(b) /\ Len(a) + j = i /\ i \in 1..Len(s)
      BY <1>1, <1>2, <1>3, <2>2
    <3> HIDE DEF j
    <3>2. w[i] = Part(s, Len(a) + j) /\ x[Len(a) + j] = v[j] /\ v[j] = Part(b, j)
      BY <1>8, <1>9, <3>1
    <3> QED
      BY <1>7, <3>1, <3>2
  <2> QED
    BY <2>1, <2>2
<1>11. w = x
  BY <1>3, <1>9, <1>10, SeqEqual
<1>12. IsJoined(FlattenSeq(x), FlattenSeq(u), FlattenSeq(v))
  BY <1>3, FlatJoin DEF x, W
<1> QED
  BY <1>11, <1>12 DEF Decoded, u, v, w, s

-----------------------------------------------------------------------------
(* Encoding *)

\* The escape of a byte.
Escape(b) == <<Percent, HexDigit(b \div 16), HexDigit(b % 16)>>

\* A digit has its value.
LEMMA DigitIs ==
    ASSUME NEW n \in 0..15
    PROVE  UpperHex(HexDigit(n)) /\ HexDigit(n) \in UriChar /\ HexValue(HexDigit(n)) = n
<1>1. CASE n < 10
  BY <1>1 DEF HexDigit, HexValue, UpperHex, IsDigit, UriChar
<1>2. CASE ~(n < 10)
  BY <1>2 DEF HexDigit, HexValue, UpperHex, IsDigit, UriChar, ToUpper, IsLower
<1> QED
  BY <1>1, <1>2

\* What is joined has the elements of both.
LEMMA ConcatIs ==
    ASSUME NEW V, NEW a \in Seq(V), NEW b \in Seq(V)
    PROVE  /\ a \o b \in Seq(V) /\ Len(a \o b) = Len(a) + Len(b)
           /\ \A i \in 1..Len(a) : (a \o b)[i] = a[i]
           /\ \A i \in 1..Len(b) : (a \o b)[Len(a) + i] = b[i]
<1> DEFINE c == a \o b
<1>1. c \in Seq(V) /\ Len(c) = Len(a) + Len(b)
  OBVIOUS
<1>2. (\A i \in 1..Len(a) : c[i] = a[i]) /\ \A i \in 1..Len(b) : c[Len(a) + i] = b[i]
  OBVIOUS
<1> QED
  BY <1>1, <1>2

\* Two elements, one after the other.
LEMMA PairIs ==
    ASSUME NEW V, NEW x \in V, NEW y \in V
    PROVE  <<x>> \o <<y>> = <<x, y>>
<1> DEFINE s == <<x>>
           t == <<y>>
           u == s \o t
           w == <<x, y>>
<1>1. s \in Seq(V) /\ Len(s) = 1 /\ s[1] = x /\ t \in Seq(V) /\ Len(t) = 1 /\ t[1] = y
  OBVIOUS
<1>2. w \in Seq(V) /\ Len(w) = 2 /\ w[1] = x /\ w[2] = y
  OBVIOUS
<1> HIDE DEF s, t, w
<1>3. u \in Seq(V) /\ Len(u) = 2
  BY <1>1, ConcatIs
<1>4. u[1] = x /\ u[2] = y
  <2>1. (\A i \in 1..Len(s) : u[i] = s[i]) /\ \A i \in 1..Len(t) : u[Len(s) + i] = t[i]
    BY <1>1, ConcatIs
  <2>2. 1 \in 1..1 /\ 1 + 1 = 2
    OBVIOUS
  <2> QED
    BY <1>1, <2>1, <2>2
<1> HIDE DEF u
<1>5. \A i \in 1..2 : u[i] = w[i]
  BY <1>2, <1>4
<1>6. u = w
  BY <1>2, <1>3, <1>5, SeqEqual
<1> QED
  BY <1>6 DEF u, s, t, w

\* An escape is decoded to its byte.
LEMMA EscapeIs ==
    ASSUME NEW b \in Byte
    PROVE  Escaped(Escape(b)) /\ Decoded(Escape(b)) = <<b>> /\ Slash \notin {Escape(b)[i] : i \in 1..3}
<1> DEFINE hi == HexDigit(b \div 16)
           lo == HexDigit(b % 16)
           s == <<Percent, hi, lo>>
<1>1. b \div 16 \in 0..15 /\ b % 16 \in 0..15 /\ 16 * (b \div 16) + (b % 16) = b /\ b \in Nat
  <2>1. b \in Nat /\ b <= 255
    BY DEF Byte
  <2>2. b \div 16 \in Int /\ b % 16 \in 0..15 /\ b = 16 * (b \div 16) + (b % 16)
    BY <2>1
  <2> DEFINE q == b \div 16
             r == b % 16
  <2> HIDE DEF q, r
  <2>3. q \in Int /\ r \in 0..15 /\ b = 16 * q + r
    BY <2>2 DEF q, r
  <2>4. q \in 0..15 /\ r \in 0..15 /\ 16 * q + r = b
    BY <2>1, <2>3
  <2> QED
    BY <2>1, <2>4 DEF q, r
<1>2. /\ UpperHex(hi) /\ hi \in UriChar /\ HexValue(hi) = b \div 16
      /\ UpperHex(lo) /\ lo \in UriChar /\ HexValue(lo) = b % 16
  BY <1>1, DigitIs
<1> HIDE DEF hi, lo
<1>3. Percent \in UriChar
  BY DEF Percent, UriChar
<1>4. s \in Seq(UriChar) /\ Len(s) = 3 /\ s[1] = Percent /\ s[2] = hi /\ s[3] = lo
  BY <1>2, <1>3
<1>5. hi # Percent /\ lo # Percent /\ hi # Slash /\ lo # Slash /\ Percent # Slash
  <2>1. IsHex(hi) /\ IsHex(lo) /\ hi \in Nat /\ lo \in Nat
    BY <1>2, CharType DEF UpperHex, IsHex
  <2> QED
    BY <2>1, CharFacts DEF Percent, Slash
<1> HIDE DEF s
<1>6. \A i \in 1..3 : i = 1 \/ i = 2 \/ i = 3
  OBVIOUS
<1>7. Escaped(s)
  BY <1>2, <1>4, <1>5, <1>6 DEF Escaped
<1>8. Part(s, 1) = <<b>> /\ Part(s, 2) = <<>> /\ Part(s, 3) = <<>>
  <2>1. Part(s, 1) = <<b>>
    BY <1>1, <1>2, <1>4 DEF Part
  <2>2. Part(s, 2) = <<>>
    BY <1>4, <1>5 DEF Part
  <2>3. Part(s, 3) = <<>>
    BY <1>4, <1>5 DEF Part
  <2> QED
    BY <2>1, <2>2, <2>3
<1>9. Decoded(s) = <<b>>
  <2> DEFINE u == Parts(s)
             f == [k \in 0..3 |-> IF k = 0 THEN <<>> ELSE <<b>>]
  <2>1. u \in Seq(Seq(Nat)) /\ Len(u) = 3 /\ u[1] = <<b>> /\ u[2] = <<>> /\ u[3] = <<>>
    <3>1. u \in Seq(Seq(Nat)) /\ Len(u) = 3
      BY <1>4, <1>7, PartsType
    <3> QED
      BY <1>4, <1>8, <3>1 DEF Parts
  <2>2. f[0] = <<>> /\ f[1] = <<b>> /\ f[2] = <<b>> /\ f[3] = <<b>>
    OBVIOUS
  <2>3. <<>> \o <<b>> = <<b>> /\ <<b>> \o <<>> = <<b>>
    BY <1>1
  <2> HIDE DEF u, f
  <2>4. f[1] = f[0] \o u[1] /\ f[2] = f[1] \o u[2] /\ f[3] = f[2] \o u[3]
    BY <2>1, <2>2, <2>3
  <2>5. \A k \in 1..Len(u) : f[k] = f[k - 1] \o u[k]
    <3>1. 1 - 1 = 0 /\ 2 - 1 = 1 /\ 3 - 1 = 2
      OBVIOUS
    <3> QED
      BY <1>6, <2>1, <2>4, <3>1
  <2>6. FlattenSeq(u) = f[Len(u)]
    BY <2>1, <2>2, <2>5, FlatUnique
  <2> QED
    BY <2>1, <2>2, <2>6 DEF Decoded, u
<1>10. Slash \notin {s[i] : i \in 1..3}
  BY <1>4, <1>5, <1>6
<1> QED
  BY <1>7, <1>9, <1>10 DEF Escape, s, hi, lo

\* A character is a byte below 128, or two that are told apart.
LEMMA Utf8Is ==
    ASSUME NEW c \in PathChar
    PROVE  \/ c \in UriChar /\ Utf8(c) = <<c>>
           \/ \E hi \in 194..223, lo \in 128..191 :
                 Utf8(c) = <<hi, lo>> /\ (hi - 192) * 64 + lo - 128 = c /\ c >= 128
<1>0. c \in Nat /\ c <= 2047
  BY DEF PathChar
<1>1. CASE c < 128
  <2>1. c \in UriChar
    BY <1>0, <1>1 DEF UriChar
  <2> QED
    BY <1>1, <2>1 DEF Utf8
<1>2. CASE ~(c < 128)
  <2> DEFINE q == c \div 64
             r == c % 64
  <2>1. q \in Nat /\ r \in 0..63 /\ c = 64 * q + r
    BY <1>0
  <2>2. Utf8(c) = <<192 + q, 128 + r>>
    BY <1>2 DEF Utf8
  <2> HIDE DEF q, r
  <2>3. q \in 2..31
    BY <1>0, <1>2, <2>1
  <2>4. 192 + q \in 194..223 /\ 128 + r \in 128..191 /\ ((192 + q) - 192) * 64 + (128 + r) - 128 = c
    BY <2>1, <2>3
  <2>5. c >= 128
    BY <1>0, <1>2
  <2> HIDE DEF Utf8
  <2> QED
    BY <2>2, <2>4, <2>5
<1> QED
  BY <1>1, <1>2

\* The characters that stand for themselves.
Unescaped(c) == IsAlpha(c) \/ IsDigit(c) \/ c \in {45, 46, 95, 126, Slash}

\* A character stands for itself or is escaped byte by byte.
LEMMA EncodeIs ==
    ASSUME NEW c \in PathChar
    PROVE  \/ /\ Unescaped(c) /\ c \in UriChar /\ c # Percent
              /\ Utf8(c) = <<c>> /\ EncodePathChar(c) = <<c>>
           \/ /\ c # Slash /\ c \in Byte /\ Utf8(c) = <<c>> /\ EncodePathChar(c) = Escape(c)
           \/ /\ c # Slash
              /\ \E hi, lo \in Byte :
                    Utf8(c) = <<hi, lo>> /\ EncodePathChar(c) = Escape(hi) \o Escape(lo)
<1>1. CASE Unescaped(c)
  <2>1. c \in UriChar /\ c # Percent /\ c < 128
    BY <1>1 DEF Unescaped, IsAlpha, IsUpper, IsLower, IsDigit, Slash, Percent, UriChar
  <2>2. EncodePathChar(c) = <<c>>
    BY <1>1, Zenon DEF Unescaped, EncodePathChar
  <2> QED
    BY <1>1, <2>1, <2>2 DEF Utf8
<1>2. CASE ~Unescaped(c)
  <2> DEFINE bytes == Utf8(c)
             u == [i \in DOMAIN bytes |-> Escape(bytes[i])]
  <2>1. EncodePathChar(c) = FlattenSeq(u) /\ c # Slash
    BY <1>2 DEF Unescaped, EncodePathChar, Escape
  <2>2. CASE c \in UriChar /\ Utf8(c) = <<c>>
    <3>1. u = <<Escape(c)>>
      BY <2>2
    <3>2. c \in Byte
      BY <2>2 DEF UriChar, Byte
    <3>3. Escape(c) \in Seq(UriChar)
      BY <3>2, EscapeIs DEF Escaped
    <3> QED
      BY <2>1, <2>2, <3>1, <3>2, <3>3, FlatOne
  <2>3. ASSUME NEW hi \in 194..223, NEW lo \in 128..191, Utf8(c) = <<hi, lo>>
        PROVE  hi \in Byte /\ lo \in Byte /\ EncodePathChar(c) = Escape(hi) \o Escape(lo)
    <3>1. hi \in Byte /\ lo \in Byte
      BY DEF Byte
    <3> DEFINE a == Escape(hi)
               b == Escape(lo)
    <3>2. a \in Seq(UriChar) /\ b \in Seq(UriChar)
      BY <3>1, EscapeIs DEF Escaped
    <3>3. u = <<a, b>>
      BY <2>3
    <3> HIDE DEF a, b, u
    <3>4. <<a, b>> = <<a>> \o <<b>>
      BY <3>2, PairIs
    <3>5. <<a>> \in Seq(Seq(UriChar)) /\ <<b>> \in Seq(Seq(UriChar))
      BY <3>2
    <3>6. IsJoined(FlattenSeq(<<a>> \o <<b>>), FlattenSeq(<<a>>), FlattenSeq(<<b>>))
      BY <3>5, FlatJoin
    <3>7. FlattenSeq(<<a>>) = a /\ FlattenSeq(<<b>>) = b
      BY <3>2, FlatOne
    <3>8. FlattenSeq(u) = a \o b
      BY <3>3, <3>4, <3>6, <3>7 DEF IsJoined
    <3> QED
      BY <2>1, <3>1, <3>8 DEF a, b
  <2> HIDE DEF u, bytes
  <2>4. CASE \E hi \in 194..223, lo \in 128..191 : Utf8(c) = <<hi, lo>>
    <3>1. PICK hi \in 194..223, lo \in 128..191 : Utf8(c) = <<hi, lo>>
      BY ONLY <2>4, Zenon
    <3>2. hi \in Byte /\ lo \in Byte /\ EncodePathChar(c) = Escape(hi) \o Escape(lo)
      BY <2>3, <3>1
    <3> QED
      BY <2>1, <3>1, <3>2
  <2>5. (c \in UriChar /\ Utf8(c) = <<c>>)
        \/ \E hi \in 194..223, lo \in 128..191 : Utf8(c) = <<hi, lo>>
    BY Utf8Is
  <2> QED
    BY <2>2, <2>4, <2>5
<1> QED
  BY <1>1, <1>2

\* An encoded character is decoded to its bytes; only a slash has one in it.
LEMMA EncodedChar ==
    ASSUME NEW c \in PathChar
    PROVE  /\ Escaped(EncodePathChar(c)) /\ Decoded(EncodePathChar(c)) = Utf8(c)
           /\ Utf8(c) \in Seq(Nat) /\ Len(EncodePathChar(c)) >= 1
           /\ c = Slash => EncodePathChar(c) = <<Slash>>
           /\ c # Slash => \A i \in 1..Len(EncodePathChar(c)) : EncodePathChar(c)[i] # Slash
<1> DEFINE x == EncodePathChar(c)
<1>1. CASE Unescaped(c) /\ c \in UriChar /\ c # Percent /\ Utf8(c) = <<c>> /\ x = <<c>>
  <2>1. <<c>> \in Seq(UriChar) /\ Len(<<c>>) = 1 /\ <<c>>[1] = c /\ c \in Nat /\ <<c>> \in Seq(Nat)
        /\ \A i \in 1..1 : i = 1
    BY <1>1, CharType
  <2> DEFINE t == <<c>>
  <2> HIDE DEF t
  <2>2. Escaped(t)
    BY <1>1, <2>1 DEF Escaped, t
  <2>3. Part(t, 1) = t
    BY <1>1, <2>1 DEF Part, t
  <2>4. Parts(t) = <<t>>
    BY <2>1, <2>3 DEF Parts, t
  <2>5. Decoded(t) = t
    BY <2>1, <2>4, FlatOne DEF Decoded, t
  <2> QED
    BY <1>1, <2>1, <2>2, <2>5 DEF t
<1>2. CASE c # Slash /\ c \in Byte /\ Utf8(c) = <<c>> /\ x = Escape(c)
  <2>1. Len(Escape(c)) = 3
    BY DEF Escape
  <2>2. <<c>> \in Seq(Nat)
    BY <1>2 DEF Byte
  <2> QED
    BY <1>2, <2>1, <2>2, EscapeIs
<1>3. ASSUME c # Slash, NEW hi \in Byte, NEW lo \in Byte, Utf8(c) = <<hi, lo>>, x = Escape(hi) \o Escape(lo)
      PROVE  /\ Escaped(x) /\ Decoded(x) = Utf8(c) /\ Utf8(c) \in Seq(Nat) /\ Len(x) >= 1
             /\ \A i \in 1..Len(x) : x[i] # Slash
  <2> DEFINE a == Escape(hi)
             b == Escape(lo)
  <2>1. Len(a) = 3 /\ Len(b) = 3 /\ hi \in Nat /\ lo \in Nat
    BY DEF Escape, Byte
  <2>2. /\ Escaped(a) /\ Decoded(a) = <<hi>> /\ \A i \in 1..3 : a[i] # Slash
        /\ Escaped(b) /\ Decoded(b) = <<lo>> /\ \A i \in 1..3 : b[i] # Slash
    BY EscapeIs
  <2>3. x = a \o b
    BY <1>3
  <2> HIDE DEF a, b, x
  <2>4. Escaped(a \o b) /\ IsJoined(Decoded(a \o b), Decoded(a), Decoded(b))
    BY <2>2, EscapedJoin, DecodeJoin
  <2>5. <<hi>> \o <<lo>> = <<hi, lo>> /\ <<hi, lo>> \in Seq(Nat)
    BY <2>1, PairIs
  <2>6. a \in Seq(UriChar) /\ b \in Seq(UriChar)
    BY <2>2 DEF Escaped
  <2>7. Len(x) = 6 /\ (\A i \in 1..3 : x[i] = a[i]) /\ \A i \in 1..3 : x[3 + i] = b[i]
    <3> DEFINE y == a \o b
    <3>1. /\ Len(y) = Len(a) + Len(b)
          /\ (\A i \in 1..Len(a) : y[i] = a[i]) /\ \A i \in 1..Len(b) : y[Len(a) + i] = b[i]
      BY <2>6
    <3> HIDE DEF y
    <3> QED
      BY <2>1, <2>3, <3>1 DEF y
  <2>8. ASSUME NEW i \in 1..6 PROVE x[i] # Slash
    <3>1. CASE i <= 3
      BY <2>2, <2>7, <3>1
    <3>2. CASE ~(i <= 3)
      <4>1. i - 3 \in 1..3 /\ 3 + (i - 3) = i
        BY <3>2
      <4> QED
        BY <2>2, <2>7, <4>1
    <3> QED
      BY <3>1, <3>2
  <2>9. Decoded(x) = Utf8(c) /\ Utf8(c) \in Seq(Nat)
    BY <1>3, <2>2, <2>3, <2>4, <2>5 DEF IsJoined
  <2>10. Escaped(x)
    BY <2>3, <2>4
  <2> QED
    BY <2>7, <2>8, <2>9, <2>10
<1> HIDE DEF x
<1>4. c = Slash => x = <<Slash>>
  BY DEF x, EncodePathChar
<1> QED
  BY <1>1, <1>2, <1>3, <1>4, EncodeIs DEF x

-----------------------------------------------------------------------------
(* Reading UTF-8 *)

Reading == [out : Seq(Int), lead : Int]

\* A byte leaves a state of the reader.
LEMMA ReadingType ==
    ASSUME NEW acc \in Reading, NEW b \in Nat
    PROVE  AfterByte(acc, b) \in Reading
<1>1. acc.out \in Seq(Int) /\ acc.lead \in Int /\ <<>> \in Seq(Int) /\ b \in Int
  BY DEF Reading
<1> DEFINE c == (acc.lead - 192) * 64 + b - 128
<1>2. c \in Int
  BY <1>1
<1> HIDE DEF c
<1>3. Append(acc.out, c) \in Seq(Int) /\ Append(acc.out, b) \in Seq(Int)
  BY <1>1, <1>2
<1>4. /\ [out |-> Append(acc.out, c), lead |-> 0] \in Reading
      /\ [out |-> Append(acc.out, b), lead |-> 0] \in Reading
      /\ [out |-> acc.out, lead |-> b] \in Reading
      /\ NotUtf8 \in Reading
  BY <1>1, <1>3 DEF Reading, NotUtf8
<1> QED
  BY <1>1, <1>4 DEF AfterByte, c

Reads(bytes, g) ==
    /\ g[0] = NothingRead
    /\ \A i \in 1..Len(bytes) : g[i] = AfterByte(g[i - 1], bytes[i])

\* Reading goes from byte to byte.
LEMMA ReadsAre ==
    ASSUME NEW bytes \in Seq(Nat)
    PROVE  \E g \in [0..Len(bytes) -> Reading] : Reads(bytes, g) /\ ReadAll(bytes) = g[Len(bytes)]
<1> DEFINE n == Len(bytes)
           step == [x \in Reading \X Nat |->
                       IF x[2] \in 1..n THEN AfterByte(x[1], bytes[x[2]]) ELSE NothingRead]
<1>0. n \in Nat /\ \A i \in 1..n : bytes[i] \in Nat
  OBVIOUS
<1>1. NothingRead \in Reading
  <2>1. <<>> \in Seq(Int)
    OBVIOUS
  <2> QED
    BY <2>1 DEF NothingRead, Reading
<1>11. step \in [Reading \X Nat -> Reading]
  <2> SUFFICES ASSUME NEW x \in Reading \X Nat
               PROVE  (IF x[2] \in 1..n THEN AfterByte(x[1], bytes[x[2]]) ELSE NothingRead) \in Reading
    OBVIOUS
  <2>1. x[1] \in Reading
    OBVIOUS
  <2>2. x[2] \in 1..n => AfterByte(x[1], bytes[x[2]]) \in Reading
    BY <1>0, <2>1, ReadingType
  <2> QED
    BY <1>1, <2>2
<1> HIDE DEF step, n
<1>2. PICK g \in [0..n -> Reading] : Recurs(g, n, NothingRead, step)
  BY <1>0, <1>1, <1>11, Recursion
<1>3. ASSUME NEW i \in 1..n PROVE g[i] = AfterByte(g[i - 1], bytes[i])
  <2>1. g[i - 1] \in Reading /\ i \in Nat
    BY <1>0, <1>2
  <2> QED
    BY <1>2, <2>1 DEF Recurs, step
<1> DEFINE read[i \in 0..n] == IF i = 0 THEN NothingRead ELSE AfterByte(read[i - 1], bytes[i])
           body(f) == [i \in 0..n |-> IF i = 0 THEN NothingRead ELSE AfterByte(f[i - 1], bytes[i])]
<1>4. g = body(g)
  <2>1. \A i \in 0..n : i # 0 => i \in 1..n
    BY <1>0
  <2> QED
    BY <1>2, <1>3, <2>1 DEF Recurs
<1>5. read = body(read)
  BY <1>4
<1>6. ReadAll(bytes) = read[n]
  BY DEF ReadAll, n
<1> HIDE DEF read
<1> DEFINE S == {k \in Nat : k <= n => read[k] = g[k]}
<1>7. 0 \in S
  <2>1. read[0] = NothingRead
    BY <1>0, <1>5
  <2> QED
    BY <2>1, <1>2 DEF Recurs
<1>8. ASSUME NEW k \in Nat, k \in S PROVE k + 1 \in S
  <2> SUFFICES ASSUME k + 1 <= n PROVE read[k + 1] = g[k + 1]
    OBVIOUS
  <2>1. k + 1 \in 1..n /\ (k + 1) - 1 = k /\ read[k] = g[k] /\ k + 1 \in 0..n /\ k + 1 # 0
    BY <1>0, <1>8
  <2>2. read[k + 1] = AfterByte(read[k], bytes[k + 1])
    BY <1>5, <2>1
  <2> QED
    BY <1>3, <2>1, <2>2
<1> HIDE DEF S
<1>9. \A k \in Nat : k \in S
  BY <1>7, <1>8, Induction
<1>10. read[n] = g[n]
  BY <1>0, <1>9 DEF S
<1>12. Reads(bytes, g)
  BY <1>2, <1>3 DEF Reads, Recurs, n
<1> QED
  BY <1>2, <1>6, <1>10, <1>12 DEF n

\* One more byte is one more step.
LEMMA ReadMore ==
    ASSUME NEW bytes \in Seq(Nat), NEW b \in Nat
    PROVE  ReadAll(Append(bytes, b)) = AfterByte(ReadAll(bytes), b)
<1> DEFINE n == Len(bytes)
           more == Append(bytes, b)
<1>1. n \in Nat /\ more \in Seq(Nat) /\ Len(more) = n + 1 /\ more[n + 1] = b
      /\ \A i \in 1..n : more[i] = bytes[i]
  BY AppendProperties
<1> HIDE DEF more
<1>2. PICK g \in [0..n -> Reading] : Reads(bytes, g) /\ ReadAll(bytes) = g[n]
  BY ReadsAre
<1>3. PICK h \in [0..(n + 1) -> Reading] : Reads(more, h) /\ ReadAll(more) = h[n + 1]
  BY <1>1, ReadsAre
<1> HIDE DEF n
<1>4. g[0] = NothingRead /\ \A i \in 1..n : g[i] = AfterByte(g[i - 1], bytes[i])
  BY <1>2 DEF Reads, n
<1>5. h[0] = NothingRead /\ \A i \in 1..(n + 1) : h[i] = AfterByte(h[i - 1], more[i])
  BY <1>1, <1>3 DEF Reads
<1> DEFINE S == {k \in Nat : k <= n => g[k] = h[k]}
<1>6. 0 \in S
  BY <1>4, <1>5
<1>7. ASSUME NEW k \in Nat, k \in S PROVE k + 1 \in S
  <2> SUFFICES ASSUME k + 1 <= n PROVE g[k + 1] = h[k + 1]
    OBVIOUS
  <2>1. k + 1 \in 1..n /\ k + 1 \in 1..(n + 1) /\ (k + 1) - 1 = k /\ g[k] = h[k]
    BY <1>1, <1>7
  <2> QED
    BY <1>1, <1>4, <1>5, <2>1
<1> HIDE DEF S
<1>8. \A k \in Nat : k \in S
  BY <1>6, <1>7, Induction
<1>9. g[n] = h[n] /\ n + 1 \in 1..(n + 1) /\ (n + 1) - 1 = n
  BY <1>1, <1>8 DEF S
<1>10. h[n + 1] = AfterByte(h[n], more[n + 1])
  BY <1>5, <1>9
<1> QED
  BY <1>1, <1>2, <1>3, <1>9, <1>10 DEF more, n

\* No byte is nothing read.
LEMMA ReadNothing == ReadAll(<<>>) = NothingRead
<1>1. <<>> \in Seq(Nat) /\ Len(<<>>) = 0
  OBVIOUS
<1>2. PICK g \in [0..0 -> Reading] : Reads(<<>>, g) /\ ReadAll(<<>>) = g[0]
  BY <1>1, ReadsAre
<1> QED
  BY <1>2 DEF Reads

utf8 == [c \in PathChar |-> Utf8(c)]

\* The bytes of a string are read as the string.
LEMMA ReadBack ==
    ASSUME NEW p \in Seq(PathChar)
    PROVE  Each(utf8, p) \in Seq(Nat) /\ FromUtf8(Each(utf8, p)) = {p}
<1> DEFINE done(q) == [out |-> q, lead |-> 0]
           T == {q \in Seq(PathChar) : ReadAll(Each(utf8, q)) = done(q)}
<1>1. utf8 \in [PathChar -> Seq(Nat)]
  BY EncodedChar DEF utf8
<1>2. <<>> \in T
  <2>1. <<>> \in Seq(PathChar) /\ 0 \in PathChar
    BY DEF PathChar
  <2>2. Each(utf8, <<>>) = <<>>
    BY <1>1, <2>1, EachOne
  <2> QED
    BY <2>1, <2>2, ReadNothing DEF NothingRead
<1>3. ASSUME NEW q \in Seq(PathChar), NEW c \in PathChar, q \in T PROVE Append(q, c) \in T
  <2> DEFINE a == Each(utf8, q)
             b == Utf8(c)
             more == Append(q, c)
  <2>1. <<c>> \in Seq(PathChar) /\ more = q \o <<c>> /\ more \in Seq(PathChar)
    OBVIOUS
  <2>2. a \in Seq(Nat) /\ b \in Seq(Nat) /\ Each(utf8, <<c>>) = b /\ Each(utf8, more) = a \o b
    <3>1. Each(utf8, <<c>>) = utf8[c] /\ utf8[c] = b
      BY <1>1, EachOne DEF utf8
    <3>2. a \in Seq(Nat) /\ IsJoined(Each(utf8, q \o <<c>>), a, Each(utf8, <<c>>))
      BY <1>1, <2>1, EachJoin
    <3>3. b \in Seq(Nat)
      BY EncodedChar
    <3> QED
      BY <2>1, <3>1, <3>2, <3>3 DEF IsJoined
  <2>3. ReadAll(a) = done(q)
    BY <1>3
  <2> HIDE DEF a, b, more
  <2>4. CASE c \in UriChar /\ b = <<c>>
    <3>1. c \in Nat /\ c < 128
      BY <2>4, CharType
    <3>2. a \o b = Append(a, c)
      BY <2>2, <2>4, <3>1
    <3>3. ReadAll(Append(a, c)) = AfterByte(done(q), c)
      BY <2>2, <2>3, <3>1, ReadMore
    <3>4. AfterByte(done(q), c) = done(Append(q, c))
      <4> DEFINE acc == done(q)
      <4>1. acc.out = q /\ acc.lead = 0 /\ ~(acc.lead > 0) /\ c \notin 194..223
        BY <3>1
      <4> HIDE DEF acc
      <4>2. AfterByte(acc, c) = [out |-> Append(acc.out, c), lead |-> 0]
        BY <3>1, <4>1 DEF AfterByte
      <4> QED
        BY <4>1, <4>2 DEF acc
    <3> QED
      BY <2>1, <2>2, <3>2, <3>3, <3>4 DEF more
  <2>5. ASSUME NEW hi \in 194..223, NEW lo \in 128..191, b = <<hi, lo>>, (hi - 192) * 64 + lo - 128 = c
        PROVE  more \in T
    <3>1. hi \in Nat /\ lo \in Nat
      OBVIOUS
    <3>2. a \o b = Append(Append(a, hi), lo) /\ Append(a, hi) \in Seq(Nat)
      <4> DEFINE x == <<hi>>
                 y == <<lo>>
      <4>1. x \in Seq(Nat) /\ y \in Seq(Nat)
        BY <3>1
      <4>2. b = x \o y
        BY <2>5, <3>1, PairIs
      <4>3. Append(a, hi) = a \o x /\ Append(a, hi) \in Seq(Nat)
        BY <2>2, <3>1
      <4>4. Append(Append(a, hi), lo) = Append(a, hi) \o y
        BY <3>1, <4>3
      <4> HIDE DEF x, y
      <4>5. Reassociates(a, x, y)
        BY <2>2, <4>1, JoinAssociative
      <4>6. (a \o x) \o y = a \o (x \o y)
        BY <4>5 DEF Reassociates
      <4> QED
        BY <4>2, <4>3, <4>4, <4>6
    <3>3. ReadAll(Append(a, hi)) = AfterByte(done(q), hi)
      BY <2>2, <2>3, <3>1, ReadMore
    <3>4. ReadAll(Append(Append(a, hi), lo)) = AfterByte(AfterByte(done(q), hi), lo)
      BY <3>1, <3>2, <3>3, ReadMore
    <3>5. AfterByte(done(q), hi) = [out |-> q, lead |-> hi]
      BY <3>1 DEF AfterByte
    <3>6. AfterByte([out |-> q, lead |-> hi], lo) = done(Append(q, c))
      <4> DEFINE acc == [out |-> q, lead |-> hi]
      <4>1. acc.out = q /\ acc.lead = hi /\ acc.lead > 0
        BY <3>1
      <4> HIDE DEF acc
      <4>2. AfterByte(acc, lo) = [out |-> Append(acc.out, (acc.lead - 192) * 64 + lo - 128), lead |-> 0]
        BY <4>1 DEF AfterByte
      <4> QED
        BY <2>5, <4>1, <4>2 DEF acc
    <3> QED
      BY <2>1, <2>2, <3>2, <3>4, <3>5, <3>6 DEF more
  <2>6. more \in T
    <3>1. CASE c \in UriChar /\ Utf8(c) = <<c>>
      BY <2>4, <3>1 DEF b, more
    <3>2. ASSUME NEW hi \in 194..223, NEW lo \in 128..191,
                 Utf8(c) = <<hi, lo>>, (hi - 192) * 64 + lo - 128 = c
          PROVE  more \in T
      BY <2>5, <3>2 DEF b
    <3>3. CASE \E hi \in 194..223, lo \in 128..191 :
                  Utf8(c) = <<hi, lo>> /\ (hi - 192) * 64 + lo - 128 = c /\ c >= 128
      <4>1. PICK hi \in 194..223, lo \in 128..191 :
                  Utf8(c) = <<hi, lo>> /\ (hi - 192) * 64 + lo - 128 = c
        BY <3>3
      <4> QED
        BY <3>2, <4>1
    <3> QED
      BY <3>1, <3>3, Utf8Is
  <2> QED
    BY <2>6 DEF more
<1> HIDE DEF T
<1>4. \A q \in Seq(PathChar) : q \in T
  BY <1>2, <1>3, SequenceInduction
<1>5. ReadAll(Each(utf8, p)) = done(p)
  BY <1>4 DEF T
<1>6. Each(utf8, p) \in Seq(Nat)
  BY <1>1, EachJoin
<1> QED
  BY <1>5, <1>6 DEF FromUtf8

-----------------------------------------------------------------------------
(* The path of a URI *)

encode == [c \in PathChar |-> EncodePathChar(c)]

\* An encoded path is what its characters are encoded as, one after the other.
LEMMA EncodePathIs ==
    /\ encode \in [PathChar -> Seq(UriChar)]
    /\ \A p \in Seq(PathChar) : EncodePath(p) = Each(encode, p)
<1>1. ASSUME NEW c \in PathChar PROVE EncodePathChar(c) \in Seq(UriChar)
  BY EncodedChar DEF Escaped
<1>2. ASSUME NEW p \in Seq(PathChar) PROVE EncodePath(p) = Each(encode, p)
  <2>1. \A i \in DOMAIN p : p[i] \in PathChar
    OBVIOUS
  <2>2. [i \in DOMAIN p |-> EncodePathChar(p[i])] = [i \in DOMAIN p |-> encode[p[i]]]
    BY <2>1 DEF encode
  <2> QED
    BY <2>2 DEF EncodePath, Each
<1> QED
  BY <1>1, <1>2 DEF encode

\* Joined paths are encoded each by itself.
LEMMA EncodeJoin ==
    ASSUME NEW p \in Seq(PathChar), NEW q \in Seq(PathChar)
    PROVE  /\ EncodePath(p) \in Seq(UriChar)
           /\ IsJoined(EncodePath(p \o q), EncodePath(p), EncodePath(q))
<1> DEFINE r == p \o q
<1>1. r \in Seq(PathChar)
  OBVIOUS
<1>2. /\ encode \in [PathChar -> Seq(UriChar)]
      /\ EncodePath(p) = Each(encode, p) /\ EncodePath(q) = Each(encode, q)
      /\ EncodePath(r) = Each(encode, r)
  BY <1>1, EncodePathIs
<1>3. Each(encode, p) \in Seq(UriChar) /\ IsJoined(Each(encode, r), Each(encode, p), Each(encode, q))
  BY <1>2, EachJoin
<1> QED
  BY <1>2, <1>3

\* A path of one character, and of none.
LEMMA EncodeOne ==
    ASSUME NEW c \in PathChar
    PROVE  EncodePath(<<c>>) = EncodePathChar(c) /\ EncodePath(<<>>) = <<>>
<1>1. <<c>> \in Seq(PathChar) /\ <<>> \in Seq(PathChar)
  OBVIOUS
<1>2. /\ encode \in [PathChar -> Seq(UriChar)]
      /\ EncodePath(<<c>>) = Each(encode, <<c>>) /\ EncodePath(<<>>) = Each(encode, <<>>)
  BY <1>1, EncodePathIs
<1>3. Each(encode, <<c>>) = encode[c] /\ Each(encode, <<>>) = <<>>
  BY <1>2, EachOne
<1> QED
  BY <1>2, <1>3 DEF encode

\* An encoded path is escaped and is decoded to the bytes of the path; it has
\* no slash if the path has none, and it is empty only if the path is.
LEMMA EncodedPath ==
    ASSUME NEW p \in Seq(PathChar)
    PROVE  /\ Escaped(EncodePath(p)) /\ Decoded(EncodePath(p)) = Each(utf8, p)
           /\ Len(EncodePath(p)) >= Len(p)
           /\ (\A i \in 1..Len(p) : p[i] # Slash)
                 => \A i \in 1..Len(EncodePath(p)) : EncodePath(p)[i] # Slash
<1> DEFINE SlashFree(s) == \A i \in 1..Len(s) : s[i] # Slash
           T == {q \in Seq(PathChar) :
                    /\ Escaped(EncodePath(q)) /\ Decoded(EncodePath(q)) = Each(utf8, q)
                    /\ Len(EncodePath(q)) >= Len(q)
                    /\ SlashFree(q) => SlashFree(EncodePath(q))}
<1>0. utf8 \in [PathChar -> Seq(Nat)]
  BY EncodedChar DEF utf8
<1>1. <<>> \in T
  <2>1. <<>> \in Seq(PathChar) /\ 0 \in PathChar /\ <<>> \in Seq(UriChar)
    BY DEF PathChar
  <2>2. EncodePath(<<>>) = <<>> /\ Each(utf8, <<>>) = <<>>
    BY <1>0, <2>1, EncodeOne, EachOne
  <2>3. Escaped(<<>>)
    BY <2>1 DEF Escaped
  <2>4. Decoded(<<>>) = <<>>
    <3>1. Parts(<<>>) = <<>>
      BY DEF Parts
    <3> QED
      BY <3>1 DEF Decoded, FlattenSeq
  <2>5. Len(<<>>) = 0
    OBVIOUS
  <2> QED
    BY <2>1, <2>2, <2>3, <2>4, <2>5
<1>2. ASSUME NEW q \in Seq(PathChar), NEW c \in PathChar, q \in T PROVE Append(q, c) \in T
  <2> DEFINE a == EncodePath(q)
             b == EncodePathChar(c)
             more == Append(q, c)
             e == EncodePath(more)
  <2>1. /\ <<c>> \in Seq(PathChar) /\ more = q \o <<c>> /\ more \in Seq(PathChar)
        /\ Len(more) = Len(q) + 1 /\ Len(q) \in Nat /\ more[Len(q) + 1] = c
        /\ \A i \in 1..Len(q) : more[i] = q[i]
    BY AppendProperties
  <2>2. e = a \o b
    <3>1. IsJoined(EncodePath(q \o <<c>>), a, EncodePath(<<c>>))
      BY <2>1, EncodeJoin
    <3> QED
      BY <2>1, <3>1, EncodeOne DEF IsJoined
  <2>3. /\ Escaped(b) /\ Decoded(b) = Utf8(c) /\ Len(b) >= 1
        /\ c # Slash => SlashFree(b)
    BY EncodedChar
  <2>4. Escaped(a) /\ Decoded(a) = Each(utf8, q) /\ Len(a) >= Len(q) /\ (SlashFree(q) => SlashFree(a))
    BY <1>2
  <2>5. a \in Seq(UriChar) /\ b \in Seq(UriChar) /\ Len(a) \in Nat /\ Len(b) \in Nat
    BY <2>3, <2>4 DEF Escaped
  <2>6. Each(utf8, more) = Each(utf8, q) \o Utf8(c)
    <3>1. IsJoined(Each(utf8, q \o <<c>>), Each(utf8, q), Each(utf8, <<c>>))
      BY <1>0, <2>1, EachJoin
    <3>2. Each(utf8, <<c>>) = utf8[c]
      BY <1>0, EachOne
    <3> QED
      BY <2>1, <3>1, <3>2 DEF IsJoined, utf8
  <2> HIDE DEF a, b, e, more
  <2>7. Escaped(e) /\ Decoded(e) = Each(utf8, more)
    <3>1. Escaped(a \o b) /\ IsJoined(Decoded(a \o b), Decoded(a), Decoded(b))
      BY <2>3, <2>4, EscapedJoin, DecodeJoin
    <3> QED
      BY <2>2, <2>3, <2>4, <2>6, <3>1 DEF IsJoined
  <2>8. /\ Len(e) = Len(a) + Len(b)
        /\ (\A i \in 1..Len(a) : e[i] = a[i]) /\ \A i \in 1..Len(b) : e[Len(a) + i] = b[i]
    BY <2>2, <2>5, ConcatIs
  <2>9. SlashFree(more) => SlashFree(e)
    <3> SUFFICES ASSUME SlashFree(more), NEW i \in 1..Len(e) PROVE e[i] # Slash
      OBVIOUS
    <3>1. c # Slash
      BY <2>1
    <3>2. SlashFree(q)
      BY <2>1
    <3>3. CASE i <= Len(a)
      BY <2>4, <2>5, <2>8, <3>2, <3>3
    <3>4. CASE ~(i <= Len(a))
      <4>1. i - Len(a) \in 1..Len(b) /\ Len(a) + (i - Len(a)) = i
        BY <2>5, <2>8, <3>4
      <4> QED
        BY <2>3, <2>8, <3>1, <4>1
    <3> QED
      BY <3>3, <3>4
  <2>10. Len(e) >= Len(more)
    BY <2>1, <2>3, <2>4, <2>5, <2>8
  <2>11. more \in T
    BY <2>1, <2>7, <2>9, <2>10 DEF e
  <2> QED
    BY <2>11 DEF more
<1> HIDE DEF T
<1>3. \A q \in Seq(PathChar) : q \in T
  BY <1>1, <1>2, SequenceInduction
<1> QED
  BY <1>3 DEF T

\* The path of a URI is decoded to the path it was made from.
LEMMA DecodeEncode ==
    ASSUME NEW p \in Seq(PathChar)
    PROVE  PercentDecode(EncodePath(p)) = {p}
  BY EncodedPath, PercentDecodeIs, ReadBack

-----------------------------------------------------------------------------
(* URIs of paths *)

\* What is joined has the elements of both.
LEMMA JoinedIs ==
    ASSUME NEW V, NEW a \in Seq(V), NEW b \in Seq(V), NEW s, IsJoined(s, a, b)
    PROVE  /\ s \in Seq(V) /\ Len(s) = Len(a) + Len(b) /\ Len(a) \in Nat /\ Len(b) \in Nat
           /\ (\A i \in 1..Len(a) : s[i] = a[i]) /\ \A i \in 1..Len(b) : s[Len(a) + i] = b[i]
  BY ConcatIs DEF IsJoined

\* The halves of what is joined.
LEMMA Halves ==
    ASSUME NEW V, NEW a \in Seq(V), NEW b \in Seq(V), NEW s, IsJoined(s, a, b)
    PROVE  SubSeq(s, 1, Len(a)) = a /\ From(s, Len(a) + 1) = b
<1>1. /\ s \in Seq(V) /\ Len(s) = Len(a) + Len(b) /\ Len(a) \in Nat /\ Len(b) \in Nat
      /\ (\A i \in 1..Len(a) : s[i] = a[i]) /\ \A i \in 1..Len(b) : s[Len(a) + i] = b[i]
  BY JoinedIs
<1> DEFINE x == SubSeq(s, 1, Len(a))
           y == SubSeq(s, Len(a) + 1, Len(s))
<1>2. /\ x \in Seq(V) /\ Len(x) = Len(a) /\ \A i \in 1..Len(a) : x[i] = s[i]
  BY <1>1
<1>3. y \in Seq(V) /\ Len(y) = Len(b)
  BY <1>1
<1>4. ASSUME NEW i \in 1..Len(b) PROVE y[i] = s[Len(a) + i]
  BY <1>1
<1> HIDE DEF x, y
<1>5. x = a
  <2>1. \A i \in 1..Len(x) : x[i] = a[i]
    BY <1>1, <1>2
  <2> QED
    BY <1>2, <2>1, SeqEqual
<1>6. y = b
  <2>1. \A i \in 1..Len(y) : y[i] = b[i]
    BY <1>1, <1>3, <1>4
  <2> QED
    BY <1>3, <2>1, SeqEqual
<1> QED
  BY <1>5, <1>6 DEF From, x, y

\* A place with no such character before it is the first, and one with none
\* after it the last.
LEMMA FirstAt ==
    ASSUME NEW s \in Seq(Nat), NEW c, NEW k \in 1..Len(s), s[k] = c,
           \A i \in 1..(k - 1) : s[i] # c
    PROVE  FirstOf(s, c) = k
<1> DEFINE f == FirstOf(s, c)
<1>1. f \in 0..Len(s) /\ (f > 0 => s[f] = c) /\ f > 0 /\ f <= k
  BY FirstIs
<1> HIDE DEF f
<1>2. f \in 1..(k - 1) => s[f] # c
  OBVIOUS
<1>3. f = k
  <2>1. k \in Nat /\ f \in Nat
    BY <1>1
  <2>2. s[f] = c
    BY <1>1
  <2> QED
    BY <1>1, <1>2, <2>1, <2>2
<1> QED
  BY <1>3 DEF f

\* LastOf is the place after which the character does not come again.
LEMMA LastAt ==
    ASSUME NEW s \in Seq(Nat), NEW c, NEW k \in 1..Len(s), s[k] = c,
           \A i \in (k + 1)..Len(s) : s[i] # c
    PROVE  LastOf(s, c) = k
<1> DEFINE at == {i \in DOMAIN s : s[i] = c}
<1>1. Len(s) \in Nat /\ DOMAIN s = 1..Len(s)
  OBVIOUS
<1>2. k \in at /\ \A i \in at : i \in Nat /\ k >= i
  <2>1. k \in at
    BY <1>1
  <2>2. ASSUME NEW i \in at PROVE i \in Nat /\ k >= i
    <3>1. i \in 1..Len(s) /\ s[i] = c
      BY <1>1
    <3>2. i \notin (k + 1)..Len(s)
      BY <3>1
    <3> QED
      BY <1>1, <3>1, <3>2
  <2> QED
    BY <2>1, <2>2
<1>3. LastOf(s, c) = CHOOSE i \in at : \A j \in at : i >= j
  BY <1>2 DEF LastOf
<1> DEFINE l == LastOf(s, c)
<1> HIDE DEF at, l
<1>4. l \in at /\ \A j \in at : l >= j
  BY <1>2, <1>3 DEF l
<1>5. l \in Nat /\ k \in Nat /\ l >= k /\ k >= l
  BY <1>2, <1>4
<1>6. l = k
  BY <1>5
<1> QED
  BY <1>6 DEF l

\* file:// is ASCII, has no escape, and begins with a scheme of four letters.
LEMMA FileSchemeIs ==
    /\ FileScheme \in Seq(UriChar) /\ Len(FileScheme) = 7 /\ Escaped(FileScheme)
    /\ FileScheme[5] = Colon /\ \A i \in 1..4 : IsLower(FileScheme[i]) /\ FileScheme[i] # Colon
    /\ FileScheme[6] = Slash /\ FileScheme[7] = Slash
<1> USE DEF FileScheme, Colon, Slash
<1>1. \A i \in 1..7 : i \in {1, 2, 3, 4, 5, 6, 7}
  OBVIOUS
<1>2. FileScheme \in Seq(UriChar) /\ Len(FileScheme) = 7
  BY DEF UriChar
<1>3. \A i \in 1..7 : FileScheme[i] # Percent
  BY <1>1 DEF Percent
<1>4. Escaped(FileScheme)
  BY <1>2, <1>3 DEF Escaped
<1>5. \A i \in 1..4 : i \in {1, 2, 3, 4}
  OBVIOUS
<1>6. \A i \in 1..4 : IsLower(FileScheme[i]) /\ FileScheme[i] # Colon
  BY <1>5 DEF IsLower
<1> QED
  BY <1>2, <1>4, <1>6

\* What a string after file:// is.
LEMMA FileUri ==
    ASSUME NEW e \in Seq(UriChar), NEW uri, IsJoined(uri, FileScheme, e)
    PROVE  /\ uri \in Seq(UriChar) /\ uri \in Seq(Nat) /\ Len(uri) = 7 + Len(e)
           /\ (\A i \in 1..7 : uri[i] = FileScheme[i]) /\ \A i \in 1..Len(e) : uri[7 + i] = e[i]
           /\ SubSeq(uri, 1, 7) = FileScheme /\ From(uri, 8) = e
           /\ SchemeLen(uri) = 4
<1>1. /\ FileScheme \in Seq(UriChar) /\ Len(FileScheme) = 7 /\ FileScheme[5] = Colon
      /\ \A i \in 1..4 : IsLower(FileScheme[i]) /\ FileScheme[i] # Colon
  BY FileSchemeIs
<1>2. /\ uri \in Seq(UriChar) /\ Len(uri) = 7 + Len(e) /\ Len(e) \in Nat
      /\ (\A i \in 1..7 : uri[i] = FileScheme[i]) /\ \A i \in 1..Len(e) : uri[7 + i] = e[i]
  <2>1. /\ uri \in Seq(UriChar) /\ Len(uri) = Len(FileScheme) + Len(e) /\ Len(e) \in Nat
        /\ \A i \in 1..Len(FileScheme) : uri[i] = FileScheme[i]
        /\ \A i \in 1..Len(e) : uri[Len(FileScheme) + i] = e[i]
    <3>1. FileScheme \in Seq(UriChar) /\ e \in Seq(UriChar) /\ IsJoined(uri, FileScheme, e)
      BY <1>1
    <3> QED
      BY ONLY <3>1, JoinedIs
  <2>2. Len(FileScheme) = 7
    BY <1>1
  <2> QED
    BY ONLY <2>1, <2>2
<1>3. SubSeq(uri, 1, 7) = FileScheme /\ From(uri, 8) = e
  <2>1. SubSeq(uri, 1, Len(FileScheme)) = FileScheme /\ From(uri, Len(FileScheme) + 1) = e
    <3>1. FileScheme \in Seq(UriChar) /\ e \in Seq(UriChar) /\ IsJoined(uri, FileScheme, e)
      BY <1>1
    <3> QED
      BY ONLY <3>1, Halves
  <2>2. 7 + 1 = 8
    OBVIOUS
  <2> QED
    BY <1>1, <2>1, <2>2
<1>4. uri \in Seq(Nat)
  BY <1>2, CharType, WiderSeq
<1>5. FirstOf(uri, Colon) = 5
  <2>1. 5 \in 1..Len(uri) /\ uri[5] = Colon
    BY <1>1, <1>2
  <2>2. \A i \in 1..(5 - 1) : uri[i] # Colon
    BY <1>1, <1>2
  <2> QED
    BY <1>4, <2>1, <2>2, FirstAt
<1> DEFINE p == SubSeq(uri, 1, 5 - 1)
<1>6. p \in Seq(Nat) /\ Len(p) = 4 /\ \A i \in 1..4 : p[i] = uri[i]
  BY <1>2, <1>4, SMTT(20)
<1> HIDE DEF p
<1>7. IsValidScheme(p)
  <2>1. DOMAIN p = 1..4 /\ p # <<>> /\ 1 \in 1..4
    <3>1. p = <<>> => Len(p) = 0
      OBVIOUS
    <3>2. DOMAIN p = 1..4
      BY <1>6
    <3> QED
      BY <1>6, <3>1, <3>2
  <2>2. \A i \in 1..4 : IsAlpha(p[i])
    BY <1>1, <1>2, <1>6 DEF IsAlpha
  <2> QED
    BY <2>1, <2>2 DEF IsValidScheme
<1>8. SchemeLen(uri) = 4
  BY <1>5, <1>7 DEF SchemeLen, p
<1> QED
  BY <1>2, <1>3, <1>4, <1>8

\* Letters and digits as a key has them.
LEMMA CaseKept ==
    ASSUME NEW c \in Nat
    PROVE  (UpperHex(c) => ToUpper(c) = c) /\ (IsLower(c) => ToLower(c) = c)
  BY DEF UpperHex, IsDigit, IsLower, IsUpper, ToUpper, ToLower

\* A URI of an escaped path is a key.
LEMMA FileKey ==
    ASSUME NEW e, Escaped(e), NEW uri, IsJoined(uri, FileScheme, e)
    PROVE  Escaped(uri) /\ Normalize(uri) = uri
<1>1. e \in Seq(UriChar)
  BY DEF Escaped
<1>2. /\ uri \in Seq(Nat) /\ Len(uri) = 7 + Len(e) /\ Len(e) \in Nat /\ SchemeLen(uri) = 4
      /\ \A i \in 1..7 : uri[i] = FileScheme[i]
  BY <1>1, FileUri
<1>3. Escaped(uri)
  BY FileSchemeIs, EscapedJoin DEF IsJoined
<1>4. Escapes(uri) = {i \in 1..Len(uri) : uri[i] = Percent}
  BY <1>3, EscapedFormed, EscapesAll
<1>5. ASSUME NEW i \in 1..Len(uri) PROVE KeyAt(uri, i) = uri[i]
  <2>1. i \in Digits(uri) => UpperHex(uri[i])
    <3> SUFFICES ASSUME i \in Digits(uri) PROVE UpperHex(uri[i])
      OBVIOUS
    <3>1. PICK k \in Escapes(uri) : i \in {k + 1, k + 2}
      BY DEF Digits
    <3>2. k \in 1..Len(uri) /\ uri[k] = Percent
      BY <1>4
    <3>3. UpperHex(uri[k + 1]) /\ UpperHex(uri[k + 2])
      BY <1>3, <3>2 DEF Escaped
    <3> QED
      BY <3>1, <3>3
  <2>2. i <= 4 => IsLower(uri[i])
    <3>1. i <= 4 => i \in 1..4 /\ i \in 1..7
      BY <1>2, SMTT(20)
    <3>2. \A j \in 1..4 : IsLower(FileScheme[j])
      BY FileSchemeIs
    <3> QED
      BY <1>2, <3>1, <3>2
  <2>3. uri[i] \in Nat
    BY <1>2, SMTT(20)
  <2> QED
    BY <1>2, <2>1, <2>2, <2>3, CaseKept DEF KeyAt
<1> DEFINE t == Normalize(uri)
<1>6. t \in Seq(Nat) /\ Len(t) = Len(uri) /\ \A i \in 1..Len(uri) : t[i] = KeyAt(uri, i)
  BY <1>2, NormalizeIs
<1> HIDE DEF t
<1>7. t = uri
  <2>1. \A i \in 1..Len(t) : t[i] = uri[i]
    BY <1>5, <1>6
  <2> QED
    BY <1>2, <1>6, <2>1, SeqEqual
<1> QED
  BY <1>3, <1>7 DEF t

\* localhost is lower case and has neither a slash nor an escape.
LEMMA LocalhostIs ==
    /\ Localhost \in Seq(UriChar) /\ Len(Localhost) = 9
    /\ \A i \in 1..9 : Localhost[i] # Slash /\ ToLower(Localhost[i]) = Localhost[i]
<1>1. \A i \in 1..9 : i \in {1, 2, 3, 4, 5, 6, 7, 8, 9}
  OBVIOUS
<1>2. Localhost \in Seq(UriChar) /\ Len(Localhost) = 9
  BY DEF Localhost, UriChar
<1>3. \A i \in 1..9 : Localhost[i] \in 97..122
  BY <1>1 DEF Localhost
<1>4. \A c \in 97..122 : c # Slash /\ ToLower(c) = c
  BY DEF ToLower, IsUpper, Slash
<1> QED
  BY <1>2, <1>3, <1>4

\* The path begins at the first slash, after no authority or localhost.
LEMMA ToFilePathIs ==
    ASSUME NEW e \in Seq(UriChar), e # <<>>, e[1] = Slash,
           NEW a \in {<<>>, Localhost}, NEW rest, IsJoined(rest, a, e),
           NEW uri, IsJoined(uri, FileScheme, rest)
    PROVE  ToFilePath(uri) = PercentDecode(e)
<1>0. <<>> \in Seq(UriChar) /\ Len(<<>>) = 0
  OBVIOUS
<1>1. /\ a \in Seq(UriChar) /\ Len(a) \in Nat
      /\ \A i \in 1..Len(a) : a[i] # Slash /\ ToLower(a[i]) = a[i]
  <2>1. CASE a = <<>>
    BY <1>0, <2>1
  <2>2. CASE a = Localhost
    BY <2>2, LocalhostIs
  <2> QED
    BY <2>1, <2>2
<1>2. /\ rest \in Seq(UriChar) /\ Len(rest) = Len(a) + Len(e)
      /\ (\A i \in 1..Len(a) : rest[i] = a[i]) /\ \A i \in 1..Len(e) : rest[Len(a) + i] = e[i]
  BY <1>1, JoinedIs
<1>3. SubSeq(rest, 1, Len(a)) = a /\ From(rest, Len(a) + 1) = e
  BY <1>1, Halves
<1>4. FirstOf(rest, Slash) = Len(a) + 1
  <2>1. 1 \in 1..Len(e)
    OBVIOUS
  <2>2. Len(a) + 1 \in 1..Len(rest) /\ rest[Len(a) + 1] = Slash
    BY <1>1, <1>2, <2>1
  <2>3. \A i \in 1..((Len(a) + 1) - 1) : rest[i] # Slash
    BY <1>1, <1>2
  <2>4. rest \in Seq(Nat)
    BY <1>2, CharType, WiderSeq
  <2> QED
    BY <2>2, <2>3, <2>4, FirstAt
<1>5. SubSeq(uri, 1, 7) = FileScheme /\ From(uri, 8) = rest
  BY <1>2, FileUri
<1>6. [i \in DOMAIN a |-> ToLower(a[i])] = a
  <2>1. DOMAIN a = 1..Len(a) /\ a = [i \in 1..Len(a) |-> a[i]]
    BY <1>1
  <2> QED
    BY <1>1, <2>1
<1>7. /\ Len(a) + 1 > 0 /\ (Len(a) + 1) - 1 = Len(a)
  BY <1>1
<1>8. a = <<>> \/ [i \in DOMAIN a |-> ToLower(a[i])] = Localhost
  BY <1>6
<1> DEFINE Local(t) == t = <<>> \/ [i \in DOMAIN t |-> ToLower(t[i])] = Localhost
<1>9. Local(a)
  BY <1>8
<1>10. ToFilePath(uri)
         = LET slash == FirstOf(rest, Slash)
               authority == IF slash > 0 THEN SubSeq(rest, 1, slash - 1) ELSE rest
           IN IF ~Local(authority) THEN {}
              ELSE PercentDecode(IF slash > 0 THEN From(rest, slash) ELSE <<>>)
  BY <1>5 DEF ToFilePath
<1> HIDE DEF Local
<1> QED
  BY <1>3, <1>4, <1>7, <1>9, <1>10

\* A path with a slash at its beginning.
AbsolutePath(p) == p \in Seq(PathChar) /\ p # <<>> /\ p[1] = Slash

\* Its URI is file:// and the path encoded, which begins with a slash, too.
LEMMA UriIs ==
    ASSUME NEW p, AbsolutePath(p)
    PROVE  /\ IsJoined(UriOf(p), FileScheme, EncodePath(p))
           /\ Escaped(EncodePath(p)) /\ EncodePath(p) \in Seq(UriChar)
           /\ EncodePath(p) # <<>> /\ EncodePath(p)[1] = Slash
<1> DEFINE e == EncodePath(p)
<1>0. p \in Seq(PathChar) /\ p # <<>> /\ p[1] = Slash
  BY DEF AbsolutePath
<1>1. UriOf(p) = FileScheme \o e
  BY <1>0 DEF UriOf, Only, FromFilePath
<1>2. Escaped(e) /\ e \in Seq(UriChar) /\ Len(e) >= Len(p)
  BY <1>0, EncodedPath DEF Escaped
<1>3. e # <<>>
  <2>1. Len(p) \in Nat /\ Len(p) # 0 /\ (e = <<>> => Len(e) = 0)
    BY <1>0
  <2> QED
    BY <1>2, <2>1
<1>4. e[1] = Slash
  <2> DEFINE x == <<Slash>>
             y == SubSeq(p, 2, Len(p))
  <2>1. Slash \in PathChar /\ x \in Seq(PathChar) /\ Len(x) = 1 /\ x[1] = Slash
    BY DEF Slash, PathChar
  <2>2. y \in Seq(PathChar) /\ Len(y) = Len(p) - 1
    <3>1. Len(p) \in Nat /\ (Len(p) = 0 => p = <<>>) /\ p \in Seq(PathChar)
      BY <1>0
    <3>2. Len(p) >= 1
      BY <1>0, <3>1
    <3> DEFINE n == Len(p)
    <3> HIDE DEF n
    <3>3. p \in Seq(PathChar) /\ Len(p) = n /\ n \in Nat /\ n >= 1
      BY <3>1, <3>2 DEF n
    <3>4. SubSeq(p, 2, n) \in Seq(PathChar) /\ Len(SubSeq(p, 2, n)) = n - 1
      BY ONLY <3>3
    <3> QED
      BY ONLY <3>4 DEF n, y
  <2>3. ASSUME NEW i \in 1..Len(y) PROVE y[i] = p[1 + i]
    BY <1>0, <2>2
  <2> HIDE DEF x, y
  <2> DEFINE z == x \o y
  <2>4. /\ z \in Seq(PathChar) /\ Len(z) = Len(x) + Len(y)
        /\ (\A i \in 1..Len(x) : z[i] = x[i]) /\ \A i \in 1..Len(y) : z[Len(x) + i] = y[i]
    BY <2>1, <2>2, ConcatIs
  <2> HIDE DEF z
  <2>5. p = z
    <3>1. ASSUME NEW i \in 1..Len(p) PROVE p[i] = z[i]
      <4>1. CASE i = 1
        BY <1>0, <2>1, <2>4, <4>1
      <4>2. CASE i # 1
        <5>1. i - 1 \in 1..Len(y) /\ 1 + (i - 1) = i
          BY <1>0, <2>2, <4>2
        <5> QED
          BY <2>1, <2>3, <2>4, <5>1
      <4> QED
        BY <4>1, <4>2
    <3>2. Len(p) = Len(z)
      BY <1>0, <2>1, <2>2, <2>4
    <3> QED
      BY <1>0, <2>4, <3>1, <3>2, SeqEqual
  <2>6. EncodePath(x) = x
    BY <2>1, EncodeOne, EncodedChar DEF x
  <2>7. IsJoined(EncodePath(x \o y), EncodePath(x), EncodePath(y)) /\ EncodePath(y) \in Seq(UriChar)
        /\ EncodePath(x) \in Seq(UriChar)
    BY <2>1, <2>2, EncodeJoin
  <2>8. IsJoined(e, x, EncodePath(y)) /\ x \in Seq(UriChar)
    BY <2>5, <2>6, <2>7 DEF z
  <2> HIDE DEF e
  <2>9. \A i \in 1..Len(x) : e[i] = x[i]
    BY <2>7, <2>8, JoinedIs
  <2> QED
    BY <2>1, <2>9
<1> QED
  BY <1>1, <1>2, <1>3, <1>4 DEF IsJoined

\* A path and its URI stand for each other.
LEMMA PathStands ==
    ASSUME NEW p, AbsolutePath(p)
    PROVE  StandsFor(UriOf(p), p)
<1> DEFINE e == EncodePath(p)
           uri == UriOf(p)
           fromClient == Flipped(uri, CaseFree(uri))
<1>1. /\ IsJoined(uri, FileScheme, e) /\ Escaped(e) /\ e \in Seq(UriChar)
      /\ e # <<>> /\ e[1] = Slash /\ p \in Seq(PathChar)
  BY UriIs DEF AbsolutePath
<1> HIDE DEF e, uri
<1>2. Escaped(uri) /\ Normalize(uri) = uri
  BY <1>1, FileKey
<1>3. From(uri, 8) = e
  BY <1>1, FileUri
<1>4. Normalize(fromClient) = uri
  <2>1. uri \in Seq(Nat) /\ WellFormed(uri)
    BY <1>2, EscapedFormed
  <2>2. CanonicalKey(uri, Normalize(uri))
    BY <2>1, EveryKeyCanonical
  <2> QED
    BY <1>2, <2>1, <2>2 DEF CanonicalKey
<1>5. PercentDecode(e) = {p}
  BY <1>1, DecodeEncode DEF e
<1>6. ToFilePath(uri) = {p}
  <2>1. <<>> \o e = e
    BY <1>1
  <2>2. IsJoined(e, <<>>, e)
    BY <2>1 DEF IsJoined
  <2> QED
    BY <1>1, <1>5, <2>2, ToFilePathIs
<1>7. ToFilePath(FileScheme \o Localhost \o From(uri, 8)) = {p}
  <2> DEFINE rest == Localhost \o e
             local == FileScheme \o rest
  <2>1. Reassociates(FileScheme, Localhost, e)
    BY <1>1, FileSchemeIs, LocalhostIs, JoinAssociative
  <2>2. FileScheme \o Localhost \o From(uri, 8) = local
    BY <1>3, <2>1 DEF Reassociates
  <2>3. IsJoined(rest, Localhost, e) /\ IsJoined(local, FileScheme, rest)
    BY DEF IsJoined
  <2> HIDE DEF rest, local
  <2>4. ToFilePath(local) = PercentDecode(e)
    BY <1>1, <2>3, ToFilePathIs
  <2> QED
    BY <1>5, <2>2, <2>4
<1>8. StandsFor(uri, p)
  BY <1>2, <1>4, <1>6, <1>7 DEF StandsFor
<1> QED
  BY <1>8 DEF uri

\* A segment of a path: some characters but slashes.
IsSegment(s) == s \in Seq(PathChar) /\ s # <<>> /\ \A i \in 1..Len(s) : s[i] # Slash

\* A directory's path, f and a slash, and its URI.
Directory(under, f) == f \in Seq(PathChar) /\ IsJoined(under, f, <<Slash>>) /\ AbsolutePath(under)

\* A directory's URI is that of f and a slash, even when f is empty.
LEMMA DirectoryUri ==
    ASSUME NEW under, NEW f, Directory(under, f)
    PROVE  /\ IsJoined(EncodePath(under), EncodePath(f), <<Slash>>)
           /\ IsJoined(UriOf(under), FileScheme \o EncodePath(f), <<Slash>>)
<1>1. Slash \in PathChar /\ <<Slash>> \in Seq(PathChar) /\ Slash \in UriChar /\ <<Slash>> \in Seq(UriChar)
  BY DEF Slash, PathChar, UriChar
<1>2. f \in Seq(PathChar) /\ under = f \o <<Slash>> /\ AbsolutePath(under)
  BY DEF Directory, IsJoined
<1> DEFINE x == EncodePath(f)
           y == <<Slash>>
<1>3. EncodePath(y) = y
  BY <1>1, EncodeOne, EncodedChar
<1>4. IsJoined(EncodePath(under), x, y) /\ x \in Seq(UriChar)
  BY <1>1, <1>2, <1>3, EncodeJoin
<1>5. IsJoined(UriOf(under), FileScheme, EncodePath(under))
  BY <1>2, UriIs
<1>6. Reassociates(FileScheme, x, y)
  BY <1>1, <1>4, FileSchemeIs, JoinAssociative
<1>7. IsJoined(UriOf(under), FileScheme \o x, y)
  BY <1>4, <1>5, <1>6 DEF Reassociates, IsJoined
<1> QED
  BY <1>4, <1>7

\* The URI of a directory with a segment added, joined.
LEMMA SegmentUri ==
    ASSUME NEW under, NEW f, Directory(under, f), NEW segment, IsSegment(segment)
    PROVE  /\ AbsolutePath(under \o segment)
           /\ IsJoined(UriOf(under \o segment), UriOf(under), EncodePath(segment))
<1> DEFINE s == segment
           w == under \o s
<1>1. under \in Seq(PathChar) /\ under # <<>> /\ under[1] = Slash /\ s \in Seq(PathChar)
  BY DEF Directory, AbsolutePath, IsSegment
<1>2. /\ w \in Seq(PathChar) /\ Len(w) = Len(under) + Len(s) /\ Len(under) \in Nat /\ Len(s) \in Nat
      /\ \A i \in 1..Len(under) : w[i] = under[i]
  BY <1>1, ConcatIs
<1>3. IsJoined(EncodePath(w), EncodePath(under), EncodePath(s))
      /\ EncodePath(under) \in Seq(UriChar) /\ EncodePath(s) \in Seq(UriChar)
  BY <1>1, EncodeJoin
<1> HIDE DEF w
<1>4. AbsolutePath(w)
  <2>1. Len(under) # 0 /\ 1 \in 1..Len(under)
    BY <1>1
  <2>2. w[1] = Slash /\ Len(w) # 0
    BY <1>1, <1>2, <2>1
  <2> QED
    BY <1>2, <2>2 DEF AbsolutePath
<1>5. IsJoined(UriOf(w), FileScheme, EncodePath(w)) /\ IsJoined(UriOf(under), FileScheme, EncodePath(under))
  BY <1>4, UriIs DEF Directory
<1>6. Reassociates(FileScheme, EncodePath(under), EncodePath(s))
  BY <1>3, FileSchemeIs, JoinAssociative
<1>7. IsJoined(UriOf(w), UriOf(under), EncodePath(s))
  BY <1>3, <1>5, <1>6 DEF Reassociates, IsJoined
<1> QED
  BY <1>4, <1>7 DEF w

\* The parent of a URI with a segment is the URI without it, and without the
\* slash before it unless that is the root.
LEMMA ParentIs ==
    ASSUME NEW under, NEW f, Directory(under, f), NEW segment, IsSegment(segment)
    PROVE  Parent(UriOf(under \o segment))
              = {IF f = <<>> THEN UriOf(under) ELSE FileScheme \o EncodePath(f)}
<1> DEFINE x == EncodePath(f)
           y == EncodePath(segment)
           e == EncodePath(under \o segment)
           d == UriOf(under)
           j == UriOf(under \o segment)
           F == FileScheme
           Fx == F \o x
<1>1. /\ f \in Seq(PathChar) /\ segment \in Seq(PathChar) /\ segment # <<>>
      /\ \A i \in 1..Len(segment) : segment[i] # Slash
  BY DEF Directory, IsSegment
<1>2. /\ x \in Seq(UriChar) /\ y \in Seq(UriChar) /\ Len(y) >= 1 /\ Len(x) >= Len(f)
      /\ f = <<>> => x = <<>>
      /\ \A i \in 1..Len(y) : y[i] # Slash
  <2>1. Len(segment) >= 1
    BY <1>1
  <2>2. Len(y) >= Len(segment) /\ Len(x) >= Len(f) /\ y \in Seq(UriChar) /\ x \in Seq(UriChar)
        /\ \A i \in 1..Len(y) : y[i] # Slash
    BY <1>1, EncodedPath DEF Escaped
  <2>3. 0 \in PathChar
    BY DEF PathChar
  <2>4. Len(y) >= 1
    <3>1. Len(y) \in Nat /\ Len(segment) \in Nat
      BY <1>1, <2>2
    <3> QED
      BY <2>1, <2>2, <3>1
  <2> QED
    BY <2>2, <2>3, <2>4, EncodeOne
<1>3. AbsolutePath(under) /\ AbsolutePath(under \o segment) /\ IsJoined(j, d, y)
  BY SegmentUri DEF Directory
<1>4. IsJoined(j, F, e) /\ e \in Seq(UriChar) /\ e # <<>> /\ e[1] = Slash
  BY <1>3, UriIs
<1> DEFINE slash == <<Slash>>
<1>5. IsJoined(d, Fx, slash)
  BY DirectoryUri
<1>6. slash \in Seq(UriChar) /\ Len(slash) = 1 /\ slash[1] = Slash
  BY DEF Slash, UriChar
<1> HIDE DEF x, y, e, d, j, slash
<1>7. Fx \in Seq(UriChar) /\ Len(Fx) = 7 + Len(x) /\ Len(x) \in Nat
  <2>1. F \in Seq(UriChar) /\ Len(F) = 7 /\ x \in Seq(UriChar)
    BY <1>2, FileSchemeIs
  <2>2. IsJoined(Fx, F, x)
    BY DEF IsJoined
  <2> HIDE DEF Fx, F
  <2>3. Fx \in Seq(UriChar) /\ Len(Fx) = Len(F) + Len(x) /\ Len(x) \in Nat
    <3>1. F \in Seq(UriChar) /\ x \in Seq(UriChar)
      BY <2>1
    <3> QED
      BY ONLY <2>2, <3>1, JoinedIs
  <2> QED
    BY <2>1, <2>3
<1> HIDE DEF Fx
<1>8. /\ d \in Seq(UriChar) /\ Len(d) = Len(Fx) + 1 /\ d[Len(Fx) + 1] = Slash
  <2>1. /\ d \in Seq(UriChar) /\ Len(d) = Len(Fx) + Len(slash)
        /\ \A i \in 1..Len(slash) : d[Len(Fx) + i] = slash[i]
    <3>1. Fx \in Seq(UriChar) /\ slash \in Seq(UriChar)
      BY <1>6, <1>7
    <3> QED
      BY ONLY <1>5, <3>1, JoinedIs
  <2> QED
    BY <1>6, <2>1
<1>9. /\ Len(j) = Len(d) + Len(y) /\ Len(d) \in Nat /\ Len(y) \in Nat
      /\ (\A i \in 1..Len(d) : j[i] = d[i]) /\ \A i \in 1..Len(y) : j[Len(d) + i] = y[i]
  <2>1. d \in Seq(UriChar) /\ y \in Seq(UriChar) /\ IsJoined(j, d, y)
    BY <1>2, <1>3, <1>8
  <2> QED
    BY ONLY <2>1, JoinedIs
<1>10. /\ j \in Seq(UriChar) /\ j \in Seq(Nat) /\ Len(j) = 7 + Len(e) /\ SchemeLen(j) = 4
       /\ (\A i \in 1..7 : j[i] = F[i]) /\ From(j, 8) = e
  BY <1>4, FileUri
<1>11. PathStart(j) = 8
  <2> DEFINE rest == From(j, 6)
  <2>1. 4 > 0 /\ 4 + 1 = 5 /\ 5 + 1 = 6 /\ 2 + 1 = 3 /\ 5 + 2 + 1 = 8
    OBVIOUS
  <2>2. /\ rest \in Seq(UriChar) /\ Len(rest) = 2 + Len(e)
        /\ \A i \in 1..(2 + Len(e)) : rest[i] = j[5 + i]
    BY <1>10 DEF From
  <2>3. SubSeq(rest, 1, 2) = <<Slash, Slash>>
    <3>1. j[6] = Slash /\ j[7] = Slash
      BY <1>10, FileSchemeIs
    <3>2. rest[1] = Slash /\ rest[2] = Slash
      BY <1>4, <2>2, <3>1
    <3> HIDE DEF rest
    <3> DEFINE t == SubSeq(rest, 1, 2)
               w == <<Slash, Slash>>
    <3>3. t \in Seq(UriChar) /\ Len(t) = 2 /\ t[1] = rest[1] /\ t[2] = rest[2]
      <4>1. Len(e) \in Nat /\ rest \in Seq(UriChar) /\ Len(rest) = 2 + Len(e)
        BY <1>4, <2>2
      <4> QED
        BY ONLY <4>1 DEF t
    <3>4. w \in Seq(UriChar) /\ Len(w) = 2 /\ w[1] = Slash /\ w[2] = Slash
      BY DEF Slash, UriChar
    <3> HIDE DEF t, w
    <3>5. \A i \in 1..2 : i = 1 \/ i = 2
      OBVIOUS
    <3>6. \A i \in 1..Len(t) : t[i] = w[i]
      BY <3>2, <3>3, <3>4, <3>5
    <3>7. t = w
      BY <3>3, <3>4, <3>6, SeqEqual
    <3> QED
      BY <3>7 DEF t, w
  <2>4. From(rest, 3) = e
    <3>1. Len(e) \in Nat
      BY <1>4
    <3> DEFINE z == From(rest, 3)
    <3>2. z \in Seq(UriChar) /\ Len(z) = Len(e) /\ \A i \in 1..Len(e) : z[i] = rest[2 + i]
      BY <2>2, <3>1 DEF From
    <3>3. \A i \in 1..Len(e) : rest[2 + i] = j[7 + i]
      <4>1. ASSUME NEW i \in 1..Len(e) PROVE rest[2 + i] = j[7 + i]
        <5>1. 2 + i \in 1..(2 + Len(e)) /\ 5 + (2 + i) = 7 + i
          BY <3>1
        <5> QED
          BY <2>2, <5>1
      <4> QED
        BY <4>1
    <3>4. \A i \in 1..Len(e) : j[7 + i] = e[i]
      BY <1>4, FileUri
    <3> HIDE DEF z
    <3>5. \A i \in 1..Len(z) : z[i] = e[i]
      BY <3>2, <3>3, <3>4
    <3>6. z = e
      BY <1>4, <3>2, <3>5, SeqEqual
    <3> QED
      BY <3>6 DEF z
  <2>5. FirstOf(e, Slash) = 1
    <3>0. Len(e) \in Nat /\ Len(e) # 0
      BY <1>4
    <3>1. e \in Seq(Nat)
      BY <1>4, CharType, WiderSeq
    <3>3. 1 \in 1..Len(e)
      BY ONLY <3>0
    <3>2. \A i \in 1..(1 - 1) : e[i] # Slash
      OBVIOUS
    <3> QED
      BY <1>4, <3>1, <3>2, <3>3, FirstAt
  <2> HIDE DEF rest
  <2> QED
    BY <1>10, <2>1, <2>3, <2>4, <2>5 DEF PathStart, rest
<1> DEFINE last == Len(d)
<1>12. LastOf(j, Slash) = last
  <2>1. last \in 1..Len(j) /\ j[last] = Slash
    BY <1>2, <1>7, <1>8, <1>9
  <2>2. ASSUME NEW i \in (last + 1)..Len(j) PROVE j[i] # Slash
    <3>1. i - last \in 1..Len(y) /\ last + (i - last) = i
      BY <1>9
    <3> QED
      BY <1>2, <1>9, <3>1
  <2> QED
    BY <1>10, <2>1, <2>2, LastAt
<1>13. Parent(j) = {SubSeq(j, 1, IF last = 8 THEN 8 ELSE last - 1)}
  <2>1. last \in Nat /\ last >= 8 /\ Len(j) # 8
    BY <1>2, <1>7, <1>8, <1>9
  <2> HIDE DEF last
  <2>2. ~(8 = 0 \/ last < 8 \/ Len(j) = 8)
    BY <2>1
  <2> QED
    BY ONLY <1>11, <1>12, <2>2 DEF Parent
<1>14. SubSeq(j, 1, Len(d)) = d
  BY <1>2, <1>3, <1>8, Halves
<1>15. SubSeq(j, 1, last - 1) = Fx
  <2> DEFINE t == SubSeq(j, 1, last - 1)
  <2>1. t \in Seq(UriChar) /\ Len(t) = last - 1 /\ \A i \in 1..(last - 1) : t[i] = j[i]
    <3>1. last - 1 \in Nat /\ last - 1 <= Len(j) /\ j \in Seq(UriChar)
      BY <1>7, <1>8, <1>9, <1>10
    <3> DEFINE n == last - 1
    <3> HIDE DEF n
    <3>2. n \in Nat /\ n <= Len(j) /\ j \in Seq(UriChar)
      BY <3>1 DEF n
    <3>3. SubSeq(j, 1, n) \in Seq(UriChar) /\ Len(SubSeq(j, 1, n)) = n
          /\ \A i \in 1..n : SubSeq(j, 1, n)[i] = j[i]
      BY ONLY <3>2
    <3> QED
      BY ONLY <3>3 DEF n, t
  <2>2. \A i \in 1..Len(Fx) : d[i] = Fx[i]
    <3>1. Fx \in Seq(UriChar) /\ slash \in Seq(UriChar)
      BY <1>6, <1>7
    <3> QED
      BY ONLY <1>5, <3>1, JoinedIs
  <2> HIDE DEF t
  <2>3. ASSUME NEW i \in 1..Len(t) PROVE t[i] = Fx[i]
    <3>1. i \in 1..Len(Fx) /\ i \in 1..Len(d) /\ i \in 1..(last - 1)
      BY <1>7, <1>8, <2>1
    <3> QED
      BY <1>9, <2>1, <2>2, <3>1
  <2>4. t = Fx
    <3>1. Len(t) = Len(Fx)
      BY <1>7, <1>8, <2>1
    <3> QED
      BY <1>7, <2>1, <2>3, <3>1, SeqEqual
  <2> QED
    BY <2>4 DEF t
<1>16. last = 8 <=> f = <<>>
  <2>1. CASE f = <<>>
    <3>1. Len(x) = 0
      BY <1>2, <2>1
    <3> QED
      BY <1>7, <1>8, <2>1, <3>1
  <2>2. CASE f # <<>>
    <3>1. Len(f) \in Nat /\ Len(f) # 0
      BY <1>1, <2>2
    <3> QED
      BY <1>2, <1>7, <1>8, <2>2, <3>1
  <2> QED
    BY <2>1, <2>2
<1>17. Parent(j) = {IF f = <<>> THEN d ELSE Fx}
  BY <1>13, <1>14, <1>15, <1>16
<1> QED
  BY <1>17 DEF j, d, Fx, x

\* A sequence is all but its last element, and that.
LEMMA FrontAndLast ==
    ASSUME NEW V, NEW s \in Seq(V), s # <<>>
    PROVE  /\ SubSeq(s, 1, Len(s) - 1) \in Seq(V) /\ s[Len(s)] \in V
           /\ Len(SubSeq(s, 1, Len(s) - 1)) = Len(s) - 1
           /\ IsJoined(s, SubSeq(s, 1, Len(s) - 1), <<s[Len(s)]>>)
<1> DEFINE n == Len(s)
           f == SubSeq(s, 1, n - 1)
           l == <<s[n]>>
           x == f \o l
<1>1. n \in Nat /\ n # 0
  OBVIOUS
<1> HIDE DEF n
<1>2. n >= 1 /\ Len(s) = n
  BY <1>1 DEF n
<1>3. /\ f \in Seq(V) /\ Len(f) = n - 1 /\ \A i \in 1..(n - 1) : f[i] = s[i]
      /\ s[n] \in V
  BY <1>1, <1>2
<1>4. l \in Seq(V) /\ Len(l) = 1 /\ l[1] = s[n]
  BY <1>3
<1> HIDE DEF f, l
<1>5. IsJoined(x, f, l)
  BY DEF IsJoined
<1> HIDE DEF x
<1>6. f \in Seq(V) /\ l \in Seq(V)
  BY <1>3, <1>4
<1>7. /\ x \in Seq(V) /\ Len(x) = Len(f) + Len(l)
      /\ (\A i \in 1..Len(f) : x[i] = f[i]) /\ \A i \in 1..Len(l) : x[Len(f) + i] = l[i]
  BY ONLY <1>5, <1>6, JoinedIs
<1>8. ASSUME NEW i \in 1..Len(s) PROVE s[i] = x[i]
  <2>1. CASE i <= n - 1
    <3>1. i \in 1..(n - 1)
      BY <1>2, <2>1
    <3> QED
      BY <1>3, <1>7, <3>1
  <2>2. CASE ~(i <= n - 1)
    <3>1. i = (n - 1) + 1 /\ i = n /\ 1 \in 1..1
      BY <1>1, <1>2, <2>2
    <3> QED
      BY <1>3, <1>4, <1>7, <3>1
  <2> QED
    BY <2>1, <2>2
<1>9. s = x
  <2>1. Len(s) = Len(x)
    BY <1>1, <1>2, <1>3, <1>4, <1>7
  <2> QED
    BY <1>7, <1>8, <2>1, SeqEqual
<1>10. IsJoined(s, f, l)
  BY <1>9 DEF IsJoined, x
<1> QED
  BY <1>3, <1>10 DEF f, l, n

\* A path that does not end with a slash has a URI that does not.
LEMMA LastCharacter ==
    ASSUME NEW p, AbsolutePath(p), p[Len(p)] # Slash
    PROVE  UriOf(p) # <<>> /\ UriOf(p)[Len(UriOf(p))] # Slash
<1> DEFINE q == SubSeq(p, 1, Len(p) - 1)
           c == p[Len(p)]
           e == EncodePath(p)
           a == EncodePath(q)
           b == EncodePathChar(c)
           uri == UriOf(p)
<1>0. p \in Seq(PathChar) /\ p # <<>>
  BY DEF AbsolutePath
<1>1. q \in Seq(PathChar) /\ c \in PathChar /\ IsJoined(p, q, <<c>>)
  BY <1>0, FrontAndLast
<1>2. IsJoined(uri, FileScheme, e) /\ e \in Seq(UriChar)
  BY UriIs
<1> HIDE DEF q, c, uri
<1>3. IsJoined(e, a, b) /\ a \in Seq(UriChar)
  <2>1. <<c>> \in Seq(PathChar) /\ p = q \o <<c>>
    BY <1>1 DEF IsJoined
  <2>2. IsJoined(EncodePath(q \o <<c>>), a, EncodePath(<<c>>)) /\ a \in Seq(UriChar)
    BY <1>1, <2>1, EncodeJoin
  <2> QED
    BY <1>1, <2>1, <2>2, EncodeOne
<1>4. Len(b) >= 1 /\ b \in Seq(UriChar) /\ \A i \in 1..Len(b) : b[i] # Slash
  <2>1. c # Slash
    BY DEF c
  <2> QED
    BY <1>1, <2>1, EncodedChar DEF Escaped
<1> HIDE DEF e, a, b
<1>5. /\ Len(e) = Len(a) + Len(b) /\ Len(a) \in Nat /\ Len(b) \in Nat
      /\ \A i \in 1..Len(b) : e[Len(a) + i] = b[i]
  <2>1. a \in Seq(UriChar) /\ b \in Seq(UriChar) /\ IsJoined(e, a, b)
    BY <1>3, <1>4
  <2> QED
    BY ONLY <2>1, JoinedIs
<1>6. Len(uri) = 7 + Len(e) /\ uri \in Seq(UriChar) /\ \A i \in 1..Len(e) : uri[7 + i] = e[i]
  BY <1>2, FileUri
<1>7. Len(b) \in 1..Len(b) /\ Len(e) \in 1..Len(e) /\ Len(e) = Len(a) + Len(b)
  BY <1>4, <1>5
<1>8. uri[Len(uri)] # Slash
  BY <1>4, <1>5, <1>6, <1>7
<1>9. uri # <<>>
  <2>1. uri = <<>> => Len(uri) = 0
    OBVIOUS
  <2> QED
    BY <1>5, <1>6, <1>7, <2>1
<1> QED
  BY <1>8, <1>9 DEF uri

\* Joining and parents.
LEMMA PathJoins ==
    ASSUME NEW p, AbsolutePath(p), NEW segment, IsSegment(segment)
    PROVE  JoinsTo(UriOf(p), Join(UriOf(p), segment), AsDirectory(p), segment)
<1> DEFINE uri == UriOf(p)
           under == AsDirectory(p)
           y == EncodePath(segment)
           slash == <<Slash>>
           front == SubSeq(under, 1, Len(under) - 1)
           Fx(f) == FileScheme \o EncodePath(f)
           AddsTo(f) == /\ Directory(under, f) /\ f = front
                        /\ Join(uri, segment) = UriOf(under) \o y
                        /\ f = <<>> => UriOf(under) = uri
<1>0. p \in Seq(PathChar) /\ p # <<>> /\ p[1] = Slash
      /\ IsJoined(uri, FileScheme, EncodePath(p)) /\ EncodePath(p) \in Seq(UriChar)
  BY UriIs DEF AbsolutePath
<1>1. /\ Slash \in PathChar /\ slash \in Seq(PathChar) /\ slash \in Seq(UriChar)
      /\ Len(slash) = 1 /\ slash[1] = Slash
  BY DEF Slash, PathChar, UriChar
<1>2. ASSUME p[Len(p)] = Slash PROVE AddsTo(front)
  <2>1. under = p
    BY <1>2 DEF AsDirectory
  <2>2. Directory(p, front) /\ front \in Seq(PathChar)
    BY <1>0, <1>2, <2>1, FrontAndLast DEF Directory
  <2>3. IsJoined(uri, Fx(front), slash)
    BY <2>2, DirectoryUri
  <2>4. EncodePath(front) \in Seq(UriChar)
    BY <2>2, EncodedPath DEF Escaped
  <2> DEFINE base == Fx(front)
  <2>5. base \in Seq(UriChar)
    <3>1. FileScheme \in Seq(UriChar)
      BY FileSchemeIs
    <3> QED
      BY ONLY <2>4, <3>1, ConcatIs
  <2> HIDE DEF base, front, slash, uri, y
  <2>6. IsJoined(uri, base, slash) /\ base \in Seq(UriChar) /\ slash \in Seq(UriChar)
    BY <1>1, <2>3, <2>5 DEF base
  <2>7. /\ uri \in Seq(UriChar) /\ Len(uri) = Len(base) + Len(slash) /\ Len(base) \in Nat
        /\ \A i \in 1..Len(slash) : uri[Len(base) + i] = slash[i]
    BY ONLY <2>6, JoinedIs
  <2>8. SubSeq(uri, 1, Len(base)) = base
    BY ONLY <2>6, Halves
  <2>9. uri # <<>> /\ uri[Len(uri)] = Slash /\ Len(uri) - 1 = Len(base)
    <3>1. uri = <<>> => Len(uri) = 0
      OBVIOUS
    <3> QED
      BY <1>1, <2>7, <3>1
  <2>10. Join(uri, segment) = uri \o y
    <3>1. base \o slash = uri
      BY <2>6 DEF IsJoined
    <3>2. Join(uri, segment) = base \o slash \o y
      BY <2>8, <2>9 DEF Join, slash, y
    <3> QED
      BY <3>1, <3>2
  <2>11. UriOf(p) = uri
    BY DEF uri
  <2>12. Directory(under, front) /\ Join(uri, segment) = UriOf(under) \o y
         /\ (front = <<>> => UriOf(under) = uri)
    BY <2>1, <2>2, <2>10, <2>11
  <2> QED
    BY <2>12
<1>3. ASSUME p[Len(p)] # Slash PROVE AddsTo(front)
  <2>1. under = Append(p, Slash)
    BY <1>3 DEF AsDirectory
  <2> DEFINE w == p \o slash
  <2>a. IsJoined(w, p, slash)
    BY DEF IsJoined
  <2>b. p \in Seq(PathChar) /\ slash \in Seq(PathChar)
    BY <1>0, <1>1
  <2>c. under = w
    BY <1>0, <2>1 DEF Slash, PathChar
  <2> HIDE DEF w, under, slash
  <2>d. /\ w \in Seq(PathChar) /\ Len(w) = Len(p) + Len(slash) /\ Len(p) \in Nat
        /\ \A i \in 1..Len(p) : w[i] = p[i]
    BY ONLY <2>a, <2>b, JoinedIs
  <2>2. /\ under = p \o slash /\ under \in Seq(PathChar) /\ Len(under) = Len(p) + 1 /\ Len(p) \in Nat
        /\ \A i \in 1..Len(p) : under[i] = p[i]
    <3>1. under = p \o slash
      BY <2>c DEF w
    <3> QED
      BY <1>1, <2>c, <2>d, <3>1
  <2>3. front = p
    <3>1. Len(under) - 1 = Len(p)
      BY <2>2
    <3>2. IsJoined(under, p, slash)
      BY <2>2 DEF IsJoined
    <3>3. SubSeq(under, 1, Len(p)) = p
      BY <1>0, <1>1, <3>2, Halves
    <3> QED
      BY <3>1, <3>3
  <2>4. Directory(under, p)
    <3>1. Len(p) # 0 /\ under[1] = Slash /\ under # <<>>
      <4>1. Len(p) # 0
        BY <1>0
      <4>2. 1 \in 1..Len(p)
        BY <2>2, <4>1
      <4>3. under = <<>> => Len(under) = 0
        OBVIOUS
      <4> QED
        BY <1>0, <2>2, <4>1, <4>2, <4>3
    <3> HIDE DEF under
    <3> QED
      BY <1>0, <2>2, <3>1 DEF Directory, AbsolutePath, IsJoined, slash
  <2>5. UriOf(under) = uri \o slash
    <3>1. IsJoined(UriOf(under), Fx(p), slash)
      BY <2>4, DirectoryUri DEF slash
    <3> QED
      BY <1>0, <3>1 DEF IsJoined
  <2>6. uri # <<>> /\ uri[Len(uri)] # Slash
    BY <1>3, LastCharacter
  <2>7. Join(uri, segment) = uri \o slash \o y
    BY <2>6 DEF Join, slash, y
  <2> HIDE DEF uri, under, front, slash, y
  <2>8. Join(uri, segment) = UriOf(under) \o y
    BY <2>5, <2>7
  <2> QED
    BY <1>0, <2>3, <2>4, <2>8
<1>4. AddsTo(front)
  <2> HIDE DEF AddsTo
  <2> QED
    BY <1>2, <1>3
<1> HIDE DEF AddsTo
<1>5. Join(uri, segment) = UriOf(under \o segment)
  <2>1. Directory(under, front) /\ Join(uri, segment) = UriOf(under) \o y
    BY <1>4 DEF AddsTo
  <2>2. IsJoined(UriOf(under \o segment), UriOf(under), y)
    BY <2>1, SegmentUri
  <2> QED
    BY <2>1, <2>2 DEF IsJoined
<1>6. Parent(UriOf(under \o segment)) = {IF Len(under) > 1 THEN UriOf(front) ELSE uri}
  <2>1. Directory(under, front) /\ (front = <<>> => UriOf(under) = uri)
    BY <1>4 DEF AddsTo
  <2>2. Parent(UriOf(under \o segment)) = {IF front = <<>> THEN UriOf(under) ELSE Fx(front)}
    BY <2>1, ParentIs
  <2>3. AbsolutePath(under) /\ under \in Seq(PathChar) /\ under # <<>> /\ under[1] = Slash
    BY <2>1 DEF Directory, AbsolutePath
  <2>4. Len(under) \in Nat /\ Len(front) = Len(under) - 1 /\ front \in Seq(PathChar)
        /\ IsJoined(under, front, <<under[Len(under)]>>) /\ under[Len(under)] \in PathChar
    BY <2>3, FrontAndLast
  <2> HIDE DEF front, under, uri
  <2>5. CASE front = <<>>
    <3>0. Len(<<>>) = 0
      OBVIOUS
    <3>1. Len(front) = 0
      BY ONLY <2>5, <3>0, Zenon
    <3>a. Len(under) \in Nat /\ Len(front) = Len(under) - 1
      BY ONLY <2>4
    <3>2. ~(Len(under) > 1)
      BY ONLY <3>1, <3>a
    <3>3. Parent(UriOf(under \o segment)) = {uri}
      BY ONLY <2>1, <2>2, <2>5, Zenon
    <3> QED
      BY ONLY <3>2, <3>3
  <2>6. CASE front # <<>>
    <3>1. Len(front) \in Nat /\ Len(front) # 0 /\ 1 \in 1..Len(front)
      BY <2>4, <2>6
    <3>2. front[1] = Slash
      <4> DEFINE l == <<under[Len(under)]>>
      <4>1. l \in Seq(PathChar) /\ front \in Seq(PathChar) /\ IsJoined(under, front, l)
        BY <2>4
      <4> HIDE DEF l
      <4>2. \A i \in 1..Len(front) : under[i] = front[i]
        BY ONLY <4>1, JoinedIs
      <4> QED
        BY <2>3, <3>1, <4>2
    <3>3. AbsolutePath(front)
      BY <2>4, <2>6, <3>2 DEF AbsolutePath
    <3>4. UriOf(front) = Fx(front)
      BY <3>3, UriIs DEF IsJoined
    <3> QED
      BY <2>2, <2>4, <2>6, <3>1, <3>4
  <2> QED
    BY <2>5, <2>6
<1> QED
  BY <1>5, <1>6 DEF JoinsTo

-----------------------------------------------------------------------------
(* The properties *)

\* The inputs are strings of characters and absolute paths.
LEMMA UriInput ==
    ASSUME InitUri
    PROVE  /\ input.kind = "uri" => input.uri \in Seq(Nat)
           /\ input.kind = "path" => AbsolutePath(input.path) /\ IsSegment(input.segment)
<1>1. ASSUME NEW begin \in Beginnings, NEW authority \in Authorities,
             NEW tail \in Strings(TailChars, 0..MaxTail),
             input = [kind |-> "uri", uri |-> begin \o authority \o tail]
      PROVE  input.uri \in Seq(Nat)
  <2>1. tail \in Seq(Nat)
    <3>1. PICK n \in 0..MaxTail : tail \in [1..n -> TailChars]
      BY DEF Strings
    <3>2. n \in Nat /\ tail \in Seq(TailChars)
      BY <3>1, UriInputsAssumption
    <3>3. TailChars \subseteq Nat
      BY UriInputsAssumption
    <3> QED
      BY <3>2, <3>3, WiderSeq
  <2>2. begin \in Seq(Nat)
    <3>1. FileScheme \in Seq(Nat)
      BY DEF FileScheme, Colon, Slash
    <3>2. <<70, 73, 76, 69, Colon, Slash, Slash>> \in Seq(Nat)
      BY DEF Colon, Slash
    <3>3. <<120, 43, 49, Colon>> \in Seq(Nat) /\ <<49, 120, Colon>> \in Seq(Nat)
      BY DEF Colon
    <3>4. <<>> \in Seq(Nat)
      OBVIOUS
    <3> HIDE DEF Strings, Authorities
    <3> QED
      BY <3>1, <3>2, <3>3, <3>4 DEF Beginnings
  <2>3. authority \in Seq(Nat)
    <3>1. Localhost \in Seq(UriChar) /\ Len(Localhost) = 9
      BY LocalhostIs
    <3>2. Localhost \in Seq(Nat)
      BY <3>1, CharType, WiderSeq
    <3>3. From(Localhost, 2) \in Seq(Nat)
      <4> HIDE DEF Localhost
      <4>1. 2 \in 1..(Len(Localhost) + 1) /\ Len(Localhost) \in 1..Len(Localhost)
        BY <3>1
      <4>4. SubSeq(Localhost, 2, Len(Localhost)) \in Seq(Nat)
        BY ONLY <3>2, <4>1, SubSeqProperties
      <4> QED
        BY <4>4 DEF From
    <3>4. <<76>> \in Seq(Nat) /\ <<72>> \in Seq(Nat) /\ <<>> \in Seq(Nat)
      OBVIOUS
    <3>5. <<76>> \o From(Localhost, 2) \in Seq(Nat)
      BY <3>3, <3>4, ConcatIs
    <3> QED
      BY <3>2, <3>4, <3>5 DEF Authorities
  <2>4. (begin \o authority) \o tail \in Seq(Nat)
    <3> HIDE DEF Strings, Beginnings, Authorities
    <3>1. begin \o authority \in Seq(Nat)
      BY <2>2, <2>3, ConcatIs
    <3> QED
      BY <2>1, <3>1, ConcatIs
  <2> QED
    BY <1>1, <2>4
<1>2. ASSUME NEW name \in Strings(NameChars, 0..MaxName),
             NEW segment \in Strings(NameChars \ {Slash}, 1..MaxSegment),
             input = [kind |-> "path", path |-> <<Slash>> \o name, segment |-> segment]
      PROVE  AbsolutePath(input.path) /\ IsSegment(input.segment)
  <2>0. NameChars \subseteq PathChar
    BY UriInputsAssumption DEF PathChar
  <2>1. name \in Seq(PathChar)
    <3>1. PICK n \in 0..MaxName : name \in [1..n -> NameChars]
      BY DEF Strings
    <3>2. n \in Nat /\ name \in Seq(NameChars)
      BY <3>1, UriInputsAssumption
    <3> QED
      BY <2>0, <3>2, WiderSeq
  <2>2. IsSegment(segment)
    <3>1. PICK n \in 1..MaxSegment : segment \in [1..n -> NameChars \ {Slash}]
      BY DEF Strings
    <3>2. n \in Nat /\ n # 0 /\ segment \in Seq(NameChars \ {Slash}) /\ Len(segment) = n
      BY <3>1, UriInputsAssumption
    <3>3. NameChars \ {Slash} \subseteq PathChar
      BY <2>0
    <3>4. segment \in Seq(PathChar)
      BY <3>2, <3>3, WiderSeq
    <3>5. \A i \in 1..Len(segment) : segment[i] # Slash
      BY <3>1, <3>2
    <3>6. segment # <<>>
      BY <3>2
    <3> QED
      BY <3>4, <3>5, <3>6 DEF IsSegment
  <2>3. AbsolutePath(<<Slash>> \o name)
    <3> DEFINE s == <<Slash>>
               t == s \o name
    <3>1. s \in Seq(PathChar) /\ Len(s) = 1 /\ s[1] = Slash /\ 1 \in 1..1
      BY DEF Slash, PathChar
    <3> HIDE DEF s
    <3>2. /\ t \in Seq(PathChar) /\ Len(t) = Len(s) + Len(name) /\ Len(name) \in Nat
          /\ \A i \in 1..Len(s) : t[i] = s[i]
      BY <2>1, <3>1, ConcatIs
    <3> HIDE DEF t
    <3>3. t # <<>> /\ t[1] = Slash
      <4>1. t = <<>> => Len(t) = 0
        OBVIOUS
      <4> QED
        BY <3>1, <3>2, <4>1
    <3>4. AbsolutePath(t)
      BY <3>2, <3>3 DEF AbsolutePath
    <3> QED
      BY <3>4 DEF t, s
  <2> QED
    BY <1>2, <2>2, <2>3
<1>3. CASE \E begin \in Beginnings, authority \in Authorities,
             tail \in Strings(TailChars, 0..MaxTail) :
             input = [kind |-> "uri", uri |-> begin \o authority \o tail]
  <2>1. input.uri \in Seq(Nat)
    BY <1>1, <1>3
  <2>2. input.kind = "uri"
    BY <1>3
  <2> QED
    BY <2>1, <2>2
<1>4. CASE \E name \in Strings(NameChars, 0..MaxName),
             segment \in Strings(NameChars \ {Slash}, 1..MaxSegment) :
             input = [kind |-> "path", path |-> <<Slash>> \o name, segment |-> segment]
  <2>1. AbsolutePath(input.path) /\ IsSegment(input.segment)
    BY <1>2, <1>4
  <2>2. input.kind = "path"
    BY <1>4
  <2> QED
    BY <2>1, <2>2
<1> QED
  BY <1>3, <1>4 DEF InitUri

\* Uri::new makes one key of the spellings of a URI and leaves others apart,
\* for authorities and tails of any length and characters.
THEOREM KeysCanonical == InitUri => UrisCanonical
  BY UriInput, EveryKeyCanonical DEF UrisCanonical

\* Paths and their URIs stand for each other, and join and parent are adding
\* and dropping a segment, for paths of any length and characters.
THEOREM PathsAndUris == InitUri => PathsSurvive
  BY UriInput, PathStands, PathJoins DEF PathsSurvive
================================================================================
