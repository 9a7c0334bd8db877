--------------------------- MODULE TestClient_proofs ---------------------------
(***************************************************************************)
(* Proofs about the in-memory client, for any methods, requests and        *)
(* messages, pieces read one at a time and reads given up anywhere: no     *)
(* message is lost or handed out twice before a frame is torn, and what is *)
(* alike comes in the order sent.                                          *)
(***************************************************************************)
EXTENDS TestClient, SequenceTheorems, FiniteSetTheorems, WellFoundedInduction, TLAPS

-----------------------------------------------------------------------------
(* The pieces of a frame *)

PartNames == {"name", "colon", "number", "blank", "open", "rest"}
Pieces == [of : Nat, part : PartNames]

\* The pieces of the header block and of the body.
LEMMA HalvesAre ==
    /\ HeaderParts \in Seq(PartNames) /\ Len(HeaderParts) = 4
    /\ BodyParts \in Seq(PartNames) /\ Len(BodyParts) = 2
    /\ HeaderParts[1] = "name" /\ HeaderParts[2] = "colon" /\ HeaderParts[3] = "number"
    /\ HeaderParts[4] = "blank" /\ BodyParts[1] = "open" /\ BodyParts[2] = "rest"
<1>1. HeaderParts \in Seq(PartNames) /\ BodyParts \in Seq(PartNames)
  BY DEF HeaderParts, BodyParts, PartNames
<1>2. Len(HeaderParts) = 4 /\ Len(BodyParts) = 2
  BY DEF HeaderParts, BodyParts
<1>3. /\ HeaderParts[1] = "name" /\ HeaderParts[2] = "colon" /\ HeaderParts[3] = "number"
      /\ HeaderParts[4] = "blank" /\ BodyParts[1] = "open" /\ BodyParts[2] = "rest"
  BY DEF HeaderParts, BodyParts
<1> QED
  BY <1>1, <1>2, <1>3

\* A frame has six pieces.
LEMMA PartsAre ==
    /\ Parts \in Seq(PartNames) /\ Len(Parts) = 6 /\ DOMAIN Parts = 1..6
    /\ Parts[1] = "name" /\ Parts[2] = "colon" /\ Parts[3] = "number"
    /\ Parts[4] = "blank" /\ Parts[5] = "open" /\ Parts[6] = "rest"
<1> HIDE DEF HeaderParts, BodyParts
<1>1. /\ Parts \in Seq(PartNames) /\ Len(Parts) = Len(HeaderParts) + Len(BodyParts)
      /\ \A i \in 1..(Len(HeaderParts) + Len(BodyParts)) :
            Parts[i] = IF i <= Len(HeaderParts) THEN HeaderParts[i]
                       ELSE BodyParts[i - Len(HeaderParts)]
  BY HalvesAre, ConcatProperties DEF Parts
<1>2. Len(Parts) = 6 /\ DOMAIN Parts = 1..6
  BY <1>1, HalvesAre
<1> QED
  BY <1>1, <1>2, HalvesAre

\* A frame is a sequence of its pieces.
LEMMA FrameIs ==
    ASSUME NEW m \in Nat
    PROVE  /\ Frame(m) \in Seq(Pieces) /\ Len(Frame(m)) = 6
           /\ \A p \in 1..6 : Frame(m)[p] = [of |-> m, part |-> Parts[p]]
<1>1. \A p \in 1..6 : Parts[p] \in PartNames
  <2>1. \A p \in 1..6 : p \in {1, 2, 3, 4, 5, 6}
    OBVIOUS
  <2> QED
    BY <2>1, PartsAre DEF PartNames
<1>2. Frame(m) = [p \in 1..6 |-> [of |-> m, part |-> Parts[p]]]
  BY PartsAre DEF Frame
<1>3. Frame(m) \in [1..6 -> Pieces]
  BY <1>1, <1>2 DEF Pieces
<1> QED
  BY <1>2, <1>3

-----------------------------------------------------------------------------
(* The reader *)

Reads == [line : Seq(PartNames), length : Nat, left : Nat, begun : BOOLEAN,
          result : {"none", "message", "error"}]

\* A read is after q pieces of a frame, and began with the first of them.
AtPlace(q, s) ==
    /\ s \in Reads /\ s.result = "none"
    /\ s.begun <=> q # 0
    /\ q = 0 => s.line = <<>> /\ s.length = 0 /\ s.left = 0
    /\ q = 1 => s.line = <<"name">> /\ s.length = 0 /\ s.left = 0
    /\ q = 2 => s.line = <<"name", "colon">> /\ s.length = 0 /\ s.left = 0
    /\ q = 3 => s.line = <<>> /\ s.length = 2 /\ s.left = 0
    /\ q = 4 => s.length = 2 /\ s.left = 2
    /\ q = 5 => s.length = 2 /\ s.left = 1

\* The states of a read that stops after q pieces of some frame, wherever it
\* began: it knows a length only where the header block of a whole frame, or
\* the body after it, may end.
ReadOk(q, s) ==
    /\ s \in Reads /\ s.result = "none"
    /\ \/ s.length = 0 /\ s.left = 0
       \/ s.length = 2 /\ q = 3 /\ s.line = <<>> /\ s.left = 0
       \/ s.length = 2 /\ q = 4 /\ s.left = 2
       \/ s.length = 2 /\ q = 5 /\ s.left = 1

\* The place in a frame after one more piece.
NextPlace(q) == IF q = 5 THEN 0 ELSE q + 1

\* A read may start anywhere.
LEMMA StartOk == AtPlace(0, StartRead) /\ \A q : ReadOk(q, StartRead)
<1>1. <<>> \in Seq(PartNames)
  OBVIOUS
<1>2. /\ StartRead.line = <<>> /\ StartRead.length = 0 /\ StartRead.left = 0
      /\ StartRead.begun = FALSE /\ StartRead.result = "none"
  BY DEF StartRead
<1>3. StartRead \in Reads
  BY <1>1 DEF StartRead, Reads
<1> QED
  BY <1>2, <1>3 DEF ReadOk, AtPlace

\* A read in all its fields.
Is(s, line, length, left, begun, result) ==
    /\ s \in Reads /\ s.line = line /\ s.length = length /\ s.left = left
    /\ s.begun = begun /\ s.result = result

\* What the updates of a read change.
LEMMA ReadUpdates ==
    ASSUME NEW s \in Reads, NEW line \in Seq(PartNames)
    PROVE  /\ Is([s EXCEPT !.begun = TRUE], s.line, s.length, s.left, TRUE, s.result)
           /\ Is([s EXCEPT !.line = line], line, s.length, s.left, s.begun, s.result)
           /\ Is([s EXCEPT !.result = "error"], s.line, s.length, s.left, s.begun, "error")
<1>1. Is([s EXCEPT !.begun = TRUE], s.line, s.length, s.left, TRUE, s.result)
  BY DEF Reads, Is
<1>2. Is([s EXCEPT !.line = line], line, s.length, s.left, s.begun, s.result)
  BY DEF Reads, Is
<1>3. Is([s EXCEPT !.result = "error"], s.line, s.length, s.left, s.begun, "error")
  BY DEF Reads, Is
<1> QED
  BY <1>1, <1>2, <1>3

\* What the updates of a read that enters, or is in, the body change.
LEMMA BodyUpdates ==
    ASSUME NEW s \in Reads, NEW k \in Nat, NEW result \in {"none", "message", "error"},
           NEW line \in Seq(PartNames)
    PROVE  /\ Is([s EXCEPT !.line = line, !.left = k],
                 line, s.length, k, s.begun, s.result)
           /\ Is([s EXCEPT !.line = line, !.length = k],
                 line, k, s.left, s.begun, s.result)
           /\ Is([s EXCEPT !.left = k, !.result = result],
                 s.line, s.length, k, s.begun, result)
<1>1. Is([s EXCEPT !.line = line, !.left = k], line, s.length, k, s.begun, s.result)
  BY DEF Reads, Is
<1>2. Is([s EXCEPT !.line = line, !.length = k], line, k, s.left, s.begun, s.result)
  BY DEF Reads, Is
<1>3. Is([s EXCEPT !.left = k, !.result = result], s.line, s.length, k, s.begun, result)
  BY DEF Reads, Is
<1> QED
  BY <1>1, <1>2, <1>3

\* A line that ends in a piece.
LEMMA LineEnds ==
    ASSUME NEW line \in Seq(PartNames), NEW part \in PartNames
    PROVE  /\ Append(line, part) \in Seq(PartNames)
           /\ Append(line, part) = <<"blank">> => part = "blank"
           /\ Append(line, part) = <<"name", "colon", "number">> => part = "number"
           /\ line = <<>> => Append(line, part) = <<part>>
<1>1. /\ Append(line, part) \in Seq(PartNames) /\ Len(Append(line, part)) = Len(line) + 1
      /\ Append(line, part)[Len(line) + 1] = part /\ Len(line) \in Nat
  BY AppendProperties
<1>2. Append(line, part) = <<"blank">> => part = "blank"
  <2> SUFFICES ASSUME Append(line, part) = <<"blank">> PROVE part = "blank"
    OBVIOUS
  <2>1. Len(Append(line, part)) = 1 /\ Append(line, part)[1] = "blank"
    OBVIOUS
  <2>2. Len(line) + 1 = 1
    BY <1>1, <2>1
  <2> QED
    BY <1>1, <2>1, <2>2
<1>3. Append(line, part) = <<"name", "colon", "number">> => part = "number"
  <2> SUFFICES ASSUME Append(line, part) = <<"name", "colon", "number">> PROVE part = "number"
    OBVIOUS
  <2>1. Len(Append(line, part)) = 3 /\ Append(line, part)[3] = "number"
    OBVIOUS
  <2>2. Len(line) + 1 = 3
    BY <1>1, <2>1
  <2> QED
    BY <1>1, <2>1, <2>2
<1>4. line = <<>> => Append(line, part) = <<part>>
  OBVIOUS
<1> QED
  BY <1>1, <1>2, <1>3, <1>4

\* A sequence with one more element.
LEMMA OneMore ==
    ASSUME NEW S, NEW s \in Seq(S), NEW t \in Seq(S), Len(t) = Len(s) + 1,
           \A i \in 1..Len(s) : t[i] = s[i]
    PROVE  Append(s, t[Len(t)]) = t
<1>1. t[Len(t)] \in S
  BY ElementOfSeq
<1>2. /\ Append(s, t[Len(t)]) \in Seq(S) /\ Len(Append(s, t[Len(t)])) = Len(s) + 1
      /\ \A i \in 1..Len(s) : Append(s, t[Len(t)])[i] = s[i]
      /\ Append(s, t[Len(t)])[Len(s) + 1] = t[Len(t)]
  BY <1>1, AppendProperties
<1> DEFINE a == Append(s, t[Len(t)])
<1>3. a \in Seq(S) /\ Len(a) = Len(t) /\ \A i \in 1..Len(a) : a[i] = t[i]
  BY <1>2
<1> HIDE DEF a
<1>4. a = t
  BY <1>3, SeqEqual
<1> QED
  BY <1>4 DEF a

\* The two lines a frame has.
LEMMA HeaderLines ==
    /\ <<"name", "colon", "number">> # <<"blank">>
    /\ \E i \in DOMAIN <<"name", "colon", "number">> :
          HasColon(<<"name", "colon", "number">>[i])
    /\ Append(<<"name">>, "colon") = <<"name", "colon">>
    /\ Append(<<"name", "colon">>, "number") = <<"name", "colon", "number">>
<1> DEFINE one == <<"name">>
           two == <<"name", "colon">>
           all == <<"name", "colon", "number">>
<1>1. one \in Seq(PartNames) /\ Len(one) = 1 /\ one[1] = "name"
  BY DEF PartNames
<1>2. two \in Seq(PartNames) /\ Len(two) = 2 /\ two[1] = "name" /\ two[2] = "colon"
  BY DEF PartNames
<1>3. /\ all \in Seq(PartNames) /\ Len(all) = 3 /\ DOMAIN all = 1..3
      /\ all[1] = "name" /\ all[2] = "colon" /\ all[3] = "number"
  BY DEF PartNames
<1>4. Len(<<"blank">>) = 1
  OBVIOUS
<1> HIDE DEF one, two, all
<1>5. Append(one, "colon") = two
  <2>1. \A i \in 1..Len(one) : two[i] = one[i]
    BY <1>1, <1>2
  <2>2. Len(two) = Len(one) + 1 /\ two[Len(two)] = "colon"
    BY <1>1, <1>2
  <2> QED
    BY ONLY <1>1, <1>2, <2>1, <2>2, OneMore
<1>6. Append(two, "number") = all
  <2>1. \A i \in 1..Len(two) : all[i] = two[i]
    BY <1>2, <1>3
  <2>2. Len(all) = Len(two) + 1 /\ all[Len(all)] = "number"
    BY <1>2, <1>3
  <2> QED
    BY ONLY <1>2, <1>3, <2>1, <2>2, OneMore
<1>7. all # <<"blank">>
  BY <1>3, <1>4
<1>8. \E i \in DOMAIN all : HasColon(all[i])
  BY <1>3 DEF HasColon
<1> QED
  BY <1>5, <1>6, <1>7, <1>8 DEF one, two, all

\* What the end of a line does: an empty line ends the header block if a length
\* is known and is an error otherwise, a length is noted, and any other line is
\* an error or forgotten.
LEMMA LineDone ==
    ASSUME NEW s \in Reads, NEW line,
           NEW n, n = ReadLine(s, line)
    PROVE  /\ n \in Reads
           /\ line = <<"blank">> =>
                 IF s.length = 0 THEN n.result = "error"
                 ELSE Is(n, <<>>, s.length, s.length, s.begun, s.result)
           /\ line = <<"name", "colon", "number">> =>
                 Is(n, <<>>, 2, s.left, s.begun, s.result)
           /\ line # <<"blank">> /\ line # <<"name", "colon", "number">> =>
                 n.result = "error" \/ Is(n, <<>>, s.length, s.left, s.begun, s.result)
<1>e. <<>> \in Seq(PartNames) /\ s.length \in Nat
  BY DEF Reads
<1>r. \A x : Is(x, s.line, s.length, s.left, s.begun, "error")
         => x \in Reads /\ x.result = "error"
  BY DEF Is
<1>i. \A x, length, left : Is(x, <<>>, length, left, s.begun, s.result) => x \in Reads
  BY DEF Is
<1>1. CASE line = <<"blank">>
  <2>1. n = IF s.length = 0 THEN [s EXCEPT !.result = "error"]
            ELSE [s EXCEPT !.line = <<>>, !.left = s.length]
    BY <1>1, HeaderLines DEF ReadLine
  <2>2. CASE s.length = 0
    <3>1. Is(n, s.line, s.length, s.left, s.begun, "error")
      BY ONLY <1>e, <2>1, <2>2, s \in Reads, ReadUpdates
    <3> QED
      BY ONLY <1>1, <1>r, <2>2, <3>1, HeaderLines
  <2>3. CASE s.length # 0
    <3>1. n = [s EXCEPT !.line = <<>>, !.left = s.length]
      BY ONLY <2>1, <2>3
    <3>2. "none" \in {"none", "message", "error"}
      OBVIOUS
    <3>3. Is(n, <<>>, s.length, s.length, s.begun, s.result)
      BY ONLY <1>e, <3>1, <3>2, s \in Reads, BodyUpdates, Zenon
    <3> QED
      BY ONLY <1>1, <1>i, <2>3, <3>3, HeaderLines
  <2> QED
    BY ONLY <2>2, <2>3
<1>2. CASE line = <<"name", "colon", "number">>
  <2>1. line # <<"blank">> /\ \E i \in DOMAIN line : HasColon(line[i])
    BY <1>2, HeaderLines
  <2>2. n = [s EXCEPT !.line = <<>>, !.length = 2]
    BY <1>2, <2>1, HalvesAre DEF ReadLine
  <2>3. "none" \in {"none", "message", "error"} /\ 2 \in Nat
    OBVIOUS
  <2>4. Is(n, <<>>, 2, s.left, s.begun, s.result)
    BY ONLY <1>e, <2>2, <2>3, s \in Reads, BodyUpdates, Zenon
  <2> QED
    BY ONLY <1>2, <1>i, <2>1, <2>4
<1>3. CASE line # <<"blank">> /\ line # <<"name", "colon", "number">>
  <2>1. n = [s EXCEPT !.result = "error"] \/ n = [s EXCEPT !.line = <<>>]
    BY <1>3 DEF ReadLine
  <2>2. CASE n = [s EXCEPT !.result = "error"]
    <3>1. Is(n, s.line, s.length, s.left, s.begun, "error")
      BY ONLY <1>e, <2>2, s \in Reads, ReadUpdates
    <3> QED
      BY ONLY <1>3, <1>r, <3>1
  <2>3. CASE n = [s EXCEPT !.line = <<>>]
    <3>1. Is(n, <<>>, s.length, s.left, s.begun, s.result)
      BY ONLY <1>e, <2>3, s \in Reads, ReadUpdates
    <3> QED
      BY ONLY <1>3, <1>i, <3>1
  <2> QED
    BY ONLY <2>1, <2>2, <2>3
<1> QED
  BY ONLY <1>1, <1>2, <1>3

\* What a piece does outside a body and in one.
LEMMA PieceDone ==
    ASSUME NEW s \in Reads, NEW piece, piece.part \in PartNames,
           NEW n, n = ReadPiece(s, piece)
    PROVE  /\ s.left > 0 =>
                 Is(n, s.line, s.length, s.left - 1, TRUE,
                    IF s.left = 1 THEN "message" ELSE s.result)
           /\ s.left = 0 /\ EndsLine(piece.part) =>
                 \E begun : /\ Is(begun, s.line, s.length, 0, TRUE, s.result)
                            /\ n = ReadLine(begun, Append(s.line, piece.part))
           /\ s.left = 0 /\ ~EndsLine(piece.part) =>
                 Is(n, Append(s.line, piece.part), s.length, 0, TRUE, s.result)
<1> DEFINE begun == [s EXCEPT !.begun = TRUE]
           result == IF s.left = 1 THEN "message" ELSE s.result
           line == Append(s.line, piece.part)
<1>t. s.left \in Nat /\ s.line \in Seq(PartNames) /\ result \in {"none", "message", "error"}
  BY DEF Reads
<1>0. Is(begun, s.line, s.length, s.left, TRUE, s.result)
  BY <1>t, ReadUpdates
<1>1. ASSUME s.left > 0
      PROVE  Is(n, s.line, s.length, s.left - 1, TRUE, result)
  <2>1. n = [begun EXCEPT !.left = s.left - 1, !.result = result]
    <3>1. begun.left = s.left /\ begun.result = s.result
      BY <1>0 DEF Is
    <3> QED
      BY <1>1, <3>1 DEF ReadPiece
  <2>2. s.left - 1 \in Nat
    BY <1>1, <1>t
  <2> HIDE DEF begun, result
  <2>3. begun \in Reads /\ begun.line = s.line /\ begun.length = s.length
        /\ begun.begun = TRUE
    BY <1>0 DEF Is
  <2>4. Is(n, begun.line, begun.length, s.left - 1, begun.begun, result)
    BY ONLY <1>t, <2>1, <2>2, <2>3, BodyUpdates, Zenon
  <2> QED
    BY ONLY <2>3, <2>4
<1>2. ASSUME s.left = 0, EndsLine(piece.part)
      PROVE  \E b : Is(b, s.line, s.length, 0, TRUE, s.result) /\ n = ReadLine(b, line)
  <2>1. n = ReadLine(begun, line)
    BY <1>2 DEF ReadPiece
  <2> HIDE DEF begun, line
  <2> QED
    BY ONLY <1>0, <1>2, <2>1
<1>3. ASSUME s.left = 0, ~EndsLine(piece.part)
      PROVE  Is(n, line, s.length, 0, TRUE, s.result)
  <2>1. n = [begun EXCEPT !.line = line]
    BY <1>3 DEF ReadPiece
  <2>2. line \in Seq(PartNames)
    BY <1>t
  <2> HIDE DEF begun, line
  <2>3. begun \in Reads /\ begun.length = s.length /\ begun.left = 0
        /\ begun.begun = TRUE /\ begun.result = s.result
    BY <1>0, <1>3 DEF Is
  <2>4. Is(n, line, begun.length, begun.left, begun.begun, begun.result)
    BY ONLY <2>1, <2>2, <2>3, ReadUpdates
  <2> QED
    BY ONLY <2>3, <2>4
<1> QED
  BY ONLY <1>1, <1>2, <1>3

\* One more piece leaves such a state, and makes a message only of the last
\* piece of a frame.
LEMMA ReadStep ==
    ASSUME NEW q \in 0..5, NEW s, ReadOk(q, s), NEW piece, piece.part = Parts[q + 1],
           NEW n, n = ReadPiece(s, piece)
    PROVE  /\ n \in Reads
           /\ n.result = "none" => ReadOk(NextPlace(q), n)
           /\ n.result = "message" => q = 5
<1> DEFINE part == piece.part
           line == Append(s.line, part)
<1>1. /\ s \in Reads /\ s.result = "none" /\ s.line \in Seq(PartNames) /\ s.left \in Nat
  BY DEF ReadOk, Reads
<1>2. /\ part \in PartNames
      /\ part = "number" <=> q = 2
      /\ part = "blank" <=> q = 3
  <2>1. q \in {0, 1, 2, 3, 4, 5}
    OBVIOUS
  <2> QED
    BY <2>1, PartsAre DEF PartNames
<1>3. /\ line \in Seq(PartNames)
      /\ line = <<"blank">> => part = "blank"
      /\ line = <<"name", "colon", "number">> => part = "number"
      /\ s.line = <<>> => line = <<part>>
  BY ONLY <1>1, <1>2, LineEnds
<1>4. CASE s.left > 0
  <2>1. Is(n, s.line, s.length, s.left - 1, TRUE, IF s.left = 1 THEN "message" ELSE "none")
    BY <1>1, <1>2, <1>4, PieceDone
  <2>2. \/ q = 4 /\ s.left = 2 /\ s.length = 2
        \/ q = 5 /\ s.left = 1 /\ s.length = 2
    BY <1>4 DEF ReadOk
  <2> QED
    BY ONLY <2>1, <2>2 DEF ReadOk, NextPlace, Is
<1>5. CASE s.left = 0 /\ EndsLine(part)
  <2>1. q \in {2, 3} /\ NextPlace(q) = q + 1
    BY ONLY <1>2, <1>5 DEF EndsLine, NextPlace
  <2>2. s.length = 0 \/ (s.length = 2 /\ q = 3 /\ s.line = <<>>)
    BY <1>5 DEF ReadOk
  <2>3. PICK begun : /\ Is(begun, s.line, s.length, 0, TRUE, "none")
                     /\ n = ReadLine(begun, line)
    BY <1>1, <1>2, <1>5, PieceDone, ZenonT(60)
  <2>4. begun \in Reads /\ begun.length = s.length /\ begun.left = 0 /\ begun.begun = TRUE
        /\ begun.result = "none"
    BY <2>3 DEF Is
  <2> HIDE DEF line
  <2>5. CASE line = <<"blank">>
    <3>1. q = 3
      BY ONLY <1>2, <1>3, <2>5
    <3>2. n \in Reads /\ IF s.length = 0 THEN n.result = "error"
                         ELSE Is(n, <<>>, s.length, s.length, TRUE, "none")
      BY ONLY <2>3, <2>4, <2>5, LineDone
    <3>3. CASE s.length = 0
      BY ONLY <3>2, <3>3
    <3>4. CASE s.length = 2
      BY ONLY <2>1, <3>1, <3>2, <3>4 DEF ReadOk, Is
    <3> QED
      BY ONLY <2>2, <3>3, <3>4
  <2>6. CASE line = <<"name", "colon", "number">>
    <3>1. q = 2
      BY ONLY <1>2, <1>3, <2>6
    <3>2. Is(n, <<>>, 2, 0, TRUE, "none")
      BY ONLY <2>3, <2>4, <2>6, LineDone
    <3> QED
      BY ONLY <3>1, <3>2 DEF ReadOk, NextPlace, Is
  <2>7. CASE line # <<"blank">> /\ line # <<"name", "colon", "number">>
    <3>1. s.length = 0
      <4>1. q = 3 => part = "blank"
        BY ONLY <1>2
      <4> QED
        BY ONLY <1>3, <2>2, <2>7, <4>1
    <3>2. /\ n \in Reads
          /\ n.result = "error" \/ Is(n, <<>>, 0, 0, TRUE, "none")
      BY ONLY <2>3, <2>4, <2>7, <3>1, LineDone
    <3> QED
      BY ONLY <3>2 DEF ReadOk, Is
  <2> QED
    BY ONLY <2>5, <2>6, <2>7
<1>6. CASE s.left = 0 /\ ~EndsLine(part)
  <2>1. s.length = 0
    BY ONLY <1>1, <1>2, <1>6, ReadOk(q, s) DEF ReadOk, EndsLine
  <2>2. Is(n, line, 0, 0, TRUE, "none")
    BY <1>1, <1>2, <1>6, <2>1, PieceDone
  <2> QED
    BY ONLY <2>2 DEF ReadOk, Is
<1>7. s.left = 0 \/ s.left > 0
  BY ONLY <1>1
<1> QED
  BY ONLY <1>4, <1>5, <1>6, <1>7

\* A read begun at the start of a frame takes its pieces one by one, and makes
\* a message of the last.
LEMMA ReadFrame ==
    ASSUME NEW q \in 0..5, NEW s, AtPlace(q, s), NEW piece, piece.part = Parts[q + 1],
           NEW n, n = ReadPiece(s, piece)
    PROVE  /\ q < 5 => AtPlace(q + 1, n)
           /\ q = 5 => n.result = "message"
<1>1. s \in Reads /\ s.result = "none" /\ s.line \in Seq(PartNames)
  BY DEF AtPlace, Reads
<1>2. piece.part \in PartNames
  <2>1. q \in {0, 1, 2, 3, 4, 5}
    OBVIOUS
  <2> QED
    BY <2>1, PartsAre DEF PartNames
<1>3. CASE q = 0
  <2>1. s.line = <<>> /\ piece.part = "name" /\ s.left = 0 /\ s.length = 0
        /\ ~EndsLine(piece.part)
    BY <1>3, PartsAre DEF AtPlace, EndsLine
  <2>2. Append(s.line, piece.part) = <<"name">>
    BY ONLY <1>1, <1>2, <2>1, LineEnds
  <2>3. Is(n, Append(s.line, piece.part), 0, 0, TRUE, "none")
    BY <1>1, <1>2, <2>1, PieceDone
  <2> QED
    BY ONLY <1>3, <2>2, <2>3 DEF AtPlace, Is
<1>4. CASE q = 1
  <2>1. s.line = <<"name">> /\ piece.part = "colon" /\ s.left = 0 /\ s.length = 0
        /\ ~EndsLine(piece.part)
    BY <1>4, PartsAre DEF AtPlace, EndsLine
  <2>2. Append(<<"name">>, "colon") = <<"name", "colon">>
    BY HeaderLines
  <2>3. Is(n, Append(s.line, piece.part), 0, 0, TRUE, "none")
    BY <1>1, <1>2, <2>1, PieceDone
  <2> QED
    BY ONLY <1>4, <2>1, <2>2, <2>3 DEF AtPlace, Is
<1>5. CASE q = 2
  <2>1. s.line = <<"name", "colon">> /\ piece.part = "number" /\ s.left = 0
        /\ EndsLine(piece.part)
    BY <1>5, PartsAre DEF AtPlace, EndsLine
  <2>2. Append(<<"name", "colon">>, "number") = <<"name", "colon", "number">>
    BY HeaderLines
  <2>3. PICK begun : /\ Is(begun, s.line, s.length, 0, TRUE, "none")
                     /\ n = ReadLine(begun, Append(s.line, piece.part))
    BY <1>1, <1>2, <2>1, PieceDone, ZenonT(60)
  <2>4. begun \in Reads /\ begun.left = 0 /\ begun.begun = TRUE /\ begun.result = "none"
    BY <2>3 DEF Is
  <2>5. Is(n, <<>>, 2, 0, TRUE, "none")
    BY ONLY <2>1, <2>2, <2>3, <2>4, LineDone
  <2> QED
    BY ONLY <1>5, <2>5 DEF AtPlace, Is
<1>6. CASE q = 3
  <2>1. piece.part = "blank" /\ s.left = 0 /\ s.line = <<>> /\ s.length = 2
        /\ EndsLine(piece.part)
    BY <1>6, PartsAre DEF AtPlace, EndsLine
  <2>2. Append(s.line, piece.part) = <<"blank">>
    BY ONLY <1>1, <1>2, <2>1, LineEnds
  <2>3. PICK begun : /\ Is(begun, s.line, s.length, 0, TRUE, "none")
                     /\ n = ReadLine(begun, Append(s.line, piece.part))
    BY <1>1, <1>2, <2>1, PieceDone, ZenonT(60)
  <2>4. begun \in Reads /\ begun.length = 2 /\ begun.begun = TRUE /\ begun.result = "none"
    BY <2>1, <2>3 DEF Is
  <2>5. IF begun.length = 0 THEN n.result = "error"
        ELSE Is(n, <<>>, begun.length, begun.length, begun.begun, begun.result)
    BY ONLY <2>2, <2>3, <2>4, LineDone
  <2> QED
    BY ONLY <1>6, <2>4, <2>5 DEF AtPlace, Is
<1>7. CASE q = 4
  <2>1. s.left = 2 /\ s.length = 2
    BY <1>7 DEF AtPlace
  <2>p. s.left > 0
    BY ONLY <2>1
  <2>2. Is(n, s.line, s.length, s.left - 1, TRUE, IF s.left = 1 THEN "message" ELSE s.result)
    BY <1>1, <1>2, <2>p, PieceDone
  <2> QED
    BY ONLY <1>1, <1>7, <2>1, <2>2 DEF AtPlace, Is
<1>8. CASE q = 5
  <2>1. s.left = 1
    BY <1>8 DEF AtPlace
  <2>p. s.left > 0
    BY ONLY <2>1
  <2>2. Is(n, s.line, s.length, s.left - 1, TRUE, IF s.left = 1 THEN "message" ELSE s.result)
    BY <1>1, <1>2, <2>p, PieceDone
  <2> QED
    BY ONLY <1>8, <2>1, <2>2 DEF Is
<1> QED
  BY ONLY <1>3, <1>4, <1>5, <1>6, <1>7, <1>8, q \in 0..5

-----------------------------------------------------------------------------
(* The wire *)

\* What is on the wire are the pieces of the first n frames, after the first r.
Carries(w, r, n) ==
    \A m \in 1..n, p \in 1..6 :
        6 * (m - 1) + p - r \in 1..Len(w) => w[6 * (m - 1) + p - r] = Frame(m)[p]

\* One more frame at the end.
LEMMA CarriesMore ==
    ASSUME NEW w \in Seq(Pieces), NEW r \in Nat, NEW n \in Nat,
           r + Len(w) = 6 * n, Carries(w, r, n)
    PROVE  /\ w \o Frame(n + 1) \in Seq(Pieces)
           /\ r + Len(w \o Frame(n + 1)) = 6 * (n + 1)
           /\ Carries(w \o Frame(n + 1), r, n + 1)
<1> DEFINE f == Frame(n + 1)
           v == w \o f
<1>0. n + 1 \in Nat
  OBVIOUS
<1>1. f \in Seq(Pieces) /\ Len(f) = 6
  BY <1>0, FrameIs
<1> HIDE DEF f
<1>2. /\ v \in Seq(Pieces) /\ Len(v) = Len(w) + Len(f)
      /\ \A i \in 1..(Len(w) + Len(f)) : v[i] = IF i <= Len(w) THEN w[i] ELSE f[i - Len(w)]
  BY <1>1, ConcatProperties
<1>3. Len(w) \in Nat
  BY LenProperties
<1> HIDE DEF v
<1>4. r + Len(v) = 6 * (n + 1)
  BY ONLY <1>1, <1>2, <1>3, r + Len(w) = 6 * n, r \in Nat, n \in Nat
<1>5. ASSUME NEW m \in 1..(n + 1), NEW p \in 1..6, 6 * (m - 1) + p - r \in 1..Len(v)
      PROVE  v[6 * (m - 1) + p - r] = Frame(m)[p]
  <2> DEFINE i == 6 * (m - 1) + p - r
  <2>1. CASE m \in 1..n
    <3>1. i \in 1..Len(w) /\ i \in 1..(Len(w) + Len(f)) /\ i <= Len(w)
      BY ONLY <1>1, <1>2, <1>3, <1>5, <2>1, r + Len(w) = 6 * n, r \in Nat, n \in Nat,
         p \in 1..6
    <3> HIDE DEF i
    <3>2. v[i] = w[i]
      BY ONLY <1>2, <3>1
    <3>3. w[i] = Frame(m)[p]
      BY <2>1, <3>1 DEF Carries, i
    <3> QED
      BY <3>2, <3>3 DEF i
  <2>2. CASE m = n + 1
    <3>0. i = 6 * n + p - r
      BY ONLY <2>2, n \in Nat
    <3>1. i \in 1..(Len(w) + Len(f)) /\ ~(i <= Len(w)) /\ i - Len(w) = p
      BY ONLY <1>1, <1>3, <3>0, r + Len(w) = 6 * n, r \in Nat, n \in Nat, p \in 1..6
    <3> HIDE DEF i
    <3>2. v[i] = f[p]
      BY ONLY <1>2, <3>1
    <3> QED
      BY <2>2, <3>2 DEF f, i
  <2> QED
    BY <2>1, <2>2
<1>6. Carries(v, r, n + 1)
  BY ONLY <1>5 DEF Carries
<1> QED
  BY ONLY <1>2, <1>4, <1>6 DEF v, f

\* Less at the end.
LEMMA CarriesLess ==
    ASSUME NEW w \in Seq(Pieces), NEW u \in Seq(Pieces), NEW r \in Nat, NEW n \in Nat,
           Carries(w \o u, r, n)
    PROVE  /\ Carries(w, r, n)
           /\ Len(w) <= Len(w \o u)
<1>1. /\ Len(w \o u) = Len(w) + Len(u) /\ Len(w) \in Nat /\ Len(u) \in Nat
      /\ \A i \in 1..Len(w) : i \in 1..Len(w \o u) /\ (w \o u)[i] = w[i]
  BY ConcatProperties, LenProperties
<1>2. Carries(w, r, n)
  BY <1>1 DEF Carries
<1> QED
  BY <1>1, <1>2

\* The first piece is the next of its frame, and the rest follows it.
LEMMA CarriesTail ==
    ASSUME NEW w \in Seq(Pieces), w # <<>>, NEW c \in Nat, NEW q \in 0..5, NEW n \in Nat,
           6 * c + q + Len(w) <= 6 * n, Carries(w, 6 * c + q, n)
    PROVE  /\ Tail(w) \in Seq(Pieces) /\ Len(Tail(w)) + 1 = Len(w)
           /\ c + 1 \in 1..n
           /\ Head(w) = [of |-> c + 1, part |-> Parts[q + 1]]
           /\ Carries(Tail(w), 6 * c + q + 1, n)
<1>1. /\ Tail(w) \in Seq(Pieces) /\ Len(Tail(w)) + 1 = Len(w) /\ Len(w) \in Nat
      /\ Head(w) = w[1] /\ Len(w) >= 1
      /\ \A i \in 1..Len(Tail(w)) : Tail(w)[i] = w[i + 1]
  BY HeadTailProperties, EmptySeq, LenProperties
<1>2. c + 1 \in 1..n
  BY ONLY <1>1, c \in Nat, q \in 0..5, n \in Nat, 6 * c + q + Len(w) <= 6 * n
<1>3. w[1] = Frame(c + 1)[q + 1]
  <2>1. q + 1 \in 1..6 /\ 6 * ((c + 1) - 1) + (q + 1) - (6 * c + q) = 1
    OBVIOUS
  <2>2. 1 \in 1..Len(w)
    BY <1>1
  <2> QED
    BY <1>2, <2>1, <2>2 DEF Carries
<1>4. Frame(c + 1)[q + 1] = [of |-> c + 1, part |-> Parts[q + 1]]
  <2>1. c + 1 \in Nat /\ q + 1 \in 1..6
    OBVIOUS
  <2> QED
    BY <2>1, FrameIs
<1>5. ASSUME NEW m \in 1..n, NEW p \in 1..6,
             6 * (m - 1) + p - (6 * c + q + 1) \in 1..Len(Tail(w))
      PROVE  Tail(w)[6 * (m - 1) + p - (6 * c + q + 1)] = Frame(m)[p]
  <2> DEFINE i == 6 * (m - 1) + p - (6 * c + q + 1)
  <2>1. i + 1 = 6 * (m - 1) + p - (6 * c + q) /\ i + 1 \in 1..Len(w)
    BY <1>1, <1>5
  <2>2. Tail(w)[i] = w[i + 1]
    BY <1>1, <1>5
  <2>3. w[6 * (m - 1) + p - (6 * c + q)] = Frame(m)[p]
    BY <2>1 DEF Carries
  <2> QED
    BY ONLY <2>1, <2>2, <2>3
<1>6. Carries(Tail(w), 6 * c + q + 1, n)
  BY ONLY <1>5 DEF Carries
<1> QED
  BY ONLY <1>1, <1>2, <1>3, <1>4, <1>6

\* Moving a piece from one part of the wire to the other leaves it whole, and
\* taking one from the first part takes it from the wire.
LEMMA TwoParts ==
    ASSUME NEW S, NEW s \in Seq(S), NEW t \in Seq(S)
    PROVE  /\ t # <<>> => Append(s, Head(t)) \o Tail(t) = s \o t
           /\ s # <<>> => s \o t # <<>> /\ Head(s \o t) = Head(s) /\ Tail(s \o t) = Tail(s) \o t
           /\ s \o <<>> = s
<1>1. ASSUME t # <<>> PROVE Append(s, Head(t)) \o Tail(t) = s \o t
  <2> DEFINE a == Append(s, Head(t))
             b == Tail(t)
  <2>1. /\ Head(t) \in S /\ b \in Seq(S) /\ Len(b) = Len(t) - 1 /\ Len(t) \in Nat /\ Len(t) >= 1
        /\ Len(s) \in Nat /\ Head(t) = t[1]
        /\ \A i \in 1..Len(b) : b[i] = t[i + 1]
    BY <1>1, HeadTailProperties, EmptySeq, LenProperties
  <2>2. /\ a \in Seq(S) /\ Len(a) = Len(s) + 1 /\ a[Len(s) + 1] = t[1]
        /\ \A i \in 1..Len(s) : a[i] = s[i]
    BY <2>1, AppendProperties
  <2> HIDE DEF a, b
  <2>3. /\ a \o b \in Seq(S) /\ Len(a \o b) = Len(a) + Len(b)
        /\ \A i \in 1..(Len(a) + Len(b)) :
              (a \o b)[i] = IF i <= Len(a) THEN a[i] ELSE b[i - Len(a)]
    BY <2>1, <2>2, ConcatProperties
  <2>4. /\ s \o t \in Seq(S) /\ Len(s \o t) = Len(s) + Len(t)
        /\ \A i \in 1..(Len(s) + Len(t)) :
              (s \o t)[i] = IF i <= Len(s) THEN s[i] ELSE t[i - Len(s)]
    BY ConcatProperties
  <2>5. Len(a \o b) = Len(s \o t)
    BY ONLY <2>1, <2>2, <2>3, <2>4
  <2>6. ASSUME NEW i \in 1..(Len(s) + Len(t)) PROVE (a \o b)[i] = (s \o t)[i]
    <3>1. i \in 1..(Len(a) + Len(b))
      BY ONLY <2>1, <2>2, <2>6
    <3>2. CASE i <= Len(s)
      BY <2>1, <2>2, <2>3, <2>4, <3>1, <3>2
    <3>3. CASE i = Len(s) + 1
      BY <2>1, <2>2, <2>3, <2>4, <3>1, <3>3
    <3>4. CASE i > Len(s) + 1
      <4>1. i - Len(a) \in 1..Len(b) /\ i - Len(a) + 1 = i - Len(s)
            /\ ~(i <= Len(a)) /\ ~(i <= Len(s))
        BY ONLY <2>1, <2>2, <2>6, <3>4
      <4>2. (a \o b)[i] = b[i - Len(a)]
        BY ONLY <2>3, <3>1, <4>1
      <4>3. (s \o t)[i] = t[i - Len(s)]
        BY ONLY <2>4, <2>6, <4>1
      <4>4. b[i - Len(a)] = t[i - Len(a) + 1]
        BY ONLY <2>1, <4>1
      <4> QED
        BY ONLY <4>1, <4>2, <4>3, <4>4
    <3>5. i <= Len(s) \/ i = Len(s) + 1 \/ i > Len(s) + 1
      <4>1. Len(s) \in Nat /\ i \in Int
        BY LenProperties
      <4> QED
        BY ONLY <4>1
    <3> QED
      BY ONLY <3>2, <3>3, <3>4, <3>5
  <2>7. a \o b = s \o t
    BY ONLY <2>3, <2>4, <2>5, <2>6, SeqEqual
  <2> QED
    BY <2>7 DEF a, b
<1>2. ASSUME s # <<>>
      PROVE  s \o t # <<>> /\ Head(s \o t) = Head(s) /\ Tail(s \o t) = Tail(s) \o t
  <2> DEFINE w == s \o t
             b == Tail(s)
  <2>1. /\ Head(s) = s[1] /\ b \in Seq(S) /\ Len(b) = Len(s) - 1 /\ Len(s) \in Nat /\ Len(s) >= 1
        /\ Len(t) \in Nat
        /\ \A i \in 1..Len(b) : b[i] = s[i + 1]
    BY <1>2, HeadTailProperties, EmptySeq, LenProperties
  <2>2. /\ w \in Seq(S) /\ Len(w) = Len(s) + Len(t)
        /\ \A i \in 1..(Len(s) + Len(t)) : w[i] = IF i <= Len(s) THEN s[i] ELSE t[i - Len(s)]
    BY ConcatProperties
  <2> HIDE DEF w, b
  <2>3. w # <<>>
    BY ONLY <2>1, <2>2, EmptySeq
  <2>4. Head(w) = w[1] /\ Tail(w) \in Seq(S) /\ Len(Tail(w)) = Len(w) - 1
        /\ \A i \in 1..Len(Tail(w)) : Tail(w)[i] = w[i + 1]
    BY ONLY <2>2, <2>3, HeadTailProperties
  <2>5. Head(w) = Head(s)
    BY ONLY <2>1, <2>2, <2>4
  <2>6. /\ b \o t \in Seq(S) /\ Len(b \o t) = Len(b) + Len(t)
        /\ \A i \in 1..(Len(b) + Len(t)) :
              (b \o t)[i] = IF i <= Len(b) THEN b[i] ELSE t[i - Len(b)]
    BY <2>1, ConcatProperties
  <2>7. Len(Tail(w)) = Len(b \o t)
    BY ONLY <2>1, <2>2, <2>4, <2>6
  <2>8. ASSUME NEW i \in 1..Len(Tail(w)) PROVE Tail(w)[i] = (b \o t)[i]
    <3>1. i \in 1..(Len(b) + Len(t)) /\ i + 1 \in 1..(Len(s) + Len(t))
      BY ONLY <2>1, <2>2, <2>4, <2>8
    <3>2. CASE i <= Len(b)
      BY <2>1, <2>2, <2>4, <2>6, <3>1, <3>2
    <3>3. CASE i > Len(b)
      <4>1. i - Len(b) = i + 1 - Len(s) /\ ~(i + 1 <= Len(s))
        BY ONLY <2>1, <2>8, <3>3
      <4>2. (b \o t)[i] = t[i - Len(b)]
        BY ONLY <2>6, <3>1, <3>3
      <4>3. Tail(w)[i] = w[i + 1] /\ w[i + 1] = t[i + 1 - Len(s)]
        BY ONLY <2>2, <2>4, <2>8, <3>1, <4>1, SMTT(30)
      <4> QED
        BY ONLY <4>1, <4>2, <4>3
    <3>4. i <= Len(b) \/ i > Len(b)
      BY <2>1
    <3> QED
      BY ONLY <3>2, <3>3, <3>4
  <2>9. Tail(w) = b \o t
    BY ONLY <2>4, <2>6, <2>7, <2>8, SeqEqual
  <2> QED
    BY <2>3, <2>5, <2>9 DEF w, b
<1>3. s \o <<>> = s
  BY ConcatEmptySeq
<1> QED
  BY <1>1, <1>2, <1>3

-----------------------------------------------------------------------------
(* What is handed out, and what is kept *)

Occurs(m, s) == \E i \in DOMAIN s : s[i] = m

\* What is handed out and what is kept, of the messages sent: all of it once,
\* the stash in the order sent, and of messages that are alike the earlier
\* first, those handed out before those kept.
Ordered(out, kept, messages) ==
    /\ \A i, j \in DOMAIN kept : i < j => kept[i] < kept[j]
    /\ \A i, j \in DOMAIN out : i # j => out[i] # out[j]
    /\ \A i \in DOMAIN out, j \in DOMAIN kept : out[i] # kept[j]
    /\ \A i, j \in DOMAIN out :
          i < j /\ messages[out[i]] = messages[out[j]] => out[i] < out[j]
    /\ \A i \in DOMAIN out, j \in DOMAIN kept :
          messages[out[i]] = messages[kept[j]] => out[i] < kept[j]

\* One more at the end.
LEMMA AppendIs ==
    ASSUME NEW s \in Seq(Nat), NEW n \in Nat
    PROVE  /\ Append(s, n) \in Seq(Nat) /\ DOMAIN s = 1..Len(s) /\ Len(s) \in Nat
           /\ DOMAIN Append(s, n) = 1..(Len(s) + 1)
           /\ \A i \in 1..Len(s) : Append(s, n)[i] = s[i]
           /\ Append(s, n)[Len(s) + 1] = n
           /\ \A m : Occurs(m, Append(s, n)) <=> Occurs(m, s) \/ m = n
<1>1. /\ Append(s, n) \in Seq(Nat) /\ DOMAIN s = 1..Len(s) /\ Len(s) \in Nat
      /\ DOMAIN Append(s, n) = 1..(Len(s) + 1)
      /\ \A i \in 1..Len(s) : Append(s, n)[i] = s[i]
      /\ Append(s, n)[Len(s) + 1] = n
  BY AppendProperties, LenProperties
<1> DEFINE t == Append(s, n)
<1>2. \A m : Occurs(m, t) <=> Occurs(m, s) \/ m = n
  <2> HIDE DEF t
  <2>t. /\ DOMAIN s = 1..Len(s) /\ Len(s) \in Nat /\ DOMAIN t = 1..(Len(s) + 1)
        /\ (\A i \in 1..Len(s) : t[i] = s[i]) /\ t[Len(s) + 1] = n
    BY <1>1 DEF t
  <2>1. ASSUME NEW m, Occurs(m, s) PROVE Occurs(m, t)
    BY <1>1, <2>1 DEF Occurs, t
  <2>2. Occurs(n, t)
    BY <1>1 DEF Occurs, t
  <2>3. ASSUME NEW m, Occurs(m, t) PROVE Occurs(m, s) \/ m = n
    <3>1. PICK i \in DOMAIN t : t[i] = m
      BY ONLY <2>3 DEF Occurs
    <3>2. i \in 1..Len(s) \/ i = Len(s) + 1
      <4>1. DOMAIN t = 1..(Len(s) + 1) /\ Len(s) \in Nat
        BY ONLY <2>t
      <4>2. i \in DOMAIN t
        OBVIOUS
      <4> QED
        BY ONLY <4>1, <4>2, SMTT(30)
    <3> QED
      BY ONLY <2>t, <3>1, <3>2 DEF Occurs
  <2> QED
    BY ONLY <2>1, <2>2, <2>3
<1> QED
  BY <1>1, <1>2

\* One less.
LEMMA RemoveIs ==
    ASSUME NEW s \in Seq(Nat), NEW k \in DOMAIN s
    PROVE  /\ RemoveAt(s, k) \in Seq(Nat) /\ Len(RemoveAt(s, k)) = Len(s) - 1
           /\ Len(s) \in Nat /\ DOMAIN s = 1..Len(s)
           /\ DOMAIN RemoveAt(s, k) = 1..(Len(s) - 1)
           /\ \A i \in 1..(Len(s) - 1) : RemoveAt(s, k)[i] = IF i < k THEN s[i] ELSE s[i + 1]
<1> DEFINE t == RemoveAt(s, k)
<1>1. Len(s) \in Nat /\ DOMAIN s = 1..Len(s) /\ k \in 1..Len(s)
  OBVIOUS
<1> DEFINE a == SubSeq(s, 1, k - 1)
           b == SubSeq(s, k + 1, Len(s))
<1>2. a \in Seq(Nat) /\ Len(a) = k - 1 /\ \A i \in 1..(k - 1) : a[i] = s[i]
  BY <1>1
<1>3. b \in Seq(Nat) /\ Len(b) = Len(s) - k /\ \A i \in 1..(Len(s) - k) : b[i] = s[k + i]
  <2>1. k + 1 \in Int /\ Len(s) \in Int /\ \A i \in (k + 1)..Len(s) : s[i] \in Nat
    BY <1>1, ElementOfSeq
  <2>2. /\ b \in Seq(Nat) /\ Len(b) = IF k + 1 <= Len(s) THEN Len(s) - (k + 1) + 1 ELSE 0
        /\ \A i \in 1..(Len(s) - (k + 1) + 1) : b[i] = s[(k + 1) + i - 1]
    BY ONLY <2>1, SubSeqProperties, SMTT(30)
  <2> HIDE DEF b
  <2>3. Len(b) = Len(s) - k /\ Len(s) - (k + 1) + 1 = Len(s) - k
    BY ONLY <1>1, <2>2
  <2>4. \A i \in 1..(Len(s) - k) : (k + 1) + i - 1 = k + i
    BY ONLY <1>1
  <2> QED
    BY ONLY <2>2, <2>3, <2>4
<1>4. t = a \o b
  BY DEF RemoveAt
<1> HIDE DEF a, b, t
<1>5. /\ t \in Seq(Nat) /\ Len(t) = Len(a) + Len(b)
      /\ \A i \in 1..(Len(a) + Len(b)) : t[i] = IF i <= Len(a) THEN a[i] ELSE b[i - Len(a)]
  BY <1>2, <1>3, <1>4, ConcatProperties
<1>6. Len(a) + Len(b) = Len(s) - 1
  BY ONLY <1>1, <1>2, <1>3
<1>7. ASSUME NEW i \in 1..(Len(s) - 1) PROVE t[i] = IF i < k THEN s[i] ELSE s[i + 1]
  <2>1. i \in 1..(Len(a) + Len(b))
    BY ONLY <1>6, <1>7
  <2>2. CASE i < k
    <3>1. i <= Len(a) /\ i \in 1..(k - 1)
      BY ONLY <1>1, <1>2, <1>7, <2>2
    <3> QED
      BY ONLY <1>2, <1>5, <2>1, <2>2, <3>1
  <2>3. CASE ~(i < k)
    <3>1. ~(i <= Len(a)) /\ i - Len(a) \in 1..(Len(s) - k) /\ k + (i - Len(a)) = i + 1
      BY ONLY <1>1, <1>2, <1>7, <2>3
    <3> QED
      BY ONLY <1>3, <1>5, <2>1, <2>3, <3>1
  <2> QED
    BY ONLY <2>2, <2>3
<1>8. Len(t) = Len(s) - 1 /\ DOMAIN t = 1..(Len(s) - 1)
  BY ONLY <1>5, <1>6, LenProperties
<1> QED
  BY ONLY <1>1, <1>5, <1>7, <1>8 DEF t

\* What stays is in the order it was, and is all but the one removed.
LEMMA RemoveKeeps ==
    ASSUME NEW s \in Seq(Nat), NEW k \in DOMAIN s,
           \A i, j \in DOMAIN s : i < j => s[i] < s[j]
    PROVE  LET t == RemoveAt(s, k)
               old(i) == IF i < k THEN i ELSE i + 1
           IN /\ t \in Seq(Nat)
              /\ \A i \in DOMAIN t : old(i) \in DOMAIN s /\ old(i) # k /\ t[i] = s[old(i)]
              /\ \A i, j \in DOMAIN t : i < j => t[i] < t[j]
              /\ \A m : Occurs(m, s) <=> Occurs(m, t) \/ m = s[k]
<1> DEFINE t == RemoveAt(s, k)
           old(i) == IF i < k THEN i ELSE i + 1
<1>1. /\ t \in Seq(Nat) /\ Len(s) \in Nat /\ DOMAIN s = 1..Len(s) /\ k \in 1..Len(s)
      /\ DOMAIN t = 1..(Len(s) - 1)
      /\ \A i \in 1..(Len(s) - 1) : t[i] = IF i < k THEN s[i] ELSE s[i + 1]
  BY RemoveIs
<1> HIDE DEF t
<1>2. \A i \in DOMAIN t : old(i) \in DOMAIN s /\ old(i) # k /\ t[i] = s[old(i)]
  <2>1. ASSUME NEW i \in 1..(Len(s) - 1)
        PROVE  old(i) \in 1..Len(s) /\ old(i) # k
    BY ONLY <1>1
  <2> QED
    BY ONLY <1>1, <2>1
<1>3. \A i, j \in DOMAIN t : i < j => old(i) < old(j)
  <2>1. ASSUME NEW i \in 1..(Len(s) - 1), NEW j \in 1..(Len(s) - 1), i < j
        PROVE  old(i) < old(j)
    <3>1. Len(s) \in Nat /\ k \in 1..Len(s)
      BY ONLY <1>1
    <3> QED
      BY ONLY <2>1, <3>1
  <2> QED
    BY ONLY <1>1, <2>1
<1>4. \A i, j \in DOMAIN t : i < j => t[i] < t[j]
  <2> HIDE DEF old
  <2> QED
    BY <1>2, <1>3
<1>5. ASSUME NEW m, Occurs(m, t) PROVE Occurs(m, s)
  <2> HIDE DEF old
  <2> QED
    BY ONLY <1>2, <1>5 DEF Occurs
<1>6. ASSUME NEW m, Occurs(m, s), m # s[k] PROVE Occurs(m, t)
  <2>1. PICK i \in 1..Len(s) : s[i] = m
    BY ONLY <1>1, <1>6 DEF Occurs
  <2>2. CASE i < k
    <3>1. i \in DOMAIN t /\ t[i] = s[i]
      BY ONLY <1>1, <2>1, <2>2, SMTT(30)
    <3> QED
      BY ONLY <2>1, <3>1 DEF Occurs
  <2>3. CASE i > k
    <3>1. i - 1 \in 1..(Len(s) - 1) /\ ~(i - 1 < k) /\ (i - 1) + 1 = i
      BY ONLY <1>1, <2>1, <2>3
    <3>2. i - 1 \in DOMAIN t /\ t[i - 1] = s[i]
      BY ONLY <1>1, <3>1
    <3> QED
      BY ONLY <2>1, <3>2 DEF Occurs
  <2> QED
    BY ONLY <1>1, <1>6, <2>1, <2>2, <2>3
<1>7. Occurs(s[k], s)
  BY DEF Occurs
<1>8. \A m : Occurs(m, s) <=> Occurs(m, t) \/ m = s[k]
  BY ONLY <1>5, <1>6, <1>7
<1> QED
  BY ONLY <1>1, <1>2, <1>4, <1>8 DEF t

\* Handing out the first message in the stash of those alike.
LEMMA TakeOrdered ==
    ASSUME NEW out \in Seq(Nat), NEW kept \in Seq(Nat), NEW messages,
           Ordered(out, kept, messages), NEW k \in DOMAIN kept,
           \A j \in DOMAIN kept : messages[kept[j]] = messages[kept[k]] => k <= j
    PROVE  Ordered(Append(out, kept[k]), RemoveAt(kept, k), messages)
<1> DEFINE t == RemoveAt(kept, k)
           o == Append(out, kept[k])
           old(i) == IF i < k THEN i ELSE i + 1
<1>0. kept[k] \in Nat /\ DOMAIN kept \subseteq Nat
  BY LenProperties, ElementOfSeq
<1>1. /\ \A i \in DOMAIN t : old(i) \in DOMAIN kept /\ old(i) # k /\ t[i] = kept[old(i)]
      /\ \A i, j \in DOMAIN t : i < j => t[i] < t[j]
  <2>1. \A i, j \in DOMAIN kept : i < j => kept[i] < kept[j]
    BY DEF Ordered
  <2> QED
    BY ONLY <2>1, kept \in Seq(Nat), k \in DOMAIN kept, RemoveKeeps
<1>2. /\ DOMAIN out = 1..Len(out) /\ Len(out) \in Nat /\ DOMAIN o = 1..(Len(out) + 1)
      /\ \A i \in DOMAIN out : o[i] = out[i]
      /\ o[Len(out) + 1] = kept[k]
  BY <1>0, AppendIs
<1>3. \A i \in DOMAIN o :
         \/ i \in DOMAIN out /\ o[i] = out[i]
         \/ i = Len(out) + 1 /\ o[i] = kept[k]
  <2> HIDE DEF o
  <2>1. \A i \in DOMAIN o : i \in DOMAIN out \/ i = Len(out) + 1
    BY ONLY <1>2, SMTT(30)
  <2> QED
    BY ONLY <1>2, <2>1
<1>d. \A i \in DOMAIN out : i # Len(out) + 1 /\ i < Len(out) + 1
  BY ONLY <1>2
<1> HIDE DEF t, o, old
<1>4. ASSUME NEW i \in DOMAIN o, NEW j \in DOMAIN o, i # j PROVE o[i] # o[j]
  BY ONLY <1>3, <1>4, k \in DOMAIN kept, Ordered(out, kept, messages) DEF Ordered
<1>5. ASSUME NEW i \in DOMAIN o, NEW j \in DOMAIN t PROVE o[i] # t[j]
  <2>1. old(j) \in DOMAIN kept /\ old(j) # k /\ t[j] = kept[old(j)]
    BY <1>1
  <2>2. kept[k] # kept[old(j)]
    <3>1. old(j) < k \/ k < old(j)
      BY ONLY <1>0, <2>1, k \in DOMAIN kept
    <3>2. kept[old(j)] < kept[k] \/ kept[k] < kept[old(j)]
      BY ONLY <2>1, <3>1, k \in DOMAIN kept, Ordered(out, kept, messages) DEF Ordered
    <3>3. kept[old(j)] \in Nat
      BY <2>1, ElementOfSeq
    <3> QED
      BY ONLY <1>0, <3>2, <3>3
  <2> QED
    BY ONLY <1>3, <2>1, <2>2, Ordered(out, kept, messages) DEF Ordered
<1>6. ASSUME NEW i \in DOMAIN o, NEW j \in DOMAIN o, i < j, messages[o[i]] = messages[o[j]]
      PROVE  o[i] < o[j]
  <2>1. i \in DOMAIN out /\ o[i] = out[i]
    BY ONLY <1>2, <1>3, <1>6
  <2>2. CASE j \in DOMAIN out /\ o[j] = out[j]
    BY ONLY <1>6, <2>1, <2>2, Ordered(out, kept, messages) DEF Ordered
  <2>3. CASE o[j] = kept[k]
    BY ONLY <1>6, <2>1, <2>3, k \in DOMAIN kept, Ordered(out, kept, messages) DEF Ordered
  <2> QED
    BY ONLY <1>3, <2>2, <2>3
<1>7. ASSUME NEW i \in DOMAIN o, NEW j \in DOMAIN t, messages[o[i]] = messages[t[j]]
      PROVE  o[i] < t[j]
  <2>1. old(j) \in DOMAIN kept /\ old(j) # k /\ t[j] = kept[old(j)]
    BY <1>1
  <2>2. CASE i \in DOMAIN out /\ o[i] = out[i]
    BY ONLY <1>7, <2>1, <2>2, Ordered(out, kept, messages) DEF Ordered
  <2>3. CASE o[i] = kept[k]
    <3>1. k <= old(j)
      BY <1>7, <2>1, <2>3
    <3>2. k < old(j)
      BY ONLY <1>0, <2>1, <3>1, k \in DOMAIN kept
    <3> QED
      BY ONLY <2>1, <2>3, <3>2, k \in DOMAIN kept, Ordered(out, kept, messages) DEF Ordered
  <2> QED
    BY ONLY <1>3, <2>2, <2>3
<1>8. Ordered(o, t, messages)
  BY ONLY <1>1, <1>4, <1>5, <1>6, <1>7 DEF Ordered
<1> QED
  BY <1>8 DEF o, t

\* Handing out a later message than any before, if none like it is kept.
LEMMA FoundOrdered ==
    ASSUME NEW out \in Seq(Nat), NEW kept \in Seq(Nat), NEW messages,
           Ordered(out, kept, messages), NEW n \in Nat,
           \A i \in DOMAIN out : out[i] < n,
           \A j \in DOMAIN kept : kept[j] < n /\ messages[kept[j]] # messages[n]
    PROVE  Ordered(Append(out, n), kept, messages)
<1> DEFINE o == Append(out, n)
<1>1. /\ DOMAIN out = 1..Len(out) /\ Len(out) \in Nat /\ DOMAIN o = 1..(Len(out) + 1)
      /\ \A i \in DOMAIN out : o[i] = out[i] /\ o[i] \in Nat
      /\ o[Len(out) + 1] = n
  <2>1. \A i \in DOMAIN out : out[i] \in Nat
    BY ElementOfSeq, LenProperties
  <2> QED
    BY <2>1, AppendIs
<1>2. \A i \in DOMAIN o :
         \/ i \in DOMAIN out /\ o[i] = out[i]
         \/ i = Len(out) + 1 /\ o[i] = n
  <2> HIDE DEF o
  <2>1. \A i \in DOMAIN o : i \in DOMAIN out \/ i = Len(out) + 1
    BY ONLY <1>1
  <2> QED
    BY ONLY <1>1, <2>1
<1>3. \A j \in DOMAIN kept : kept[j] \in Nat
  BY ElementOfSeq, LenProperties
<1> HIDE DEF o
<1>4. ASSUME NEW i \in DOMAIN o, NEW j \in DOMAIN o, i < j
      PROVE  i \in DOMAIN out /\ o[i] = out[i]
  BY ONLY <1>1, <1>2, <1>4
<1>5. ASSUME NEW i \in DOMAIN o, NEW j \in DOMAIN o, i # j PROVE o[i] # o[j]
  <2>1. CASE i \in DOMAIN out /\ o[i] = out[i] /\ j \in DOMAIN out /\ o[j] = out[j]
    BY ONLY <1>5, <2>1, Ordered(out, kept, messages) DEF Ordered
  <2>2. CASE i \in DOMAIN out /\ o[i] = out[i] /\ o[j] = n
    BY <1>1, <2>2
  <2>3. CASE j \in DOMAIN out /\ o[j] = out[j] /\ o[i] = n
    BY <1>1, <2>3
  <2> QED
    BY ONLY <1>2, <1>5, <2>1, <2>2, <2>3
<1>6. ASSUME NEW i \in DOMAIN o, NEW j \in DOMAIN kept PROVE o[i] # kept[j]
  <2>1. kept[j] < n
    OBVIOUS
  <2> QED
    BY ONLY <1>2, <1>3, <2>1, n \in Nat, Ordered(out, kept, messages) DEF Ordered
<1>7. ASSUME NEW i \in DOMAIN o, NEW j \in DOMAIN o, i < j, messages[o[i]] = messages[o[j]]
      PROVE  o[i] < o[j]
  <2>1. i \in DOMAIN out /\ o[i] = out[i]
    BY ONLY <1>4, <1>7
  <2>2. CASE j \in DOMAIN out /\ o[j] = out[j]
    BY ONLY <1>7, <2>1, <2>2, Ordered(out, kept, messages) DEF Ordered
  <2>3. CASE o[j] = n
    BY <2>1, <2>3
  <2> QED
    BY ONLY <1>2, <2>2, <2>3
<1>8. ASSUME NEW i \in DOMAIN o, NEW j \in DOMAIN kept, messages[o[i]] = messages[kept[j]]
      PROVE  o[i] < kept[j]
  <2>1. messages[kept[j]] # messages[n]
    OBVIOUS
  <2>2. i \in DOMAIN out /\ o[i] = out[i]
    BY ONLY <1>2, <1>8, <2>1
  <2> QED
    BY ONLY <1>8, <2>2, Ordered(out, kept, messages) DEF Ordered
<1>9. Ordered(o, kept, messages)
  BY ONLY <1>5, <1>6, <1>7, <1>8, Ordered(out, kept, messages) DEF Ordered
<1> QED
  BY <1>9 DEF o

\* Keeping a later message than any before.
LEMMA KeptOrdered ==
    ASSUME NEW out \in Seq(Nat), NEW kept \in Seq(Nat), NEW messages,
           Ordered(out, kept, messages), NEW n \in Nat,
           \A i \in DOMAIN out : out[i] < n,
           \A j \in DOMAIN kept : kept[j] < n
    PROVE  Ordered(out, Append(kept, n), messages)
<1> DEFINE t == Append(kept, n)
<1>1. /\ DOMAIN kept = 1..Len(kept) /\ Len(kept) \in Nat /\ DOMAIN t = 1..(Len(kept) + 1)
      /\ \A i \in DOMAIN kept : t[i] = kept[i]
      /\ t[Len(kept) + 1] = n
  BY AppendIs
<1>2. \A i \in DOMAIN t :
         \/ i \in DOMAIN kept /\ t[i] = kept[i]
         \/ i = Len(kept) + 1 /\ t[i] = n
  <2> HIDE DEF t
  <2>1. \A i \in DOMAIN t : i \in DOMAIN kept \/ i = Len(kept) + 1
    BY ONLY <1>1
  <2> QED
    BY ONLY <1>1, <2>1
<1>3. \A i \in DOMAIN out : out[i] \in Nat /\ out[i] < n
  BY ElementOfSeq, LenProperties
<1> HIDE DEF t
<1>4. ASSUME NEW i \in DOMAIN t, NEW j \in DOMAIN t, i < j PROVE t[i] < t[j]
  <2>1. i \in DOMAIN kept /\ t[i] = kept[i]
    BY ONLY <1>1, <1>2, <1>4
  <2>2. CASE j \in DOMAIN kept /\ t[j] = kept[j]
    BY ONLY <1>4, <2>1, <2>2, Ordered(out, kept, messages) DEF Ordered
  <2>3. CASE t[j] = n
    BY <2>1, <2>3
  <2> QED
    BY ONLY <1>2, <2>2, <2>3
<1>5. ASSUME NEW i \in DOMAIN out, NEW j \in DOMAIN t PROVE out[i] # t[j]
  <2>1. CASE j \in DOMAIN kept /\ t[j] = kept[j]
    BY ONLY <2>1, Ordered(out, kept, messages) DEF Ordered
  <2>2. CASE t[j] = n
    BY ONLY <1>3, <2>2, n \in Nat
  <2> QED
    BY ONLY <1>2, <2>1, <2>2
<1>6. ASSUME NEW i \in DOMAIN out, NEW j \in DOMAIN t, messages[out[i]] = messages[t[j]]
      PROVE  out[i] < t[j]
  BY ONLY <1>2, <1>3, <1>6, Ordered(out, kept, messages) DEF Ordered
<1>7. Ordered(out, t, messages)
  BY ONLY <1>4, <1>5, <1>6, Ordered(out, kept, messages) DEF Ordered
<1> QED
  BY <1>7 DEF t

\* What is sent later changes nothing of what was.
LEMMA SentOrdered ==
    ASSUME NEW out, NEW kept, NEW messages, NEW later, Ordered(out, kept, messages),
           \A i \in DOMAIN out : later[out[i]] = messages[out[i]],
           \A j \in DOMAIN kept : later[kept[j]] = messages[kept[j]]
    PROVE  Ordered(out, kept, later)
  BY DEF Ordered

-----------------------------------------------------------------------------
(* The invariant: how far the client has read, and what became of it *)

Messages == [kind : {"response", "notification", "request"}, key : Nat \cup Methods]

ClientTypes ==
    /\ nextId \in Nat /\ asked \subseteq Nat
    /\ sent \in Seq(Messages)
    /\ pipe \in Seq(Pieces) /\ unsent \in Seq(Pieces)
    /\ returned \in Seq(Nat) /\ stash \in Seq(Nat)

\* The wire goes on after the first r pieces of what was sent, to the end of it
\* unless the server closed it.
WireAt(r) ==
    /\ r + Len(pipe \o unsent) <= 6 * Len(sent)
    /\ ~closed => r + Len(pipe \o unsent) = 6 * Len(sent)
    /\ closed => unsent = <<>>
    /\ Carries(pipe \o unsent, r, Len(sent))

KnownTo(c) ==
    /\ \A i \in DOMAIN returned : returned[i] \in 1..c
    /\ \A j \in DOMAIN stash : stash[j] \in 1..c

AllKnown(c) == \A m \in 1..c : Occurs(m, returned) \/ Occurs(m, stash)

\* The client has read c frames and q pieces of the next.
ReadTo(c, q) ==
    /\ WireAt(6 * c + q) /\ ReadOk(q, read) /\ KnownTo(c)
    /\ ~torn => AtPlace(q, read) /\ AllKnown(c)

Awaited == call # NoCall => \A j \in DOMAIN stash : sent[stash[j]] # call

ClientInv ==
    /\ ClientTypes
    /\ \E c \in Nat : \E q \in 0..5 : ReadTo(c, q)
    /\ Ordered(returned, stash, sent)
    /\ Awaited

\* Nothing is sent, read or handed out at first.
LEMMA ClientStarts == InitClient => ClientInv
<1> SUFFICES ASSUME InitClient PROVE ClientInv
  OBVIOUS
<1>1. /\ nextId = 0 /\ asked = {} /\ sent = <<>> /\ unsent = <<>> /\ pipe = <<>>
      /\ closed = FALSE /\ call = NoCall /\ read = StartRead
      /\ stash = <<>> /\ returned = <<>> /\ torn = FALSE
  BY DEF InitClient
<1>2. DOMAIN <<>> = {} /\ Len(<<>>) = 0
  OBVIOUS
<1>3. <<>> \in Seq(Pieces) /\ <<>> \in Seq(Nat) /\ <<>> \in Seq(Messages)
  BY EmptySeq
<1>4. <<>> \o <<>> = <<>>
  BY <1>3, ConcatEmptySeq
<1>5. ClientTypes
  BY ONLY <1>1, <1>3 DEF ClientTypes
<1>6. Ordered(returned, stash, sent) /\ Awaited /\ KnownTo(0)
  BY ONLY <1>1, <1>2 DEF Ordered, Awaited, KnownTo
<1>7. AllKnown(0)
  BY DEF AllKnown
<1>8. WireAt(0)
  BY ONLY <1>1, <1>2, <1>4 DEF WireAt, Carries
<1>9. ReadTo(0, 0)
  <2>1. 6 * 0 + 0 = 0
    OBVIOUS
  <2> QED
    BY ONLY <1>1, <1>6, <1>7, <1>8, <2>1, StartOk DEF ReadTo
<1>10. 0 \in Nat /\ 0 \in 0..5
  OBVIOUS
<1> QED
  BY ONLY <1>5, <1>6, <1>9, <1>10 DEF ClientInv

\* What is known was sent.
LEMMA KnownSent ==
    ASSUME ClientTypes, NEW c \in Nat, NEW q \in 0..5, WireAt(6 * c + q), KnownTo(c)
    PROVE  /\ pipe \o unsent \in Seq(Pieces) /\ Len(sent) \in Nat /\ c <= Len(sent)
           /\ \A i \in DOMAIN returned : returned[i] \in 1..Len(sent) /\ returned[i] <= c
           /\ \A j \in DOMAIN stash : stash[j] \in 1..Len(sent) /\ stash[j] <= c
<1>1. pipe \o unsent \in Seq(Pieces)
  BY ConcatProperties DEF ClientTypes
<1>2. Len(pipe \o unsent) \in Nat
  BY <1>1, LenProperties
<1>3. Len(sent) \in Nat
  BY LenProperties DEF ClientTypes
<1>4. c <= Len(sent)
  BY <1>2, <1>3 DEF WireAt
<1>5. \A x \in 1..c : x \in 1..Len(sent) /\ x <= c
  BY <1>3, <1>4
<1> QED
  BY ONLY <1>1, <1>3, <1>4, <1>5, KnownTo(c) DEF KnownTo

\* Sending keeps the invariant: one more frame is at the end of the wire.
LEMMA SendKeeps ==
    ASSUME ClientInv, NEW message \in Messages, SendMessage(message),
           asked' \subseteq Nat, UNCHANGED <<pipe, closed, clientVars>>
    PROVE  ClientInv'
<1>1. /\ ~closed /\ sent' = Append(sent, message) /\ unsent' = unsent \o Frame(Len(sent'))
      /\ pipe' = pipe /\ closed' = closed /\ nextId' = nextId /\ call' = call /\ read' = read
      /\ stash' = stash /\ returned' = returned /\ torn' = torn
  BY DEF SendMessage, clientVars
<1>2. PICK c \in Nat : \E q \in 0..5 : ReadTo(c, q)
  BY DEF ClientInv
<1>3. PICK q \in 0..5 : ReadTo(c, q)
  BY <1>2
<1> DEFINE w == pipe \o unsent
           n == Len(sent)
<1>4. ClientTypes /\ WireAt(6 * c + q) /\ KnownTo(c) /\ Ordered(returned, stash, sent) /\ Awaited
  BY <1>3 DEF ClientInv, ReadTo
<1>5. /\ w \in Seq(Pieces) /\ n \in Nat
      /\ \A i \in DOMAIN returned : returned[i] \in 1..n
      /\ \A j \in DOMAIN stash : stash[j] \in 1..n
  BY <1>4, KnownSent
<1>6. /\ sent' \in Seq(Messages) /\ Len(sent') = n + 1
      /\ \A m \in 1..n : sent'[m] = sent[m]
  BY <1>1, <1>4, AppendProperties DEF ClientTypes
<1>7. n + 1 \in Nat /\ Frame(n + 1) \in Seq(Pieces)
  <2>1. n + 1 \in Nat
    BY <1>5
  <2> QED
    BY ONLY <2>1, FrameIs
<1>8. unsent' \in Seq(Pieces) /\ pipe' \o unsent' = w \o Frame(n + 1)
  <2>1. unsent' = unsent \o Frame(n + 1)
    BY <1>1, <1>6
  <2>2. pipe \in Seq(Pieces) /\ unsent \in Seq(Pieces)
    BY <1>4 DEF ClientTypes
  <2>3. unsent \o Frame(n + 1) \in Seq(Pieces)
    BY ONLY <1>7, <2>2, ConcatProperties
  <2>4. pipe \o (unsent \o Frame(n + 1)) = (pipe \o unsent) \o Frame(n + 1)
    BY ONLY <1>7, <2>2, ConcatAssociative
  <2> QED
    BY ONLY <1>1, <2>1, <2>3, <2>4
<1>9. 6 * c + q \in Nat /\ 6 * c + q + Len(w) = 6 * n /\ Carries(w, 6 * c + q, n)
  BY <1>1, <1>4 DEF WireAt
<1>10. /\ 6 * c + q + Len(w \o Frame(n + 1)) = 6 * (n + 1)
       /\ Carries(w \o Frame(n + 1), 6 * c + q, n + 1)
  <2> HIDE DEF w, n
  <2> QED
    BY ONLY <1>5, <1>9, CarriesMore
<1>11. WireAt(6 * c + q)'
  <2> HIDE DEF w, n
  <2>1. /\ 6 * c + q + Len(pipe' \o unsent') = 6 * Len(sent')
        /\ Carries(pipe' \o unsent', 6 * c + q, Len(sent'))
    BY ONLY <1>6, <1>8, <1>10
  <2>2. 6 * Len(sent') <= 6 * Len(sent')
    BY ONLY <1>5, <1>6
  <2> QED
    BY ONLY <1>1, <2>1, <2>2 DEF WireAt
<1>12. ReadTo(c, q)'
  BY <1>1, <1>3, <1>11 DEF ReadTo, KnownTo, AllKnown
<1>13. ClientTypes'
  BY <1>1, <1>4, <1>6, <1>8 DEF ClientTypes
<1>14. Ordered(returned, stash, sent)'
  BY <1>1, <1>4, <1>5, <1>6, SentOrdered
<1>15. Awaited'
  BY <1>1, <1>4, <1>5, <1>6 DEF Awaited
<1> QED
  BY <1>12, <1>13, <1>14, <1>15 DEF ClientInv

\* A piece that arrives stays on the wire.
LEMMA TransmitKeeps == ClientInv /\ Transmit => ClientInv'
<1> SUFFICES ASSUME ClientInv, Transmit PROVE ClientInv'
  OBVIOUS
<1>1. /\ unsent # <<>> /\ pipe' = Append(pipe, Head(unsent)) /\ unsent' = Tail(unsent)
      /\ asked' = asked /\ sent' = sent /\ closed' = closed
      /\ nextId' = nextId /\ call' = call /\ read' = read
      /\ stash' = stash /\ returned' = returned /\ torn' = torn
  BY DEF Transmit, clientVars
<1>2. ClientTypes
  BY DEF ClientInv
<1>3. pipe' \in Seq(Pieces) /\ unsent' \in Seq(Pieces)
  <2>1. unsent \in Seq(Pieces) /\ pipe \in Seq(Pieces)
    BY <1>2 DEF ClientTypes
  <2>2. Head(unsent) \in Pieces /\ Tail(unsent) \in Seq(Pieces)
    BY ONLY <1>1, <2>1, HeadTailProperties
  <2> QED
    BY ONLY <1>1, <2>1, <2>2, AppendProperties
<1>4. pipe' \o unsent' = pipe \o unsent
  <2>1. unsent \in Seq(Pieces) /\ pipe \in Seq(Pieces)
    BY <1>2 DEF ClientTypes
  <2> QED
    BY ONLY <1>1, <2>1, TwoParts
<1>5. \A r : WireAt(r) => WireAt(r)'
  <2>1. ~closed
    <3>1. ASSUME closed PROVE unsent = <<>>
      BY <3>1 DEF ClientInv, ReadTo, WireAt
    <3> QED
      BY <1>1, <3>1
  <2> QED
    BY ONLY <1>1, <1>4, <2>1 DEF WireAt
<1>6. \A c, q : ReadTo(c, q) => ReadTo(c, q)'
  BY ONLY <1>1, <1>5 DEF ReadTo, KnownTo, AllKnown
<1>7. ClientTypes'
  BY ONLY <1>1, <1>2, <1>3 DEF ClientTypes
<1> QED
  BY ONLY <1>1, <1>6, <1>7, ClientInv DEF ClientInv, Awaited

\* Closing leaves what arrived on the wire.
LEMMA CloseKeeps == ClientInv /\ CloseServer => ClientInv'
<1> SUFFICES ASSUME ClientInv, CloseServer PROVE ClientInv'
  OBVIOUS
<1>1. /\ closed' = TRUE /\ unsent' = <<>> /\ pipe' = pipe
      /\ asked' = asked /\ sent' = sent
      /\ nextId' = nextId /\ call' = call /\ read' = read
      /\ stash' = stash /\ returned' = returned /\ torn' = torn
  BY DEF CloseServer, clientVars
<1>2. ClientTypes /\ pipe \in Seq(Pieces) /\ unsent \in Seq(Pieces) /\ Len(sent) \in Nat
  BY LenProperties DEF ClientInv, ClientTypes
<1>3. pipe' \o unsent' = pipe
  BY ONLY <1>1, <1>2, TwoParts
<1>4. ASSUME NEW r \in Nat, WireAt(r) PROVE WireAt(r)'
  <2>1. Carries(pipe, r, Len(sent)) /\ Len(pipe) <= Len(pipe \o unsent)
    <3>1. Carries(pipe \o unsent, r, Len(sent))
      BY ONLY <1>4 DEF WireAt
    <3> QED
      BY ONLY <1>2, <3>1, r \in Nat, CarriesLess
  <2>2. Len(pipe) \in Nat /\ Len(pipe \o unsent) \in Nat
    BY ONLY <1>2, LenProperties, ConcatProperties
  <2>3. r + Len(pipe) <= 6 * Len(sent)
    <3>1. r + Len(pipe \o unsent) <= 6 * Len(sent)
      BY ONLY <1>4 DEF WireAt
    <3> QED
      BY ONLY <1>2, <2>1, <2>2, <3>1, r \in Nat
  <2> QED
    BY ONLY <1>1, <1>3, <2>1, <2>3 DEF WireAt
<1>5. ASSUME NEW c \in Nat, NEW q \in 0..5, ReadTo(c, q) PROVE ReadTo(c, q)'
  <2>1. WireAt(6 * c + q)'
    <3>1. 6 * c + q \in Nat
      OBVIOUS
    <3> QED
      BY ONLY <1>4, <1>5, <3>1 DEF ReadTo
  <2> QED
    BY ONLY <1>1, <1>5, <2>1 DEF ReadTo, KnownTo, AllKnown
<1>6. ClientTypes'
  BY ONLY <1>1, <1>2, EmptySeq DEF ClientTypes
<1> QED
  BY ONLY <1>1, <1>5, <1>6, ClientInv DEF ClientInv, Awaited

\* Neither asking something, nor beginning to wait for it when the stash has
\* nothing like it, nor giving up, changes what was read.
LEMMA StartKeeps == ClientInv /\ StartRequest => ClientInv'
<1> SUFFICES ASSUME ClientInv, StartRequest PROVE ClientInv'
  OBVIOUS
<1>1. /\ nextId' = nextId + 1 /\ asked' = asked \cup {nextId'}
      /\ sent' = sent /\ unsent' = unsent /\ closed' = closed /\ pipe' = pipe
      /\ call' = call /\ read' = read
      /\ stash' = stash /\ returned' = returned /\ torn' = torn
  BY DEF StartRequest
<1>2. ClientTypes'
  BY <1>1 DEF ClientInv, ClientTypes
<1>3. \A c, q : ReadTo(c, q) => ReadTo(c, q)'
  BY ONLY <1>1 DEF ReadTo, KnownTo, AllKnown, WireAt
<1> QED
  BY ONLY <1>1, <1>2, <1>3, ClientInv DEF ClientInv, Awaited

\* What begins to wait finds nothing like it in the stash.
LEMMA BeginKeeps == \A want : ClientInv /\ BeginReading(want) => ClientInv'
<1> SUFFICES ASSUME ClientInv, NEW want, BeginReading(want) PROVE ClientInv'
  OBVIOUS
<1>1. /\ ~HasStashed(want) /\ call' = want
      /\ nextId' = nextId /\ asked' = asked
      /\ sent' = sent /\ unsent' = unsent /\ closed' = closed /\ pipe' = pipe
      /\ read' = read /\ stash' = stash /\ returned' = returned /\ torn' = torn
  BY DEF BeginReading, serverVars
<1>2. ClientTypes'
  BY <1>1 DEF ClientInv, ClientTypes
<1>3. \A c, q : ReadTo(c, q) => ReadTo(c, q)'
  BY ONLY <1>1 DEF ReadTo, KnownTo, AllKnown, WireAt
<1>4. Awaited'
  BY ONLY <1>1 DEF Awaited, HasStashed, MatchesWant
<1> QED
  BY ONLY <1>1, <1>2, <1>3, <1>4, ClientInv DEF ClientInv

\* A read given up starts anew wherever it was: at the start of a frame, or in
\* a frame torn.
LEMMA GiveUpKeeps == ClientInv /\ GiveUp => ClientInv'
<1> SUFFICES ASSUME ClientInv, GiveUp PROVE ClientInv'
  OBVIOUS
<1>1. /\ call' = NoCall /\ read' = StartRead /\ torn' = (torn \/ read.begun)
      /\ nextId' = nextId /\ asked' = asked
      /\ sent' = sent /\ unsent' = unsent /\ closed' = closed /\ pipe' = pipe
      /\ stash' = stash /\ returned' = returned
  BY DEF GiveUp, serverVars
<1>2. ClientTypes'
  BY <1>1 DEF ClientInv, ClientTypes
<1>3. ASSUME NEW c, NEW q \in 0..5, ReadTo(c, q) PROVE ReadTo(c, q)'
  <2>1. WireAt(6 * c + q)' /\ KnownTo(c)' /\ (AllKnown(c) => AllKnown(c)')
    BY ONLY <1>1, <1>3 DEF ReadTo, KnownTo, AllKnown, WireAt
  <2>2. ReadOk(q, read)'
    BY ONLY <1>1, StartOk DEF ReadOk
  <2>3. ASSUME ~torn' PROVE AtPlace(q, read)' /\ AllKnown(c)'
    <3>1. ~torn /\ ~read.begun /\ AtPlace(q, read) /\ AllKnown(c)
      BY ONLY <1>1, <1>3, <2>3 DEF ReadTo
    <3>2. q = 0
      BY ONLY <3>1 DEF AtPlace
    <3>3. AtPlace(q, read)'
      BY ONLY <1>1, <3>2, StartOk DEF AtPlace
    <3> QED
      BY ONLY <2>1, <3>1, <3>3
  <2> QED
    BY ONLY <2>1, <2>2, <2>3 DEF ReadTo
<1>4. Awaited'
  BY ONLY <1>1 DEF Awaited
<1> QED
  BY ONLY <1>1, <1>2, <1>3, <1>4, ClientInv DEF ClientInv

\* A set of naturals that is not empty has a least element.
LEMMA LeastOf ==
    ASSUME NEW T \in SUBSET Nat, T # {}
    PROVE  Min(T) \in T /\ \A y \in T : Min(T) <= y
<1> DEFINE R == OpToRel(<, Nat)
<1>1. IsWellFoundedOn(R, Nat)
  BY NatLessThanWellFounded
<1>2. \A x, y \in Nat : y < x => <<y, x>> \in R
  BY DEF OpToRel
<1> HIDE DEF R
<1>3. PICK x \in T : \A y \in T : ~(<<y, x>> \in R)
  BY <1>1, WFMin
<1>4. ASSUME NEW y \in T PROVE x <= y
  <2>1. x \in Nat /\ y \in Nat
    BY <1>3
  <2>2. ~(y < x)
    BY <1>2, <1>3, <2>1
  <2> QED
    BY <2>1, <2>2
<1> QED
  BY <1>4 DEF Min

\* The first like it in the stash is handed out.
LEMMA TakeKeeps == \A want : ClientInv /\ TakeStashed(want) => ClientInv'
<1> SUFFICES ASSUME ClientInv, NEW want, TakeStashed(want) PROVE ClientInv'
  OBVIOUS
<1> DEFINE k == StashedMatch(want)
<1>1. /\ call = NoCall /\ HasStashed(want)
      /\ returned' = Append(returned, stash[k]) /\ stash' = RemoveAt(stash, k)
      /\ nextId' = nextId /\ asked' = asked
      /\ sent' = sent /\ unsent' = unsent /\ closed' = closed /\ pipe' = pipe
      /\ read' = read /\ call' = call /\ torn' = torn
  BY DEF TakeStashed, serverVars
<1>2. ClientTypes /\ returned \in Seq(Nat) /\ stash \in Seq(Nat)
      /\ Ordered(returned, stash, sent)
  BY DEF ClientInv, ClientTypes
<1>3. /\ k \in DOMAIN stash /\ sent[stash[k]] = want
      /\ \A j \in DOMAIN stash : sent[stash[j]] = want => k <= j
  <2> DEFINE T == {i \in DOMAIN stash : MatchesWant(stash[i], want)}
  <2>1. T \in SUBSET Nat
    BY <1>2, LenProperties
  <2>2. T # {}
    BY <1>1 DEF HasStashed
  <2>3. Min(T) \in T /\ \A y \in T : Min(T) <= y
    BY ONLY <2>1, <2>2, LeastOf
  <2>4. k = Min(T)
    BY DEF StashedMatch
  <2> QED
    BY ONLY <2>3, <2>4 DEF MatchesWant
<1> HIDE DEF k
<1>4. stash[k] \in Nat
  BY ONLY <1>2, <1>3, ElementOfSeq, LenProperties
<1>5. /\ stash' \in Seq(Nat)
      /\ \A m : Occurs(m, stash) <=> Occurs(m, stash') \/ m = stash[k]
  <2>1. \A i, j \in DOMAIN stash : i < j => stash[i] < stash[j]
    BY ONLY <1>2 DEF Ordered
  <2> QED
    BY ONLY <1>1, <1>2, <1>3, <2>1, RemoveKeeps
<1>6. /\ returned' \in Seq(Nat)
      /\ \A m : Occurs(m, returned') <=> Occurs(m, returned) \/ m = stash[k]
  BY ONLY <1>1, <1>2, <1>4, AppendIs
<1>7. Ordered(returned', stash', sent')
  <2>1. \A j \in DOMAIN stash : sent[stash[j]] = sent[stash[k]] => k <= j
    BY ONLY <1>3
  <2>2. Ordered(Append(returned, stash[k]), RemoveAt(stash, k), sent)
    BY ONLY <1>2, <1>3, <2>1, TakeOrdered
  <2> QED
    BY ONLY <1>1, <2>2
<1>8. ASSUME NEW c, KnownTo(c) PROVE KnownTo(c)'
  <2>1. \A m : Occurs(m, returned') \/ Occurs(m, stash') => Occurs(m, returned) \/ Occurs(m, stash)
    BY ONLY <1>5, <1>6
  <2> QED
    BY ONLY <1>8, <2>1 DEF KnownTo, Occurs
<1>9. ASSUME NEW c, AllKnown(c) PROVE AllKnown(c)'
  BY ONLY <1>5, <1>6, <1>9 DEF AllKnown
<1>10. \A c, q : ReadTo(c, q) => ReadTo(c, q)'
  BY ONLY <1>1, <1>8, <1>9 DEF ReadTo, WireAt
<1>11. ClientTypes'
  BY ONLY <1>1, <1>2, <1>5, <1>6 DEF ClientTypes
<1>12. Awaited'
  BY ONLY <1>1 DEF Awaited
<1> QED
  BY ONLY <1>7, <1>10, <1>11, <1>12, ClientInv DEF ClientInv

\* A read takes the next piece off the wire, and the message its last piece
\* makes is the next of those sent, later than all that is known.
LEMMA ReadKeeps == ClientInv /\ ReadNext => ClientInv'
<1> SUFFICES ASSUME ClientInv, ReadNext PROVE ClientInv'
  OBVIOUS
<1> DEFINE after == ReadPiece(read, Head(pipe))
           n == Head(pipe).of
           found == after.result = "message" /\ MatchesWant(n, call)
<1>1. /\ call # NoCall /\ pipe # <<>> /\ pipe' = Tail(pipe)
      /\ read' = IF after.result = "none" THEN after ELSE StartRead
      /\ returned' = IF found THEN Append(returned, n) ELSE returned
      /\ stash' = IF after.result = "message" /\ ~found THEN Append(stash, n) ELSE stash
      /\ call' = IF found \/ after.result = "error" THEN NoCall ELSE call
      /\ nextId' = nextId /\ asked' = asked /\ torn' = torn
      /\ sent' = sent /\ unsent' = unsent /\ closed' = closed
  BY DEF ReadNext, serverVars, Unmatched
<1>2. PICK c \in Nat : \E q \in 0..5 : ReadTo(c, q)
  BY DEF ClientInv
<1>3. PICK q \in 0..5 : ReadTo(c, q)
  BY <1>2
<1>4. /\ ClientTypes /\ Ordered(returned, stash, sent) /\ Awaited
      /\ returned \in Seq(Nat) /\ stash \in Seq(Nat)
      /\ pipe \in Seq(Pieces) /\ unsent \in Seq(Pieces)
  BY DEF ClientInv, ClientTypes
<1>5. WireAt(6 * c + q) /\ ReadOk(q, read) /\ KnownTo(c)
      /\ (~torn => AtPlace(q, read) /\ AllKnown(c))
  BY <1>3 DEF ReadTo
<1>6. /\ pipe \o unsent \in Seq(Pieces) /\ Len(sent) \in Nat
      /\ \A i \in DOMAIN returned : returned[i] \in 1..Len(sent) /\ returned[i] <= c
      /\ \A j \in DOMAIN stash : stash[j] \in 1..Len(sent) /\ stash[j] <= c
  BY <1>4, <1>5, KnownSent
<1> DEFINE w == pipe \o unsent
<1>7. w # <<>> /\ Head(w) = Head(pipe) /\ pipe' \o unsent' = Tail(w)
  <2>1. w # <<>> /\ Head(w) = Head(pipe) /\ Tail(w) = Tail(pipe) \o unsent
    BY ONLY <1>1, <1>4, TwoParts, ZenonT(30)
  <2> QED
    BY ONLY <1>1, <2>1
<1>8. /\ Tail(w) \in Seq(Pieces) /\ Len(Tail(w)) + 1 = Len(w)
      /\ c + 1 \in 1..Len(sent)
      /\ Head(w) = [of |-> c + 1, part |-> Parts[q + 1]]
      /\ Carries(Tail(w), 6 * c + q + 1, Len(sent))
  <2> HIDE DEF w
  <2>1. 6 * c + q + Len(w) <= 6 * Len(sent) /\ Carries(w, 6 * c + q, Len(sent))
    BY <1>5 DEF WireAt, w
  <2>2. w \in Seq(Pieces)
    BY <1>6 DEF w
  <2> QED
    BY ONLY <1>6, <1>7, <2>1, <2>2, c \in Nat, q \in 0..5, CarriesTail
<1>9. n = c + 1 /\ n \in Nat /\ Head(pipe).part = Parts[q + 1]
  BY <1>7, <1>8, SMTT(30)
<1> DEFINE c2 == IF q = 5 THEN c + 1 ELSE c
           q2 == NextPlace(q)
<1>10. c2 \in Nat /\ q2 \in 0..5 /\ 6 * c2 + q2 = 6 * c + q + 1 /\ c <= c2
  BY DEF NextPlace
<1>11. /\ after \in Reads
       /\ after.result = "none" => ReadOk(q2, after)
       /\ after.result = "message" => q = 5
       /\ ~torn => /\ q < 5 => AtPlace(q + 1, after) /\ after.result = "none"
                   /\ q = 5 => after.result = "message"
  <2>1. /\ after \in Reads
        /\ after.result = "none" => ReadOk(q2, after)
        /\ after.result = "message" => q = 5
    BY ONLY <1>5, <1>9, q \in 0..5, ReadStep
  <2>2. ASSUME ~torn
        PROVE  /\ q < 5 => AtPlace(q + 1, after)
               /\ q = 5 => after.result = "message"
    BY ONLY <1>5, <1>9, <2>2, q \in 0..5, ReadFrame, SMTT(30)
  <2>3. AtPlace(q + 1, after) => after.result = "none"
    BY DEF AtPlace
  <2> HIDE DEF after
  <2> QED
    BY ONLY <2>1, <2>2, <2>3
<1> HIDE DEF after, n, w, c2, q2
<1>12. WireAt(6 * c2 + q2)'
  <2>1. /\ 6 * c + q + Len(w) <= 6 * Len(sent)
        /\ ~closed => 6 * c + q + Len(w) = 6 * Len(sent)
        /\ closed => unsent = <<>>
    BY <1>5 DEF WireAt, w
  <2>2. Len(w) \in Nat /\ Len(Tail(w)) \in Nat
    BY <1>6, <1>8, LenProperties DEF w
  <2>3. /\ 6 * c + q + 1 + Len(Tail(w)) <= 6 * Len(sent)
        /\ ~closed => 6 * c + q + 1 + Len(Tail(w)) = 6 * Len(sent)
    <3>1. 6 * c + q + 1 + Len(Tail(w)) = 6 * c + q + Len(w)
      BY ONLY <1>8, <2>2, c \in Nat, q \in 0..5
    <3> QED
      BY ONLY <2>1, <3>1
  <2> QED
    BY ONLY <1>1, <1>7, <1>8, <1>10, <2>1, <2>3 DEF WireAt
<1>13. \A i \in DOMAIN returned : returned[i] \in 1..c /\ returned[i] \in 1..c2
                                  /\ returned[i] < n
  BY <1>5, <1>9, <1>10 DEF KnownTo
<1>14. \A j \in DOMAIN stash : stash[j] \in 1..c /\ stash[j] \in 1..c2 /\ stash[j] < n
  BY <1>5, <1>9, <1>10 DEF KnownTo
<1>15. CASE after.result = "none"
  <2>1. read' = after /\ returned' = returned /\ stash' = stash /\ call' = call
    BY ONLY <1>1, <1>15
  <2>2. ReadOk(q2, read)' /\ KnownTo(c2)'
    <3>1. ReadOk(q2, read)'
      BY ONLY <1>11, <1>15, <2>1 DEF ReadOk, q2
    <3> QED
      BY ONLY <1>13, <1>14, <2>1, <3>1 DEF KnownTo
  <2>3. ASSUME ~torn' PROVE AtPlace(q2, read)' /\ AllKnown(c2)'
    <3>1. ~torn /\ q < 5
      BY ONLY <1>1, <1>11, <1>15, <2>3, q \in 0..5
    <3>2. q2 = q + 1 /\ c2 = c
      BY ONLY <3>1, q \in 0..5 DEF q2, c2, NextPlace
    <3>3. AllKnown(c)'
      BY ONLY <1>5, <2>1, <3>1 DEF AllKnown
    <3>4. AtPlace(q + 1, read)'
      BY ONLY <1>11, <2>1, <3>1 DEF AtPlace
    <3> QED
      BY ONLY <3>2, <3>3, <3>4
  <2>4. ReadTo(c2, q2)'
    BY ONLY <1>12, <2>2, <2>3 DEF ReadTo
  <2>5. ClientTypes' /\ Ordered(returned, stash, sent)' /\ Awaited'
    <3>1. pipe' \in Seq(Pieces)
      BY ONLY <1>1, <1>4, HeadTailProperties
    <3> QED
      BY ONLY <1>1, <1>4, <2>1, <3>1 DEF ClientTypes, Awaited
  <2> QED
    BY ONLY <1>10, <2>4, <2>5 DEF ClientInv
<1>16. CASE after.result = "error"
  <2>1. read' = StartRead /\ returned' = returned /\ stash' = stash /\ call' = NoCall
    BY ONLY <1>1, <1>16
  <2>2. ReadOk(q2, read)' /\ KnownTo(c2)'
    <3>1. ReadOk(q2, read)'
      BY ONLY <2>1, StartOk DEF ReadOk
    <3> QED
      BY ONLY <1>13, <1>14, <2>1, <3>1 DEF KnownTo
  <2>3. torn'
    BY ONLY <1>1, <1>11, <1>16, q \in 0..5
  <2>4. ReadTo(c2, q2)'
    BY ONLY <1>12, <2>2, <2>3 DEF ReadTo
  <2>5. ClientTypes' /\ Ordered(returned, stash, sent)' /\ Awaited'
    <3>1. pipe' \in Seq(Pieces)
      BY ONLY <1>1, <1>4, HeadTailProperties
    <3> QED
      BY ONLY <1>1, <1>4, <2>1, <3>1 DEF ClientTypes, Awaited
  <2> QED
    BY ONLY <1>10, <2>4, <2>5 DEF ClientInv
<1>17. CASE after.result = "message"
  <2>1. q = 5 /\ c2 = c + 1 /\ q2 = 0 /\ n = c2
    BY ONLY <1>9, <1>11, <1>17 DEF c2, q2, NextPlace
  <2>2. read' = StartRead
    BY ONLY <1>1, <1>17
  <2>3. /\ returned' \in Seq(Nat) /\ stash' \in Seq(Nat)
        /\ Ordered(returned', stash', sent') /\ Awaited'
        /\ \A m : Occurs(m, returned') \/ Occurs(m, stash')
                  <=> Occurs(m, returned) \/ Occurs(m, stash) \/ m = n
    <3>1. CASE found
      <4>1. returned' = Append(returned, n) /\ stash' = stash /\ call' = NoCall
        BY ONLY <1>1, <3>1
      <4>2. /\ returned' \in Seq(Nat)
            /\ \A m : Occurs(m, returned') <=> Occurs(m, returned) \/ m = n
        BY ONLY <1>4, <1>9, <4>1, AppendIs
      <4>3. \A j \in DOMAIN stash : sent[stash[j]] # sent[n]
        BY ONLY <1>1, <1>4, <3>1 DEF Awaited, MatchesWant
      <4>4. Ordered(Append(returned, n), stash, sent)
        BY ONLY <1>4, <1>9, <1>13, <1>14, <4>3, FoundOrdered
      <4> QED
        BY ONLY <1>1, <1>4, <4>1, <4>2, <4>4 DEF Awaited
    <3>2. CASE ~found
      <4>1. returned' = returned /\ stash' = Append(stash, n) /\ call' = call
        BY ONLY <1>1, <1>17, <3>2
      <4>2. /\ stash' \in Seq(Nat)
            /\ \A m : Occurs(m, stash') <=> Occurs(m, stash) \/ m = n
            /\ \A j \in DOMAIN stash' : Occurs(stash'[j], stash')
        <5>1. \A j \in DOMAIN stash' : Occurs(stash'[j], stash')
          BY DEF Occurs
        <5> QED
          BY ONLY <1>4, <1>9, <4>1, <5>1, AppendIs
      <4>3. Ordered(returned, Append(stash, n), sent)
        BY ONLY <1>4, <1>9, <1>13, <1>14, KeptOrdered
      <4>4. Awaited'
        <5>1. sent[n] # call
          BY ONLY <1>17, <3>2 DEF MatchesWant
        <5> QED
          <6>1. \A j \in DOMAIN stash : sent[stash[j]] # call
            BY ONLY <1>1, <1>4 DEF Awaited
          <6>2. \A m : Occurs(m, stash) => sent[m] # call
            BY ONLY <6>1 DEF Occurs
          <6>3. \A j \in DOMAIN stash' : sent[stash'[j]] # call
            BY ONLY <4>2, <5>1, <6>2
          <6> QED
            BY ONLY <1>1, <4>1, <6>3 DEF Awaited
      <4> QED
        BY ONLY <1>1, <1>4, <4>1, <4>2, <4>3, <4>4
    <3> QED
      BY ONLY <3>1, <3>2
  <2>4. KnownTo(c2)'
    <3>1. n \in 1..c2
      BY ONLY <1>9, <1>10, <2>1
    <3>2. \A m : Occurs(m, returned) \/ Occurs(m, stash) => m \in 1..c2
      BY ONLY <1>13, <1>14 DEF Occurs
    <3>3. \A m : Occurs(m, returned') \/ Occurs(m, stash') => m \in 1..c2
      BY ONLY <2>3, <3>1, <3>2
    <3> QED
      BY ONLY <3>3 DEF KnownTo, Occurs
  <2>5. ASSUME ~torn' PROVE AtPlace(q2, read)' /\ AllKnown(c2)'
    <3>1. AllKnown(c)
      BY ONLY <1>1, <1>5, <2>5
    <3>2. \A m \in 1..c2 : m \in 1..c \/ m = n
      BY ONLY <1>9, <2>1, c \in Nat
    <3>3. AllKnown(c2)'
      BY ONLY <2>3, <3>1, <3>2 DEF AllKnown
    <3>4. AtPlace(q2, read)'
      BY ONLY <2>1, <2>2, StartOk DEF AtPlace
    <3> QED
      BY ONLY <3>3, <3>4
  <2>6. ReadOk(q2, read)'
    BY ONLY <2>2, StartOk DEF ReadOk
  <2>7. ReadTo(c2, q2)'
    BY ONLY <1>12, <2>4, <2>5, <2>6 DEF ReadTo
  <2>8. ClientTypes'
    <3>1. pipe' \in Seq(Pieces)
      BY ONLY <1>1, <1>4, HeadTailProperties
    <3> QED
      BY ONLY <1>1, <1>4, <2>3, <3>1 DEF ClientTypes
  <2> QED
    BY ONLY <1>10, <2>3, <2>7, <2>8 DEF ClientInv
<1>18. after.result \in {"none", "message", "error"}
  BY ONLY <1>11 DEF Reads
<1> QED
  BY ONLY <1>15, <1>16, <1>17, <1>18

\* Every step keeps the invariant.
LEMMA ClientInvInductive == ClientInv /\ [ClientNext]_clientAndServer => ClientInv'
<1> SUFFICES ASSUME ClientInv, [ClientNext]_clientAndServer PROVE ClientInv'
  OBVIOUS
<1>1. ASSUME NEW id \in asked, Answer(id) PROVE ClientInv'
  <2>1. /\ SendMessage([kind |-> "response", key |-> id])
        /\ asked' = asked \ {id} /\ UNCHANGED <<pipe, closed, clientVars>>
    BY ONLY <1>1 DEF Answer
  <2>2. [kind |-> "response", key |-> id] \in Messages /\ asked' \subseteq Nat
    BY <2>1 DEF Messages, ClientInv, ClientTypes
  <2> QED
    BY <2>1, <2>2, SendKeeps
<1>2. ASSUME NEW kind \in {"notification", "request"}, NEW method \in Methods,
             SendOwn(kind, method)
      PROVE  ClientInv'
  <2>1. /\ SendMessage([kind |-> kind, key |-> method])
        /\ asked' = asked /\ UNCHANGED <<pipe, closed, clientVars>>
    BY ONLY <1>2 DEF SendOwn
  <2>2. [kind |-> kind, key |-> method] \in Messages /\ asked' \subseteq Nat
    BY <2>1 DEF Messages, ClientInv, ClientTypes
  <2> QED
    BY <2>1, <2>2, SendKeeps
<1>3. CASE Transmit
  BY <1>3, TransmitKeeps
<1>4. CASE CloseServer
  BY <1>4, CloseKeeps
<1>5. CASE StartRequest
  BY <1>5, StartKeeps
<1>6. ASSUME NEW want \in Wants, TakeStashed(want) PROVE ClientInv'
  BY <1>6, TakeKeeps
<1>7. ASSUME NEW want \in Wants, BeginReading(want) PROVE ClientInv'
  BY <1>7, BeginKeeps
<1>8. CASE ReadNext
  BY <1>8, ReadKeeps
<1>9. CASE ReadTimesOut \/ ReadAtEof
  BY <1>9, GiveUpKeeps DEF ReadTimesOut, ReadAtEof
<1>10. CASE UNCHANGED clientAndServer
  <2>1. /\ nextId' = nextId /\ asked' = asked /\ sent' = sent /\ unsent' = unsent
        /\ closed' = closed /\ pipe' = pipe /\ call' = call /\ read' = read
        /\ stash' = stash /\ returned' = returned /\ torn' = torn
    BY ONLY <1>10 DEF clientAndServer, serverVars, clientVars
  <2>2. \A c, q : ReadTo(c, q) => ReadTo(c, q)'
    BY ONLY <2>1 DEF ReadTo, KnownTo, AllKnown, WireAt
  <2> QED
    BY ONLY <2>1, <2>2, ClientInv DEF ClientInv, ClientTypes, Awaited
<1> QED
  BY <1>1, <1>2, <1>3, <1>4, <1>5, <1>6, <1>7, <1>8, <1>9, <1>10 DEF ClientNext

\* In every reachable state.
LEMMA ClientInvHolds == ClientSpec => []ClientInv
<1> QED
  BY ClientStarts, ClientInvInductive, PTL DEF ClientSpec

-----------------------------------------------------------------------------
(* What the invariant says to a test *)

\* What is alike is handed out in the order sent, and before a frame is torn
\* nothing like it is passed over.
LEMMA InvOldestFirst == ClientInv => OldestFirst
<1> SUFFICES ASSUME ClientInv PROVE OldestFirst
  OBVIOUS
<1>1. PICK c \in Nat : \E q \in 0..5 : ReadTo(c, q)
  BY DEF ClientInv
<1>2. PICK q \in 0..5 : ReadTo(c, q)
  BY <1>1
<1>3. /\ ClientTypes /\ WireAt(6 * c + q) /\ KnownTo(c) /\ Ordered(returned, stash, sent)
      /\ ~torn => AllKnown(c)
  BY <1>2 DEF ClientInv, ReadTo
<1>4. /\ Len(sent) \in Nat
      /\ \A i \in DOMAIN returned : returned[i] \in 1..Len(sent) /\ returned[i] <= c
      /\ \A j \in DOMAIN stash : stash[j] \in 1..Len(sent) /\ stash[j] <= c
  BY <1>3, KnownSent
<1>5. DOMAIN returned = 1..Len(returned) /\ Len(returned) \in Nat
      /\ DOMAIN sent = 1..Len(sent)
  BY <1>3, LenProperties DEF ClientTypes
<1>6. ASSUME NEW i \in DOMAIN returned
      PROVE  LET alike == {n \in DOMAIN sent : sent[n] = sent[returned[i]]}
                 before == {returned[j] : j \in 1..(i - 1)} \cap alike
             IN /\ \A n \in before : n < returned[i]
                /\ ~torn => before = {n \in alike : n < returned[i]}
  <2> DEFINE alike == {n \in DOMAIN sent : sent[n] = sent[returned[i]]}
             before == {returned[j] : j \in 1..(i - 1)} \cap alike
  <2>1. ASSUME NEW n \in before PROVE n < returned[i]
    <3>1. PICK j \in 1..(i - 1) : n = returned[j]
      OBVIOUS
    <3>2. j \in DOMAIN returned /\ j < i /\ sent[returned[j]] = sent[returned[i]]
      BY <1>5, <3>1
    <3> QED
      BY ONLY <1>3, <1>6, <3>1, <3>2 DEF Ordered
  <2>2. ASSUME ~torn, NEW n \in alike, n < returned[i] PROVE n \in before
    <3>1. n \in 1..c
      BY ONLY <1>1, <1>4, <1>5, <1>6, <2>2, n \in DOMAIN sent
    <3>2. Occurs(n, returned) \/ Occurs(n, stash)
      BY ONLY <1>3, <2>2, <3>1 DEF AllKnown
    <3>3. sent[n] = sent[returned[i]] /\ n \in DOMAIN sent
      OBVIOUS
    <3>4. ~Occurs(n, stash)
      <4> SUFFICES ASSUME NEW j \in DOMAIN stash, stash[j] = n PROVE FALSE
        BY DEF Occurs
      <4>1. returned[i] < stash[j]
        BY ONLY <1>3, <1>6, <3>3, stash[j] = n, j \in DOMAIN stash DEF Ordered
      <4> QED
        BY ONLY <1>4, <1>6, <2>2, <3>1, <4>1, stash[j] = n, c \in Nat
    <3>5. PICK j \in DOMAIN returned : returned[j] = n
      BY ONLY <3>2, <3>4 DEF Occurs
    <3>6. j \in 1..(i - 1)
      <4>1. ~(i < j)
        <5> SUFFICES ASSUME i < j PROVE FALSE
          OBVIOUS
        <5>1. returned[i] < returned[j]
          BY ONLY <1>3, <1>6, <3>3, <3>5, i < j DEF Ordered
        <5> QED
          BY ONLY <1>4, <1>6, <2>2, <3>1, <3>5, <5>1, c \in Nat
      <4>2. i # j
        BY ONLY <1>4, <1>6, <2>2, <3>5
      <4> QED
        BY ONLY <1>5, <1>6, <3>5, <4>1, <4>2
    <3> QED
      BY <3>3, <3>5, <3>6
  <2>3. ~torn => before = {n \in alike : n < returned[i]}
    <3> HIDE DEF alike
    <3>1. before \subseteq alike
      OBVIOUS
    <3> HIDE DEF before
    <3> QED
      BY ONLY <2>1, <2>2, <3>1
  <2> QED
    BY <2>1, <2>3
<1> QED
  BY <1>6 DEF OldestFirst

\* What is handed out and what is kept are different messages.
LEMMA KnownCount ==
    ASSUME ClientTypes, Ordered(returned, stash, sent)
    PROVE  /\ IsFiniteSet(ToSet(returned) \cup ToSet(stash))
           /\ Cardinality(ToSet(returned) \cup ToSet(stash)) = Len(returned) + Len(stash)
<1> DEFINE a == Len(returned)
           b == Len(stash)
           known == ToSet(returned) \cup ToSet(stash)
           f == [i \in 1..(a + b) |-> IF i <= a THEN returned[i] ELSE stash[i - a]]
<1>1. /\ a \in Nat /\ b \in Nat /\ DOMAIN returned = 1..a /\ DOMAIN stash = 1..b
      /\ \A i \in 1..a : returned[i] \in Nat
      /\ \A i \in 1..b : stash[i] \in Nat
  BY LenProperties, ElementOfSeq DEF ClientTypes
<1>2. \A x : x \in known <=> (\E i \in 1..a : x = returned[i]) \/ (\E j \in 1..b : x = stash[j])
  BY <1>1 DEF ToSet
<1> HIDE DEF known, a, b
<1>3. f \in [1..(a + b) -> known]
  <2>1. ASSUME NEW i \in 1..(a + b) PROVE (IF i <= a THEN returned[i] ELSE stash[i - a]) \in known
    <3>1. CASE i <= a
      BY ONLY <1>1, <1>2, <2>1, <3>1
    <3>2. CASE ~(i <= a)
      <4>1. i - a \in 1..b
        BY ONLY <1>1, <2>1, <3>2
      <4> QED
        BY ONLY <1>2, <3>2, <4>1
    <3> QED
      BY ONLY <3>1, <3>2
  <2> QED
    BY ONLY <2>1
<1>4. ASSUME NEW i \in 1..(a + b), NEW j \in 1..(a + b), i < j PROVE f[i] # f[j]
  <2>1. CASE j <= a
    <3>1. i \in 1..a /\ j \in 1..a /\ f[i] = returned[i] /\ f[j] = returned[j] /\ i # j
      BY <1>1, <1>4, <2>1
    <3> HIDE DEF f
    <3> QED
      BY ONLY <1>1, <3>1, Ordered(returned, stash, sent) DEF Ordered
  <2>2. CASE i <= a /\ ~(j <= a)
    <3>1. i \in 1..a /\ j - a \in 1..b /\ f[i] = returned[i] /\ f[j] = stash[j - a]
      BY <1>1, <1>4, <2>2
    <3> HIDE DEF f
    <3> QED
      BY ONLY <1>1, <3>1, Ordered(returned, stash, sent) DEF Ordered
  <2>3. CASE ~(i <= a)
    <3>1. i - a \in 1..b /\ j - a \in 1..b /\ f[i] = stash[i - a] /\ f[j] = stash[j - a]
          /\ i - a < j - a
      BY <1>1, <1>4, <2>3
    <3> HIDE DEF f
    <3>2. stash[i - a] < stash[j - a]
      BY ONLY <1>1, <3>1, Ordered(returned, stash, sent) DEF Ordered
    <3> QED
      BY ONLY <1>1, <3>1, <3>2
  <2> QED
    BY ONLY <2>1, <2>2, <2>3
<1>5. \A x \in known : \E i \in 1..(a + b) : f[i] = x
  <2> SUFFICES ASSUME NEW x \in known PROVE \E i \in 1..(a + b) : f[i] = x
    OBVIOUS
  <2>1. CASE \E i \in 1..a : x = returned[i]
    <3>1. PICK i \in 1..a : x = returned[i]
      BY <2>1
    <3>2. i \in 1..(a + b) /\ f[i] = x
      BY <1>1, <3>1
    <3> QED
      BY ONLY <3>2
  <2>2. CASE \E j \in 1..b : x = stash[j]
    <3>1. PICK j \in 1..b : x = stash[j]
      BY <2>2
    <3>2. j + a \in 1..(a + b) /\ ~(j + a <= a) /\ (j + a) - a = j
      BY <1>1
    <3>3. f[j + a] = x
      BY <3>1, <3>2
    <3> QED
      BY ONLY <3>2, <3>3
  <2> QED
    BY ONLY <1>2, <2>1, <2>2, x \in known
<1> HIDE DEF f
<1>6. \A i, j \in 1..(a + b) : i # j => f[i] # f[j]
  BY ONLY <1>1, <1>4
<1>7. f \in Bijection(1..(a + b), known)
  <2> DEFINE S == 1..(a + b)
  <2>1. f \in [S -> known] /\ \A i, j \in S : f[i] = f[j] => i = j
    BY ONLY <1>3, <1>6
  <2>2. \A x \in known : \E i \in S : f[i] = x
    BY ONLY <1>5
  <2> HIDE DEF S
  <2>3. f \in Injection(S, known)
    BY ONLY <2>1 DEF Injection, IsInjective
  <2>4. f \in Surjection(S, known)
    BY ONLY <2>1, <2>2 DEF Surjection
  <2> QED
    BY ONLY <2>3, <2>4 DEF Bijection, S
<1>8. IsFiniteSet(1..(a + b)) /\ Cardinality(1..(a + b)) = a + b
  <2>1. 1 \in Int /\ a + b \in Int
    BY <1>1
  <2>2. Cardinality(1..(a + b)) = IF 1 > a + b THEN 0 ELSE (a + b) - 1 + 1
    BY ONLY <2>1, FS_Interval
  <2>3. (IF 1 > a + b THEN 0 ELSE (a + b) - 1 + 1) = a + b
    BY ONLY <1>1
  <2> QED
    BY ONLY <2>1, <2>2, <2>3, FS_Interval
<1>9. ExistsBijection(1..(a + b), known)
  BY ONLY <1>7 DEF ExistsBijection
<1>10. IsFiniteSet(known) /\ Cardinality(known) = Cardinality(1..(a + b))
  BY ONLY <1>8, <1>9, FS_Bijection
<1> QED
  BY ONLY <1>8, <1>10 DEF known, a, b

\* What is kept is in the order sent; before a frame is torn the known messages
\* are the first of those sent, and the wire goes on from there.
LEMMA InvNothingLost == ClientInv => NothingLost
<1> SUFFICES ASSUME ClientInv PROVE NothingLost
  OBVIOUS
<1> DEFINE n == Len(returned) + Len(stash)
           known == ToSet(returned) \cup ToSet(stash)
           onWire == pipe \o unsent
           taken == IF read.begun THEN 1..(Len(Parts) - 1) ELSE {0}
           left(k) == Len(Parts) * (Len(sent) - n) - k
           place(m, p) == Len(Parts) * (m - n - 1) + p
           continues(k) ==
               /\ Len(onWire) <= left(k) /\ (~closed => Len(onWire) = left(k))
               /\ \A m \in (n + 1)..Len(sent), p \in DOMAIN Parts :
                     place(m, p) - k \in DOMAIN onWire
                        => onWire[place(m, p) - k] = Frame(m)[p]
<1>1. PICK c \in Nat : \E q \in 0..5 : ReadTo(c, q)
  BY DEF ClientInv
<1>2. PICK q \in 0..5 : ReadTo(c, q)
  BY <1>1
<1>3. /\ ClientTypes /\ WireAt(6 * c + q) /\ KnownTo(c) /\ Ordered(returned, stash, sent)
      /\ ~torn => AtPlace(q, read) /\ AllKnown(c)
  BY <1>2 DEF ClientInv, ReadTo
<1>4. Cardinality(known) = n
  BY <1>3, KnownCount
<1>5. \A i, j \in DOMAIN stash : i < j => stash[i] < stash[j]
  BY <1>3 DEF Ordered
<1>6. ASSUME ~torn PROVE known = 1..n /\ \E k \in taken : continues(k)
  <2>1. known = 1..c
    <3>1. \A m : m \in known <=> Occurs(m, returned) \/ Occurs(m, stash)
      BY DEF ToSet, Occurs
    <3>2. \A m \in known : m \in 1..c
      BY ONLY <1>3, <3>1 DEF KnownTo, Occurs
    <3>3. \A m \in 1..c : m \in known
      BY ONLY <1>3, <1>6, <3>1 DEF AllKnown
    <3> HIDE DEF known
    <3> QED
      BY ONLY <3>2, <3>3
  <2>2. n = c
    <3>1. 1 \in Int /\ c \in Int
      OBVIOUS
    <3>2. Cardinality(1..c) = IF 1 > c THEN 0 ELSE c - 1 + 1
      BY ONLY <3>1, FS_Interval
    <3>3. (IF 1 > c THEN 0 ELSE c - 1 + 1) = c
      BY ONLY c \in Nat
    <3> HIDE DEF known, n
    <3> QED
      BY ONLY <1>4, <2>1, <3>2, <3>3
  <2>3. q \in taken
    <3>1. read.begun <=> q # 0
      BY <1>3, <1>6 DEF AtPlace
    <3> QED
      BY <3>1, PartsAre
  <2>4. continues(q)
    <3> HIDE DEF n, onWire
    <3>1. onWire \in Seq(Pieces) /\ Len(onWire) \in Nat /\ DOMAIN onWire = 1..Len(onWire)
          /\ Len(sent) \in Nat
      <4>1. onWire \in Seq(Pieces) /\ Len(sent) \in Nat
        BY <1>3, KnownSent DEF onWire
      <4> QED
        BY ONLY <4>1, LenProperties
    <3>2. /\ 6 * c + q + Len(onWire) <= 6 * Len(sent)
          /\ ~closed => 6 * c + q + Len(onWire) = 6 * Len(sent)
          /\ Carries(onWire, 6 * c + q, Len(sent))
      BY <1>3 DEF WireAt, onWire
    <3>3. /\ Len(onWire) <= 6 * (Len(sent) - c) - q
          /\ ~closed => Len(onWire) = 6 * (Len(sent) - c) - q
      BY ONLY <3>1, <3>2, c \in Nat, q \in 0..5
    <3>4. ASSUME NEW m \in (c + 1)..Len(sent), NEW p \in 1..6,
                 6 * (m - c - 1) + p - q \in 1..Len(onWire)
          PROVE  onWire[6 * (m - c - 1) + p - q] = Frame(m)[p]
      <4>1. m \in 1..Len(sent) /\ 6 * (m - c - 1) + p - q = 6 * (m - 1) + p - (6 * c + q)
        BY ONLY <3>1, <3>4, c \in Nat, q \in 0..5
      <4> QED
        BY ONLY <3>2, <3>4, <4>1 DEF Carries
    <3> QED
      BY ONLY <2>2, <3>1, <3>3, <3>4, PartsAre
  <2> QED
    BY ONLY <2>1, <2>2, <2>3, <2>4
<1> QED
  BY ONLY <1>4, <1>5, <1>6 DEF NothingLost

-----------------------------------------------------------------------------
(* The theorems *)

\* Messages that are alike reach the test in the order the server sent them,
\* from the stash of testing.rs or off the wire, and none is passed over before
\* a frame is torn.
THEOREM AlikeInOrder == ClientSpec => []OldestFirst
<1> QED
  BY ClientInvHolds, InvOldestFirst, PTL

\* "messages that arrive while waiting for something specific are buffered, not
\* lost": until a frame is torn every message read is handed out or kept, once,
\* and the wire goes on after them; what is kept stays in order in any case.
THEOREM NoneLost == ClientSpec => []NothingLost
<1> QED
  BY ClientInvHolds, InvNothingLost, PTL
=============================================================================
