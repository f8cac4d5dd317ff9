----------------------------- MODULE ChatPageProofs -----------------------------
(***************************************************************************)
(* What a chat page sends is what was composed, for every text, every set  *)
(* of spans a page can have, every reply and every length of a recording;  *)
(* what it shows is what is kept, for every page it has loaded and whatever*)
(* happened to the messages since.                                         *)
(*                                                                         *)
(* The mentions: a text of the page goes on by one unit or two with each   *)
(* character, so a span of the page is at one place of the text, and the   *)
(* mentions there do not overlap.  Validation keeps them all, in order; the*)
(* numbers take their places, the places are the tokens of the text that is*)
(* sent, and the names take the tokens' places again.                      *)
(*                                                                         *)
(* The list: every alias of a chat is some message's own, so a message     *)
(* finds its row and no other.  The rows are in order, one of each message *)
(* that is there, and the aliases are those of the rows; a batch of changes*)
(* carries the states of each message from one to another as one, and they *)
(* are the message's last.                                                 *)
(***************************************************************************)
EXTENDS Composing, MessageList, FiniteSetTheorems, SequenceTheorems, WellFoundedInduction, TLAPS

(* Of the initial segments that a set of numbers has, one is the least.    *)
LEMMA LeastNumber ==
  ASSUME NEW n \in Nat, NEW S, S \subseteq 0 .. n, S # {}
  PROVE  \E k \in S : \A l \in S : k <= l
<1>. DEFINE Segments == {0 .. k : k \in S}
<1>1. IsFiniteSet(0 .. n)
  BY FS_Interval
<1>2. IsWellFoundedOn(StrictSubsetOrdering(0 .. n), SUBSET (0 .. n))
  BY <1>1, FS_StrictSubsetOrderingWellFounded, FS_FiniteSubsetsOfFinite
<1>3. Segments \subseteq SUBSET (0 .. n) /\ Segments # {}
  <2>1. \A k \in S : 0 .. k \subseteq 0 .. n
    OBVIOUS
  <2>2. PICK k \in S : TRUE
    OBVIOUS
  <2>. QED
    BY <2>1, <2>2
<1>. HIDE DEF Segments
<1>4. PICK T \in Segments : \A U \in Segments : <<U, T>> \notin StrictSubsetOrdering(0 .. n)
  BY <1>2, <1>3, WFMin
<1>. USE DEF Segments
<1>5. PICK k \in S : T = 0 .. k
  OBVIOUS
<1>6. ASSUME NEW l \in S, l < k
      PROVE  FALSE
  <2>1. 0 .. l \in Segments /\ 0 .. l \subseteq 0 .. n /\ 0 .. k \subseteq 0 .. n
    OBVIOUS
  <2>2. 0 .. l \subseteq 0 .. k /\ k \in 0 .. k /\ k \notin 0 .. l
    BY <1>6
  <2>. QED
    BY <1>4, <1>5, <2>1, <2>2 DEF StrictSubsetOrdering
<1>. QED
  BY <1>6

(* Induction, for a set: what holds of 0 and of each next number.          *)
LEMMA UpTo ==
  ASSUME NEW n \in Nat, NEW S, 0 \in S, \A k \in 0 .. n - 1 : k \in S => k + 1 \in S
  PROVE  0 .. n \subseteq S
<1>. DEFINE Rest == {k \in 0 .. n : k \notin S}
<1>. SUFFICES ASSUME Rest # {} PROVE FALSE
  OBVIOUS
<1>1. PICK k \in Rest : \A l \in Rest : k <= l
  BY LeastNumber
<1>2. k - 1 \in 0 .. n - 1 /\ k - 1 \in S
  BY <1>1
<1>. QED
  BY <1>1, <1>2

-----------------------------------------------------------------------------
(* Sequences of pieces.                                                    *)

(* The equation of FlattenSeq, on the first n pieces.                      *)
Flattens(g, seqs, n) ==
  g = [i \in 1 .. n |-> IF i = 1 THEN seqs[i] ELSE g[i - 1] \o seqs[i]]

LEMMA FlattensAt ==
  ASSUME NEW n, NEW seqs, NEW g, Flattens(g, seqs, n), NEW i \in 1 .. n
  PROVE  g[i] = IF i = 1 THEN seqs[i] ELSE g[i - 1] \o seqs[i]
<1>. DEFINE e(k) == IF k = 1 THEN seqs[k] ELSE g[k - 1] \o seqs[k]
<1>1. g = [k \in 1 .. n |-> e(k)]
  BY DEF Flattens
<1>. HIDE DEF e
<1>2. g[i] = e(i)
  BY <1>1
<1>. QED
  BY <1>2 DEF e

LEMMA FlattensExist ==
  ASSUME NEW n \in Nat, NEW seqs
  PROVE  \E g : Flattens(g, seqs, n)
<1>. DEFINE S == {m \in 0 .. n : \E g : Flattens(g, seqs, m)}
<1>1. 0 \in S
  <2>. DEFINE g == [i \in 1 .. 0 |-> IF i = 1 THEN seqs[i] ELSE seqs[i] \o seqs[i]]
  <2>1. Flattens(g, seqs, 0)
    BY DEF Flattens
  <2>. QED
    BY <2>1
<1>2. ASSUME NEW m \in 0 .. n - 1, m \in S
      PROVE  m + 1 \in S
  <2>1. PICK g : Flattens(g, seqs, m)
    BY <1>2
  <2>. DEFINE h == [i \in 1 .. m + 1 |->
                     IF i <= m THEN g[i] ELSE IF i = 1 THEN seqs[i] ELSE g[m] \o seqs[i]]
  <2>2. ASSUME NEW i \in 1 .. m + 1
        PROVE  h[i] = IF i = 1 THEN seqs[i] ELSE h[i - 1] \o seqs[i]
    <3>1. CASE i <= m
      <4>1. h[i] = g[i] /\ (i # 1 => h[i - 1] = g[i - 1])
        BY <3>1
      <4>2. g[i] = IF i = 1 THEN seqs[i] ELSE g[i - 1] \o seqs[i]
        <5>1. i \in 1 .. m
          BY <3>1
        <5>. QED
          BY <2>1, <5>1, FlattensAt
      <4>. QED
        BY <4>1, <4>2
    <3>2. CASE i = m + 1
      BY <3>2
    <3>. QED
      BY <3>1, <3>2
  <2>3. Flattens(h, seqs, m + 1)
    BY <2>2 DEF Flattens
  <2>. QED
    BY <2>3
<1>. HIDE DEF S
<1>3. 0 .. n \subseteq S
  BY <1>1, <1>2, UpTo
<1>. QED
  BY <1>3 DEF S

(* What is joined after k pieces.                                          *)
LEMMA Joined ==
  ASSUME NEW X, NEW seqs \in Seq(Seq(X))
  PROVE  \E f \in [0 .. Len(seqs) -> Seq(X)] :
           /\ f[0] = <<>>
           /\ \A k \in 1 .. Len(seqs) : f[k] = f[k - 1] \o seqs[k]
           /\ FlattenSeq(seqs) = f[Len(seqs)]
<1>. DEFINE n == Len(seqs)
<1>1. n \in Nat /\ DOMAIN seqs = 1 .. n /\ \A k \in 1 .. n : seqs[k] \in Seq(X)
  OBVIOUS
<1>2. CASE n = 0
  <2>1. seqs = <<>>
    BY <1>2
  <2>2. FlattenSeq(seqs) = <<>>
    BY <1>2, <2>1 DEF FlattenSeq
  <2>3. [k \in 0 .. n |-> <<>>] \in [0 .. n -> Seq(X)]
    OBVIOUS
  <2>. WITNESS [k \in 0 .. n |-> <<>>] \in [0 .. n -> Seq(X)]
  <2>. QED
    BY <1>2, <2>2
<1>3. CASE n # 0
  <2>. DEFINE g == CHOOSE h : Flattens(h, seqs, n)
              f == [k \in 0 .. n |-> IF k = 0 THEN <<>> ELSE g[k]]
              S == {k \in 0 .. n : f[k] \in Seq(X)}
  <2>1. Flattens(g, seqs, n)
    BY <1>1, FlattensExist
  <2>2. FlattenSeq(seqs) = g[n]
    BY <1>3 DEF FlattenSeq, Flattens
  <2>. HIDE DEF g
  <2>3. ASSUME NEW k \in 1 .. n
        PROVE  f[k] = f[k - 1] \o seqs[k]
    <3>1. g[k] = IF k = 1 THEN seqs[k] ELSE g[k - 1] \o seqs[k]
      <4>1. k \in 1 .. n
        OBVIOUS
      <4>. QED
        BY ONLY <2>1, <4>1, FlattensAt
    <3>2. <<>> \o seqs[k] = seqs[k]
      BY <1>1, ConcatEmptySeq
    <3>3. f[k] = g[k] /\ f[k - 1] = IF k = 1 THEN <<>> ELSE g[k - 1]
      OBVIOUS
    <3>. QED
      BY <3>1, <3>2, <3>3
  <2>4. f[0] = <<>> /\ f[n] = g[n] /\ f = [k \in 0 .. n |-> f[k]]
    BY <1>1, <1>3
  <2>. HIDE DEF f
  <2>5. 0 \in S
    <3>1. f[0] = <<>>
      BY <2>4
    <3>2. <<>> \in Seq(X) /\ 0 \in 0 .. n
      BY <1>1
    <3>. QED
      BY <3>1, <3>2
  <2>6. ASSUME NEW k \in 0 .. n - 1, k \in S
        PROVE  k + 1 \in S
    <3>1. k + 1 \in 1 .. n /\ k + 1 \in 0 .. n /\ (k + 1) - 1 = k
      BY <1>1
    <3>2. f[k + 1] = f[k] \o seqs[k + 1] /\ seqs[k + 1] \in Seq(X) /\ f[k] \in Seq(X)
      BY <2>3, <2>6, <1>1, <3>1
    <3>. QED
      BY <3>1, <3>2, ConcatProperties
  <2>. HIDE DEF S
  <2>7. 0 .. n \subseteq S
    BY <1>1, <2>5, <2>6, UpTo
  <2>8. f \in [0 .. n -> Seq(X)]
    BY <2>4, <2>7 DEF S
  <2>. QED
    BY <2>2, <2>3, <2>4, <2>8
<1>. QED
  BY <1>2, <1>3

-----------------------------------------------------------------------------
(* Characters and units.                                                   *)

LEMMA UnitsNext ==
  ASSUME NEW text, NEW i \in Nat
  PROVE  /\ Units(text, i) \in Nat /\ i <= Units(text, i) /\ Units(text, 0) = 0
         /\ Units(text, i + 1) = Units(text, i) + IF text[i + 1] = "E" THEN 2 ELSE 1
<1>. DEFINE Es(k) == {l \in 1 .. k : text[l] = "E"}
<1>1. \A k \in Nat : IsFiniteSet(Es(k)) /\ Cardinality(Es(k)) \in Nat
  <2>. SUFFICES ASSUME NEW k \in Nat PROVE IsFiniteSet(Es(k)) /\ Cardinality(Es(k)) \in Nat
    OBVIOUS
  <2>1. IsFiniteSet(1 .. k)
    BY FS_Interval
  <2>2. Es(k) \in SUBSET (1 .. k)
    OBVIOUS
  <2>3. IsFiniteSet(Es(k))
    BY <2>1, <2>2, FS_Subset
  <2>. QED
    BY <2>3, FS_CardinalityType
<1>2. Units(text, i) = i + Cardinality(Es(i)) /\ Units(text, i + 1) = i + 1 + Cardinality(Es(i + 1))
  BY DEF Units
<1>3. Es(i + 1) = IF text[i + 1] = "E" THEN Es(i) \cup {i + 1} ELSE Es(i)
  OBVIOUS
<1>4. i + 1 \notin Es(i)
  OBVIOUS
<1>5. Units(text, 0) = 0
  <2>1. {k \in 1 .. 0 : text[k] = "E"} = {}
    OBVIOUS
  <2>. QED
    BY <2>1, FS_EmptySet DEF Units
<1>. HIDE DEF Es
<1>6. Cardinality(Es(i + 1)) = Cardinality(Es(i)) + IF text[i + 1] = "E" THEN 1 ELSE 0
  BY <1>1, <1>3, <1>4, FS_AddElement
<1>. QED
  BY <1>1, <1>2, <1>5, <1>6

LEMMA UnitsGrow ==
  ASSUME NEW text, NEW i \in Nat, NEW j \in Nat, i < j
  PROVE  Units(text, i) + (j - i) <= Units(text, j)
<1>. DEFINE S == {d \in 0 .. j - i : Units(text, i) + d <= Units(text, i + d)}
<1>1. 0 \in S
  BY UnitsNext
<1>2. ASSUME NEW d \in 0 .. j - i - 1, d \in S
      PROVE  d + 1 \in S
  <2>1. Units(text, i) \in Nat /\ Units(text, i + d) \in Nat
    BY UnitsNext
  <2>2. Units(text, i + d + 1) = Units(text, i + d) + IF text[i + d + 1] = "E" THEN 2 ELSE 1
    BY UnitsNext
  <2>3. i + (d + 1) = i + d + 1
    OBVIOUS
  <2>. QED
    BY <1>2, <2>1, <2>2, <2>3
<1>. HIDE DEF S
<1>3. 0 .. j - i \subseteq S
  BY <1>1, <1>2, UpTo
<1>4. j - i \in S
  BY <1>3
<1>5. i + (j - i) = j
  OBVIOUS
<1>. QED
  BY <1>4, <1>5 DEF S

(* The index of an offset is the only one.                                 *)
LEMMA OneIndex ==
  ASSUME NEW text, NEW i \in Nat, NEW j \in Nat
  PROVE  /\ Units(text, i) = Units(text, j) => i = j
         /\ Units(text, i) < Units(text, j) => i < j
<1>1. Units(text, i) \in Nat /\ Units(text, j) \in Nat
  BY UnitsNext
<1>2. i < j => Units(text, i) + (j - i) <= Units(text, j)
  BY UnitsGrow
<1>3. j < i => Units(text, j) + (i - j) <= Units(text, i)
  BY UnitsGrow
<1>. QED
  BY <1>1, <1>2, <1>3

LEMMA LabelUnits ==
  ASSUME NEW who \in People
  PROVE  Units(Label(who), 2) = IF who = "E" THEN 3 ELSE 2
<1>1. Label(who)[1] = "@" /\ Label(who)[2] = who
  BY DEF Label
<1>2. Units(Label(who), 0) = 0
  BY UnitsNext
<1>3. Units(Label(who), 1) = 1
  <2>1. Units(Label(who), 0 + 1) = 0 + IF Label(who)[0 + 1] = "E" THEN 2 ELSE 1
    BY <1>2, UnitsNext
  <2>. QED
    BY <1>1, <2>1
<1>4. Units(Label(who), 1 + 1) = 1 + IF Label(who)[1 + 1] = "E" THEN 2 ELSE 1
  BY <1>3, UnitsNext
<1>. QED
  BY <1>1, <1>4

(* The units of the page, character by character.                          *)
JsUnits == Chars \cup {"high", "low"}
Piece(c) == IF c = "E" THEN <<"high", "low">> ELSE <<c>>
Unit(c) == IF c = "E" THEN "high" ELSE c

LEMMA PieceAt ==
  ASSUME NEW c \in Chars
  PROVE  /\ Piece(c) \in Seq(JsUnits) /\ Piece(c)[1] = Unit(c)
         /\ Len(Piece(c)) = IF c = "E" THEN 2 ELSE 1
         /\ c = "E" => Piece(c)[2] = "low"
<1>1. CASE c = "E"
  <2>1. Piece(c) = <<"high", "low">> /\ Unit(c) = "high" /\ "high" \in JsUnits /\ "low" \in JsUnits
    BY <1>1 DEF Piece, Unit, JsUnits
  <2>2. <<"high", "low">> \in Seq(JsUnits)
    BY <2>1
  <2>3. /\ Len(<<"high", "low">>) = 2
        /\ <<"high", "low">>[1] = "high" /\ <<"high", "low">>[2] = "low"
    OBVIOUS
  <2>. QED
    BY <1>1, <2>1, <2>2, <2>3, Zenon
<1>2. CASE c # "E"
  <2>1. Piece(c) = <<c>> /\ Unit(c) = c /\ c \in JsUnits
    BY <1>2 DEF Piece, Unit, JsUnits
  <2>. QED
    BY <1>2, <2>1
<1>. QED
  BY <1>1, <1>2

JsAfter(js, text, n) ==
  /\ js \in Seq(JsUnits) /\ Len(js) = Units(text, n)
  /\ \A i \in 0 .. n - 1 : js[Units(text, i) + 1] = Unit(text[i + 1])
  /\ \A i \in 0 .. n - 1 : text[i + 1] = "E" => js[Units(text, i) + 2] = "low"
  /\ \A p \in 1 .. Len(js) : \E i \in 0 .. n - 1 :
       p = Units(text, i) + 1 \/ (text[i + 1] = "E" /\ p = Units(text, i) + 2)

LEMMA JsGrows ==
  ASSUME NEW text \in Seq(Chars), NEW n \in 0 .. Len(text) - 1, NEW js, JsAfter(js, text, n)
  PROVE  JsAfter(js \o Piece(text[n + 1]), text, n + 1)
<1>. DEFINE c == text[n + 1]
            u == Units(text, n)
            next == js \o Piece(c)
<1>1. c \in Chars /\ n \in Nat
  OBVIOUS
<1>2. u \in Nat /\ Units(text, n + 1) = u + IF c = "E" THEN 2 ELSE 1
  BY <1>1, UnitsNext
<1>3. /\ Piece(c) \in Seq(JsUnits) /\ Piece(c)[1] = Unit(c)
      /\ Len(Piece(c)) = IF c = "E" THEN 2 ELSE 1
      /\ c = "E" => Piece(c)[2] = "low"
  BY <1>1, PieceAt
<1>4. js \in Seq(JsUnits) /\ Len(js) = u
  BY DEF JsAfter
<1>. HIDE DEF c
<1>5. /\ next \in Seq(JsUnits) /\ Len(next) = u + Len(Piece(c))
      /\ \A p \in 1 .. u + Len(Piece(c)) : next[p] = IF p <= u THEN js[p] ELSE Piece(c)[p - u]
  <2>1. /\ js \o Piece(c) \in Seq(JsUnits) /\ Len(js \o Piece(c)) = Len(js) + Len(Piece(c))
        /\ \A p \in 1 .. Len(js) + Len(Piece(c)) :
             (js \o Piece(c))[p] = IF p <= Len(js) THEN js[p] ELSE Piece(c)[p - Len(js)]
    BY <1>3, <1>4, ConcatProperties
  <2>. QED
    BY <1>4, <2>1
<1>. HIDE DEF next, u
<1>6. /\ Len(next) = Units(text, n + 1) /\ next[u + 1] = Unit(c)
      /\ c = "E" => next[u + 2] = "low"
      /\ \A p \in 1 .. u : next[p] = js[p]
      /\ \A p \in 1 .. Len(next) : p <= u \/ p = u + 1 \/ (c = "E" /\ p = u + 2)
  BY <1>2, <1>3, <1>5
<1>7. ASSUME NEW i \in 0 .. n - 1
      PROVE  /\ Units(text, i) \in Nat /\ Units(text, i) + 1 <= u
             /\ text[i + 1] = "E" => Units(text, i) + 2 <= u
             /\ js[Units(text, i) + 1] = Unit(text[i + 1])
             /\ text[i + 1] = "E" => js[Units(text, i) + 2] = "low"
  <2>1. i \in Nat /\ i < n /\ i + 1 \in Nat
    OBVIOUS
  <2>2. /\ Units(text, i) \in Nat /\ Units(text, i + 1) \in Nat
        /\ Units(text, i + 1) = Units(text, i) + IF text[i + 1] = "E" THEN 2 ELSE 1
    BY <2>1, UnitsNext
  <2>3. Units(text, i + 1) <= u
    <3>1. CASE i + 1 = n
      BY <1>2, <3>1 DEF u
    <3>2. CASE i + 1 < n
      <4>1. Units(text, i + 1) + (n - (i + 1)) <= Units(text, n)
        BY <1>1, <2>1, <3>2, UnitsGrow
      <4>. QED
        BY <1>1, <1>2, <2>1, <2>2, <3>2, <4>1 DEF u
    <3>. QED
      BY <1>1, <2>1, <3>1, <3>2
  <2>4. js[Units(text, i) + 1] = Unit(text[i + 1]) /\ (text[i + 1] = "E" => js[Units(text, i) + 2] = "low")
    BY DEF JsAfter
  <2>. QED
    BY <1>2, <2>2, <2>3, <2>4
<1>8. ASSUME NEW i \in 0 .. (n + 1) - 1
      PROVE  /\ next[Units(text, i) + 1] = Unit(text[i + 1])
             /\ text[i + 1] = "E" => next[Units(text, i) + 2] = "low"
  <2>1. CASE i = n
    BY <1>6, <2>1 DEF c, u
  <2>2. CASE i \in 0 .. n - 1
    <3>1. Units(text, i) + 1 \in 1 .. u /\ (text[i + 1] = "E" => Units(text, i) + 2 \in 1 .. u)
      BY <1>2, <1>7, <2>2
    <3>. QED
      BY <1>6, <1>7, <2>2, <3>1
  <2>. QED
    BY <1>1, <2>1, <2>2
<1>9. ASSUME NEW p \in 1 .. Len(next)
      PROVE  \E i \in 0 .. (n + 1) - 1 :
               p = Units(text, i) + 1 \/ (text[i + 1] = "E" /\ p = Units(text, i) + 2)
  <2>1. CASE p <= u
    <3>1. p \in 1 .. Len(js)
      BY <1>2, <1>4, <1>5, <2>1
    <3>2. PICK i \in 0 .. n - 1 : p = Units(text, i) + 1 \/ (text[i + 1] = "E" /\ p = Units(text, i) + 2)
      BY <3>1 DEF JsAfter
    <3>. QED
      BY <1>1, <3>2
  <2>2. CASE ~(p <= u)
    <3>1. n \in 0 .. (n + 1) - 1
      BY <1>1
    <3>2. p = Units(text, n) + 1 \/ (text[n + 1] = "E" /\ p = Units(text, n) + 2)
      BY <1>6, <2>2 DEF c, u
    <3>. QED
      BY <3>1, <3>2
  <2>. QED
    BY <2>1, <2>2
<1>10. JsAfter(next, text, n + 1)
  BY <1>5, <1>6, <1>8, <1>9 DEF JsAfter
<1>. QED
  BY <1>10 DEF next, c

LEMMA JsAt ==
  ASSUME NEW text \in Seq(Chars)
  PROVE  JsAfter(Js(text), text, Len(text))
<1>. DEFINE n == Len(text)
            pieces == [i \in DOMAIN text |-> Piece(text[i])]
<1>1. n \in Nat /\ DOMAIN text = 1 .. n /\ \A i \in 1 .. n : text[i] \in Chars
  OBVIOUS
<1>2. Js(text) = FlattenSeq(pieces)
  BY DEF Js, Piece
<1>3. \A c \in Chars : Piece(c) \in Seq(JsUnits)
  BY PieceAt
<1>4. pieces \in Seq(Seq(JsUnits)) /\ Len(pieces) = n /\ \A i \in 1 .. n : pieces[i] = Piece(text[i])
  BY <1>1, <1>3
<1>. HIDE DEF pieces, n
<1>5. PICK f \in [0 .. n -> Seq(JsUnits)] :
        /\ f[0] = <<>> /\ FlattenSeq(pieces) = f[n]
        /\ \A k \in 1 .. n : f[k] = f[k - 1] \o pieces[k]
  BY <1>4, Joined
<1>. DEFINE S == {k \in 0 .. n : JsAfter(f[k], text, k)}
<1>6. 0 \in S
  <2>1. Units(text, 0) = 0
    BY UnitsNext
  <2>. QED
    BY <1>1, <1>5, <2>1 DEF JsAfter
<1>7. ASSUME NEW k \in 0 .. n - 1, k \in S
      PROVE  k + 1 \in S
  <2>1. k + 1 \in 1 .. n /\ (k + 1) - 1 = k
    BY <1>1
  <2>2. f[k + 1] = f[k] \o Piece(text[k + 1])
    BY <1>4, <1>5, <2>1
  <2>3. JsAfter(f[k], text, k)
    BY <1>7
  <2>4. JsAfter(f[k] \o Piece(text[k + 1]), text, k + 1)
    BY <2>3, JsGrows DEF n
  <2>. QED
    <3>1. JsAfter(f[k + 1], text, k + 1) /\ k + 1 \in 0 .. n
      BY <1>1, <2>2, <2>4
    <3>. QED
      BY <3>1
<1>. HIDE DEF S
<1>8. 0 .. n \subseteq S
  BY <1>1, <1>6, <1>7, UpTo
<1>9. JsAfter(f[n], text, n)
  BY <1>1, <1>8 DEF S
<1>. QED
  BY <1>2, <1>5, <1>9 DEF n

-----------------------------------------------------------------------------
(* Mentions in a text.                                                     *)

AnySpan == [who : People, start : Nat, length : Nat]

(* The span is the mention after the first i characters.                   *)
Mention(text, s, i) ==
  /\ i \in 0 .. Len(text) - 2 /\ s.start = Units(text, i)
  /\ s.length = Units(Label(s.who), 2)
  /\ text[i + 1] = "@" /\ text[i + 2] = s.who
  /\ Ends(text, i) /\ Ends(text, i + 3)

LEMMA IndexOf ==
  ASSUME NEW text \in Seq(Chars), NEW offset, NEW i
  PROVE  i \in Indexes(text, offset) <=> i \in 0 .. Len(text) /\ Units(text, i) = offset
BY DEF Indexes

LEMMA LabelAt ==
  ASSUME NEW who \in People
  PROVE  /\ Label(who) \in Seq(Chars) /\ Len(Label(who)) = 2
         /\ Label(who)[1] = "@" /\ Label(who)[2] = who
<1>1. who \in Chars /\ "@" \in Chars
  BY DEF People, Chars, Alnum, Ascii
<1>. QED
  BY <1>1 DEF Label

LEMMA MatchesOne ==
  ASSUME NEW text \in Seq(Chars), NEW s \in AnySpan, Matches(text, s)
  PROVE  \E i \in 0 .. Len(text) - 2 : Mention(text, s, i)
<1>1. PICK i \in Indexes(text, s.start), j \in Indexes(text, s.start + s.length) :
        SubSeq(text, i + 1, j) = Label(s.who) /\ Ends(text, i) /\ Ends(text, j + 1)
  BY DEF Matches
<1>2. /\ i \in 0 .. Len(text) /\ j \in 0 .. Len(text) /\ Units(text, i) = s.start
      /\ s.who \in People /\ s.length = Units(Label(s.who), 2)
  BY <1>1, IndexOf DEF Matches, AnySpan
<1>3. \A k \in i + 1 .. j : text[k] \in Chars
  BY <1>2
<1>4. /\ Len(SubSeq(text, i + 1, j)) = IF i + 1 <= j THEN j - (i + 1) + 1 ELSE 0
      /\ \A k \in 1 .. j - (i + 1) + 1 : SubSeq(text, i + 1, j)[k] = text[(i + 1) + k - 1]
  BY <1>2, <1>3, SubSeqProperties
<1>5. j = i + 2
  BY <1>1, <1>2, <1>4, LabelAt
<1>6. text[i + 1] = "@" /\ text[i + 2] = s.who
  BY <1>1, <1>2, <1>4, <1>5, LabelAt
<1>7. i \in 0 .. Len(text) - 2 /\ j + 1 = i + 3
  BY <1>2, <1>5
<1>. QED
  BY <1>1, <1>2, <1>6, <1>7 DEF Mention

LEMMA MentionUnits ==
  ASSUME NEW text \in Seq(Chars), NEW s \in AnySpan, NEW i, Mention(text, s, i)
  PROVE  i \in Nat /\ i + 2 \in 0 .. Len(text) /\ Units(text, i + 2) = s.start + s.length
<1>1. i \in Nat /\ i + 2 \in 0 .. Len(text) /\ s.who \in People
  BY DEF Mention, AnySpan
<1>2. Units(text, i + 1) = Units(text, i) + IF text[i + 1] = "E" THEN 2 ELSE 1
  BY <1>1, UnitsNext
<1>3. Units(text, (i + 1) + 1) = Units(text, i + 1) + IF text[(i + 1) + 1] = "E" THEN 2 ELSE 1
  <2>1. i + 1 \in Nat
    BY <1>1
  <2>. QED
    BY <2>1, UnitsNext
<1>4. (i + 1) + 1 = i + 2 /\ Units(text, i) \in Nat
  BY <1>1, UnitsNext
<1>5. s.length = IF s.who = "E" THEN 3 ELSE 2
  BY <1>1, LabelUnits DEF Mention
<1>. QED
  BY <1>1, <1>2, <1>3, <1>4, <1>5 DEF Mention

LEMMA MentionMatches ==
  ASSUME NEW text \in Seq(Chars), NEW s \in AnySpan, NEW i, Mention(text, s, i)
  PROVE  Matches(text, s)
<1>1. /\ i \in 0 .. Len(text) - 2 /\ s.who \in People /\ i + 2 \in 0 .. Len(text) /\ i \in Nat
      /\ i \in 0 .. Len(text)
  BY DEF Mention, AnySpan
<1>2. i \in Indexes(text, s.start) /\ i + 2 \in Indexes(text, s.start + s.length)
  <2>1. Units(text, i + 2) = s.start + s.length
    BY MentionUnits
  <2>2. Units(text, i) = s.start
    BY DEF Mention
  <2>. QED
    BY <1>1, <2>1, <2>2, IndexOf
<1>3. \A k \in i + 1 .. i + 2 : text[k] \in Chars
  BY <1>1
<1>4. /\ SubSeq(text, i + 1, i + 2) \in Seq(Chars) /\ Len(SubSeq(text, i + 1, i + 2)) = 2
      /\ \A k \in 1 .. (i + 2) - (i + 1) + 1 : SubSeq(text, i + 1, i + 2)[k] = text[(i + 1) + k - 1]
  BY <1>1, <1>3, SubSeqProperties
<1>5. \A k \in 1 .. 2 : SubSeq(text, i + 1, i + 2)[k] = Label(s.who)[k]
  BY <1>1, <1>4, LabelAt DEF Mention
<1>6. SubSeq(text, i + 1, i + 2) = Label(s.who)
  BY <1>1, <1>4, <1>5, LabelAt, SeqEqual
<1>. QED
  <2>1. Ends(text, i) /\ Ends(text, (i + 2) + 1) /\ s.length = Units(Label(s.who), 2)
    <3>1. (i + 2) + 1 = i + 3
      BY <1>1
    <3>. QED
      BY <3>1 DEF Mention
  <2>. QED
    BY <1>2, <1>6, <2>1 DEF Matches

(* Mentions follow each other without overlap, and one place has one.      *)
LEMMA Apart ==
  ASSUME NEW text \in Seq(Chars), NEW s \in AnySpan, NEW t \in AnySpan, NEW i, NEW j,
         Mention(text, s, i), Mention(text, t, j)
  PROVE  /\ s.start < t.start => i + 2 <= j /\ s.start + s.length <= t.start
         /\ s.start = t.start => s = t
<1>1. /\ i \in Nat /\ j \in Nat /\ s.start = Units(text, i) /\ t.start = Units(text, j)
      /\ s.start \in Nat /\ t.start \in Nat
  BY DEF Mention, AnySpan
<1>2. s.start = t.start => s = t
  <2>. SUFFICES ASSUME s.start = t.start PROVE s = t
    OBVIOUS
  <2>1. i = j
    BY <1>1, OneIndex
  <2>2. s.who = t.who /\ s.length = t.length
    BY <2>1 DEF Mention
  <2>. QED
    BY <2>2 DEF AnySpan
<1>3. ASSUME s.start < t.start
      PROVE  i + 2 <= j /\ s.start + s.length <= t.start
  <2>1. i < j
    BY <1>1, <1>3, OneIndex
  <2>2. j # i + 1
    BY DEF Mention, AnySpan, People
  <2>3. i + 2 <= j
    BY <1>1, <2>1, <2>2
  <2>4. Units(text, i + 2) <= Units(text, j)
    <3>1. CASE i + 2 = j
      BY <1>1, <3>1
    <3>2. CASE i + 2 < j
      <4>1. Units(text, i + 2) + (j - (i + 2)) <= Units(text, j)
        BY <1>1, <3>2, UnitsGrow
      <4>2. Units(text, i + 2) \in Nat
        BY <1>1, UnitsNext
      <4>. QED
        BY <1>1, <3>2, <4>1, <4>2
    <3>. QED
      BY <1>1, <2>3, <3>1, <3>2
  <2>. QED
    BY <1>1, <2>3, <2>4, MentionUnits
<1>. QED
  BY <1>2, <1>3

LEMMA UnitIs ==
  ASSUME NEW c \in Chars, NEW d \in Chars \ {"E"}
  PROVE  /\ Unit(c) = d => c = d
         /\ c \in Ascii => Unit(c) = c
         /\ Unit(c) # "low"
BY DEF Unit, Chars, Alnum, Ascii

LEMMA UnitsDiffer ==
  ASSUME NEW c \in Chars, NEW d \in Chars, Unit(c) = Unit(d)
  PROVE  c = d
<1>1. "high" \notin Chars
  BY DEF Chars, Alnum, Ascii
<1>. QED
  BY <1>1 DEF Unit

LEMMA PeopleAreChars ==
  /\ People \subseteq Chars /\ "@" \in Chars /\ "@" \notin People /\ "@" # "E" /\ "@" # "low"
  /\ Digits \subseteq Chars /\ "@" \notin Digits /\ "@" \notin TokenChars
BY DEF People, Chars, Alnum, Ascii, Digits, TokenChars

(* The units of a label, where the page finds them.                        *)
LEMMA LabelOnPage ==
  ASSUME NEW who \in People
  PROVE  /\ Len(Js(Label(who))) = Units(Label(who), 2)
         /\ Js(Label(who))[1] = "@" /\ Js(Label(who))[2] = Unit(who)
<1>1. JsAfter(Js(Label(who)), Label(who), 2)
  <2>1. Label(who) \in Seq(Chars) /\ Len(Label(who)) = 2
    BY LabelAt
  <2>. QED
    BY <2>1, JsAt
<1>2. Units(Label(who), 0) = 0 /\ Units(Label(who), 0 + 1) = 0 + 1
  <2>1. Units(Label(who), 0) = 0 /\ Label(who)[1] = "@"
    BY UnitsNext, LabelAt
  <2>2. Units(Label(who), 0 + 1) = 0 + IF Label(who)[0 + 1] = "E" THEN 2 ELSE 1
    BY <2>1, UnitsNext
  <2>. QED
    BY <2>1, <2>2
<1>3. /\ Js(Label(who))[Units(Label(who), 0) + 1] = Unit(Label(who)[0 + 1])
      /\ Js(Label(who))[Units(Label(who), 1) + 1] = Unit(Label(who)[1 + 1])
  BY <1>1 DEF JsAfter
<1>4. Unit("@") = "@"
  BY DEF Unit
<1>. QED
  BY <1>1, <1>2, <1>3, <1>4, LabelAt DEF JsAfter

(* What ends a mention on the page ends it here.                           *)
LEMMA EndsAlike ==
  ASSUME NEW text \in Seq(Chars), NoOtherLetters(text), NEW i \in 1 .. Len(text),
         Unit(text[i]) \notin Ascii
  PROVE  Ends(text, i)
<1>1. text[i] \in Chars /\ text[i] # "i"
  BY DEF NoOtherLetters
<1>2. text[i] \notin Ascii
  BY <1>1 DEF Unit, Ascii
<1>. QED
  BY <1>1, <1>2 DEF Ends, Alnum

(* The spans of the page are mentions.                                     *)
LEMMA PageMentions ==
  ASSUME NEW text \in Seq(Chars), NoOtherLetters(text), NEW s \in Mentionable(text)
  PROVE  s \in AnySpan /\ \E i \in 0 .. Len(text) - 2 : Mention(text, s, i)
<1>. DEFINE js == Js(text)
            n == Len(text)
            ends(p) == p \notin DOMAIN js \/ js[p] \notin Ascii
<1>1. /\ s \in [who : People, start : 0 .. Len(js), length : {2, 3}]
      /\ s.length = Len(Js(Label(s.who))) /\ s.start + s.length <= Len(js)
      /\ SubSeq(js, s.start + 1, s.start + s.length) = Js(Label(s.who))
      /\ ends(s.start) /\ ends(s.start + s.length + 1)
  BY DEF Mentionable
<1>2. n \in Nat /\ \A i \in 1 .. n : text[i] \in Chars
  OBVIOUS
<1>3. JsAfter(js, text, n)
  BY JsAt
<1>. HIDE DEF js, n
<1>4. js \in Seq(JsUnits) /\ Len(js) = Units(text, n) /\ Len(js) \in Nat /\ DOMAIN js = 1 .. Len(js)
  BY <1>2, <1>3, UnitsNext DEF JsAfter
<1>5. /\ s.who \in People /\ s.start \in Nat /\ s.length \in {2, 3}
      /\ s.length = Units(Label(s.who), 2) /\ s \in AnySpan
  <2>1. s.who \in People /\ s.start \in Nat /\ s.length \in {2, 3}
    <3>1. s.who \in People /\ s.start \in 0 .. Len(js) /\ s.length \in {2, 3}
      BY <1>1, Zenon
    <3>. QED
      BY <1>4, <3>1
  <2>2. s.length = Units(Label(s.who), 2)
    BY <1>1, <2>1, LabelOnPage
  <2>3. s = [who |-> s.who, start |-> s.start, length |-> s.length]
    BY <1>1
  <2>. QED
    BY <2>1, <2>2, <2>3 DEF AnySpan
<1>6. js[s.start + 1] = "@" /\ js[s.start + 2] = Unit(s.who)
  <2>1. \A p \in s.start + 1 .. s.start + s.length : js[p] \in JsUnits
    BY <1>1, <1>4, <1>5
  <2>2. \A k \in 1 .. (s.start + s.length) - (s.start + 1) + 1 :
           SubSeq(js, s.start + 1, s.start + s.length)[k] = js[(s.start + 1) + k - 1]
    BY <1>5, <2>1, SubSeqProperties
  <2>. QED
    <3>1. 1 \in 1 .. (s.start + s.length) - (s.start + 1) + 1 /\ 2 \in 1 .. (s.start + s.length) - (s.start + 1) + 1
      BY <1>5
    <3>2. /\ Js(Label(s.who))[1] = js[(s.start + 1) + 1 - 1]
          /\ Js(Label(s.who))[2] = js[(s.start + 1) + 2 - 1]
      BY <1>1, <2>2, <3>1
    <3>3. Js(Label(s.who))[1] = "@" /\ Js(Label(s.who))[2] = Unit(s.who)
      BY <1>5, LabelOnPage
    <3>4. (s.start + 1) + 1 - 1 = s.start + 1 /\ (s.start + 1) + 2 - 1 = s.start + 2
      BY <1>5
    <3>. QED
      BY <3>2, <3>3, <3>4
<1>7. PICK i \in 0 .. n - 1 : s.start = Units(text, i) /\ text[i + 1] = "@"
  <2>1. s.start + 1 \in 1 .. Len(js)
    BY <1>1, <1>4, <1>5
  <2>2. PICK i \in 0 .. n - 1 :
          s.start + 1 = Units(text, i) + 1 \/ (text[i + 1] = "E" /\ s.start + 1 = Units(text, i) + 2)
    BY <1>3, <2>1 DEF JsAfter
  <2>3. /\ js[Units(text, i) + 1] = Unit(text[i + 1])
        /\ text[i + 1] = "E" => js[Units(text, i) + 2] = "low"
    BY <1>3 DEF JsAfter
  <2>4. s.start = Units(text, i)
    <3>1. js[s.start + 1] # "low"
      BY <1>6, PeopleAreChars
    <3>2. Units(text, i) \in Nat
      BY <1>2, UnitsNext
    <3>3. ~(text[i + 1] = "E" /\ s.start + 1 = Units(text, i) + 2)
      BY <2>3, <3>1
    <3>. QED
      BY <1>5, <2>2, <3>2, <3>3
  <2>5. text[i + 1] \in Chars /\ "@" \in Chars \ {"E"}
    <3>1. i + 1 \in 1 .. n
      BY <1>2
    <3>. QED
      BY <1>2, <3>1, PeopleAreChars
  <2>6. Unit(text[i + 1]) = "@"
    BY <1>6, <2>3, <2>4
  <2>7. text[i + 1] = "@"
    BY <2>5, <2>6, UnitIs
  <2>. QED
    BY <2>4, <2>7
<1>8. i \in Nat /\ i + 1 \in Nat /\ Units(text, i + 1) = s.start + 1
  <2>1. i \in Nat /\ i + 1 \in Nat
    BY <1>2
  <2>2. Units(text, i + 1) = Units(text, i) + IF text[i + 1] = "E" THEN 2 ELSE 1
    BY <2>1, UnitsNext
  <2>. QED
    BY <1>7, <2>1, <2>2
<1>9. i + 1 \in 0 .. n - 1 /\ text[i + 2] = s.who
  <2>1. Units(text, i + 1) < Units(text, n)
    BY <1>1, <1>4, <1>5, <1>8
  <2>2. i + 1 < n
    BY <1>2, <1>8, <2>1, OneIndex
  <2>3. js[Units(text, i + 1) + 1] = Unit(text[(i + 1) + 1])
    BY <1>2, <1>3, <1>8, <2>2 DEF JsAfter
  <2>4. Unit(text[i + 2]) = Unit(s.who)
    BY <1>5, <1>6, <1>8, <2>3
  <2>5. text[i + 2] \in Chars /\ s.who \in People
    BY <1>2, <1>5, <1>8, <2>2
  <2>6. text[i + 2] = s.who
    BY <2>4, <2>5, UnitsDiffer, PeopleAreChars
  <2>. QED
    BY <1>2, <1>8, <2>2, <2>6
<1>10. Units(text, i + 2) = s.start + s.length
  <2>1. Units(text, (i + 1) + 1) = Units(text, i + 1) + IF text[(i + 1) + 1] = "E" THEN 2 ELSE 1
    BY <1>8, UnitsNext
  <2>2. (i + 1) + 1 = i + 2
    BY <1>8
  <2>3. s.length = IF s.who = "E" THEN 3 ELSE 2
    BY <1>5, LabelUnits
  <2>. QED
    BY <1>5, <1>8, <1>9, <2>1, <2>2, <2>3
<1>11. Ends(text, i)
  <2>1. CASE i = 0
    BY <1>2, <2>1 DEF Ends
  <2>2. CASE i # 0
    <3>1. i - 1 \in Nat /\ i - 1 \in 0 .. n - 1 /\ i \in 1 .. n /\ (i - 1) + 1 = i
      BY <1>2, <1>7, <2>2
    <3>2. /\ Units(text, i - 1) \in Nat
          /\ Units(text, (i - 1) + 1) = Units(text, i - 1) + IF text[(i - 1) + 1] = "E" THEN 2 ELSE 1
      BY <3>1, UnitsNext
    <3>3. js[Units(text, i - 1) + 1] = Unit(text[(i - 1) + 1])
      BY <1>3, <3>1 DEF JsAfter
    <3>4. Unit(text[i]) \notin Ascii
      <4>1. CASE text[i] = "E"
        BY <4>1 DEF Unit, Ascii
      <4>2. CASE text[i] # "E"
        <5>1. s.start = Units(text, i - 1) + 1 /\ s.start \in 1 .. Len(js)
          BY <1>1, <1>4, <1>5, <1>7, <3>1, <3>2, <4>2
        <5>2. js[s.start] \notin Ascii
          BY <1>1, <1>4, <5>1
        <5>. QED
          BY <3>1, <3>3, <5>1, <5>2
      <4>. QED
        BY <4>1, <4>2
    <3>. QED
      BY <3>1, <3>4, EndsAlike DEF n
  <2>. QED
    BY <2>1, <2>2
<1>12. Ends(text, i + 3)
  <2>1. CASE i + 3 \notin 1 .. n
    BY <2>1 DEF Ends, n
  <2>2. CASE i + 3 \in 1 .. n
    <3>1. i + 2 \in 0 .. n - 1 /\ i + 2 \in Nat /\ (i + 2) + 1 = i + 3
      BY <1>2, <1>8, <2>2
    <3>2. js[Units(text, i + 2) + 1] = Unit(text[(i + 2) + 1])
      BY <1>3, <3>1 DEF JsAfter
    <3>3. Units(text, i + 2) < Units(text, n)
      <4>1. Units(text, i + 2) + (n - (i + 2)) <= Units(text, n)
        BY <1>2, <3>1, UnitsGrow
      <4>. QED
        BY <1>2, <1>4, <1>5, <1>10, <3>1, <4>1
    <3>4. s.start + s.length + 1 \in DOMAIN js
      BY <1>4, <1>5, <1>10, <3>3
    <3>5. Unit(text[i + 3]) \notin Ascii
      BY <1>1, <1>10, <3>1, <3>2, <3>4
    <3>. QED
      BY <2>2, <3>5, EndsAlike DEF n
  <2>. QED
    BY <2>1, <2>2
<1>13. i \in 0 .. n - 2
  BY <1>2, <1>8, <1>9
<1>. QED
  BY <1>5, <1>7, <1>9, <1>11, <1>12, <1>13 DEF Mention, n

-----------------------------------------------------------------------------
(* Records in order.                                                       *)

Increasing(seq) == \A k, l \in 1 .. Len(seq) : k < l => seq[k].start < seq[l].start

LEMMA InOrderIs ==
  ASSUME NEW S, IsFiniteSet(S), \A s \in S : s.start \in Nat,
         \A s, t \in S : s.start = t.start => s = t
  PROVE  /\ InOrder(S) \in Seq(S) /\ Len(InOrder(S)) = Cardinality(S) /\ Increasing(InOrder(S))
         /\ \A s \in S : \E k \in 1 .. Len(InOrder(S)) : InOrder(S)[k] = s
<1>. DEFINE n == Cardinality(S)
            Before(s) == {t \in S : t.start < s.start}
            rank == [s \in S |-> Cardinality(Before(s))]
<1>1. n \in Nat /\ n - 1 \in Int
  BY FS_CardinalityType
<1>5. /\ \A s \in S : rank[s] = Cardinality(Before(s))
      /\ rank = [s \in S |-> rank[s]]
  OBVIOUS
<1>. HIDE DEF rank
<1>2. ASSUME NEW s \in S
      PROVE  IsFiniteSet(Before(s)) /\ rank[s] \in 0 .. n - 1
  <2>1. Before(s) \in SUBSET S
    OBVIOUS
  <2>2. s \notin Before(s)
    OBVIOUS
  <2>. HIDE DEF Before
  <2>3. IsFiniteSet(Before(s)) /\ Cardinality(Before(s)) <= n /\ (n = Cardinality(Before(s)) => S = Before(s))
    BY <2>1, FS_Subset
  <2>4. Cardinality(Before(s)) \in Nat
    BY <2>3, FS_CardinalityType
  <2>. QED
    BY <1>1, <1>5, <2>2, <2>3, <2>4
<1>3. ASSUME NEW s \in S, NEW t \in S, s.start < t.start
      PROVE  rank[s] < rank[t]
  <2>1. Before(s) \in SUBSET Before(t)
    BY <1>3
  <2>2. s \in Before(t) /\ s \notin Before(s)
    BY <1>3
  <2>. HIDE DEF Before
  <2>3. /\ IsFiniteSet(Before(t)) /\ Cardinality(Before(s)) <= Cardinality(Before(t))
        /\ Cardinality(Before(t)) = Cardinality(Before(s)) => Before(t) = Before(s)
    BY <1>2, <2>1, FS_Subset
  <2>4. rank[s] \in Nat /\ rank[t] \in Nat
    BY <1>1, <1>2
  <2>. QED
    BY <1>1, <1>2, <1>5, <2>2, <2>3, <2>4
<1>4. ASSUME NEW s \in S, NEW t \in S, rank[s] = rank[t]
      PROVE  s = t
  <2>1. s.start \in Nat /\ t.start \in Nat /\ rank[s] \in Nat
    <3>1. rank[s] \in 0 .. n - 1
      BY <1>2
    <3>. HIDE DEF n
    <3>. QED
      BY <1>1, <3>1
  <2>2. ~(s.start < t.start) /\ ~(t.start < s.start)
    <3>1. ~(rank[s] < rank[t]) /\ ~(rank[t] < rank[s])
      BY <1>4, <2>1
    <3>. QED
      BY <1>3, <3>1
  <2>. QED
    BY <2>1, <2>2
<1>6. rank \in Injection(S, 0 .. n - 1)
  <2>1. rank \in [S -> 0 .. n - 1]
    BY <1>2, <1>5
  <2>. QED
    BY <1>4, <2>1 DEF Injection, IsInjective
<1>7. rank \in Surjection(S, 0 .. n - 1)
  <2>1. IsFiniteSet(0 .. n - 1) /\ Cardinality(0 .. n - 1) = n
    <3>1. 0 \in Int /\ (IF 0 > n - 1 THEN 0 ELSE (n - 1) - 0 + 1) = n
      BY <1>1
    <3>. QED
      BY <1>1, <3>1, FS_Interval
  <2>. QED
    BY <1>6, <2>1, FS_Injection
<1>8. ASSUME NEW k \in 1 .. n
      PROVE  InOrder(S)[k] \in S /\ rank[InOrder(S)[k]] = k - 1
  <2>1. k - 1 \in 0 .. n - 1
    BY <1>1
  <2>2. \E s \in S : rank[s] = k - 1
    BY <1>7, <2>1 DEF Surjection
  <2>3. \E s \in S : Cardinality(Before(s)) = k - 1
    BY <1>5, <2>2
  <2>4. InOrder(S)[k] = CHOOSE s \in S : Cardinality(Before(s)) = k - 1
    BY DEF InOrder
  <2>. HIDE DEF Before
  <2>5. InOrder(S)[k] \in S /\ Cardinality(Before(InOrder(S)[k])) = k - 1
    BY <2>3, <2>4
  <2>. QED
    BY <1>5, <2>5
<1>. HIDE DEF Before
<1>9. DOMAIN InOrder(S) = 1 .. n /\ InOrder(S) = [k \in 1 .. n |-> InOrder(S)[k]]
  <2>. DEFINE e(k) == CHOOSE s \in S : Cardinality({t \in S : t.start < s.start}) = k - 1
  <2>1. InOrder(S) = [k \in 1 .. n |-> e(k)]
    BY DEF InOrder
  <2>. HIDE DEF e, n
  <2>. QED
    BY <2>1
<1>10. InOrder(S) \in Seq(S) /\ Len(InOrder(S)) = n
  <2>1. InOrder(S) \in [1 .. n -> S]
    BY <1>8, <1>9
  <2>. QED
    BY <1>1, <2>1, <1>9
<1>11. ASSUME NEW k \in 1 .. n, NEW l \in 1 .. n, k < l
       PROVE  InOrder(S)[k].start < InOrder(S)[l].start
  <2>. DEFINE s == InOrder(S)[k]
              t == InOrder(S)[l]
  <2>1. s \in S /\ t \in S /\ rank[s] = k - 1 /\ rank[t] = l - 1
    BY <1>8
  <2>. HIDE DEF s, t
  <2>2. s.start \in Nat /\ t.start \in Nat
    BY <2>1
  <2>3. ~(t.start < s.start)
    BY <1>1, <1>3, <1>11, <2>1
  <2>4. s.start # t.start
    BY <1>1, <1>11, <2>1
  <2>5. s.start < t.start
    BY <2>2, <2>3, <2>4
  <2>. QED
    BY <2>5 DEF s, t
<1>12. ASSUME NEW s \in S
       PROVE  \E k \in 1 .. n : InOrder(S)[k] = s
  <2>1. rank[s] \in 0 .. n - 1 /\ rank[s] + 1 \in 1 .. n /\ (rank[s] + 1) - 1 = rank[s]
    BY <1>1, <1>2
  <2>2. InOrder(S)[rank[s] + 1] \in S /\ rank[InOrder(S)[rank[s] + 1]] = rank[s]
    BY <1>8, <2>1
  <2>3. InOrder(S)[rank[s] + 1] = s
    BY <1>4, <2>2
  <2>. QED
    BY <2>1, <2>3
<1>. QED
  BY <1>10, <1>11, <1>12 DEF Increasing

(* There is one way to put things in order.                                *)
LEMMA OneRank ==
  ASSUME NEW X, NEW Less, \A x, y \in X : <<x, y>> \in Less => <<y, x>> \notin Less,
         NEW s \in Seq(X), NEW t \in Seq(X),
         \A k, l \in 1 .. Len(s) : k < l => <<s[k], s[l]>> \in Less,
         \A k, l \in 1 .. Len(t) : k < l => <<t[k], t[l]>> \in Less,
         \A k \in 1 .. Len(s) : \E l \in 1 .. Len(t) : t[l] = s[k],
         \A l \in 1 .. Len(t) : \E k \in 1 .. Len(s) : s[k] = t[l]
  PROVE  s = t
<1>. DEFINE m == Len(s)
            n == Len(t)
            Before(x, y) == <<x, y>> \in Less
            S == {k \in 0 .. m : \A l \in 1 .. k : l \in 1 .. n /\ t[l] = s[l]}
<1>1. m \in Nat /\ n \in Nat /\ (\A k \in 1 .. m : s[k] \in X) /\ (\A l \in 1 .. n : t[l] \in X)
  OBVIOUS
<1>2. /\ \A k, l \in 1 .. m : k < l => Before(s[k], s[l])
      /\ \A k, l \in 1 .. n : k < l => Before(t[k], t[l])
      /\ \A k \in 1 .. m : \E l \in 1 .. n : t[l] = s[k]
      /\ \A l \in 1 .. n : \E k \in 1 .. m : s[k] = t[l]
      /\ \A x, y \in X : Before(x, y) => ~Before(y, x)
  OBVIOUS
<1>. HIDE DEF m, n, Before
<1>3. 0 \in S
  BY <1>1
<1>4. ASSUME NEW k \in 0 .. m - 1, k \in S
      PROVE  k + 1 \in S
  <2>1. k + 1 \in 1 .. m /\ k \in Nat
    BY <1>1
  <2>2. \A l \in 1 .. k : l \in 1 .. n /\ l \in 1 .. m /\ t[l] = s[l]
    BY <1>1, <1>4
  <2>3. PICK l \in 1 .. n : t[l] = s[k + 1]
    BY <1>2, <2>1
  <2>4. ~(l <= k)
    <3>. SUFFICES ASSUME l <= k PROVE FALSE
      OBVIOUS
    <3>1. l \in 1 .. k
      BY <1>1, <2>1
    <3>2. l \in 1 .. m /\ l < k + 1 /\ t[l] = s[l]
      BY <1>1, <2>1, <2>2, <3>1
    <3>3. Before(s[l], s[k + 1])
      BY <1>2, <2>1, <3>2
    <3>4. s[l] = s[k + 1] /\ s[l] \in X
      BY <1>1, <2>3, <3>2
    <3>. QED
      BY <1>2, <3>3, <3>4
  <2>5. k + 1 \in 1 .. n
    BY <1>1, <2>1, <2>4
  <2>6. PICK j \in 1 .. m : s[j] = t[k + 1]
    BY <1>2, <2>5
  <2>7. ~(j <= k)
    <3>. SUFFICES ASSUME j <= k PROVE FALSE
      OBVIOUS
    <3>1. j \in 1 .. k
      BY <1>1, <2>1
    <3>2. j \in 1 .. n /\ j < k + 1 /\ t[j] = s[j]
      <4>1. j \in 1 .. n /\ t[j] = s[j]
        BY ONLY <2>2, <3>1
      <4>2. j < k + 1
        BY ONLY <2>1, <3>1
      <4>. QED
        BY ONLY <4>1, <4>2
    <3>3. Before(t[j], t[k + 1])
      BY <1>2, <2>5, <3>2
    <3>4. t[j] = t[k + 1] /\ t[j] \in X
      BY <1>1, <2>6, <3>2
    <3>. QED
      BY <1>2, <3>3, <3>4
  <2>8. l = k + 1
    <3>. SUFFICES ASSUME k + 1 < l PROVE FALSE
      BY <1>1, <2>1, <2>4
    <3>1. Before(t[k + 1], t[l])
      BY <1>2, <2>5
    <3>2. j = k + 1 \/ Before(s[k + 1], s[j])
      <4>1. j = k + 1 \/ k + 1 < j
        BY <1>1, <2>1, <2>7
      <4>. QED
        BY <1>2, <2>1, <4>1
    <3>3. s[k + 1] \in X /\ s[j] \in X
      BY <1>1, <2>1
    <3>4. Before(s[j], s[k + 1])
      BY <2>3, <2>6, <3>1, Zenon
    <3>5. ~Before(s[k + 1], s[j]) /\ ~Before(s[j], s[j])
      BY <1>2, <3>3, <3>4, Zenon
    <3>. QED
      BY <3>2, <3>4, <3>5, Zenon
  <2>. QED
    BY <1>1, <2>1, <2>2, <2>3, <2>5, <2>8
<1>. HIDE DEF S
<1>5. 0 .. m \subseteq S
  BY <1>1, <1>3, <1>4, UpTo
<1>6. \A l \in 1 .. m : l \in 1 .. n /\ t[l] = s[l]
  <2>1. m \in S
    BY <1>1, <1>5
  <2>. QED
    BY <2>1 DEF S
<1>7. m = n
  <2>. SUFFICES ASSUME m < n PROVE FALSE
    <3>1. m # 0 => m \in 1 .. m
      BY <1>1
    <3>2. m # 0 => m \in 1 .. n
      BY <1>6, <3>1
    <3>. QED
      BY <1>1, <3>2
  <2>1. n \in 1 .. n
    BY <1>1
  <2>2. PICK k \in 1 .. m : s[k] = t[n]
    BY <1>2, <2>1
  <2>3. t[k] = t[n] /\ k < n /\ k \in 1 .. n
    BY <1>1, <1>6, <2>2
  <2>4. Before(t[k], t[n]) /\ t[n] \in X
    BY <1>1, <1>2, <2>1, <2>3
  <2>. QED
    BY <1>2, <2>3, <2>4
<1>. QED
  BY <1>6, <1>7, SeqEqual DEF m, n

LEMMA OneOrder ==
  ASSUME NEW X, \A x \in X : x.start \in Nat, NEW s \in Seq(X), NEW t \in Seq(X),
         Increasing(s), Increasing(t),
         \A k \in 1 .. Len(s) : \E l \in 1 .. Len(t) : t[l] = s[k],
         \A l \in 1 .. Len(t) : \E k \in 1 .. Len(s) : s[k] = t[l]
  PROVE  s = t
<1>. DEFINE Less == {p \in X \X X : p[1].start < p[2].start}
<1>1. \A x, y \in X : <<x, y>> \in Less <=> x.start < y.start
  OBVIOUS
<1>. HIDE DEF Less
<1>2. \A x, y \in X : <<x, y>> \in Less => <<y, x>> \notin Less
  BY <1>1
<1>3. /\ \A k \in 1 .. Len(s) : s[k] \in X
      /\ \A k \in 1 .. Len(t) : t[k] \in X
  OBVIOUS
<1>4. /\ \A k, l \in 1 .. Len(s) : k < l => <<s[k], s[l]>> \in Less
      /\ \A k, l \in 1 .. Len(t) : k < l => <<t[k], t[l]>> \in Less
  BY <1>1, <1>3 DEF Increasing
<1>. QED
  BY <1>2, <1>4, OneRank

-----------------------------------------------------------------------------
(* What validation keeps: all mentions, in order.                          *)

Mentions(text, spans) == {s \in spans : Matches(text, s)}

LEMMA MentionsInOrder ==
  ASSUME NEW text \in Seq(Chars), NEW spans \in SUBSET AnySpan
  PROVE  LET M == Mentions(text, spans) IN
         /\ InOrder(M) \in Seq(M) /\ Increasing(InOrder(M))
         /\ \A s \in M : \E k \in 1 .. Len(InOrder(M)) : InOrder(M)[k] = s
<1>. DEFINE M == Mentions(text, spans)
            starts == [s \in M |-> s.start]
            end == Units(text, Len(text))
<1>1. \A s \in M : s \in AnySpan /\ s.start \in Nat /\ Matches(text, s)
  BY DEF Mentions, AnySpan
<1>2. end \in Nat
  BY UnitsNext
<1>. HIDE DEF M, end
<1>3. ASSUME NEW s \in M
      PROVE  s.start \in 0 .. end
  <2>1. PICK i \in 0 .. Len(text) - 2 : Mention(text, s, i)
    BY <1>1, MatchesOne
  <2>2. i < Len(text) /\ i \in Nat /\ Len(text) \in Nat /\ s.start = Units(text, i)
    BY <2>1 DEF Mention
  <2>3. Units(text, i) + (Len(text) - i) <= end
    BY <2>2, UnitsGrow DEF end
  <2>. QED
    BY <1>1, <1>2, <2>2, <2>3
<1>4. ASSUME NEW s \in M, NEW t \in M, s.start = t.start
      PROVE  s = t
  <2>1. PICK i \in 0 .. Len(text) - 2 : Mention(text, s, i)
    BY <1>1, MatchesOne
  <2>2. PICK j \in 0 .. Len(text) - 2 : Mention(text, t, j)
    BY <1>1, MatchesOne
  <2>. QED
    BY <1>1, <1>4, <2>1, <2>2, Apart
<1>5. starts \in Injection(M, 0 .. end)
  BY <1>3, <1>4 DEF Injection, IsInjective
<1>6. IsFiniteSet(0 .. end)
  BY <1>2, FS_Interval
<1>7. IsFiniteSet(M)
  BY <1>5, <1>6, FS_Injection
<1>. QED
  BY <1>1, <1>4, <1>7, InOrderIs DEF M

LEMMA ValidatedIs ==
  ASSUME NEW text \in Seq(Chars), NEW spans \in SUBSET AnySpan
  PROVE  Validated(text, spans) = InOrder(Mentions(text, spans))
<1>. DEFINE matching == InOrder(Mentions(text, spans))
            n == Len(matching)
            overlaps(kept, s) == kept # <<>> /\ s.start < Last(kept).start + Last(kept).length
            next(k, before) == IF k = 0 THEN <<>>
                               ELSE IF overlaps(before, matching[k]) THEN before
                               ELSE Append(before, matching[k])
            first == [k \in 0 .. n |-> SubSeq(matching, 1, k)]
            validated == CHOOSE f : f = [k \in 0 .. n |-> next(k, f[k - 1])]
<1>1. /\ matching \in Seq(Mentions(text, spans)) /\ n \in Nat
      /\ \A k, l \in 1 .. n : k < l => matching[k].start < matching[l].start
  BY MentionsInOrder DEF Increasing
<1>2. Validated(text, spans) = validated[n]
  BY DEF Validated, Mentions
<1>3. \A k \in 1 .. n : matching[k] \in AnySpan /\ Matches(text, matching[k])
  BY <1>1 DEF Mentions
<1>. HIDE DEF matching, n
<1>4. ASSUME NEW k \in 0 .. n
      PROVE  /\ SubSeq(matching, 1, k) \in Seq(Mentions(text, spans))
             /\ Len(SubSeq(matching, 1, k)) = k
             /\ \A i \in 1 .. k : SubSeq(matching, 1, k)[i] = matching[i]
  <2>1. \A i \in 1 .. k : matching[i] \in Mentions(text, spans)
    BY <1>1 DEF n
  <2>2. /\ SubSeq(matching, 1, k) \in Seq(Mentions(text, spans))
        /\ Len(SubSeq(matching, 1, k)) = IF 1 <= k THEN k - 1 + 1 ELSE 0
        /\ \A i \in 1 .. k - 1 + 1 : SubSeq(matching, 1, k)[i] = matching[1 + i - 1]
    BY <1>1, <2>1, SubSeqProperties
  <2>. QED
    BY <1>1, <2>2
<1>5. ASSUME NEW k \in 1 .. n
      PROVE  ~overlaps(first[k - 1], matching[k])
  <2>. DEFINE kept == SubSeq(matching, 1, k - 1)
  <2>. SUFFICES ASSUME kept # <<>> PROVE ~(matching[k].start < Last(kept).start + Last(kept).length)
    <3>1. first[k - 1] = kept
      <4>1. k - 1 \in 0 .. n
        BY <1>1
      <4>. QED
        BY <4>1
    <3>. HIDE DEF first, kept
    <3>. QED
      BY <3>1
  <2>1. k - 1 \in 0 .. n /\ Len(kept) = k - 1
    BY <1>1, <1>4
  <2>2. k - 1 \in 1 .. n
    <3>1. k - 1 # 0
      BY <1>4, <2>1
    <3>. QED
      BY <1>1, <2>1, <3>1
  <2>3. Last(kept) = matching[k - 1]
    <3>1. kept[k - 1] = matching[k - 1]
      BY <1>4, <2>1, <2>2
    <3>. QED
      BY <2>1, <3>1 DEF Last
  <2>4. matching[k - 1].start < matching[k].start
    BY <1>1, <2>2
  <2>5. PICK i \in 0 .. Len(text) - 2 : Mention(text, matching[k - 1], i)
    BY <1>3, <2>2, MatchesOne
  <2>6. PICK j \in 0 .. Len(text) - 2 : Mention(text, matching[k], j)
    BY <1>3, MatchesOne
  <2>7. matching[k - 1].start + matching[k - 1].length <= matching[k].start
    <3>1. \A s, t \in AnySpan : \A p, q :
             Mention(text, s, p) /\ Mention(text, t, q) /\ s.start < t.start
               => s.start + s.length <= t.start
      BY Apart
    <3>2. matching[k - 1] \in AnySpan /\ matching[k] \in AnySpan
      BY <1>3, <2>2
    <3>. QED
      BY <2>4, <2>5, <2>6, <3>1, <3>2, Zenon
  <2>8. matching[k].start \in Nat /\ matching[k - 1].start \in Nat /\ matching[k - 1].length \in Nat
    BY <1>3, <2>2 DEF AnySpan
  <2>. QED
    BY <2>3, <2>7, <2>8
<1>6. ASSUME NEW k \in 0 .. n
      PROVE  first[k] = next(k, first[k - 1])
  <2>1. CASE k = 0
    <3>1. SubSeq(matching, 1, 0) = <<>>
      BY <1>4, <2>1
    <3>. QED
      BY <2>1, <3>1
  <2>2. CASE k # 0
    <3>1. k \in 1 .. n /\ k - 1 \in 0 .. n
      BY <1>1, <2>2
    <3>2. SubSeq(matching, 1, k) = Append(SubSeq(matching, 1, k - 1), matching[k])
      <4>. DEFINE a == SubSeq(matching, 1, k - 1)
                  b == SubSeq(matching, 1, k)
                  M == Mentions(text, spans)
      <4>1. a \in Seq(M) /\ Len(a) = k - 1 /\ \A i \in 1 .. k - 1 : a[i] = matching[i]
        BY <1>4, <3>1
      <4>2. b \in Seq(M) /\ Len(b) = k /\ \A i \in 1 .. k : b[i] = matching[i]
        BY <1>4
      <4>3. matching[k] \in M
        BY <1>1, <3>1 DEF n
      <4>. HIDE DEF a, b, M
      <4>4. /\ Append(a, matching[k]) \in Seq(M) /\ Len(Append(a, matching[k])) = Len(a) + 1
            /\ \A i \in 1 .. Len(a) : Append(a, matching[k])[i] = a[i]
            /\ Append(a, matching[k])[Len(a) + 1] = matching[k]
        BY <4>1, <4>3, AppendProperties
      <4>5. Len(Append(a, matching[k])) = Len(b) /\ \A i \in 1 .. Len(b) : b[i] = Append(a, matching[k])[i]
        BY <1>1, <3>1, <4>1, <4>2, <4>4
      <4>6. b = Append(a, matching[k])
        BY <4>2, <4>4, <4>5, SeqEqual
      <4>. QED
        BY <4>6 DEF a, b
    <3>3. ~overlaps(first[k - 1], matching[k])
      BY <1>5, <3>1
    <3>4. first[k] = SubSeq(matching, 1, k) /\ first[k - 1] = SubSeq(matching, 1, k - 1)
      BY <3>1
    <3>. HIDE DEF overlaps, first
    <3>. QED
      BY <2>2, <3>2, <3>3, <3>4
  <2>. QED
    BY <2>1, <2>2
<1>7. validated = [k \in 0 .. n |-> next(k, validated[k - 1])]
  <2>1. first = [k \in 0 .. n |-> next(k, first[k - 1])]
    <3>1. first = [k \in 0 .. n |-> first[k]]
      OBVIOUS
    <3>. HIDE DEF first, next
    <3>. QED
      BY <1>6, <3>1
  <2>. HIDE DEF first, next
  <2>. QED
    BY <2>1
<1>. HIDE DEF validated
<1>8. \A k \in 0 .. n : validated[k] = next(k, validated[k - 1])
  <2>. HIDE DEF next
  <2>. QED
    BY <1>7
<1>. DEFINE S == {k \in 0 .. n : validated[k] = first[k]}
<1>. HIDE DEF first
<1>9. 0 \in S
  <2>1. 0 \in 0 .. n
    BY <1>1
  <2>. QED
    BY <1>6, <1>8, <2>1
<1>10. ASSUME NEW k \in 0 .. n - 1, k \in S
       PROVE  k + 1 \in S
  <2>1. k + 1 \in 0 .. n /\ (k + 1) - 1 = k
    BY <1>1
  <2>2. validated[k + 1] = next(k + 1, validated[k]) /\ first[k + 1] = next(k + 1, first[k])
    <3>. HIDE DEF next
    <3>. QED
      BY <1>6, <1>8, <2>1
  <2>. HIDE DEF next
  <2>. QED
    BY <1>10, <2>1, <2>2
<1>. HIDE DEF S
<1>11. 0 .. n \subseteq S
  BY <1>1, <1>9, <1>10, UpTo
<1>12. validated[n] = first[n]
  BY <1>1, <1>11 DEF S
<1>13. first[n] = matching
  <2>1. first[n] = SubSeq(matching, 1, n)
    BY <1>1 DEF first
  <2>. QED
    BY <1>1, <2>1, SubSeqFull DEF n
<1>. QED
  BY <1>2, <1>12, <1>13 DEF matching

-----------------------------------------------------------------------------
(* Words of two characters in the places of others.                        *)

(* Places in a text, each after the other.                                 *)
ArePlaces(text, places) ==
  /\ \A k \in 1 .. Len(places) : /\ places[k].start \in 1 .. Len(text)
                                 /\ places[k].end \in 1 .. Len(text)
                                 /\ places[k].end = places[k].start + 1
  /\ \A k, l \in 1 .. Len(places) : k < l => places[k].end < places[l].start

Outside(p, places, n) == \A k \in 1 .. n : p # places[k].start /\ p # places[k].end

LEMMA PlacesBefore ==
  ASSUME NEW text, Len(text) \in Nat, NEW places, Len(places) \in Nat, ArePlaces(text, places),
         NEW k \in 1 .. Len(places), NEW l \in 1 .. k
  PROVE  places[l].start \in 1 .. places[k].end /\ places[l].end \in 1 .. places[k].end
<1>1. l \in 1 .. Len(places) /\ (l = k \/ l < k)
  OBVIOUS
<1>2. l = k \/ places[l].end < places[k].start
  BY <1>1 DEF ArePlaces
<1>3. /\ places[l].start \in 1 .. Len(text) /\ places[l].end = places[l].start + 1
      /\ places[k].start \in 1 .. Len(text) /\ places[k].end = places[k].start + 1
  BY <1>1 DEF ArePlaces
<1>4. \A x, y \in Nat : x >= 1 /\ (x = y \/ x + 1 < y) => x \in 1 .. y + 1 /\ x + 1 \in 1 .. y + 1
  OBVIOUS
<1>5. /\ places[l].start \in Nat /\ places[l].start >= 1 /\ places[k].start \in Nat
      /\ (places[l].start = places[k].start \/ places[l].start + 1 < places[k].start)
  <2>. DEFINE x == places[l].start
              y == places[k].start
  <2>1. x \in 1 .. Len(text) /\ y \in 1 .. Len(text) /\ (l = k \/ x + 1 < y) /\ (l = k => x = y)
    BY <1>2, <1>3
  <2>. HIDE DEF x, y
  <2>2. x \in Nat /\ x >= 1 /\ y \in Nat /\ (x = y \/ x + 1 < y)
    BY <2>1
  <2>. QED
    BY <2>2 DEF x, y
<1>6. /\ places[l].start \in 1 .. places[k].start + 1
      /\ places[l].start + 1 \in 1 .. places[k].start + 1
  BY <1>4, <1>5
<1>. QED
  BY <1>3, <1>6

(* g is what the text up to some place becomes by its first n words.       *)
HasWords(g, text, places, words, n) ==
  /\ \A k \in 1 .. n : g[places[k].start] = words[k][1] /\ g[places[k].end] = words[k][2]
  /\ \A p \in 1 .. Len(g) : Outside(p, places, n) => g[p] = text[p]

(* The text between two places is kept.                                    *)
LEMMA KeepsBetween ==
  ASSUME NEW X, NEW text \in Seq(X), NEW places, NEW words, NEW n \in Nat, NEW g \in Seq(X),
         HasWords(g, text, places, words, n), NEW b \in Int, Len(g) <= b, b <= Len(text),
         \A k \in 1 .. n : places[k].start \in 1 .. Len(g) /\ places[k].end \in 1 .. Len(g)
  PROVE  /\ g \o SubSeq(text, Len(g) + 1, b) \in Seq(X)
         /\ Len(g \o SubSeq(text, Len(g) + 1, b)) = b
         /\ HasWords(g \o SubSeq(text, Len(g) + 1, b), text, places, words, n)
<1>. DEFINE a == Len(g)
            h == SubSeq(text, a + 1, b)
            c == g \o h
<1>1. a \in Nat /\ Len(text) \in Nat
  OBVIOUS
<1>2. /\ h \in Seq(X) /\ Len(h) = IF a + 1 <= b THEN b - (a + 1) + 1 ELSE 0
      /\ \A i \in 1 .. b - (a + 1) + 1 : h[i] = text[(a + 1) + i - 1]
  <2>1. \A i \in a + 1 .. b : text[i] \in X
    BY <1>1
  <2>. HIDE DEF a
  <2>. QED
    BY <1>1, <2>1, SubSeqProperties
<1>. HIDE DEF h
<1>3. /\ c \in Seq(X) /\ Len(c) = Len(g) + Len(h)
      /\ \A p \in 1 .. Len(g) + Len(h) : c[p] = IF p <= Len(g) THEN g[p] ELSE h[p - Len(g)]
  BY <1>2, ConcatProperties
<1>4. Len(h) = b - a
  BY <1>1, <1>2
<1>. HIDE DEF c
<1>5. Len(c) = b
  BY <1>1, <1>3, <1>4
<1>6. \A p \in 1 .. a : c[p] = g[p] /\ p \in 1 .. Len(c)
  BY <1>1, <1>3, <1>4
<1>7. ASSUME NEW p \in a + 1 .. b
      PROVE  c[p] = text[p]
  <2>1. p - a \in 1 .. b - (a + 1) + 1 /\ (a + 1) + (p - a) - 1 = p /\ ~(p <= a) /\ p \in 1 .. a + Len(h)
    BY <1>1, <1>4
  <2>2. c[p] = h[p - a]
    BY <1>3, <2>1
  <2>. QED
    BY <1>2, <2>1, <2>2
<1>8. HasWords(c, text, places, words, n)
  <2>1. \A k \in 1 .. n : c[places[k].start] = words[k][1] /\ c[places[k].end] = words[k][2]
    BY <1>6 DEF HasWords
  <2>2. ASSUME NEW p \in 1 .. Len(c), Outside(p, places, n)
        PROVE  c[p] = text[p]
    <3>1. CASE p <= a
      <4>1. p \in 1 .. Len(g)
        BY <1>1, <1>5, <3>1
      <4>2. g[p] = text[p]
        BY <2>2, <4>1 DEF HasWords
      <4>. QED
        BY <1>6, <4>1, <4>2
    <3>2. CASE ~(p <= a)
      BY <1>1, <1>5, <1>7, <3>2
    <3>. QED
      BY <3>1, <3>2
  <2>. QED
    BY <2>1, <2>2 DEF HasWords
<1>. QED
  BY <1>3, <1>5, <1>8 DEF c, h

(* The next word comes in its place.                                       *)
LEMMA PutsWord ==
  ASSUME NEW X, NEW text \in Seq(X), NEW places, NEW words, NEW n \in Nat, NEW g \in Seq(X),
         HasWords(g, text, places, words, n),
         \A k \in 1 .. n : places[k].start \in 1 .. Len(g) /\ places[k].end \in 1 .. Len(g),
         NEW word \in Seq(X), Len(word) = 2,
         word[1] = words[n + 1][1], word[2] = words[n + 1][2],
         places[n + 1].start = Len(g) + 1, places[n + 1].end = Len(g) + 2
  PROVE  /\ g \o word \in Seq(X) /\ Len(g \o word) = places[n + 1].end
         /\ HasWords(g \o word, text, places, words, n + 1)
<1>. DEFINE a == Len(g)
            c == g \o word
<1>1. a \in Nat
  OBVIOUS
<1>2. /\ c \in Seq(X) /\ Len(c) = Len(g) + Len(word)
      /\ \A p \in 1 .. Len(g) + Len(word) : c[p] = IF p <= Len(g) THEN g[p] ELSE word[p - Len(g)]
  BY ConcatProperties
<1>. HIDE DEF c
<1>3. /\ Len(c) = a + 2 /\ c[a + 1] = word[1] /\ c[a + 2] = word[2]
      /\ \A p \in 1 .. a : c[p] = g[p]
  <2>1. \A p \in 1 .. a + 2 : c[p] = IF p <= a THEN g[p] ELSE word[p - a]
    BY <1>2
  <2>2. Len(c) = a + 2
    BY <1>2
  <2>. HIDE DEF a
  <2>3. /\ a + 1 \in 1 .. a + 2 /\ ~(a + 1 <= a) /\ (a + 1) - a = 1
        /\ a + 2 \in 1 .. a + 2 /\ ~(a + 2 <= a) /\ (a + 2) - a = 2
        /\ \A p \in 1 .. a : p \in 1 .. a + 2 /\ p <= a
    BY <1>1
  <2>4. c[a + 1] = word[1] /\ c[a + 2] = word[2]
    BY <2>1, <2>3
  <2>5. \A p \in 1 .. a : c[p] = g[p]
    BY <2>1, <2>3
  <2>. QED
    BY <2>2, <2>4, <2>5
<1>4. \A k \in 1 .. n + 1 : c[places[k].start] = words[k][1] /\ c[places[k].end] = words[k][2]
  <2>. SUFFICES ASSUME NEW k \in 1 .. n + 1
                PROVE  c[places[k].start] = words[k][1] /\ c[places[k].end] = words[k][2]
    OBVIOUS
  <2>1. CASE k = n + 1
    BY <1>3, <2>1
  <2>2. CASE k # n + 1
    <3>1. k \in 1 .. n
      BY <2>2
    <3>2. g[places[k].start] = words[k][1] /\ g[places[k].end] = words[k][2]
      BY <3>1 DEF HasWords
    <3>. QED
      BY <1>3, <3>1, <3>2
  <2>. QED
    BY <2>1, <2>2
<1>5. ASSUME NEW p \in 1 .. Len(c), Outside(p, places, n + 1)
      PROVE  c[p] = text[p]
  <2>1. n + 1 \in 1 .. n + 1 /\ 1 .. n \subseteq 1 .. n + 1
    OBVIOUS
  <2>2. p # a + 1 /\ p # a + 2 /\ Outside(p, places, n)
    BY <1>5, <2>1 DEF Outside
  <2>3. p \in 1 .. Len(g)
    BY <1>1, <1>3, <2>2
  <2>4. g[p] = text[p]
    BY <2>2, <2>3 DEF HasWords
  <2>. QED
    BY <1>3, <2>3, <2>4
<1>6. HasWords(c, text, places, words, n + 1)
  BY <1>4, <1>5 DEF HasWords
<1>. QED
  BY <1>2, <1>3, <1>6 DEF c

LEMMA InOneGo ==
  ASSUME NEW X, NEW u \in Seq(X), NEW v \in Seq(X), NEW w \in Seq(X), NEW h, h = u \o v
  PROVE  u \o (v \o w) = h \o w
OBVIOUS

(* What is between two places, and the word after it.                      *)
LEMMA PutsNext ==
  ASSUME NEW X, NEW text \in Seq(X), NEW places, NEW words, NEW k \in Nat, NEW g \in Seq(X),
         HasWords(g, text, places, words, k),
         \A l \in 1 .. k : places[l].start \in 1 .. Len(g) /\ places[l].end \in 1 .. Len(g),
         NEW b \in Int, Len(g) <= b, b <= Len(text),
         NEW word \in Seq(X), Len(word) = 2,
         word[1] = words[k + 1][1], word[2] = words[k + 1][2],
         places[k + 1].start = b + 1, places[k + 1].end = b + 2
  PROVE  /\ Len(g \o (SubSeq(text, Len(g) + 1, b) \o word)) = places[k + 1].end
         /\ HasWords(g \o (SubSeq(text, Len(g) + 1, b) \o word), text, places, words, k + 1)
<1>. DEFINE m == SubSeq(text, Len(g) + 1, b)
            h == g \o m
<1>1. h \in Seq(X) /\ Len(h) = b /\ HasWords(h, text, places, words, k)
  BY KeepsBetween
<1>2. m \in Seq(X)
  <2>1. \A i \in Len(g) + 1 .. b : text[i] \in X
    OBVIOUS
  <2>. QED
    BY <2>1, SubSeqProperties
<1>. HIDE DEF m
<1>a. h = g \o m
  OBVIOUS
<1>. HIDE DEF h
<1>3. g \o (m \o word) = h \o word
  <2>1. g \in Seq(X) /\ word \in Seq(X)
    OBVIOUS
  <2>. QED
    BY ONLY <1>2, <1>a, <2>1, InOneGo
<1>4. \A l \in 1 .. k : places[l].start \in 1 .. Len(h) /\ places[l].end \in 1 .. Len(h)
  BY <1>1
<1>5. /\ Len(h \o word) = places[k + 1].end
      /\ HasWords(h \o word, text, places, words, k + 1)
  <2>1. /\ text \in Seq(X) /\ k \in Nat /\ word \in Seq(X) /\ Len(word) = 2
        /\ word[1] = words[k + 1][1] /\ word[2] = words[k + 1][2]
        /\ places[k + 1].start = Len(h) + 1 /\ places[k + 1].end = Len(h) + 2
    BY <1>1
  <2>. QED
    <3>1. h \in Seq(X) /\ HasWords(h, text, places, words, k)
      BY <1>1
    <3>2. HasWords(h \o word, text, places, words, k + 1)
      BY ONLY <3>1, <1>4, <2>1, PutsWord
    <3>3. Len(h \o word) = places[k + 1].end
      <4>1. Len(h \o word) = Len(h) + Len(word)
        BY ONLY <3>1, <2>1, ConcatProperties
      <4>. QED
        BY ONLY <3>1, <2>1, <4>1
    <3>. QED
      BY ONLY <3>2, <3>3
<1>. QED
  BY <1>3, <1>5 DEF m

LEMMA ReplacedIs ==
  ASSUME NEW X, NEW text \in Seq(X), NEW R, NEW places \in Seq(R), ArePlaces(text, places),
         NEW words, \A k \in 1 .. Len(places) : words[k] \in Seq(X) /\ Len(words[k]) = 2
  PROVE  /\ Replaced(text, places, words) \in Seq(X)
         /\ Len(Replaced(text, places, words)) = Len(text)
         /\ HasWords(Replaced(text, places, words), text, places, words, Len(places))
<1>. DEFINE n == Len(places)
            after(k) == IF k = 0 THEN 1 ELSE places[k].end + 1
            part(k) == SubSeq(text, after(k - 1), places[k].start - 1) \o words[k]
            parts == [k \in DOMAIN places |-> part(k)]
<1>1. n \in Nat /\ DOMAIN places = 1 .. n /\ Len(text) \in Nat
  OBVIOUS
<1>2. Replaced(text, places, words) = FlattenSeq(parts) \o SubSeq(text, after(n), Len(text))
  BY DEF Replaced
<1>3. /\ \A k \in 1 .. n : /\ places[k].start \in 1 .. Len(text) /\ places[k].end \in 1 .. Len(text)
                           /\ places[k].end = places[k].start + 1
      /\ \A k, l \in 1 .. n : k < l => places[k].end < places[l].start
  BY DEF ArePlaces
<1>4. \A k \in 1 .. n : words[k] \in Seq(X) /\ Len(words[k]) = 2
  OBVIOUS
<1>. HIDE DEF n
<1>5. \A k \in 0 .. n : after(k) \in 1 .. Len(text) + 1
  BY <1>1, <1>3
<1>6. \A k \in 1 .. n : after(k - 1) <= places[k].start
  <2>. SUFFICES ASSUME NEW k \in 1 .. n PROVE after(k - 1) <= places[k].start
    OBVIOUS
  <2>1. CASE k = 1
    BY <1>3, <2>1
  <2>2. CASE k # 1
    <3>1. k - 1 \in 1 .. n /\ k - 1 < k /\ k - 1 # 0
      BY <1>1, <2>2
    <3>2. places[k - 1].end < places[k].start /\ places[k - 1].end \in Nat /\ places[k].start \in Nat
      BY <1>3, <3>1
    <3>. QED
      BY <3>1, <3>2
  <2>. QED
    BY <2>1, <2>2
<1>. HIDE DEF after
<1>7. ASSUME NEW k \in 1 .. n
      PROVE  /\ SubSeq(text, after(k - 1), places[k].start - 1) \in Seq(X)
             /\ part(k) \in Seq(X)
  <2>1. k - 1 \in 0 .. n
    BY <1>1
  <2>0. after(k - 1) \in 1 .. Len(text) + 1 /\ places[k].start \in 1 .. Len(text)
    BY <1>3, <1>5, <2>1
  <2>a. \A i \in 1 .. Len(text) : text[i] \in X
    OBVIOUS
  <2>b. \A i \in after(k - 1) .. places[k].start - 1 : i \in 1 .. Len(text)
    BY <1>1, <2>0
  <2>2. \A i \in after(k - 1) .. places[k].start - 1 : text[i] \in X
    BY <2>a, <2>b
  <2>3. after(k - 1) \in Int /\ places[k].start - 1 \in Int
    BY <1>1, <2>0
  <2>4. SubSeq(text, after(k - 1), places[k].start - 1) \in Seq(X)
    BY <2>2, <2>3, SubSeqProperties
  <2>. QED
    BY <1>4, <2>4, ConcatProperties
<1>8. parts \in Seq(Seq(X)) /\ Len(parts) = n /\ \A k \in 1 .. n : parts[k] = part(k)
  <2>. HIDE DEF part
  <2>. QED
    BY <1>1, <1>7
<1>. HIDE DEF parts
<1>9. PICK f \in [0 .. n -> Seq(X)] :
        /\ f[0] = <<>> /\ FlattenSeq(parts) = f[n]
        /\ \A k \in 1 .. n : f[k] = f[k - 1] \o parts[k]
  <2>. HIDE DEF part
  <2>1. parts \in Seq(Seq(X)) /\ Len(parts) = n
    BY <1>8
  <2>2. \E f \in [0 .. Len(parts) -> Seq(X)] :
          /\ f[0] = <<>> /\ FlattenSeq(parts) = f[Len(parts)]
          /\ \A k \in 1 .. Len(parts) : f[k] = f[k - 1] \o parts[k]
    BY <2>1, Joined
  <2>. QED
    BY <2>1, <2>2
<1>. HIDE DEF part
<1>. DEFINE S == {k \in 0 .. n : Len(f[k]) = after(k) - 1 /\ HasWords(f[k], text, places, words, k)}
<1>10. 0 \in S
  BY <1>1, <1>9 DEF HasWords, after
<1>11. ASSUME NEW k \in 0 .. n - 1, k \in S
       PROVE  k + 1 \in S
  <2>1. k \in Nat /\ k + 1 \in 1 .. n /\ (k + 1) - 1 = k /\ k \in 0 .. n /\ k + 1 # 0
    BY <1>1
  <2>. DEFINE g == f[k]
              b == places[k + 1].start - 1
  <2>0. g \in Seq(X) /\ Len(g) = after(k) - 1 /\ HasWords(g, text, places, words, k)
    BY <1>9, <1>11, <2>1
  <2>. HIDE DEF g, S
  <2>2. g \in Seq(X) /\ Len(g) = after(k) - 1 /\ HasWords(g, text, places, words, k) /\ Len(g) \in Nat
    BY <2>0
  <2>a. after(k) \in 1 .. Len(text) + 1 /\ after(k) <= places[k + 1].start /\ places[k + 1].start \in 1 .. Len(text)
    <3>1. after((k + 1) - 1) <= places[k + 1].start
      BY <1>6, <2>1
    <3>. QED
      BY <1>3, <1>5, <2>1, <3>1
  <2>3. b \in Int /\ Len(g) <= b /\ b <= Len(text) /\ Len(g) + 1 = after(k) /\ b + 1 = places[k + 1].start
    <3>. DEFINE q == places[k + 1].start
                m == Len(g)
                z == Len(text)
                e == after(k)
    <3>1. q \in 1 .. z /\ z \in Nat /\ e \in 1 .. z + 1 /\ e <= q /\ m = e - 1 /\ m \in Nat
      BY <1>1, <2>2, <2>a, Zenon
    <3>. HIDE DEF q, m, z, e
    <3>2. q - 1 \in Int /\ m <= q - 1 /\ q - 1 <= z /\ m + 1 = e /\ (q - 1) + 1 = q
      BY <3>1
    <3>. QED
      BY <3>2, Zenon DEF q, m, z, e, b
  <2>4. ASSUME NEW l \in 1 .. k
        PROVE  /\ places[l].start \in 1 .. Len(g) /\ places[l].end \in 1 .. Len(g)
    <3>1. l \in 1 .. n /\ k \in 1 .. n /\ after(k) = places[k].end + 1
      BY <1>1, <2>1 DEF after
    <3>2. places[l].start \in 1 .. places[k].end /\ places[l].end \in 1 .. places[k].end
      BY <1>1, <3>1, PlacesBefore DEF n
    <3>3. places[k].end \in Int
      BY <1>3, <3>1
    <3>4. Len(g) = places[k].end
      BY <2>2, <3>1, <3>3
    <3>. QED
      BY <3>2, <3>4
  <2>. DEFINE w == words[k + 1]
  <2>5. w \in Seq(X) /\ Len(w) = 2 /\ w[1] = words[k + 1][1] /\ w[2] = words[k + 1][2]
    BY <1>4, <2>1
  <2>6. f[k + 1] = g \o (SubSeq(text, Len(g) + 1, b) \o w)
    <3>1. f[k + 1] = f[(k + 1) - 1] \o parts[k + 1] /\ parts[k + 1] = part(k + 1)
      BY <1>8, <1>9, <2>1
    <3>2. f[k + 1] = g \o part(k + 1)
      BY <2>1, <3>1 DEF g
    <3>3. part(k + 1) = SubSeq(text, after(k), b) \o w
      BY <2>1 DEF part
    <3>. QED
      BY <2>3, <3>2, <3>3
  <2>7. places[k + 1].start = b + 1 /\ places[k + 1].end = b + 2
    <3>1. places[k + 1].end = places[k + 1].start + 1
      BY <1>3, <2>1
    <3>. QED
      BY <2>3, <3>1
  <2>. HIDE DEF b, w
  <2>9. /\ Len(f[k + 1]) = places[k + 1].end
        /\ HasWords(f[k + 1], text, places, words, k + 1)
    <3>1. text \in Seq(X)
      OBVIOUS
    <3>2. /\ Len(g \o (SubSeq(text, Len(g) + 1, b) \o w)) = places[k + 1].end
          /\ HasWords(g \o (SubSeq(text, Len(g) + 1, b) \o w), text, places, words, k + 1)
      BY ONLY <3>1, <2>1, <2>2, <2>3, <2>4, <2>5, <2>7, PutsNext
    <3>. QED
      BY ONLY <2>6, <3>2
  <2>10. after(k + 1) - 1 = places[k + 1].end
    <3>1. places[k + 1].end \in Int
      BY <1>3, <2>1
    <3>. QED
      BY <1>1, <2>1, <3>1 DEF after
  <2>11. k + 1 \in 0 .. n /\ Len(f[k + 1]) = after(k + 1) - 1 /\ HasWords(f[k + 1], text, places, words, k + 1)
    BY <1>1, <2>1, <2>9, <2>10
  <2>. QED
    BY <2>11 DEF S
<1>. HIDE DEF S
<1>12. 0 .. n \subseteq S
  BY <1>1, <1>10, <1>11, UpTo
<1>13. Len(f[n]) = after(n) - 1 /\ HasWords(f[n], text, places, words, n) /\ f[n] \in Seq(X)
  BY <1>1, <1>9, <1>12 DEF S
<1>14. after(n) \in 1 .. Len(text) + 1
  BY <1>1, <1>5
<1>15. \A k \in 1 .. n : places[k].start \in 1 .. Len(f[n]) /\ places[k].end \in 1 .. Len(f[n])
  <2>. SUFFICES ASSUME NEW k \in 1 .. n
                PROVE  places[k].start \in 1 .. Len(f[n]) /\ places[k].end \in 1 .. Len(f[n])
    OBVIOUS
  <2>1. n \in 1 .. n /\ after(n) = places[n].end + 1
    BY <1>1 DEF after
  <2>2. places[k].start \in 1 .. places[n].end /\ places[k].end \in 1 .. places[n].end
    BY <1>1, <2>1, PlacesBefore DEF n
  <2>3. places[n].end \in Int
    BY <1>3, <2>1
  <2>4. Len(f[n]) = places[n].end
    BY <1>13, <2>1, <2>3
  <2>. QED
    BY <2>2, <2>4
<1>16. /\ f[n] \o SubSeq(text, Len(f[n]) + 1, Len(text)) \in Seq(X)
       /\ Len(f[n] \o SubSeq(text, Len(f[n]) + 1, Len(text))) = Len(text)
       /\ HasWords(f[n] \o SubSeq(text, Len(f[n]) + 1, Len(text)), text, places, words, n)
  <2>1. Len(f[n]) <= Len(text) /\ Len(text) \in Int /\ Len(text) <= Len(text)
    BY <1>1, <1>13, <1>14
  <2>. QED
    BY <1>1, <1>13, <1>15, <2>1, KeepsBetween
<1>17. Len(f[n]) + 1 = after(n)
  BY <1>1, <1>13, <1>14
<1>. QED
  BY <1>2, <1>9, <1>16, <1>17 DEF n

-----------------------------------------------------------------------------
(* The tokens of a text.                                                   *)

LEMMA TokenAt ==
  ASSUME NEW text \in Seq(Chars), NEW token
  PROVE  token \in Tokens(text) <=>
           /\ token \in [start : 1 .. Len(text), end : 1 .. Len(text)]
           /\ token.start < token.end
           /\ text[token.start] = "@" /\ text[token.start + 1] \in Digits
           /\ \A k \in token.start + 1 .. token.end : text[k] \in TokenChars
           /\ token.end + 1 \in DOMAIN text => text[token.end + 1] \notin TokenChars
BY Zenon DEF Tokens

(* No two tokens start alike: each goes on as long as it can.              *)
LEMMA TokensApart ==
  ASSUME NEW text \in Seq(Chars), NEW s \in Tokens(text), NEW t \in Tokens(text), s.start = t.start
  PROVE  s = t
<1>1. /\ s \in [start : 1 .. Len(text), end : 1 .. Len(text)] /\ s.start < s.end
      /\ \A k \in s.start + 1 .. s.end : text[k] \in TokenChars
      /\ s.end + 1 \in DOMAIN text => text[s.end + 1] \notin TokenChars
  BY TokenAt
<1>2. /\ t \in [start : 1 .. Len(text), end : 1 .. Len(text)] /\ t.start < t.end
      /\ \A k \in t.start + 1 .. t.end : text[k] \in TokenChars
      /\ t.end + 1 \in DOMAIN text => text[t.end + 1] \notin TokenChars
  BY TokenAt
<1>3. DOMAIN text = 1 .. Len(text) /\ Len(text) \in Nat
  OBVIOUS
<1>4. s.start \in 1 .. Len(text) /\ s.end \in 1 .. Len(text) /\ t.end \in 1 .. Len(text)
  BY <1>1, <1>2, Zenon
<1>5. ~(s.end < t.end)
  <2>. SUFFICES ASSUME s.end < t.end PROVE FALSE
    OBVIOUS
  <2>1. s.end + 1 \in t.start + 1 .. t.end /\ s.end + 1 \in DOMAIN text
    BY <1>1, <1>3, <1>4
  <2>. QED
    BY <1>1, <1>2, <2>1
<1>6. ~(t.end < s.end)
  <2>. SUFFICES ASSUME t.end < s.end PROVE FALSE
    OBVIOUS
  <2>1. t.end + 1 \in s.start + 1 .. s.end /\ t.end + 1 \in DOMAIN text
    BY <1>2, <1>3, <1>4
  <2>. QED
    BY <1>1, <1>2, <2>1
<1>7. s.end = t.end
  BY <1>3, <1>4, <1>5, <1>6
<1>8. s = [start |-> s.start, end |-> s.end] /\ t = [start |-> t.start, end |-> t.end]
  BY <1>1, <1>2
<1>. QED
  BY <1>7, <1>8

(* Where "@" and a digit are there is a token.                             *)
LEMMA TokenStarts ==
  ASSUME NEW text \in Seq(Chars), NEW s \in 1 .. Len(text), s + 1 \in 1 .. Len(text),
         text[s] = "@", text[s + 1] \in Digits
  PROVE  Tokens(text) # {}
<1>. DEFINE n == Len(text)
            Stops == {e \in s + 1 .. n : e = n \/ text[e + 1] \notin TokenChars}
<1>1. n \in Nat /\ s \in 1 .. n /\ s + 1 \in 1 .. n /\ DOMAIN text = 1 .. n
  OBVIOUS
<1>2. Digits \subseteq TokenChars
  BY DEF Digits, TokenChars, Ascii
<1>. HIDE DEF n
<1>3. Stops \subseteq 0 .. n /\ n \in Stops
  BY <1>1
<1>4. PICK e \in Stops : \A l \in Stops : e <= l
  BY <1>1, <1>3, LeastNumber
<1>5. e \in s + 1 .. n /\ (e = n \/ text[e + 1] \notin TokenChars)
  OBVIOUS
<1>6. ASSUME NEW k \in s + 1 .. e
      PROVE  text[k] \in TokenChars
  <2>1. CASE k = s + 1
    BY <1>2, <2>1
  <2>2. CASE k # s + 1
    <3>1. k - 1 \in s + 1 .. n /\ k - 1 < e /\ (k - 1) + 1 = k
      BY <1>1, <1>5, <2>2
    <3>2. k - 1 \notin Stops
      BY <1>1, <1>4, <1>5, <3>1
    <3>. QED
      BY <3>1, <3>2
  <2>. QED
    BY <2>1, <2>2
<1>. DEFINE token == [start |-> s, end |-> e]
<1>7. token \in [start : 1 .. n, end : 1 .. n] /\ token.start = s /\ token.end = e
  BY <1>1, <1>5
<1>8. s < e /\ (e + 1 \in 1 .. n => text[e + 1] \notin TokenChars)
  BY <1>1, <1>5
<1>. HIDE DEF token, Stops
<1>9. token \in Tokens(text)
  <2>1. /\ token.start < token.end
        /\ text[token.start] = "@" /\ text[token.start + 1] \in Digits
        /\ \A k \in token.start + 1 .. token.end : text[k] \in TokenChars
        /\ token.end + 1 \in DOMAIN text => text[token.end + 1] \notin TokenChars
    BY <1>1, <1>6, <1>7, <1>8, Zenon
  <2>. QED
    BY <1>7, <2>1, TokenAt DEF n
<1>. QED
  BY <1>9

(* The people are at the places of the text, and their numbers in another. *)
Numbered(text, places, people, other) ==
  /\ ArePlaces(text, places)
  /\ \A k \in 1 .. Len(places) :
       /\ people[k] \in People
       /\ text[places[k].start] = "@" /\ text[places[k].end] = people[k]
       /\ Ends(text, places[k].end + 1)
       /\ other[places[k].start] = "@" /\ other[places[k].end] \in Digits
  /\ Len(other) = Len(text)
  /\ \A p \in 1 .. Len(other) : Outside(p, places, Len(places)) => other[p] = text[p]

LEMMA LabelIs ==
  ASSUME NEW text \in Seq(Chars), NEW i \in 3 .. Len(text), NEW who \in People,
         text[i - 2] = "@", text[i - 1] = who
  PROVE  SubSeq(text, i - 2, i - 1) = Label(who)
<1>. DEFINE part == SubSeq(text, i - 2, i - 1)
<1>1. \A p \in i - 2 .. i - 1 : text[p] \in Chars
  OBVIOUS
<1>2. /\ part \in Seq(Chars) /\ Len(part) = IF i - 2 <= i - 1 THEN (i - 1) - (i - 2) + 1 ELSE 0
      /\ \A p \in 1 .. (i - 1) - (i - 2) + 1 : part[p] = text[(i - 2) + p - 1]
  <2>. DEFINE a == i - 2
              b == i - 1
  <2>1. a \in Int /\ b \in Int /\ text \in Seq(Chars) /\ \A p \in a .. b : text[p] \in Chars
    BY <1>1
  <2>. HIDE DEF a, b
  <2>2. /\ SubSeq(text, a, b) \in Seq(Chars) /\ Len(SubSeq(text, a, b)) = IF a <= b THEN b - a + 1 ELSE 0
        /\ \A p \in 1 .. b - a + 1 : SubSeq(text, a, b)[p] = text[a + p - 1]
    BY ONLY <2>1, SubSeqProperties
  <2>. QED
    BY <2>2, Zenon DEF a, b
<1>. HIDE DEF part
<1>3. Len(part) = 2 /\ part[1] = "@" /\ part[2] = who
  <2>1. /\ 1 \in 1 .. (i - 1) - (i - 2) + 1 /\ (i - 2) + 1 - 1 = i - 2
        /\ 2 \in 1 .. (i - 1) - (i - 2) + 1 /\ (i - 2) + 2 - 1 = i - 1
        /\ i - 2 <= i - 1 /\ (i - 1) - (i - 2) + 1 = 2
    OBVIOUS
  <2>. QED
    BY <1>2, <2>1
<1>4. Label(who) \in Seq(Chars) /\ Len(Label(who)) = 2 /\ Label(who)[1] = "@" /\ Label(who)[2] = who
  BY LabelAt
<1>5. \A p \in 1 .. Len(part) : part[p] = Label(who)[p]
  BY <1>3, <1>4
<1>6. part = Label(who)
  BY ONLY <1>2, <1>3, <1>4, <1>5, SeqEqual
<1>. QED
  BY <1>6 DEF part

LEMMA ElementOf ==
  ASSUME NEW S, NEW s \in Seq(S), NEW k \in 1 .. Len(s)
  PROVE  s[k] \in S
OBVIOUS

(* The tokens are at the places.                                           *)
LEMMA PlaceIsToken ==
  ASSUME NEW text \in Seq(Chars), Unambiguous(text), NEW places \in Seq([start : Nat, end : Nat]),
         NEW people, NEW other \in Seq(Chars), Numbered(text, places, people, other),
         NEW k \in 1 .. Len(places)
  PROVE  places[k] \in Tokens(other)
<1>. DEFINE n == Len(text)
            a == places[k].start
            b == places[k].end
<1>1. n \in Nat /\ DOMAIN text = 1 .. n /\ DOMAIN other = 1 .. n /\ Len(other) = n
  BY DEF Numbered
<1>2. places[k] \in [start : Nat, end : Nat]
  BY ElementOf
<1>3. a \in 1 .. n /\ b \in 1 .. n /\ b = a + 1
  BY DEF Numbered, ArePlaces
<1>4. other[a] = "@" /\ other[b] \in Digits /\ text[a] = "@" /\ text[b] = people[k] /\ people[k] \in People
  BY DEF Numbered
<1>5. Ends(text, b + 1)
  BY DEF Numbered
<1>6. \A l \in 1 .. Len(places) : b + 1 # places[l].end
  <2>. SUFFICES ASSUME NEW l \in 1 .. Len(places), b + 1 = places[l].end PROVE FALSE
    OBVIOUS
  <2>. DEFINE c == places[l].start
              d == places[l].end
  <2>1. c \in 1 .. n /\ d = c + 1 /\ b + 1 = d
    BY DEF Numbered, ArePlaces
  <2>2. /\ k < l => b < c
        /\ l < k => d < a
        /\ l = k => c = a
    BY DEF Numbered, ArePlaces
  <2>3. l = k \/ k < l \/ l < k
    OBVIOUS
  <2>. HIDE DEF a, b, c, d, n
  <2>. QED
    BY ONLY <1>1, <1>3, <2>1, <2>2, <2>3
<1>7. b + 1 \in 1 .. n => other[b + 1] \notin TokenChars
  <2>. SUFFICES ASSUME b + 1 \in 1 .. n PROVE other[b + 1] \notin TokenChars
    OBVIOUS
  <2>1. CASE \E l \in 1 .. Len(places) : b + 1 = places[l].start
    <3>1. \A l \in 1 .. Len(places) : other[places[l].start] = "@"
      BY DEF Numbered
    <3>2. other[b + 1] = "@"
      BY <2>1, <3>1
    <3>. QED
      BY <3>2, PeopleAreChars
  <2>2. CASE ~ \E l \in 1 .. Len(places) : b + 1 = places[l].start
    <3>1. Outside(b + 1, places, Len(places))
      BY <1>6, <2>2 DEF Outside
    <3>2. other[b + 1] = text[b + 1]
      BY <1>1, <3>1 DEF Numbered
    <3>3. text[b + 1] \notin Alnum
      BY <1>1, <1>5 DEF Ends
    <3>4. text[b + 1] # "."
      <4>1. b + 1 \in 3 .. Len(text) /\ (b + 1) - 2 = a /\ (b + 1) - 1 = b
        <5>. HIDE DEF a, b
        <5>. QED
          BY <1>1, <1>3 DEF n
      <4>2. SubSeq(text, (b + 1) - 2, (b + 1) - 1) = Label(people[k])
        BY <1>4, <4>1, LabelIs
      <4>. QED
        BY <1>4, <4>1, <4>2 DEF Unambiguous
    <3>. QED
      BY <3>2, <3>3, <3>4 DEF TokenChars, Alnum
  <2>. QED
    BY <2>1, <2>2
<1>8. a < b /\ a \in 1 .. n /\ b \in 1 .. n /\ \A q \in a + 1 .. b : q = b
  BY <1>1, <1>3
<1>9. \A q \in a + 1 .. b : other[q] \in TokenChars
  BY <1>4, <1>8 DEF Digits, TokenChars, Ascii
<1>10. places[k] \in [start : 1 .. n, end : 1 .. n]
  BY <1>2, <1>8
<1>11. other[a + 1] \in Digits
  BY <1>3, <1>4
<1>12. b + 1 \in DOMAIN other => other[b + 1] \notin TokenChars
  BY <1>1, <1>7
<1>. QED
  BY <1>1, <1>4, <1>8, <1>9, <1>10, <1>11, <1>12, TokenAt, Zenon

LEMMA TokenIsPlace ==
  ASSUME NEW text \in Seq(Chars), Unambiguous(text), NEW places \in Seq([start : Nat, end : Nat]),
         NEW people, NEW other \in Seq(Chars), Numbered(text, places, people, other),
         NEW token \in Tokens(other)
  PROVE  \E k \in 1 .. Len(places) : places[k] = token
<1>. DEFINE n == Len(text)
            s == token.start
<1>1. n \in Nat /\ DOMAIN text = 1 .. n /\ DOMAIN other = 1 .. n /\ Len(other) = n
  BY DEF Numbered
<1>2. /\ token \in [start : 1 .. n, end : 1 .. n] /\ s < token.end
      /\ other[s] = "@" /\ other[s + 1] \in Digits
  BY <1>1, TokenAt
<1>3. s \in 1 .. n /\ token.end \in 1 .. n
  BY <1>2, Zenon
<1>4. s + 1 \in 1 .. n
  BY <1>1, <1>2, <1>3
<1>5. \A k \in 1 .. Len(places) : /\ other[places[k].start] = "@" /\ other[places[k].end] \in Digits
                                  /\ places[k].start \in 1 .. n /\ places[k].end = places[k].start + 1
  BY DEF Numbered, ArePlaces
<1>6. CASE \E k \in 1 .. Len(places) : s = places[k].start
  <2>1. PICK k \in 1 .. Len(places) : s = places[k].start
    BY <1>6
  <2>2. places[k] \in Tokens(other)
    BY PlaceIsToken
  <2>3. places[k] = token
    BY <2>1, <2>2, TokensApart
  <2>. QED
    BY <2>3
<1>7. CASE ~ \E k \in 1 .. Len(places) : s = places[k].start
  <2>1. Outside(s, places, Len(places))
    <3>. SUFFICES ASSUME NEW k \in 1 .. Len(places), s = places[k].end PROVE FALSE
      BY <1>7 DEF Outside
    <3>1. other[places[k].end] \in Digits
      BY <1>5
    <3>. QED
      BY <1>2, <3>1, PeopleAreChars
  <2>2. Outside(s + 1, places, Len(places))
    <3>. SUFFICES ASSUME NEW k \in 1 .. Len(places), s + 1 = places[k].start \/ s + 1 = places[k].end
                  PROVE  FALSE
      BY DEF Outside
    <3>1. s + 1 # places[k].start
      BY <1>2, <1>5, PeopleAreChars
    <3>2. s = places[k].start
      <4>. DEFINE c == places[k].start
                  d == places[k].end
      <4>1. c \in 1 .. n /\ d = c + 1 /\ s + 1 = d
        BY <1>5, <3>1
      <4>. HIDE DEF c, d, s, n
      <4>2. s = c
        BY ONLY <1>1, <1>3, <4>1
      <4>. QED
        BY <4>2 DEF c
    <3>. QED
      BY <1>7, <3>2
  <2>3. text[s] = "@" /\ text[s + 1] \in Digits
    BY <1>1, <1>2, <1>3, <1>4, <2>1, <2>2 DEF Numbered
  <2>4. Tokens(text) # {}
    BY <1>3, <1>4, <2>3, TokenStarts
  <2>. QED
    BY <2>4 DEF Unambiguous
<1>. QED
  BY <1>6, <1>7

-----------------------------------------------------------------------------
(* What is sent for the mentions of a text.                                *)

IndexAt(text, s) == CHOOSE i \in Indexes(text, s.start) : TRUE
PlacesOf(text, mentions) ==
  [k \in DOMAIN mentions |->
     [start |-> IndexAt(text, mentions[k]) + 1, end |-> IndexAt(text, mentions[k]) + 2]]
NumbersOf(mentions) == [k \in DOMAIN mentions |-> <<"@", Number[mentions[k].who]>>]

LEMMA TransportIs ==
  ASSUME NEW text \in Seq(Chars), NEW spans \in SUBSET AnySpan
  PROVE  LET mentions == InOrder(Mentions(text, spans)) IN
         Transport(text, spans) =
           [text |-> Replaced(text, PlacesOf(text, mentions), NumbersOf(mentions)),
            people |-> [k \in DOMAIN mentions |-> mentions[k].who]]
BY ValidatedIs DEF Transport, PlacesOf, IndexAt, NumbersOf

LEMMA MentionIndex ==
  ASSUME NEW text \in Seq(Chars), NEW s \in AnySpan, NEW i, Mention(text, s, i)
  PROVE  IndexAt(text, s) = i
<1>1. i \in Nat /\ i \in 0 .. Len(text) /\ s.start = Units(text, i)
  BY DEF Mention
<1>2. i \in Indexes(text, s.start)
  BY <1>1, IndexOf
<1>3. IndexAt(text, s) \in Indexes(text, s.start)
  BY <1>2 DEF IndexAt
<1>4. IndexAt(text, s) \in 0 .. Len(text) /\ Units(text, IndexAt(text, s)) = s.start
  BY <1>3, IndexOf
<1>5. IndexAt(text, s) \in Nat
  BY <1>4
<1>. QED
  BY <1>1, <1>4, <1>5, OneIndex

LEMMA MentionPlaces ==
  ASSUME NEW text \in Seq(Chars), NEW spans \in SUBSET AnySpan,
         NEW mentions, mentions = InOrder(Mentions(text, spans)),
         NEW places, places = PlacesOf(text, mentions)
  PROVE  /\ mentions \in Seq(AnySpan) /\ places \in Seq([start : Nat, end : Nat])
         /\ Len(places) = Len(mentions) /\ ArePlaces(text, places)
         /\ \A k \in 1 .. Len(places) : Mention(text, mentions[k], places[k].start - 1)
<1>1. /\ mentions \in Seq(Mentions(text, spans)) /\ Increasing(mentions)
  BY MentionsInOrder
<1>. DEFINE n == Len(mentions)
<1>2. n \in Nat /\ DOMAIN mentions = 1 .. n
  BY <1>1
<1>3. \A k \in 1 .. n : mentions[k] \in AnySpan /\ Matches(text, mentions[k])
  <2>1. \A k \in 1 .. n : mentions[k] \in Mentions(text, spans)
    BY <1>1
  <2>. QED
    BY <2>1 DEF Mentions
<1>4. mentions \in Seq(AnySpan)
  BY <1>1 DEF Mentions
<1>. DEFINE at(k) == IndexAt(text, mentions[k])
<1>. HIDE DEF n
<1>5. ASSUME NEW k \in 1 .. n
      PROVE  at(k) \in 0 .. Len(text) - 2 /\ Mention(text, mentions[k], at(k))
  <2>1. PICK i \in 0 .. Len(text) - 2 : Mention(text, mentions[k], i)
    BY <1>3, MatchesOne
  <2>2. at(k) = i
    BY <1>3, <2>1, MentionIndex
  <2>. QED
    BY <2>1, <2>2
<1>6. places = [k \in 1 .. n |-> [start |-> at(k) + 1, end |-> at(k) + 2]]
  BY <1>2 DEF PlacesOf
<1>. HIDE DEF at
<1>7. \A k \in 1 .. n : at(k) \in Nat /\ at(k) + 2 <= Len(text) /\ Len(text) \in Nat
  BY <1>5
<1>8. /\ places \in Seq([start : Nat, end : Nat]) /\ Len(places) = n
      /\ \A k \in 1 .. n : places[k].start = at(k) + 1 /\ places[k].end = at(k) + 2
  <2>. DEFINE place(k) == [start |-> at(k) + 1, end |-> at(k) + 2]
  <2>1. \A k \in 1 .. n : place(k) \in [start : Nat, end : Nat]
    BY <1>7
  <2>2. \A k \in 1 .. n : place(k).start = at(k) + 1 /\ place(k).end = at(k) + 2
    OBVIOUS
  <2>. HIDE DEF place
  <2>3. places = [k \in 1 .. n |-> place(k)]
    BY <1>6 DEF place
  <2>4. \A k \in 1 .. n : places[k] = place(k)
    BY <2>3
  <2>5. places \in Seq([start : Nat, end : Nat]) /\ Len(places) = n
    BY ONLY <1>2, <2>1, <2>3
  <2>. QED
    BY <2>2, <2>4, <2>5
<1>9. \A k, l \in 1 .. n : k < l => at(k) + 2 <= at(l)
  <2>. SUFFICES ASSUME NEW k \in 1 .. n, NEW l \in 1 .. n, k < l PROVE at(k) + 2 <= at(l)
    OBVIOUS
  <2>1. mentions[k].start < mentions[l].start
    BY <1>1 DEF Increasing, n
  <2>2. /\ mentions[k] \in AnySpan /\ mentions[l] \in AnySpan
        /\ Mention(text, mentions[k], at(k)) /\ Mention(text, mentions[l], at(l))
    BY <1>3, <1>5
  <2>. QED
    BY <2>1, <2>2, Apart
<1>10. ArePlaces(text, places)
  <2>1. \A k \in 1 .. n : /\ places[k].start \in 1 .. Len(text) /\ places[k].end \in 1 .. Len(text)
                         /\ places[k].end = places[k].start + 1
    <3>. SUFFICES ASSUME NEW k \in 1 .. n
                  PROVE  /\ places[k].start \in 1 .. Len(text) /\ places[k].end \in 1 .. Len(text)
                         /\ places[k].end = places[k].start + 1
      OBVIOUS
    <3>. DEFINE i == at(k)
                m == Len(text)
    <3>1. i \in Nat /\ i + 2 <= m /\ m \in Nat /\ places[k].start = i + 1 /\ places[k].end = i + 2
      BY <1>7, <1>8
    <3>. HIDE DEF i, m
    <3>2. i + 1 \in 1 .. m /\ i + 2 \in 1 .. m /\ i + 2 = (i + 1) + 1
      BY ONLY <3>1
    <3>. QED
      BY <3>1, <3>2 DEF m
  <2>2. \A k, l \in 1 .. n : k < l => places[k].end < places[l].start
    BY <1>7, <1>8, <1>9
  <2>. QED
    BY <1>8, <2>1, <2>2 DEF ArePlaces
<1>11. \A k \in 1 .. n : Mention(text, mentions[k], places[k].start - 1)
  <2>. SUFFICES ASSUME NEW k \in 1 .. n PROVE Mention(text, mentions[k], places[k].start - 1)
    OBVIOUS
  <2>1. places[k].start - 1 = at(k)
    <3>1. places[k].start = at(k) + 1 /\ at(k) \in Nat
      BY <1>7, <1>8
    <3>. QED
      BY ONLY <3>1
  <2>. QED
    BY <1>5, <2>1
<1>. QED
  BY <1>4, <1>8, <1>10, <1>11 DEF n

(* The text that is sent has the numbers in the places of the names.       *)
LEMMA SentIsNumbered ==
  ASSUME NEW text \in Seq(Chars), NEW spans \in SUBSET AnySpan,
         NEW mentions, mentions = InOrder(Mentions(text, spans)),
         NEW places, places = PlacesOf(text, mentions),
         NEW people, people = [k \in DOMAIN mentions |-> mentions[k].who],
         NEW sent, sent = Replaced(text, places, NumbersOf(mentions))
  PROVE  sent \in Seq(Chars) /\ Numbered(text, places, people, sent)
<1>1. /\ mentions \in Seq(AnySpan) /\ places \in Seq([start : Nat, end : Nat])
      /\ Len(places) = Len(mentions) /\ ArePlaces(text, places)
      /\ \A k \in 1 .. Len(places) : Mention(text, mentions[k], places[k].start - 1)
  BY MentionPlaces
<1>. DEFINE n == Len(places)
            words == NumbersOf(mentions)
<1>2. n \in Nat /\ DOMAIN mentions = 1 .. n
  BY <1>1
<1>3. ASSUME NEW k \in 1 .. n
      PROVE  /\ mentions[k].who \in People /\ words[k] = <<"@", Number[mentions[k].who]>>
             /\ people[k] = mentions[k].who
  <2>1. mentions[k] \in AnySpan
    BY <1>1
  <2>. QED
    BY <1>2, <2>1 DEF NumbersOf, AnySpan
<1>4. \A who \in People : Number[who] \in Digits
  BY DEF People, Number, Digits
<1>. HIDE DEF words, n
<1>5. ASSUME NEW k \in 1 .. n
      PROVE  words[k] \in Seq(Chars) /\ Len(words[k]) = 2 /\ words[k][1] = "@" /\ words[k][2] \in Digits
  <2>1. Number[mentions[k].who] \in Digits /\ Number[mentions[k].who] \in Chars /\ "@" \in Chars
    BY <1>3, <1>4, PeopleAreChars
  <2>. DEFINE d == Number[mentions[k].who]
              w == words[k]
  <2>2. w = <<"@", d>> /\ d \in Digits /\ d \in Chars /\ "@" \in Chars
    BY <1>3, <2>1
  <2>. HIDE DEF d, w
  <2>3. w \in Seq(Chars) /\ Len(w) = 2 /\ w[1] = "@" /\ w[2] = d
    BY ONLY <2>2
  <2>. QED
    BY <2>2, <2>3 DEF w
<1>6. /\ sent \in Seq(Chars) /\ Len(sent) = Len(text) /\ HasWords(sent, text, places, words, n)
  <2>1. text \in Seq(Chars) /\ sent = Replaced(text, places, words)
    BY DEF words
  <2>. QED
    BY ONLY <1>1, <1>5, <2>1, ReplacedIs DEF n
<1>7. ASSUME NEW k \in 1 .. n
      PROVE  /\ people[k] \in People
             /\ text[places[k].start] = "@" /\ text[places[k].end] = people[k]
             /\ Ends(text, places[k].end + 1)
             /\ sent[places[k].start] = "@" /\ sent[places[k].end] \in Digits
  <2>. DEFINE a == places[k].start
              b == places[k].end
  <2>1. Mention(text, mentions[k], a - 1)
    BY <1>1 DEF n
  <2>2. a \in 1 .. Len(text) /\ b = a + 1 /\ Len(text) \in Nat
    BY <1>1 DEF ArePlaces, n
  <2>3. sent[a] = words[k][1] /\ sent[b] = words[k][2]
    BY <1>6 DEF HasWords
  <2>. HIDE DEF a, b
  <2>4. (a - 1) + 1 = a /\ (a - 1) + 2 = b /\ (a - 1) + 3 = b + 1
    BY <2>2
  <2>5. text[a] = "@" /\ text[b] = mentions[k].who /\ Ends(text, b + 1)
    BY <2>1, <2>4 DEF Mention
  <2>. QED
    BY <1>3, <1>5, <2>3, <2>5 DEF a, b
<1>8. \A p \in 1 .. Len(sent) : Outside(p, places, n) => sent[p] = text[p]
  BY <1>6 DEF HasWords
<1>. QED
  BY <1>1, <1>6, <1>7, <1>8 DEF Numbered, n

(* The names take the places of the numbers again.                         *)
LEMMA RenderedIs ==
  ASSUME NEW text \in Seq(Chars), Unambiguous(text), NEW places \in Seq([start : Nat, end : Nat]),
         Increasing(places), NEW people, DOMAIN people = 1 .. Len(places), Len(people) = Len(places),
         NEW sent \in Seq(Chars), Numbered(text, places, people, sent)
  PROVE  Rendered(sent, people) = text
<1>. DEFINE T == Tokens(sent)
            n == Len(places)
            words == [k \in DOMAIN people |-> Label(people[k])]
<1>1. n \in Nat /\ Len(sent) \in Nat
  OBVIOUS
<1>2. \A s \in T : s \in [start : 1 .. Len(sent), end : 1 .. Len(sent)] /\ s.start \in Nat
  <2>. SUFFICES ASSUME NEW s \in T
                PROVE  s \in [start : 1 .. Len(sent), end : 1 .. Len(sent)] /\ s.start \in Nat
    OBVIOUS
  <2>1. s \in [start : 1 .. Len(sent), end : 1 .. Len(sent)]
    BY TokenAt
  <2>2. s.start \in 1 .. Len(sent)
    BY <2>1, Zenon
  <2>. QED
    BY <1>1, <2>1, <2>2
<1>3. \A s, t \in T : s.start = t.start => s = t
  BY TokensApart
<1>4. IsFiniteSet(T)
  <2>. DEFINE starts == [s \in T |-> s.start]
  <2>1. \A s \in T : s.start \in 1 .. Len(sent)
    BY <1>2, Zenon
  <2>. HIDE DEF T
  <2>2. starts \in Injection(T, 1 .. Len(sent))
    BY <1>3, <2>1 DEF Injection, IsInjective
  <2>3. IsFiniteSet(1 .. Len(sent))
    BY <1>1, FS_Interval
  <2>. QED
    BY <2>2, <2>3, FS_Injection
<1>5. \A k \in 1 .. n : places[k] \in T
  BY PlaceIsToken
<1>6. \A s \in T : \E k \in 1 .. n : places[k] = s
  BY TokenIsPlace
<1>. HIDE DEF T, n
<1>7. /\ InOrder(T) \in Seq(T) /\ Increasing(InOrder(T))
      /\ \A s \in T : \E k \in 1 .. Len(InOrder(T)) : InOrder(T)[k] = s
  BY <1>2, <1>3, <1>4, InOrderIs
<1>8. places \in Seq(T)
  BY <1>5 DEF n
<1>9. InOrder(T) = places
  <2>. DEFINE order == InOrder(T)
  <2>1. order \in Seq(T) /\ Increasing(order) /\ \A l \in 1 .. Len(order) : order[l] \in T
    BY <1>7
  <2>2. \A k \in 1 .. Len(places) : \E l \in 1 .. Len(order) : order[l] = places[k]
    BY <1>5, <1>7 DEF n
  <2>3. \A l \in 1 .. Len(order) : \E k \in 1 .. Len(places) : places[k] = order[l]
    BY <1>6, <2>1 DEF n
  <2>4. \A s \in T : s.start \in Nat
    BY <1>2
  <2>. HIDE DEF order
  <2>5. Increasing(places)
    OBVIOUS
  <2>6. order = places
    BY ONLY <1>8, <2>1, <2>2, <2>3, <2>4, <2>5, OneOrder
  <2>. QED
    BY <2>6 DEF order
<1>10. Rendered(sent, people) = Replaced(sent, places, words)
  BY <1>9 DEF Rendered, T, n
<1>11. ASSUME NEW k \in 1 .. n
       PROVE  /\ words[k] \in Seq(Chars) /\ Len(words[k]) = 2
              /\ words[k][1] = "@" /\ words[k][2] = people[k]
  <2>1. people[k] \in People /\ words[k] = Label(people[k])
    BY DEF Numbered, n
  <2>. QED
    BY <2>1, LabelAt
<1>. HIDE DEF words
<1>. DEFINE shown == Replaced(sent, places, words)
<1>12. Len(sent) = Len(text) /\ ArePlaces(text, places)
  BY DEF Numbered
<1>13. ArePlaces(sent, places)
  BY <1>12 DEF ArePlaces
<1>14. shown \in Seq(Chars) /\ Len(shown) = Len(sent) /\ HasWords(shown, sent, places, words, n)
  <2>1. sent \in Seq(Chars) /\ places \in Seq([start : Nat, end : Nat])
    OBVIOUS
  <2>. QED
    BY ONLY <1>11, <1>13, <2>1, ReplacedIs DEF n
<1>. HIDE DEF shown
<1>15. ASSUME NEW p \in 1 .. Len(shown)
       PROVE  shown[p] = text[p]
  <2>1. CASE Outside(p, places, n)
    <3>1. shown[p] = sent[p]
      BY <1>14, <2>1 DEF HasWords
    <3>2. sent[p] = text[p]
      BY <1>14, <2>1 DEF Numbered, n
    <3>. QED
      BY <3>1, <3>2
  <2>2. CASE ~Outside(p, places, n)
    <3>1. PICK k \in 1 .. n : p = places[k].start \/ p = places[k].end
      BY <2>2 DEF Outside
    <3>2. shown[places[k].start] = words[k][1] /\ shown[places[k].end] = words[k][2]
      BY <1>14 DEF HasWords
    <3>3. text[places[k].start] = "@" /\ text[places[k].end] = people[k]
      BY DEF Numbered, n
    <3>. QED
      BY <1>11, <3>1, <3>2, <3>3
  <2>. QED
    BY <2>1, <2>2
<1>16. shown = text
  <2>1. text \in Seq(Chars)
    OBVIOUS
  <2>. QED
    BY ONLY <1>12, <1>14, <1>15, <2>1, SeqEqual
<1>. QED
  BY <1>10, <1>16 DEF shown

-----------------------------------------------------------------------------
(* The mentions of a text are kept.                                        *)

LEMMA PageSpan ==
  ASSUME NEW text \in Seq(Chars), NEW s \in Mentionable(text)
  PROVE  s \in AnySpan
<1>. DEFINE m == Len(Js(text))
<1>1. s \in [who : People, start : 0 .. m, length : {2, 3}]
  BY DEF Mentionable
<1>. HIDE DEF m
<1>2. s.who \in People /\ s.start \in 0 .. m /\ s.length \in {2, 3}
  BY <1>1, Zenon
<1>3. s.start \in Nat /\ s.length \in Nat
  BY <1>2
<1>4. s = [who |-> s.who, start |-> s.start, length |-> s.length]
  BY <1>1
<1>. QED
  BY <1>2, <1>3, <1>4 DEF AnySpan

LEMMA KeptMentions ==
  ASSUME NEW text \in Seq(Chars), NEW spans \in SUBSET AnySpan
  PROVE  {Validated(text, spans)[k] : k \in DOMAIN Validated(text, spans)} = Mentions(text, spans)
<1>. DEFINE M == Mentions(text, spans)
            order == InOrder(M)
<1>1. /\ order \in Seq(M) /\ \A s \in M : \E k \in 1 .. Len(order) : order[k] = s
  BY MentionsInOrder
<1>. HIDE DEF M, order
<1>2. DOMAIN order = 1 .. Len(order) /\ \A k \in 1 .. Len(order) : order[k] \in M
  BY <1>1
<1>3. {order[k] : k \in DOMAIN order} = M
  BY <1>1, <1>2
<1>. QED
  BY <1>3, ValidatedIs DEF M, order

LEMMA MentionsAreKept ==
  ASSUME NEW text \in Seq(Chars), NEW spans \in SUBSET Mentionable(text)
  PROVE  MentionsKept(text, spans)
<1>. DEFINE M == Mentions(text, spans)
            mentions == InOrder(M)
            places == PlacesOf(text, mentions)
            people == [k \in DOMAIN mentions |-> mentions[k].who]
            sent == Replaced(text, places, NumbersOf(mentions))
            kept == {Validated(text, spans)[k] : k \in DOMAIN Validated(text, spans)}
<1>1. spans \in SUBSET AnySpan
  BY PageSpan
<1>2. kept = M
  BY <1>1, KeptMentions
<1>3. M \in SUBSET AnySpan /\ Mentions(text, M) = M
  BY <1>1 DEF Mentions
<1>. HIDE DEF M
<1>4. Transport(text, spans) = [text |-> sent, people |-> people]
  BY <1>1, TransportIs DEF M
<1>5. Transport(text, M) = Transport(text, spans)
  BY <1>1, <1>3, <1>4, TransportIs
<1>6. ASSUME NoOtherLetters(text)
      PROVE  M = spans
  <2>1. ASSUME NEW s \in spans
        PROVE  s \in M
    <3>1. PICK i \in 0 .. Len(text) - 2 : Mention(text, s, i)
      BY <1>6, PageMentions
    <3>2. Matches(text, s)
      BY <1>1, <3>1, MentionMatches
    <3>. QED
      BY <3>2 DEF M, Mentions
  <2>. QED
    BY <2>1 DEF M, Mentions
<1>7. ASSUME Unambiguous(text)
      PROVE  Rendered(sent, people) = text
  <2>1. /\ mentions \in Seq(AnySpan) /\ places \in Seq([start : Nat, end : Nat])
        /\ Len(places) = Len(mentions) /\ ArePlaces(text, places)
    BY <1>1, MentionPlaces DEF M
  <2>2. sent \in Seq(Chars) /\ Numbered(text, places, people, sent)
    BY <1>1, SentIsNumbered DEF M
  <2>3. DOMAIN people = 1 .. Len(places) /\ Len(people) = Len(places)
    BY <2>1
  <2>. HIDE DEF people, sent, places
  <2>4. Increasing(places)
    <3>. SUFFICES ASSUME NEW k \in 1 .. Len(places), NEW l \in 1 .. Len(places), k < l
                  PROVE  places[k].start < places[l].start
      BY DEF Increasing
    <3>. DEFINE a == places[k].start
                b == places[k].end
                c == places[l].start
    <3>1. a \in 1 .. Len(text) /\ b = a + 1 /\ b < c /\ c \in 1 .. Len(text) /\ Len(text) \in Nat
      BY <2>1 DEF ArePlaces
    <3>. HIDE DEF a, b, c
    <3>2. a < c
      BY ONLY <3>1
    <3>. QED
      BY <3>2 DEF a, c
  <2>5. text \in Seq(Chars)
    OBVIOUS
  <2>. QED
    BY ONLY <1>7, <2>1, <2>2, <2>3, <2>4, <2>5, RenderedIs
<1>. HIDE DEF mentions, places, people, sent
<1>8. Unambiguous(text) => Rendered(Transport(text, spans).text, Transport(text, spans).people) = text
  BY <1>4, <1>7
<1>. QED
  BY <1>2, <1>5, <1>6, <1>8 DEF MentionsKept

-----------------------------------------------------------------------------
(* The person replied to and the fields are kept.                          *)

LEMMA ReplyIsKept ==
  ASSUME NEW who \in Participants, NEW now \in Entries, NEW later \in Entries
  PROVE  ReplyKept(who, now, later)
<1>1. \A e \in {now, later} :
        /\ e \in [outgoing : BOOLEAN, raw : Participants, sender : Participants]
        /\ e = Missing \/ e.outgoing \/ e.sender # ""
  BY DEF Entries
<1>. QED
  BY <1>1 DEF ReplyKept, Resolved, FromPage, FromStored, Applied, Or, Missing, Participants

LEMMA ClockIsKept ==
  ASSUME NEW seconds \in Nat
  PROVE  Seconds(Clock(seconds)) = seconds
BY DEF Seconds, Clock

LEMMA FieldsAreKept ==
  ASSUME NEW kind \in Kinds, NEW seconds \in Nat
  PROVE  FieldsKept(kind, seconds)
<1>1. ASSUME kind = "text"
      PROVE  DOMAIN Parameters[kind] = Used[kind] /\ \A p \in Used[kind] : Parameters[kind][p] \in Composed[kind]
  BY <1>1 DEF Parameters, Used, Composed, ComposedText
<1>2. ASSUME kind = "image"
      PROVE  DOMAIN Parameters[kind] = Used[kind] /\ \A p \in Used[kind] : Parameters[kind][p] \in Composed[kind]
  BY <1>2 DEF Parameters, Used, Composed, ComposedPicture
<1>3. ASSUME kind = "video"
      PROVE  DOMAIN Parameters[kind] = Used[kind] /\ \A p \in Used[kind] : Parameters[kind][p] \in Composed[kind]
  BY <1>3 DEF Parameters, Used, Composed, ComposedPicture
<1>4. ASSUME kind = "audio"
      PROVE  DOMAIN Parameters[kind] = Used[kind] /\ \A p \in Used[kind] : Parameters[kind][p] \in Composed[kind]
  BY <1>4 DEF Parameters, Used, Composed, ComposedAudio
<1>5. ASSUME kind = "document"
      PROVE  DOMAIN Parameters[kind] = Used[kind] /\ \A p \in Used[kind] : Parameters[kind][p] \in Composed[kind]
  BY <1>5 DEF Parameters, Used, Composed, ComposedDocument
<1>6. ASSUME kind = "sticker"
      PROVE  DOMAIN Parameters[kind] = Used[kind] /\ \A p \in Used[kind] : Parameters[kind][p] \in Composed[kind]
  BY <1>6 DEF Parameters, Used, Composed, ComposedSticker
<1>7. ASSUME kind = "contact"
      PROVE  DOMAIN Parameters[kind] = Used[kind] /\ \A p \in Used[kind] : Parameters[kind][p] \in Composed[kind]
  BY <1>7 DEF Parameters, Used, Composed, ComposedContact
<1>8. ASSUME kind = "location"
      PROVE  DOMAIN Parameters[kind] = Used[kind] /\ \A p \in Used[kind] : Parameters[kind][p] \in Composed[kind]
  BY <1>8 DEF Parameters, Used, Composed, ComposedLocation
<1>9. DOMAIN Parameters[kind] = Used[kind] /\ \A p \in Used[kind] : Parameters[kind][p] \in Composed[kind]
  BY <1>1, <1>2, <1>3, <1>4, <1>5, <1>6, <1>7, <1>8 DEF Kinds
<1>. QED
  BY <1>9, ClockIsKept DEF FieldsKept

-----------------------------------------------------------------------------
(* Rows and their aliases.  An alias is some message's own, by own.        *)

(* The message an alias, or a state of a message, belongs to; a state has  *)
(* an id, and all its aliases are of the same message.                     *)
Of(own, m) == own[<<m.chat, m.id>>]
Fit(own, m) == m.id # 0 /\ \A a \in Aliases(m) : own[a] = Of(own, m)

(* Rows of different messages.                                             *)
Proper(own, rows) ==
  /\ rows \in Seq(Message)
  /\ \A i \in DOMAIN rows : Fit(own, rows[i])
  /\ \A i, j \in DOMAIN rows : i # j => Of(own, rows[i]) # Of(own, rows[j])

(* The aliases lead to their rows, and there are no others.                *)
Exact(list) ==
  /\ list = [rows |-> list.rows, at |-> list.at]
  /\ list.at = [a \in DOMAIN list.at |-> list.at[a]]
  /\ \A a \in DOMAIN list.at : list.at[a] \in DOMAIN list.rows /\ a \in Aliases(list.rows[list.at[a]])
  /\ \A i \in DOMAIN list.rows : \A a \in Aliases(list.rows[i]) : a \in DOMAIN list.at /\ list.at[a] = i

(* A message goes by the ids it has; 0 is none.                            *)
LEMMA AliasesOf ==
  ASSUME NEW m
  PROVE  /\ m.id # 0 => <<m.chat, m.id>> \in Aliases(m)
         /\ m.temp # 0 => <<m.chat, m.temp>> \in Aliases(m)
         /\ \A a \in Aliases(m) : \/ m.id # 0 /\ a = <<m.chat, m.id>>
                                  \/ m.temp # 0 /\ a = <<m.chat, m.temp>>
         /\ \A a \in Aliases(m) : \A c : a # <<c, 0>>
<1>1. /\ m.id # 0 => <<m.chat, m.id>> \in Aliases(m)
      /\ m.temp # 0 => <<m.chat, m.temp>> \in Aliases(m)
  BY DEF Aliases
<1>2. \A a \in Aliases(m) : \E b \in {m.id, m.temp} \ {0} : a = <<m.chat, b>>
  BY DEF Aliases
<1>3. ASSUME NEW b, b # 0, NEW c
      PROVE  <<m.chat, b>> # <<c, 0>>
  BY <1>3
<1>. QED
  BY <1>1, <1>2, <1>3

(* An alias of a row belongs to whom the row belongs to.                   *)
LEMMA RowAbsent ==
  ASSUME NEW own, NEW list, Exact(list), Proper(own, list.rows),
         NEW m, Fit(own, m), \A i \in DOMAIN list.rows : Of(own, list.rows[i]) # Of(own, m)
  PROVE  RowOf(list.at, m) = 0
<1>1. ASSUME NEW a \in Aliases(m)
      PROVE  a \notin DOMAIN list.at
  <2>. SUFFICES ASSUME a \in DOMAIN list.at PROVE FALSE
    OBVIOUS
  <2>1. list.at[a] \in DOMAIN list.rows /\ a \in Aliases(list.rows[list.at[a]])
    BY DEF Exact
  <2>2. own[a] = Of(own, m)
    BY DEF Fit
  <2>3. own[a] = Of(own, list.rows[list.at[a]])
    BY <2>1 DEF Proper, Fit
  <2>. QED
    BY <2>1, <2>2, <2>3
<1>2. <<m.chat, m.id>> \notin DOMAIN list.at
  BY <1>1, AliasesOf DEF Fit
<1>3. <<m.chat, m.temp>> \notin DOMAIN list.at
  <2>1. CASE m.temp # 0
    BY <1>1, <2>1, AliasesOf
  <2>2. CASE m.temp = 0
    <3>1. ASSUME <<m.chat, 0>> \in DOMAIN list.at
          PROVE  FALSE
      <4>1. <<m.chat, 0>> \in Aliases(list.rows[list.at[<<m.chat, 0>>]])
        BY <3>1 DEF Exact
      <4>. QED
        BY <4>1, AliasesOf
    <3>. QED
      BY <2>2, <3>1
  <2>. QED
    BY <2>1, <2>2
<1>. QED
  BY <1>2, <1>3 DEF RowOf

(* A message that has an id in common with its row is found there.         *)
LEMMA RowFound ==
  ASSUME NEW own, NEW list, Exact(list), Proper(own, list.rows), NEW m, Fit(own, m),
         NEW i \in DOMAIN list.rows, Of(own, list.rows[i]) = Of(own, m),
         Aliases(list.rows[i]) \cap Aliases(m) # {}
  PROVE  RowOf(list.at, m) = i
<1>1. ASSUME NEW a \in Aliases(m), a \in DOMAIN list.at
      PROVE  list.at[a] = i
  <2>1. list.at[a] \in DOMAIN list.rows /\ a \in Aliases(list.rows[list.at[a]])
    BY <1>1 DEF Exact
  <2>2. own[a] = Of(own, m)
    BY DEF Fit
  <2>3. own[a] = Of(own, list.rows[list.at[a]])
    BY <2>1 DEF Proper, Fit
  <2>. QED
    BY <2>1, <2>2, <2>3 DEF Proper
<1>2. PICK a : a \in Aliases(m) /\ a \in DOMAIN list.at
  BY DEF Exact
<1>3. CASE <<m.chat, m.id>> \in DOMAIN list.at
  <2>1. <<m.chat, m.id>> \in Aliases(m)
    BY AliasesOf DEF Fit
  <2>. QED
    BY <1>1, <1>3, <2>1 DEF RowOf
<1>4. CASE <<m.chat, m.id>> \notin DOMAIN list.at
  <2>1. a = <<m.chat, m.temp>>
    BY <1>2, <1>4, AliasesOf
  <2>. QED
    BY <1>1, <1>2, <1>4, <2>1 DEF RowOf
<1>. QED
  BY <1>3, <1>4

(* A row more, of a message that is not there.                             *)
LEMMA AddedExact ==
  ASSUME NEW own, NEW list, Exact(list), Proper(own, list.rows),
         NEW m \in Message, Fit(own, m),
         \A i \in DOMAIN list.rows : Of(own, list.rows[i]) # Of(own, m)
  PROVE  /\ Added(list, m).rows = Append(list.rows, m)
         /\ Proper(own, Append(list.rows, m)) /\ Exact(Added(list, m))
<1>. DEFINE rows == list.rows
            n == Len(rows)
            new == Append(rows, m)
            at == [a \in DOMAIN list.at \cup Aliases(m) |-> IF a \in Aliases(m) THEN n + 1 ELSE list.at[a]]
<1>1. rows \in Seq(Message) /\ n \in Nat /\ DOMAIN rows = 1 .. n
  BY DEF Proper
<1>2. /\ new \in Seq(Message) /\ DOMAIN new = 1 .. n + 1 /\ new[n + 1] = m
      /\ \A i \in 1 .. n : new[i] = rows[i]
  BY <1>1
<1>3. Proper(own, new)
  <2>1. ASSUME NEW i \in 1 .. n + 1
        PROVE  Fit(own, new[i])
    BY <1>1, <1>2 DEF Proper
  <2>2. ASSUME NEW i \in 1 .. n + 1, NEW j \in 1 .. n + 1, i # j
        PROVE  Of(own, new[i]) # Of(own, new[j])
    <3>1. CASE i \in 1 .. n /\ j \in 1 .. n
      BY <1>1, <1>2, <2>2, <3>1 DEF Proper
    <3>2. CASE i = n + 1 /\ j \in 1 .. n
      BY <1>1, <1>2, <3>2
    <3>3. CASE j = n + 1 /\ i \in 1 .. n
      BY <1>1, <1>2, <3>3
    <3>. QED
      BY <1>1, <2>2, <3>1, <3>2, <3>3
  <2>. QED
    BY <1>2, <2>1, <2>2 DEF Proper
<1>4. Renamed(list.at, m, m, n + 1) = at
  <2>1. {a \in Aliases(m) \cap DOMAIN list.at : list.at[a] = n + 1} = {}
    BY <1>1 DEF Exact
  <2>2. (DOMAIN list.at \ {a \in Aliases(m) \cap DOMAIN list.at : list.at[a] = n + 1}) \cup Aliases(m)
          = DOMAIN list.at \cup Aliases(m)
    BY <2>1
  <2>. QED
    BY <2>2 DEF Renamed
<1>5. ASSUME NEW i \in 1 .. n, NEW a \in Aliases(rows[i])
      PROVE  a \notin Aliases(m)
  BY <1>1 DEF Proper, Fit
<1>6. Added(list, m) = [rows |-> new, at |-> at]
  BY <1>4 DEF Added
<1>7. Exact([rows |-> new, at |-> at])
  <2>1. ASSUME NEW a \in DOMAIN at
        PROVE  at[a] \in 1 .. n + 1 /\ a \in Aliases(new[at[a]])
    <3>1. CASE a \in Aliases(m)
      BY <1>1, <1>2, <3>1
    <3>2. CASE a \notin Aliases(m)
      <4>1. at[a] = list.at[a] /\ a \in DOMAIN list.at
        BY <3>2
      <4>2. list.at[a] \in 1 .. n /\ a \in Aliases(rows[list.at[a]])
        BY <1>1, <4>1 DEF Exact
      <4>. QED
        BY <1>1, <1>2, <4>1, <4>2
    <3>. QED
      BY <3>1, <3>2
  <2>2. ASSUME NEW i \in 1 .. n + 1, NEW a \in Aliases(new[i])
        PROVE  a \in DOMAIN at /\ at[a] = i
    <3>1. CASE i = n + 1
      BY <1>2, <3>1
    <3>2. CASE i \in 1 .. n
      <4>1. a \in Aliases(rows[i])
        BY <1>2, <3>2
      <4>2. a \in DOMAIN list.at /\ list.at[a] = i /\ a \notin Aliases(m)
        BY <1>1, <1>5, <3>2, <4>1 DEF Exact
      <4>. QED
        BY <4>2
    <3>. QED
      BY <1>1, <3>1, <3>2
  <2>3. at = [a \in DOMAIN at |-> at[a]]
    OBVIOUS
  <2>. HIDE DEF at, new
  <2>. QED
    BY <1>2, <2>1, <2>2, <2>3 DEF Exact
<1>. QED
  BY <1>3, <1>6, <1>7

(* A row that changes, of the same message.                                *)
LEMMA ChangedExact ==
  ASSUME NEW own, NEW list, Exact(list), Proper(own, list.rows),
         NEW m \in Message, Fit(own, m),
         NEW i \in DOMAIN list.rows, Of(own, list.rows[i]) = Of(own, m)
  PROVE  /\ Changed(list, i, m).rows = [list.rows EXCEPT ![i] = m]
         /\ Proper(own, [list.rows EXCEPT ![i] = m]) /\ Exact(Changed(list, i, m))
<1>. DEFINE rows == list.rows
            n == Len(rows)
            old == rows[i]
            new == [rows EXCEPT ![i] = m]
            at == [a \in (DOMAIN list.at \ Aliases(old)) \cup Aliases(m) |->
                     IF a \in Aliases(m) THEN i ELSE list.at[a]]
<1>1. rows \in Seq(Message) /\ n \in Nat /\ DOMAIN rows = 1 .. n
  BY DEF Proper
<1>2. /\ new \in Seq(Message) /\ DOMAIN new = 1 .. n /\ new[i] = m
      /\ \A j \in 1 .. n : j # i => new[j] = rows[j]
  BY <1>1
<1>3. Proper(own, new)
  <2>1. ASSUME NEW j \in 1 .. n
        PROVE  Fit(own, new[j]) /\ Of(own, new[j]) = Of(own, rows[j])
    BY <1>1, <1>2 DEF Proper
  <2>. HIDE DEF new
  <2>. QED
    BY <1>1, <1>2, <2>1 DEF Proper
<1>4. Renamed(list.at, old, m, i) = at
  <2>1. {a \in Aliases(old) \cap DOMAIN list.at : list.at[a] = i} = Aliases(old)
    BY DEF Exact
  <2>. QED
    BY <2>1 DEF Renamed
<1>5. ASSUME NEW j \in 1 .. n, j # i, NEW a \in Aliases(rows[j])
      PROVE  a \notin Aliases(m) /\ a \notin Aliases(old)
  <2>1. own[a] = Of(own, rows[j]) /\ Of(own, rows[j]) # Of(own, m)
    BY <1>1, <1>5 DEF Proper, Fit
  <2>2. \A b \in Aliases(old) : own[b] = Of(own, old)
    BY <1>1 DEF Proper, Fit
  <2>3. \A b \in Aliases(m) : own[b] = Of(own, m)
    BY DEF Fit
  <2>. QED
    BY <2>1, <2>2, <2>3
<1>6. Changed(list, i, m) = [rows |-> new, at |-> at]
  BY <1>4 DEF Changed
<1>7. Exact([rows |-> new, at |-> at])
  <2>1. ASSUME NEW a \in DOMAIN at
        PROVE  at[a] \in 1 .. n /\ a \in Aliases(new[at[a]])
    <3>1. CASE a \in Aliases(m)
      BY <1>1, <1>2, <3>1
    <3>2. CASE a \notin Aliases(m)
      <4>1. at[a] = list.at[a] /\ a \in DOMAIN list.at /\ a \notin Aliases(old)
        BY <3>2
      <4>2. list.at[a] \in 1 .. n /\ a \in Aliases(rows[list.at[a]])
        BY <1>1, <4>1 DEF Exact
      <4>3. list.at[a] # i
        BY <4>1, <4>2
      <4>. QED
        BY <1>1, <1>2, <4>1, <4>2, <4>3
    <3>. QED
      BY <3>1, <3>2
  <2>2. ASSUME NEW j \in 1 .. n, NEW a \in Aliases(new[j])
        PROVE  a \in DOMAIN at /\ at[a] = j
    <3>1. CASE j = i
      BY <1>2, <3>1
    <3>2. CASE j # i
      <4>1. a \in Aliases(rows[j])
        BY <1>2, <3>2
      <4>2. a \in DOMAIN list.at /\ list.at[a] = j /\ a \notin Aliases(m) /\ a \notin Aliases(old)
        BY <1>1, <1>5, <3>2, <4>1 DEF Exact
      <4>. QED
        BY <4>2
    <3>. QED
      BY <3>1, <3>2
  <2>3. at = [a \in DOMAIN at |-> at[a]]
    OBVIOUS
  <2>. HIDE DEF at, new
  <2>. QED
    BY <1>2, <2>1, <2>2, <2>3 DEF Exact
<1>. QED
  BY <1>3, <1>6, <1>7

(* Indexes lead to rows that are each someone else's.                      *)
LEMMA IndexedExact ==
  ASSUME NEW own, NEW rows, Proper(own, rows)
  PROVE  Indexed(rows).rows = rows /\ Exact(Indexed(rows))
<1>. DEFINE D == UNION {Aliases(rows[i]) : i \in DOMAIN rows}
            isAt(a, i) == a \in Aliases(rows[i]) /\ \A j \in DOMAIN rows : a \in Aliases(rows[j]) => j <= i
            at == [a \in D |-> CHOOSE i \in DOMAIN rows : isAt(a, i)]
<1>1. rows \in Seq(Message) /\ Len(rows) \in Nat /\ DOMAIN rows = 1 .. Len(rows)
  BY DEF Proper
<1>2. ASSUME NEW i \in DOMAIN rows, NEW j \in DOMAIN rows, NEW a \in Aliases(rows[i]), a \in Aliases(rows[j])
      PROVE  i = j
  BY <1>2 DEF Proper, Fit
<1>3. ASSUME NEW i \in DOMAIN rows, NEW a \in Aliases(rows[i])
      PROVE  a \in D /\ at[a] = i
  <2>1. a \in D
    OBVIOUS
  <2>2. isAt(a, i)
    BY <1>1, <1>2
  <2>3. \A j \in DOMAIN rows : isAt(a, j) => j = i
    BY <1>2
  <2>. HIDE DEF isAt, D
  <2>. QED
    BY <2>1, <2>2, <2>3
<1>4. ASSUME NEW a \in D
      PROVE  at[a] \in DOMAIN rows /\ a \in Aliases(rows[at[a]])
  <2>1. PICK i \in DOMAIN rows : a \in Aliases(rows[i])
    OBVIOUS
  <2>2. at[a] = i
    BY <1>3, <2>1
  <2>. QED
    BY <2>1, <2>2
<1>5. Indexed(rows) = [rows |-> rows, at |-> at]
  BY DEF Indexed
<1>6. at = [a \in DOMAIN at |-> at[a]] /\ DOMAIN at = D
  OBVIOUS
<1>. HIDE DEF at, D
<1>. QED
  BY <1>3, <1>4, <1>5, <1>6 DEF Exact

(* There is one way to lead to the rows.                                   *)
LEMMA ExactOnce ==
  ASSUME NEW list, Exact(list), NEW other, Exact(other), list.rows = other.rows
  PROVE  list = other
<1>1. DOMAIN list.at = DOMAIN other.at
  BY DEF Exact
<1>2. \A a \in DOMAIN list.at : list.at[a] = other.at[a]
  BY <1>1 DEF Exact
<1>3. list.at = [a \in DOMAIN list.at |-> list.at[a]] /\ other.at = [a \in DOMAIN other.at |-> other.at[a]]
  BY DEF Exact
<1>4. list.at = other.at
  BY ONLY <1>1, <1>2, <1>3
<1>. QED
  BY <1>4 DEF Exact

-----------------------------------------------------------------------------
(* Rows in order.                                                          *)

InRank(rows) == \A i, j \in DOMAIN rows : i < j => DisplayBefore(rows[i], rows[j])

(* Rows with ids go by time, then by id.                                   *)
LEMMA BeforeIs ==
  ASSUME NEW m \in Message, m.id # 0, NEW n \in Message, n.id # 0
  PROVE  /\ m.time \in Nat /\ n.time \in Nat /\ m.id \in Nat /\ n.id \in Nat
         /\ DisplayBefore(m, n) <=> m.time > n.time \/ (m.time = n.time /\ m.id > n.id)
<1>1. m.time \in Nat /\ n.time \in Nat /\ m.id \in Nat /\ n.id \in Nat
  BY DEF Message
<1>. QED
  BY <1>1 DEF DisplayBefore, SortId

(* There is one place for a message among rows in order.                   *)
LEMMA PlaceIs ==
  ASSUME NEW rows \in Seq(Message), InRank(rows), \A i \in DOMAIN rows : rows[i].id # 0,
         NEW m \in Message, m.id # 0, \A i \in DOMAIN rows : rows[i].id # m.id
  PROVE  /\ Place(rows, m) \in 1 .. Len(rows) + 1
         /\ \A j \in DOMAIN rows : j >= Place(rows, m) => DisplayBefore(m, rows[j])
         /\ \A j \in DOMAIN rows : j < Place(rows, m) => DisplayBefore(rows[j], m)
<1>. DEFINE n == Len(rows)
            After == {i \in 0 .. n : i \in 1 .. n /\ DisplayBefore(m, rows[i])}
            is(i) == \A j \in DOMAIN rows : DisplayBefore(m, rows[j]) <=> j >= i
<1>1. n \in Nat /\ DOMAIN rows = 1 .. n
  OBVIOUS
<1>2. ASSUME NEW j \in 1 .. n
      PROVE  DisplayBefore(m, rows[j]) \/ DisplayBefore(rows[j], m)
  <2>1. rows[j] \in Message /\ rows[j].id # 0 /\ rows[j].id # m.id
    BY <1>1
  <2>. QED
    BY <2>1, BeforeIs
<1>3. ASSUME NEW i \in 1 .. n, NEW j \in 1 .. n, i <= j, DisplayBefore(m, rows[i])
      PROVE  DisplayBefore(m, rows[j])
  <2>1. rows[i] \in Message /\ rows[i].id # 0 /\ rows[j] \in Message /\ rows[j].id # 0
    BY <1>1
  <2>2. i = j \/ DisplayBefore(rows[i], rows[j])
    BY <1>1, <1>3 DEF InRank
  <2>3. CASE DisplayBefore(rows[i], rows[j])
    <3>1. /\ DisplayBefore(m, rows[i]) <=> m.time > rows[i].time \/ (m.time = rows[i].time /\ m.id > rows[i].id)
          /\ DisplayBefore(rows[i], rows[j])
               <=> \/ rows[i].time > rows[j].time
                   \/ rows[i].time = rows[j].time /\ rows[i].id > rows[j].id
          /\ DisplayBefore(m, rows[j]) <=> m.time > rows[j].time \/ (m.time = rows[j].time /\ m.id > rows[j].id)
          /\ m.time \in Nat /\ rows[i].time \in Nat /\ rows[j].time \in Nat
          /\ m.id \in Nat /\ rows[i].id \in Nat /\ rows[j].id \in Nat
      BY <2>1, BeforeIs
    <3>. QED
      BY ONLY <1>3, <2>3, <3>1
  <2>. QED
    BY <1>3, <2>2, <2>3
<1>4. \E i \in 1 .. n + 1 : is(i)
  <2>1. CASE After = {}
    <3>1. is(n + 1)
      BY <1>1, <2>1
    <3>. QED
      BY <1>1, <3>1
  <2>2. CASE After # {}
    <3>1. PICK k \in After : \A l \in After : k <= l
      BY <1>1, <2>2, LeastNumber
    <3>2. is(k)
      BY <1>1, <1>3, <3>1
    <3>. QED
      BY <3>1, <3>2
  <2>. QED
    BY <2>1, <2>2
<1>5. Place(rows, m) \in 1 .. n + 1 /\ is(Place(rows, m))
  <2>1. Place(rows, m) = CHOOSE i \in 1 .. n + 1 : is(i)
    BY DEF Place
  <2>. HIDE DEF is
  <2>. QED
    BY <1>4, <2>1
<1>6. ASSUME NEW j \in 1 .. n, j < Place(rows, m)
      PROVE  DisplayBefore(rows[j], m)
  <2>1. ~DisplayBefore(m, rows[j])
    BY <1>1, <1>5, <1>6
  <2>. QED
    BY <1>2, <2>1
<1>. QED
  BY <1>1, <1>5, <1>6

(* The rows with one put in at k.                                          *)
LEMMA InsertedAt ==
  ASSUME NEW rows \in Seq(Message), NEW m \in Message, NEW k \in 1 .. Len(rows) + 1
  PROVE  /\ InsertAt(rows, k, m) \in Seq(Message) /\ Len(InsertAt(rows, k, m)) = Len(rows) + 1
         /\ \A i \in 1 .. k - 1 : InsertAt(rows, k, m)[i] = rows[i]
         /\ InsertAt(rows, k, m)[k] = m
         /\ \A i \in k + 1 .. Len(rows) + 1 : InsertAt(rows, k, m)[i] = rows[i - 1]
<1>1. SubSeq(rows, 1, k - 1) \in Seq(Message) /\ SubSeq(rows, k, Len(rows)) \in Seq(Message) /\ <<m>> \in Seq(Message)
  OBVIOUS
<1>2. Len(SubSeq(rows, 1, k - 1)) = k - 1 /\ \A i \in 1 .. k - 1 : SubSeq(rows, 1, k - 1)[i] = rows[i]
  OBVIOUS
<1>3. Len(SubSeq(rows, k, Len(rows))) = Len(rows) + 1 - k
  OBVIOUS
<1>4. \A i \in 1 .. Len(rows) + 1 - k : SubSeq(rows, k, Len(rows))[i] = rows[i + k - 1]
  OBVIOUS
<1>5. InsertAt(rows, k, m) = (SubSeq(rows, 1, k - 1) \o <<m>>) \o SubSeq(rows, k, Len(rows))
  BY DEF InsertAt
<1>. DEFINE s == SubSeq(rows, 1, k - 1)
            t == SubSeq(rows, k, Len(rows))
            u == s \o <<m>>
<1>. HIDE DEF s, t
<1>6. s \in Seq(Message) /\ t \in Seq(Message) /\ Len(s) = k - 1 /\ Len(t) = Len(rows) + 1 - k
  BY <1>1, <1>2, <1>3 DEF s, t
<1>7. u \in Seq(Message) /\ Len(u) = k /\ u[k] = m /\ \A i \in 1 .. k - 1 : u[i] = s[i]
  BY <1>6
<1>. HIDE DEF u
<1>8. /\ u \o t \in Seq(Message) /\ Len(u \o t) = Len(rows) + 1
      /\ \A i \in 1 .. k : (u \o t)[i] = u[i]
      /\ \A i \in k + 1 .. Len(rows) + 1 : (u \o t)[i] = t[i - k]
  BY <1>6, <1>7
<1>9. \A i \in k + 1 .. Len(rows) + 1 : t[i - k] = rows[i - 1]
  BY <1>4 DEF t
<1>10. \A i \in 1 .. k - 1 : s[i] = rows[i]
  BY <1>2 DEF s
<1>11. InsertAt(rows, k, m) = u \o t
  BY <1>5 DEF u, s, t
<1>. DEFINE new == u \o t
<1>. HIDE DEF new
<1>12. \A i \in 1 .. k - 1 : new[i] = rows[i]
  <2>1. \A i \in 1 .. k - 1 : i \in 1 .. k
    OBVIOUS
  <2>. QED
    BY <1>7, <1>8, <1>10, <2>1 DEF new
<1>13. new[k] = m
  <2>1. k \in 1 .. k
    OBVIOUS
  <2>. QED
    BY <1>7, <1>8, <2>1 DEF new
<1>14. \A i \in k + 1 .. Len(rows) + 1 : new[i] = rows[i - 1]
  BY <1>8, <1>9 DEF new
<1>15. new \in Seq(Message) /\ Len(new) = Len(rows) + 1 /\ InsertAt(rows, k, m) = new
  BY <1>8, <1>11 DEF new
<1>. QED
  BY <1>12, <1>13, <1>14, <1>15

(* A message put in leaves the rows in order.                              *)
LEMMA InsertIs ==
  ASSUME NEW rows \in Seq(Message), InRank(rows), \A i \in DOMAIN rows : rows[i].id # 0,
         NEW m \in Message, m.id # 0, \A i \in DOMAIN rows : rows[i].id # m.id
  PROVE  /\ Insert(rows, m) \in Seq(Message) /\ InRank(Insert(rows, m))
         /\ \A r : (\E i \in DOMAIN Insert(rows, m) : Insert(rows, m)[i] = r)
                     <=> r = m \/ \E i \in DOMAIN rows : rows[i] = r
<1>. DEFINE n == Len(rows)
            k == Place(rows, m)
            new == InsertAt(rows, k, m)
<1>1. n \in Nat /\ DOMAIN rows = 1 .. n /\ k \in 1 .. n + 1
  BY PlaceIs
<1>2. /\ \A j \in 1 .. n : j >= k => DisplayBefore(m, rows[j])
      /\ \A j \in 1 .. n : j < k => DisplayBefore(rows[j], m)
  BY <1>1, PlaceIs
<1>. HIDE DEF k
<1>3. /\ new \in Seq(Message) /\ Len(new) = n + 1 /\ new[k] = m
      /\ \A i \in 1 .. k - 1 : new[i] = rows[i]
      /\ \A i \in k + 1 .. n + 1 : new[i] = rows[i - 1]
  <2>1. rows \in Seq(Message) /\ m \in Message /\ k \in 1 .. Len(rows) + 1
    BY <1>1
  <2>. QED
    BY ONLY <2>1, InsertedAt
<1>. HIDE DEF new
<1>4. DOMAIN new = 1 .. n + 1
  BY <1>1, <1>3
<1>5. ASSUME NEW i \in 1 .. n + 1, NEW j \in 1 .. n + 1, i < j
      PROVE  DisplayBefore(new[i], new[j])
  <2>1. CASE j < k
    BY <1>1, <1>3, <1>5, <2>1 DEF InRank
  <2>2. CASE j = k
    BY <1>1, <1>2, <1>3, <1>5, <2>2
  <2>3. CASE j > k /\ i = k
    BY <1>1, <1>2, <1>3, <1>5, <2>3
  <2>4. CASE j > k /\ i < k
    <3>1. new[i] = rows[i] /\ new[j] = rows[j - 1] /\ i \in 1 .. n /\ j - 1 \in 1 .. n /\ i < j - 1
      BY <1>1, <1>3, <1>5, <2>4
    <3>. QED
      BY <1>1, <3>1 DEF InRank
  <2>5. CASE i > k
    <3>1. new[i] = rows[i - 1] /\ new[j] = rows[j - 1] /\ i - 1 \in 1 .. n /\ j - 1 \in 1 .. n /\ i - 1 < j - 1
      BY <1>1, <1>3, <1>5, <2>5
    <3>. QED
      BY <1>1, <3>1 DEF InRank
  <2>. QED
    BY <1>1, <2>1, <2>2, <2>3, <2>4, <2>5
<1>6. ASSUME NEW r
      PROVE  (\E i \in 1 .. n + 1 : new[i] = r) <=> r = m \/ \E i \in 1 .. n : rows[i] = r
  <2>1. ASSUME NEW i \in 1 .. n + 1
        PROVE  new[i] = m \/ \E j \in 1 .. n : rows[j] = new[i]
    <3>1. CASE i < k
      <4>1. i \in 1 .. n /\ new[i] = rows[i]
        BY <1>1, <1>3, <3>1
      <4>. QED
        BY <4>1
    <3>2. CASE i > k
      <4>1. i - 1 \in 1 .. n /\ new[i] = rows[i - 1]
        BY <1>1, <1>3, <3>2
      <4>. QED
        BY <4>1
    <3>. QED
      BY <1>1, <1>3, <3>1, <3>2
  <2>2. ASSUME NEW j \in 1 .. n
        PROVE  \E i \in 1 .. n + 1 : new[i] = rows[j]
    <3>1. CASE j < k
      <4>1. j \in 1 .. n + 1 /\ new[j] = rows[j]
        BY <1>1, <1>3, <3>1
      <4>. QED
        BY <4>1
    <3>2. CASE j >= k
      <4>1. j + 1 \in 1 .. n + 1 /\ new[j + 1] = rows[j]
        BY <1>1, <1>3, <3>2
      <4>. QED
        BY <4>1
    <3>. QED
      BY <1>1, <3>1, <3>2
  <2>3. \E i \in 1 .. n + 1 : new[i] = m
    BY <1>1, <1>3
  <2>. QED
    BY <2>1, <2>2, <2>3
<1>7. Insert(rows, m) = new
  BY DEF Insert, new, k
<1>8. InRank(new)
  BY <1>4, <1>5 DEF InRank
<1>9. new \in Seq(Message)
  BY <1>3
<1>. QED
  BY ONLY <1>1, <1>4, <1>6, <1>7, <1>8, <1>9

(* What a list holds, of one chat and each message once, and in order.     *)
Family(own, R) ==
  /\ R \subseteq Message
  /\ \A r \in R : r.chat = 1 /\ Fit(own, r)
  /\ \A r, other \in R : Of(own, r) = Of(own, other) => r = other

Ranked(rows, R) ==
  /\ rows \in Seq(Message) /\ InRank(rows)
  /\ \A r : (\E i \in DOMAIN rows : rows[i] = r) <=> r \in R

(* The list holds the messages R, each once and in order.                  *)
Shown(list, R) == Exact(list) /\ Ranked(list.rows, R)

(* Rows of different messages are proper rows.                             *)
LEMMA RankedProper ==
  ASSUME NEW own, NEW R, Family(own, R), NEW rows, Ranked(rows, R)
  PROVE  Proper(own, rows)
<1>1. rows \in Seq(Message) /\ DOMAIN rows = 1 .. Len(rows)
  BY DEF Ranked
<1>2. ASSUME NEW i \in DOMAIN rows
      PROVE  rows[i] \in R /\ Fit(own, rows[i]) /\ rows[i] \in Message
  BY <1>1 DEF Ranked, Family
<1>3. ASSUME NEW i \in DOMAIN rows, NEW j \in DOMAIN rows, i < j
      PROVE  Of(own, rows[i]) # Of(own, rows[j])
  <2>1. rows[i].id # 0 /\ rows[j].id # 0
    BY <1>2 DEF Fit
  <2>2. rows[i] # rows[j]
    <3>1. DisplayBefore(rows[i], rows[j])
      BY <1>3 DEF Ranked, InRank
    <3>. SUFFICES ASSUME rows[i] = rows[j] PROVE FALSE
      OBVIOUS
    <3>2. DisplayBefore(rows[i], rows[i])
      BY <3>1
    <3>. QED
      BY <1>2, <2>1, <3>2, BeforeIs
  <2>. QED
    BY <1>2, <2>2 DEF Family
<1>4. ASSUME NEW i \in DOMAIN rows, NEW j \in DOMAIN rows, i # j
      PROVE  Of(own, rows[i]) # Of(own, rows[j])
  <2>1. i < j \/ j < i
    BY <1>1, <1>4
  <2>. QED
    BY <1>3, <2>1
<1>. QED
  BY <1>1, <1>2, <1>4 DEF Proper

(* Inserting adds the message to those that are there.                     *)
LEMMA InsertRanked ==
  ASSUME NEW own, NEW R, NEW m, Family(own, R \cup {m}), \A r \in R : Of(own, r) # Of(own, m),
         NEW rows, Ranked(rows, R)
  PROVE  Ranked(Insert(rows, m), R \cup {m})
<1>1. rows \in Seq(Message) /\ InRank(rows) /\ m \in Message /\ m.id # 0 /\ m.chat = 1
  BY DEF Ranked, Family, Fit
<1>2. ASSUME NEW i \in DOMAIN rows
      PROVE  rows[i].id # 0 /\ rows[i].id # m.id
  <2>1. rows[i] \in R
    BY DEF Ranked
  <2>2. rows[i].id # 0 /\ rows[i].chat = 1 /\ Of(own, rows[i]) # Of(own, m)
    BY <2>1 DEF Family, Fit
  <2>. QED
    BY <1>1, <2>2 DEF Of
<1>3. /\ Insert(rows, m) \in Seq(Message) /\ InRank(Insert(rows, m))
      /\ \A r : (\E i \in DOMAIN Insert(rows, m) : Insert(rows, m)[i] = r)
                  <=> r = m \/ \E i \in DOMAIN rows : rows[i] = r
  BY <1>1, <1>2, InsertIs
<1>4. \A r : (\E i \in DOMAIN rows : rows[i] = r) <=> r \in R
  BY DEF Ranked
<1>. HIDE DEF Insert
<1>. QED
  BY <1>3, <1>4 DEF Ranked

(* The rows without the one at k.                                          *)
LEMMA RemovedAt ==
  ASSUME NEW rows \in Seq(Message), NEW k \in 1 .. Len(rows)
  PROVE  /\ RemoveAt(rows, k) \in Seq(Message) /\ Len(RemoveAt(rows, k)) = Len(rows) - 1
         /\ \A i \in 1 .. k - 1 : RemoveAt(rows, k)[i] = rows[i]
         /\ \A i \in k .. Len(rows) - 1 : RemoveAt(rows, k)[i] = rows[i + 1]
<1>. DEFINE s == SubSeq(rows, 1, k - 1)
            t == SubSeq(rows, k + 1, Len(rows))
<1>1. /\ s \in Seq(Message) /\ Len(s) = k - 1 /\ \A i \in 1 .. k - 1 : s[i] = rows[i]
      /\ t \in Seq(Message) /\ Len(t) = Len(rows) - k
  OBVIOUS
<1>2. \A i \in 1 .. Len(rows) - k : t[i] = rows[i + k]
  OBVIOUS
<1>3. RemoveAt(rows, k) = s \o t
  BY DEF RemoveAt
<1>. HIDE DEF s, t
<1>4. /\ s \o t \in Seq(Message) /\ Len(s \o t) = Len(rows) - 1
      /\ \A i \in 1 .. k - 1 : (s \o t)[i] = s[i]
  <2>1. Len(s) \in Nat /\ Len(t) \in Nat /\ Len(s) + Len(t) = Len(rows) - 1
    BY <1>1
  <2>2. s \o t \in Seq(Message) /\ Len(s \o t) = Len(s) + Len(t)
    BY <1>1
  <2>3. \A i \in 1 .. Len(s) : (s \o t)[i] = s[i]
    BY <1>1
  <2>. QED
    BY <1>1, <2>1, <2>2, <2>3
<1>6. ASSUME NEW i \in k .. Len(rows) - 1
      PROVE  (s \o t)[i] = t[i - k + 1]
  BY <1>1
<1>5. \A i \in k .. Len(rows) - 1 : t[i - k + 1] = rows[i + 1]
  BY <1>2
<1>. QED
  BY <1>1, <1>3, <1>4, <1>5, <1>6

(* Removing takes one message away.                                        *)
LEMMA RemoveRanked ==
  ASSUME NEW own, NEW R, Family(own, R), NEW rows, Ranked(rows, R), NEW k \in DOMAIN rows
  PROVE  Ranked(RemoveAt(rows, k), R \ {rows[k]})
<1>. DEFINE n == Len(rows)
            new == RemoveAt(rows, k)
<1>1. rows \in Seq(Message) /\ n \in Nat /\ DOMAIN rows = 1 .. n /\ InRank(rows) /\ k \in 1 .. n
  BY DEF Ranked
<1>2. /\ new \in Seq(Message) /\ Len(new) = n - 1
      /\ \A i \in 1 .. k - 1 : new[i] = rows[i]
      /\ \A i \in k .. n - 1 : new[i] = rows[i + 1]
  BY <1>1, RemovedAt
<1>. HIDE DEF new
<1>3. DOMAIN new = 1 .. n - 1
  BY <1>1, <1>2
<1>4. ASSUME NEW i \in 1 .. n - 1
      PROVE  \/ i < k /\ i \in 1 .. n /\ new[i] = rows[i]
             \/ i >= k /\ i + 1 \in 1 .. n /\ new[i] = rows[i + 1]
  <2>1. CASE i < k
    BY <1>1, <1>2, <2>1
  <2>2. CASE i >= k
    <3>1. i \in k .. n - 1 /\ i + 1 \in 1 .. n
      BY <1>1, <2>2
    <3>. QED
      BY <1>2, <2>2, <3>1
  <2>. QED
    BY <1>1, <2>1, <2>2
<1>5. ASSUME NEW i \in 1 .. n - 1, NEW j \in 1 .. n - 1, i < j
      PROVE  DisplayBefore(new[i], new[j])
  <2>1. \E p, q \in 1 .. n : p < q /\ new[i] = rows[p] /\ new[j] = rows[q]
    <3>1. CASE j < k
      BY <1>1, <1>4, <1>5, <3>1
    <3>2. CASE i < k /\ j >= k
      BY <1>1, <1>4, <1>5, <3>2
    <3>3. CASE i >= k
      BY <1>1, <1>4, <1>5, <3>3
    <3>. QED
      BY <1>1, <3>1, <3>2, <3>3
  <2>. QED
    BY <1>1, <2>1 DEF InRank
<1>6. Proper(own, rows)
  BY RankedProper
<1>7. ASSUME NEW i \in 1 .. n, i # k
      PROVE  rows[i] # rows[k]
  BY <1>1, <1>6, <1>7 DEF Proper
<1>8. ASSUME NEW r
      PROVE  (\E i \in 1 .. n - 1 : new[i] = r) <=> r \in R \ {rows[k]}
  <2>1. ASSUME NEW i \in 1 .. n - 1
        PROVE  new[i] \in R \ {rows[k]}
    <3>1. PICK p \in 1 .. n : p # k /\ new[i] = rows[p]
      BY <1>1, <1>4
    <3>2. rows[p] \in R
      BY <1>1, <3>1 DEF Ranked
    <3>. QED
      BY <1>7, <3>1, <3>2
  <2>2. ASSUME r \in R, r # rows[k]
        PROVE  \E i \in 1 .. n - 1 : new[i] = r
    <3>1. PICK p \in 1 .. n : rows[p] = r
      BY <1>1, <2>2 DEF Ranked
    <3>2. CASE p < k
      <4>1. p \in 1 .. n - 1 /\ new[p] = rows[p]
        BY <1>1, <1>2, <3>2
      <4>. QED
        BY <3>1, <4>1
    <3>3. CASE p > k
      <4>1. p - 1 \in 1 .. n - 1 /\ p - 1 \in k .. n - 1 /\ (p - 1) + 1 = p
        BY <1>1, <3>3
      <4>2. new[p - 1] = rows[p]
        BY <1>2, <4>1
      <4>. QED
        BY <3>1, <4>1, <4>2
    <3>. QED
      BY <1>1, <2>2, <3>1, <3>2, <3>3
  <2>. QED
    BY <2>1, <2>2
<1>9. InRank(new)
  BY <1>3, <1>5 DEF InRank
<1>. QED
  BY <1>2, <1>3, <1>8, <1>9 DEF Ranked, new

(* updateMessageAt, whether or not the row stays where it is.              *)
LEMMA UpdateShown ==
  ASSUME NEW own, NEW R, Family(own, R), NEW list, Shown(list, R), NEW i \in DOMAIN list.rows,
         NEW m \in Message, Fit(own, m), m.chat = 1, Of(own, m) = Of(own, list.rows[i])
  PROVE  /\ Family(own, (R \ {list.rows[i]}) \cup {m})
         /\ Shown(UpdateAt(list, i, m), (R \ {list.rows[i]}) \cup {m})
<1>. DEFINE rows == list.rows
            n == Len(rows)
            others == RemoveAt(rows, i)
            S == (R \ {rows[i]}) \cup {m}
            new == Insert(others, m)
<1>1. rows \in Seq(Message) /\ n \in Nat /\ DOMAIN rows = 1 .. n /\ i \in 1 .. n /\ rows[i] \in R
  BY DEF Shown, Ranked
<1>2. ASSUME NEW r \in R \ {rows[i]}
      PROVE  Of(own, r) # Of(own, m)
  BY <1>1 DEF Family
<1>3. Family(own, S)
  BY <1>2 DEF Family
<1>4. Proper(own, rows)
  BY RankedProper DEF Shown
<1>5. Ranked(others, R \ {rows[i]})
  BY RemoveRanked DEF Shown
<1>6. Ranked(new, S)
  <2>1. S = (R \ {rows[i]}) \cup {m}
    OBVIOUS
  <2>. HIDE DEF S, others, new
  <2>. QED
    BY ONLY <1>2, <1>3, <1>5, <2>1, InsertRanked DEF new
<1>7. Proper(own, new)
  BY <1>3, <1>6, RankedProper
<1>8. CASE Place(others, m) = i
  <2>1. /\ Changed(list, i, m).rows = [rows EXCEPT ![i] = m]
        /\ Exact(Changed(list, i, m))
    BY <1>4, ChangedExact DEF Shown
  <2>2. new = InsertAt(others, i, m)
    BY <1>8 DEF Insert
  <2>3. /\ others \in Seq(Message) /\ Len(others) = n - 1
        /\ \A j \in 1 .. i - 1 : others[j] = rows[j]
        /\ \A j \in i .. n - 1 : others[j] = rows[j + 1]
    BY <1>1, RemovedAt
  <2>. HIDE DEF others
  <2>4. /\ InsertAt(others, i, m) \in Seq(Message) /\ Len(InsertAt(others, i, m)) = n
        /\ \A j \in 1 .. i - 1 : InsertAt(others, i, m)[j] = others[j]
        /\ InsertAt(others, i, m)[i] = m
        /\ \A j \in i + 1 .. n : InsertAt(others, i, m)[j] = others[j - 1]
    <3>1. i \in 1 .. Len(others) + 1 /\ Len(others) + 1 = n
      BY <1>1, <2>3
    <3>2. m \in Message /\ others \in Seq(Message)
      BY <2>3
    <3>3. /\ InsertAt(others, i, m) \in Seq(Message)
          /\ Len(InsertAt(others, i, m)) = Len(others) + 1
          /\ \A j \in 1 .. i - 1 : InsertAt(others, i, m)[j] = others[j]
          /\ InsertAt(others, i, m)[i] = m
          /\ \A j \in i + 1 .. Len(others) + 1 : InsertAt(others, i, m)[j] = others[j - 1]
      <4>1. \A seq \in Seq(Message), x \in Message : \A k \in 1 .. Len(seq) + 1 :
              /\ InsertAt(seq, k, x) \in Seq(Message)
              /\ Len(InsertAt(seq, k, x)) = Len(seq) + 1
              /\ \A j \in 1 .. k - 1 : InsertAt(seq, k, x)[j] = seq[j]
              /\ InsertAt(seq, k, x)[k] = x
              /\ \A j \in k + 1 .. Len(seq) + 1 : InsertAt(seq, k, x)[j] = seq[j - 1]
        BY ONLY InsertedAt
      <4>. QED
        BY ONLY <3>1, <3>2, <4>1, Zenon
    <3>. QED
      BY <3>1, <3>3
  <2>5. ASSUME NEW j \in 1 .. n
        PROVE  new[j] = IF j = i THEN m ELSE rows[j]
    <3>1. CASE j < i
      BY <1>1, <2>2, <2>3, <2>4, <3>1
    <3>2. CASE j = i
      BY <2>2, <2>4, <3>2
    <3>3. CASE j > i
      <4>1. j \in i + 1 .. n /\ j - 1 \in i .. n - 1 /\ (j - 1) + 1 = j
        BY <1>1, <3>3
      <4>. QED
        BY <2>2, <2>3, <2>4, <4>1
    <3>. QED
      BY <1>1, <3>1, <3>2, <3>3
  <2>6. new \in Seq(Message) /\ Len(new) = n
    BY <2>2, <2>4
  <2>. HIDE DEF new
  <2>7. new = [rows EXCEPT ![i] = m]
    BY <1>1, <2>5, <2>6
  <2>8. UpdateAt(list, i, m) = Changed(list, i, m)
    BY <1>8 DEF UpdateAt, others
  <2>. QED
    BY <1>3, <1>6, <2>1, <2>7, <2>8 DEF Shown
<1>9. CASE Place(others, m) # i
  <2>1. UpdateAt(list, i, m) = Indexed(new)
    BY <1>9 DEF UpdateAt
  <2>. HIDE DEF new
  <2>2. Indexed(new).rows = new /\ Exact(Indexed(new))
    BY <1>7, IndexedExact
  <2>. QED
    BY <1>3, <1>6, <2>1, <2>2 DEF Shown
<1>. QED
  BY <1>8, <1>9

(* The equation of Inserted, on the first n messages.                     *)
Inserts(f, rows, messages, n) ==
  f = [k \in 0 .. n |-> IF k = 0 THEN rows ELSE Insert(f[k - 1], messages[k])]

(* What the equation says.                                                 *)
LEMMA InsertsAt ==
  ASSUME NEW rows, NEW messages, NEW n \in Nat, NEW f, Inserts(f, rows, messages, n)
  PROVE  f[0] = rows /\ \A k \in 1 .. n : f[k] = Insert(f[k - 1], messages[k])
<1>. DEFINE first == rows
            e(k) == IF k = 0 THEN first ELSE Insert(f[k - 1], messages[k])
<1>1. f = [k \in 0 .. n |-> e(k)]
  BY DEF Inserts
<1>. HIDE DEF e
<1>2. \A k \in 0 .. n : f[k] = e(k)
  BY <1>1
<1>3. f[0] = e(0) /\ \A k \in 1 .. n : k # 0 /\ f[k] = e(k)
  BY <1>2
<1>. HIDE DEF first
<1>4. f[0] = first /\ \A k \in 1 .. n : f[k] = Insert(f[k - 1], messages[k])
  BY <1>3 DEF e
<1>. QED
  BY <1>4 DEF first

(* The equation has a solution.                                            *)
LEMMA InsertsExist ==
  ASSUME NEW rows, NEW messages, NEW n \in Nat
  PROVE  \E f : Inserts(f, rows, messages, n)
<1>. DEFINE S == {m \in 0 .. n : \E f : Inserts(f, rows, messages, m)}
<1>1. 0 \in S
  <2>. DEFINE f == [k \in 0 .. 0 |-> rows]
  <2>1. f = [k \in 0 .. 0 |-> IF k = 0 THEN rows ELSE Insert(f[k - 1], messages[k])]
    OBVIOUS
  <2>2. Inserts(f, rows, messages, 0)
    BY <2>1 DEF Inserts
  <2>. QED
    BY <2>2
<1>2. ASSUME NEW m \in 0 .. n - 1, m \in S
      PROVE  m + 1 \in S
  <2>1. PICK g : Inserts(g, rows, messages, m)
    BY <1>2
  <2>2. g[0] = rows /\ \A k \in 1 .. m : g[k] = Insert(g[k - 1], messages[k])
    <3>1. m \in Nat
      OBVIOUS
    <3>. QED
      BY <2>1, <3>1, InsertsAt
  <2>. DEFINE h == [k \in 0 .. m + 1 |-> IF k <= m THEN g[k] ELSE Insert(g[m], messages[m + 1])]
              e(k) == IF k = 0 THEN rows ELSE Insert(h[k - 1], messages[k])
  <2>3. /\ \A k \in 0 .. m : h[k] = g[k]
        /\ h[m + 1] = Insert(g[m], messages[m + 1])
        /\ m \in Nat
    OBVIOUS
  <2>7. h = [k \in 0 .. m + 1 |-> h[k]]
    OBVIOUS
  <2>. HIDE DEF h
  <2>4. ASSUME NEW k \in 0 .. m + 1
        PROVE  h[k] = e(k)
    <3>1. CASE k = 0
      BY <2>2, <2>3, <3>1
    <3>2. CASE k \in 1 .. m
      <4>1. h[k] = g[k] /\ h[k - 1] = g[k - 1] /\ k # 0
        BY <2>3, <3>2
      <4>. QED
        BY <2>2, <3>2, <4>1
    <3>3. CASE k = m + 1
      <4>1. h[k - 1] = g[m] /\ k # 0
        BY <2>3, <3>3
      <4>. QED
        BY <2>3, <3>3, <4>1
    <3>. QED
      BY <3>1, <3>2, <3>3
  <2>5. h = [k \in 0 .. m + 1 |-> e(k)]
    <3>. HIDE DEF e
    <3>. QED
      BY <2>4, <2>7
  <2>6. Inserts(h, rows, messages, m + 1)
    BY <2>5 DEF Inserts
  <2>. QED
    BY <2>6
<1>. HIDE DEF S
<1>3. 0 .. n \subseteq S
  BY <1>1, <1>2, UpTo
<1>. QED
  BY <1>3 DEF S

(* Inserted by its steps.                                                  *)
LEMMA InsertedIs ==
  ASSUME NEW rows, NEW messages, Len(messages) \in Nat
  PROVE  \E f : /\ f[0] = rows
                /\ \A k \in 1 .. Len(messages) : f[k] = Insert(f[k - 1], messages[k])
                /\ Inserted(rows, messages) = f[Len(messages)]
<1>. DEFINE n == Len(messages)
            done == CHOOSE f : f = [k \in 0 .. n |-> IF k = 0 THEN rows ELSE Insert(f[k - 1], messages[k])]
<1>1. \E f : Inserts(f, rows, messages, n)
  BY InsertsExist
<1>2. Inserts(done, rows, messages, n)
  BY <1>1 DEF Inserts
<1>3. Inserted(rows, messages) = done[n]
  BY DEF Inserted
<1>. HIDE DEF done
<1>4. done[0] = rows /\ \A k \in 1 .. n : done[k] = Insert(done[k - 1], messages[k])
  BY <1>2, InsertsAt
<1>. QED
  BY <1>3, <1>4

Given(messages, n) == {messages[i] : i \in 1 .. n}

(* Fewer messages are no less different.                                   *)
LEMMA PartOfFamily ==
  ASSUME NEW own, NEW R, Family(own, R), NEW S, S \subseteq R
  PROVE  Family(own, S)
<1>1. \A r \in S : r \in R
  OBVIOUS
<1>. QED
  BY <1>1 DEF Family

(* insertNewMessages adds them all, each at its place.                     *)
LEMMA InsertedRanked ==
  ASSUME NEW own, NEW R, NEW messages, Proper(own, messages),
         Family(own, R \cup Given(messages, Len(messages))),
         \A r \in R, i \in DOMAIN messages : Of(own, r) # Of(own, messages[i]),
         NEW rows, Ranked(rows, R)
  PROVE  Ranked(Inserted(rows, messages), R \cup Given(messages, Len(messages)))
<1>. DEFINE n == Len(messages)
            now(k) == R \cup Given(messages, k)
<1>1. n \in Nat /\ DOMAIN messages = 1 .. n /\ now(n) = R \cup Given(messages, Len(messages))
  BY DEF Proper
<1>2. PICK f : /\ f[0] = rows /\ \A k \in 1 .. n : f[k] = Insert(f[k - 1], messages[k])
               /\ Inserted(rows, messages) = f[n]
  <2>1. Len(messages) \in Nat
    BY <1>1
  <2>2. \E f : /\ f[0] = rows
               /\ \A k \in 1 .. Len(messages) : f[k] = Insert(f[k - 1], messages[k])
               /\ Inserted(rows, messages) = f[Len(messages)]
    BY ONLY <2>1, InsertedIs
  <2>. QED
    BY <2>2
<1>. DEFINE S == {k \in 0 .. n : Ranked(f[k], now(k))}
<1>3. 0 \in S
  <2>1. now(0) = R
    BY DEF Given
  <2>. HIDE DEF now
  <2>2. 0 \in 0 .. n /\ Ranked(f[0], now(0))
    BY <1>1, <1>2, <2>1
  <2>. QED
    BY <2>2
<1>4. ASSUME NEW k \in 0 .. n - 1, k \in S
      PROVE  k + 1 \in S
  <2>. DEFINE m == messages[k + 1]
  <2>1. k + 1 \in 1 .. n /\ f[k + 1] = Insert(f[k], m)
    BY <1>1, <1>2
  <2>2. now(k + 1) = now(k) \cup {m}
    <3>1. 1 .. k + 1 = (1 .. k) \cup {k + 1}
      BY <1>1
    <3>2. Given(messages, k + 1) = Given(messages, k) \cup {m}
      BY <3>1 DEF Given
    <3>. QED
      BY <3>2
  <2>3. Family(own, now(k + 1))
    <3>1. \A i \in 1 .. k + 1 : i \in 1 .. n
      BY <1>1
    <3>2. now(k + 1) \subseteq now(n)
      BY <3>1 DEF Given
    <3>. QED
      BY <1>1, <3>2, PartOfFamily
  <2>4. \A r \in now(k) : Of(own, r) # Of(own, m)
    <3>1. \A i \in 1 .. k : i \in 1 .. n /\ i # k + 1
      BY <1>1
    <3>2. \A i \in 1 .. k : Of(own, messages[i]) # Of(own, m)
      BY <1>1, <2>1, <3>1 DEF Proper
    <3>. QED
      BY <1>1, <2>1, <3>2 DEF Given
  <2>5. Ranked(f[k], now(k))
    BY <1>4
  <2>. HIDE DEF m, now
  <2>6. Family(own, now(k) \cup {m})
    BY <2>2, <2>3
  <2>7. Ranked(Insert(f[k], m), now(k) \cup {m})
    BY ONLY <2>4, <2>5, <2>6, InsertRanked
  <2>8. k + 1 \in 0 .. n
    BY <1>1, <2>1
  <2>9. Ranked(f[k + 1], now(k + 1))
    BY ONLY <2>1, <2>2, <2>7
  <2>. QED
    BY <2>8, <2>9
<1>. HIDE DEF S
<1>5. 0 .. n \subseteq S
  BY <1>1, <1>3, <1>4, UpTo
<1>6. Ranked(f[n], now(n))
  <2>1. n \in 0 .. n
    BY <1>1
  <2>2. n \in S
    BY <1>5, <2>1
  <2>. HIDE DEF n, now
  <2>. QED
    BY <2>2 DEF S
<1>. QED
  BY <1>1, <1>2, <1>6

-----------------------------------------------------------------------------
(* A batch.                                                                *)

(* The equation of Coalesced, on the first n messages.                    *)
Merges(f, messages, n) ==
  f = [k \in 0 .. n |-> IF k = 0 THEN NoRows ELSE Merge(f[k - 1], messages[k])]

(* What the equation says.                                                 *)
LEMMA MergesAt ==
  ASSUME NEW messages, NEW n \in Nat, NEW f, Merges(f, messages, n)
  PROVE  f[0] = NoRows /\ \A k \in 1 .. n : f[k] = Merge(f[k - 1], messages[k])
<1>. DEFINE first == NoRows
            e(k) == IF k = 0 THEN first ELSE Merge(f[k - 1], messages[k])
<1>1. f = [k \in 0 .. n |-> e(k)]
  BY DEF Merges
<1>. HIDE DEF e
<1>2. \A k \in 0 .. n : f[k] = e(k)
  BY <1>1
<1>3. f[0] = e(0) /\ \A k \in 1 .. n : k # 0 /\ f[k] = e(k)
  BY <1>2
<1>. HIDE DEF first
<1>4. f[0] = first /\ \A k \in 1 .. n : f[k] = Merge(f[k - 1], messages[k])
  BY <1>3 DEF e
<1>. QED
  BY <1>4 DEF first

(* The equation has a solution.                                            *)
LEMMA MergesExist ==
  ASSUME NEW messages, NEW n \in Nat
  PROVE  \E f : Merges(f, messages, n)
<1>. DEFINE S == {m \in 0 .. n : \E f : Merges(f, messages, m)}
<1>1. 0 \in S
  <2>. DEFINE f == [k \in 0 .. 0 |-> NoRows]
  <2>1. f = [k \in 0 .. 0 |-> IF k = 0 THEN NoRows ELSE Merge(f[k - 1], messages[k])]
    OBVIOUS
  <2>2. Merges(f, messages, 0)
    BY <2>1 DEF Merges
  <2>. QED
    BY <2>2
<1>2. ASSUME NEW m \in 0 .. n - 1, m \in S
      PROVE  m + 1 \in S
  <2>1. PICK g : Merges(g, messages, m)
    BY <1>2
  <2>2. g[0] = NoRows /\ \A k \in 1 .. m : g[k] = Merge(g[k - 1], messages[k])
    <3>1. m \in Nat
      OBVIOUS
    <3>. QED
      BY <2>1, <3>1, MergesAt
  <2>. DEFINE h == [k \in 0 .. m + 1 |-> IF k <= m THEN g[k] ELSE Merge(g[m], messages[m + 1])]
              e(k) == IF k = 0 THEN NoRows ELSE Merge(h[k - 1], messages[k])
  <2>3. /\ \A k \in 0 .. m : h[k] = g[k]
        /\ h[m + 1] = Merge(g[m], messages[m + 1])
        /\ m \in Nat
    OBVIOUS
  <2>7. h = [k \in 0 .. m + 1 |-> h[k]]
    OBVIOUS
  <2>. HIDE DEF h
  <2>4. ASSUME NEW k \in 0 .. m + 1
        PROVE  h[k] = e(k)
    <3>1. CASE k = 0
      BY <2>2, <2>3, <3>1
    <3>2. CASE k \in 1 .. m
      <4>1. h[k] = g[k] /\ h[k - 1] = g[k - 1] /\ k # 0
        BY <2>3, <3>2
      <4>. QED
        BY <2>2, <3>2, <4>1
    <3>3. CASE k = m + 1
      <4>1. h[k - 1] = g[m] /\ k # 0
        BY <2>3, <3>3
      <4>. QED
        BY <2>3, <3>3, <4>1
    <3>. QED
      BY <3>1, <3>2, <3>3
  <2>5. h = [k \in 0 .. m + 1 |-> e(k)]
    <3>. HIDE DEF e
    <3>. QED
      BY <2>4, <2>7
  <2>6. Merges(h, messages, m + 1)
    BY <2>5 DEF Merges
  <2>. QED
    BY <2>6
<1>. HIDE DEF S
<1>3. 0 .. n \subseteq S
  BY <1>1, <1>2, UpTo
<1>. QED
  BY <1>3 DEF S

(* Coalesced by its steps.                                                 *)
LEMMA CoalescedIs ==
  ASSUME NEW messages, Len(messages) \in Nat
  PROVE  \E f : /\ f[0] = NoRows
                /\ \A k \in 1 .. Len(messages) : f[k] = Merge(f[k - 1], messages[k])
                /\ Coalesced(messages) = f[Len(messages)].rows
<1>. DEFINE n == Len(messages)
            batch == CHOOSE f : f = [k \in 0 .. n |-> IF k = 0 THEN NoRows ELSE Merge(f[k - 1], messages[k])]
<1>1. \E f : Merges(f, messages, n)
  BY MergesExist
<1>2. Merges(batch, messages, n)
  BY <1>1 DEF Merges
<1>3. Coalesced(messages) = batch[n].rows
  BY DEF Coalesced
<1>. HIDE DEF batch
<1>4. batch[0] = NoRows /\ \A k \in 1 .. n : batch[k] = Merge(batch[k - 1], messages[k])
  BY <1>2, MergesAt
<1>. QED
  BY <1>3, <1>4

(* At first there is nothing.                                              *)
LEMMA NoRowsExact == Exact(NoRows) /\ NoRows.rows = <<>>
<1>1. NoRows.rows = <<>> /\ NoRows.at = <<>> /\ NoRows = [rows |-> <<>>, at |-> <<>>]
  BY DEF NoRows
<1>2. DOMAIN <<>> = {} /\ <<>> = [a \in {} |-> <<>>[a]]
  OBVIOUS
<1>. QED
  BY <1>1, <1>2 DEF Exact

(* Messages that are each another's stay as they are.                      *)
LEMMA CoalescedAgain ==
  ASSUME NEW own, NEW messages, Proper(own, messages)
  PROVE  Coalesced(messages) = messages
<1>. DEFINE n == Len(messages)
<1>1. messages \in Seq(Message) /\ n \in Nat /\ DOMAIN messages = 1 .. n
  BY DEF Proper
<1>2. PICK f : /\ f[0] = NoRows /\ \A k \in 1 .. n : f[k] = Merge(f[k - 1], messages[k])
               /\ Coalesced(messages) = f[n].rows
  BY <1>1, CoalescedIs
<1>. DEFINE S == {k \in 0 .. n : /\ Exact(f[k]) /\ f[k].rows \in Seq(Message) /\ Len(f[k].rows) = k
                                /\ \A i \in 1 .. k : f[k].rows[i] = messages[i]}
<1>3. 0 \in S
  <2>1. 0 \in 0 .. n /\ 1 .. 0 = {}
    BY <1>1
  <2>2. f[0].rows = <<>> /\ Exact(f[0])
    BY <1>2, NoRowsExact
  <2>3. /\ f[0].rows \in Seq(Message) /\ Len(f[0].rows) = 0
        /\ \A i \in 1 .. 0 : f[0].rows[i] = messages[i]
    BY <2>1, <2>2
  <2>. QED
    BY <2>1, <2>2, <2>3
<1>4. ASSUME NEW k \in 0 .. n - 1, k \in S
      PROVE  k + 1 \in S
  <2>. DEFINE m == messages[k + 1]
              list == f[k]
  <2>1. k \in Nat /\ k + 1 \in 1 .. n /\ f[k + 1] = Merge(list, m) /\ m \in Message /\ Fit(own, m)
    BY <1>1, <1>2 DEF Proper
  <2>2. /\ Exact(list) /\ list.rows \in Seq(Message) /\ Len(list.rows) = k /\ DOMAIN list.rows = 1 .. k
        /\ \A i \in 1 .. k : list.rows[i] = messages[i]
    BY <1>4
  <2>3. \A i \in 1 .. k : i \in 1 .. n /\ i # k + 1
    BY <1>1
  <2>4. Proper(own, list.rows) /\ \A i \in 1 .. k : Of(own, list.rows[i]) # Of(own, m)
    BY <1>1, <2>1, <2>2, <2>3 DEF Proper
  <2>. HIDE DEF m, list
  <2>5. RowOf(list.at, m) = 0
    BY <2>1, <2>2, <2>4, RowAbsent
  <2>6. /\ Merge(list, m) = Added(list, m)
        /\ Added(list, m).rows = Append(list.rows, m) /\ Exact(Added(list, m))
    BY <2>1, <2>2, <2>4, <2>5, AddedExact DEF Merge
  <2>7. /\ f[k + 1].rows \in Seq(Message) /\ Len(f[k + 1].rows) = k + 1
        /\ \A i \in 1 .. k + 1 : f[k + 1].rows[i] = messages[i]
    BY <2>1, <2>2, <2>6 DEF m
  <2>8. k + 1 \in 0 .. n /\ Exact(f[k + 1])
    BY <1>1, <2>1, <2>6
  <2>. QED
    BY <2>7, <2>8
<1>. HIDE DEF S
<1>5. 0 .. n \subseteq S
  BY <1>1, <1>3, <1>4, UpTo
<1>6. f[n].rows \in Seq(Message) /\ Len(f[n].rows) = n /\ \A i \in 1 .. n : f[n].rows[i] = messages[i]
  BY <1>1, <1>5 DEF S
<1>. QED
  BY <1>1, <1>2, <1>6, SeqEqual

(* The equation of what upsertMessages takes up, for the first n messages. *)
Takes(f, list, given, n) ==
  f = [k \in 0 .. n |-> IF k = 0 THEN [list |-> list, new |-> <<>>] ELSE Take(f[k - 1], given[k])]

(* What the equation says.                                                 *)
LEMMA TakesAt ==
  ASSUME NEW list, NEW given, NEW n \in Nat, NEW f, Takes(f, list, given, n)
  PROVE  f[0] = [list |-> list, new |-> <<>>] /\ \A k \in 1 .. n : f[k] = Take(f[k - 1], given[k])
<1>. DEFINE first == [list |-> list, new |-> <<>>]
            e(k) == IF k = 0 THEN first ELSE Take(f[k - 1], given[k])
<1>1. f = [k \in 0 .. n |-> e(k)]
  BY DEF Takes
<1>. HIDE DEF e
<1>2. \A k \in 0 .. n : f[k] = e(k)
  BY <1>1
<1>3. f[0] = e(0) /\ \A k \in 1 .. n : k # 0 /\ f[k] = e(k)
  BY <1>2
<1>. HIDE DEF first
<1>4. f[0] = first /\ \A k \in 1 .. n : f[k] = Take(f[k - 1], given[k])
  BY <1>3 DEF e
<1>. QED
  BY <1>4 DEF first

(* The equation has a solution.                                            *)
LEMMA TakesExist ==
  ASSUME NEW list, NEW given, NEW n \in Nat
  PROVE  \E f : Takes(f, list, given, n)
<1>. DEFINE S == {m \in 0 .. n : \E f : Takes(f, list, given, m)}
<1>1. 0 \in S
  <2>. DEFINE f == [k \in 0 .. 0 |-> [list |-> list, new |-> <<>>]]
  <2>1. f = [k \in 0 .. 0 |-> IF k = 0 THEN [list |-> list, new |-> <<>>] ELSE Take(f[k - 1], given[k])]
    OBVIOUS
  <2>2. Takes(f, list, given, 0)
    BY <2>1 DEF Takes
  <2>. QED
    BY <2>2
<1>2. ASSUME NEW m \in 0 .. n - 1, m \in S
      PROVE  m + 1 \in S
  <2>1. PICK g : Takes(g, list, given, m)
    BY <1>2
  <2>2. g[0] = [list |-> list, new |-> <<>>] /\ \A k \in 1 .. m : g[k] = Take(g[k - 1], given[k])
    <3>1. m \in Nat
      OBVIOUS
    <3>. QED
      BY <2>1, <3>1, TakesAt
  <2>. DEFINE h == [k \in 0 .. m + 1 |-> IF k <= m THEN g[k] ELSE Take(g[m], given[m + 1])]
              e(k) == IF k = 0 THEN [list |-> list, new |-> <<>>] ELSE Take(h[k - 1], given[k])
  <2>3. /\ \A k \in 0 .. m : h[k] = g[k]
        /\ h[m + 1] = Take(g[m], given[m + 1])
        /\ m \in Nat
    OBVIOUS
  <2>7. h = [k \in 0 .. m + 1 |-> h[k]]
    OBVIOUS
  <2>. HIDE DEF h
  <2>4. ASSUME NEW k \in 0 .. m + 1
        PROVE  h[k] = e(k)
    <3>1. CASE k = 0
      BY <2>2, <2>3, <3>1
    <3>2. CASE k \in 1 .. m
      <4>1. h[k] = g[k] /\ h[k - 1] = g[k - 1] /\ k # 0
        BY <2>3, <3>2
      <4>. QED
        BY <2>2, <3>2, <4>1
    <3>3. CASE k = m + 1
      <4>1. h[k - 1] = g[m] /\ k # 0
        BY <2>3, <3>3
      <4>. QED
        BY <2>3, <3>3, <4>1
    <3>. QED
      BY <3>1, <3>2, <3>3
  <2>5. h = [k \in 0 .. m + 1 |-> e(k)]
    <3>. HIDE DEF e
    <3>. QED
      BY <2>4, <2>7
  <2>6. Takes(h, list, given, m + 1)
    BY <2>5 DEF Takes
  <2>. QED
    BY <2>6
<1>. HIDE DEF S
<1>3. 0 .. n \subseteq S
  BY <1>1, <1>2, UpTo
<1>. QED
  BY <1>3 DEF S

(* Upserted by its steps.                                                  *)
LEMMA UpsertedIs ==
  ASSUME NEW list, NEW messages, Len(Coalesced(messages)) \in Nat
  PROVE  \E f : /\ f[0] = [list |-> list, new |-> <<>>]
                /\ \A k \in 1 .. Len(Coalesced(messages)) : f[k] = Take(f[k - 1], Coalesced(messages)[k])
                /\ Upserted(list, messages) =
                     IF f[Len(Coalesced(messages))].new = <<>> THEN f[Len(Coalesced(messages))].list
                     ELSE Indexed(Inserted(f[Len(Coalesced(messages))].list.rows, f[Len(Coalesced(messages))].new))
<1>. DEFINE given == Coalesced(messages)
            n == Len(given)
            taken == CHOOSE f : f = [k \in 0 .. n |-> IF k = 0 THEN [list |-> list, new |-> <<>>]
                                                      ELSE Take(f[k - 1], given[k])]
<1>1. \E f : Takes(f, list, given, n)
  <2>. HIDE DEF given
  <2>. QED
    BY TakesExist
<1>2. Takes(taken, list, given, n)
  BY <1>1 DEF Takes
<1>3. Upserted(list, messages) =
        IF taken[n].new = <<>> THEN taken[n].list ELSE Indexed(Inserted(taken[n].list.rows, taken[n].new))
  BY DEF Upserted
<1>. HIDE DEF taken
<1>4. taken[0] = [list |-> list, new |-> <<>>] /\ \A k \in 1 .. n : taken[k] = Take(taken[k - 1], given[k])
  <2>. HIDE DEF given
  <2>. QED
    BY <1>2, TakesAt
<1>. HIDE DEF given
<1>5. \E f : /\ f[0] = [list |-> list, new |-> <<>>]
             /\ \A k \in 1 .. n : f[k] = Take(f[k - 1], given[k])
             /\ Upserted(list, messages) =
                  IF f[n].new = <<>> THEN f[n].list ELSE Indexed(Inserted(f[n].list.rows, f[n].new))
  BY <1>3, <1>4
<1>. QED
  BY <1>5 DEF given

(* What a list holds once it is told of messages.                          *)
Told(own, R, messages) ==
  {r \in R : \A i \in DOMAIN messages : Of(own, r) # Of(own, messages[i])}
    \cup {messages[i] : i \in DOMAIN messages}

ToldPart(own, R, messages, n) ==
  {r \in R : \A i \in 1 .. n : Of(own, r) # Of(own, messages[i])}
    \cup {messages[i] : i \in {j \in 1 .. n : \E r \in R : Of(own, r) = Of(own, messages[j])}}

(* What upsertMessages has done after n of the messages: the rows there    *)
(* were are changed, the other messages wait.                              *)
TakenUp(own, R, messages, n, taken) ==
  /\ taken = [list |-> taken.list, new |-> taken.new]
  /\ Family(own, ToldPart(own, R, messages, n)) /\ Shown(taken.list, ToldPart(own, R, messages, n))
  /\ Proper(own, taken.new)
  /\ \A i \in DOMAIN taken.new : taken.new[i].chat = 1
  /\ \A x : (\E i \in DOMAIN taken.new : taken.new[i] = x)
              <=> \E i \in 1 .. n : x = messages[i] /\ \A r \in R : Of(own, r) # Of(own, messages[i])

(* One message more: its row changes, or it is a new one.                  *)
LEMMA TakesUp ==
  ASSUME NEW own, NEW R, Family(own, R), NEW messages, Proper(own, messages),
         \A i \in DOMAIN messages : messages[i].chat = 1,
         \A i \in DOMAIN messages, r \in R :
           Of(own, r) = Of(own, messages[i]) => Aliases(r) \cap Aliases(messages[i]) # {},
         NEW k \in Nat, k + 1 \in DOMAIN messages, NEW taken, TakenUp(own, R, messages, k, taken)
  PROVE  TakenUp(own, R, messages, k + 1, Take(taken, messages[k + 1]))
<1>. DEFINE m == messages[k + 1]
            list == taken.list
            now == ToldPart(own, R, messages, k)
            next == ToldPart(own, R, messages, k + 1)
            met(j) == \E r \in R : Of(own, r) = Of(own, messages[j])
<1>1. /\ messages \in Seq(Message) /\ k + 1 \in 1 .. Len(messages) /\ DOMAIN messages = 1 .. Len(messages)
      /\ 1 .. k + 1 = (1 .. k) \cup {k + 1} /\ 1 .. k \subseteq DOMAIN messages /\ k + 1 \notin 1 .. k
  BY DEF Proper
<1>2. m \in Message /\ Fit(own, m) /\ m.chat = 1
  BY <1>1 DEF Proper
<1>3. \A i \in 1 .. k : Of(own, messages[i]) # Of(own, m)
  BY <1>1 DEF Proper
<1>4. /\ taken = [list |-> list, new |-> taken.new] /\ Family(own, now) /\ Shown(list, now)
      /\ Proper(own, taken.new) /\ \A i \in DOMAIN taken.new : taken.new[i].chat = 1
      /\ \A x : (\E i \in DOMAIN taken.new : taken.new[i] = x)
                  <=> \E i \in 1 .. k : x = messages[i] /\ \A r \in R : Of(own, r) # Of(own, messages[i])
  BY DEF TakenUp
<1>5. Proper(own, list.rows)
  BY <1>4, RankedProper DEF Shown
<1>6. CASE met(k + 1)
  <2>1. PICK r \in R : Of(own, r) = Of(own, m)
    BY <1>6
  <2>2. r \in now
    BY <1>3, <2>1 DEF ToldPart
  <2>3. PICK i \in DOMAIN list.rows : list.rows[i] = r
    BY <1>4, <2>2 DEF Shown, Ranked
  <2>4. RowOf(list.at, m) = i
    <3>1. Aliases(list.rows[i]) \cap Aliases(m) # {}
      BY <1>1, <2>1, <2>3
    <3>. HIDE DEF m, list, now
    <3>. QED
      BY <1>2, <1>4, <1>5, <2>1, <2>3, <3>1, RowFound DEF Shown
  <2>5. i # 0
    BY <1>5, <2>3 DEF Proper
  <2>6. Take(taken, m) = [list |-> UpdateAt(list, i, m), new |-> taken.new]
    BY <2>4, <2>5 DEF Take
  <2>7. next = (now \ {r}) \cup {m}
    <3>1. ASSUME NEW x
          PROVE  x \in next <=> x \in (now \ {r}) \cup {m}
      <4>1. x = r => ~(x \in R /\ \A j \in 1 .. k + 1 : Of(own, x) # Of(own, messages[j]))
        BY <1>1, <2>1
      <4>2. x \in R /\ x # r => Of(own, x) # Of(own, m)
        BY <2>1 DEF Family
      <4>3. \A j \in 1 .. k : messages[j] # r
        BY <1>3, <2>1
      <4>4. x \in next <=> \/ x \in R /\ \A j \in 1 .. k + 1 : Of(own, x) # Of(own, messages[j])
                           \/ \E j \in 1 .. k + 1 : met(j) /\ x = messages[j]
        BY DEF ToldPart
      <4>5. x \in now <=> \/ x \in R /\ \A j \in 1 .. k : Of(own, x) # Of(own, messages[j])
                          \/ \E j \in 1 .. k : met(j) /\ x = messages[j]
        BY DEF ToldPart
      <4>6. (\A j \in 1 .. k + 1 : Of(own, x) # Of(own, messages[j]))
              <=> Of(own, x) # Of(own, m) /\ \A j \in 1 .. k : Of(own, x) # Of(own, messages[j])
        BY <1>1
      <4>7. (\E j \in 1 .. k + 1 : met(j) /\ x = messages[j])
              <=> x = m \/ \E j \in 1 .. k : met(j) /\ x = messages[j]
        BY <1>1, <1>6
      <4>. HIDE DEF m, now, next, met
      <4>. QED
        BY <2>1, <4>1, <4>2, <4>3, <4>4, <4>5, <4>6, <4>7
    <3>. HIDE DEF next, now
    <3>. QED
      BY <3>1
  <2>8. Family(own, next) /\ Shown(UpdateAt(list, i, m), next)
    <3>1. Of(own, m) = Of(own, list.rows[i]) /\ list.rows[i] = r
      BY <2>1, <2>3
    <3>. HIDE DEF m, now, next, list
    <3>2. /\ Family(own, (now \ {list.rows[i]}) \cup {m})
          /\ Shown(UpdateAt(list, i, m), (now \ {list.rows[i]}) \cup {m})
      BY <1>2, <1>4, <2>3, <3>1, UpdateShown
    <3>. QED
      BY <2>7, <3>1, <3>2
  <2>9. ASSUME NEW x
        PROVE  (\E j \in 1 .. k + 1 : x = messages[j] /\ \A s \in R : Of(own, s) # Of(own, messages[j]))
                 <=> \E j \in 1 .. k : x = messages[j] /\ \A s \in R : Of(own, s) # Of(own, messages[j])
    BY <1>1, <1>6
  <2>. HIDE DEF m, now, next, list, met
  <2>. QED
    BY <1>4, <2>6, <2>8, <2>9 DEF TakenUp, next, m
<1>7. CASE ~met(k + 1)
  <2>1. \A r \in now : Of(own, r) # Of(own, m)
    BY <1>3, <1>7 DEF ToldPart
  <2>2. \A i \in DOMAIN list.rows : Of(own, list.rows[i]) # Of(own, m)
    BY <1>4, <2>1 DEF Shown, Ranked
  <2>3. RowOf(list.at, m) = 0
    <3>. HIDE DEF m, list, now
    <3>. QED
      BY <1>2, <1>4, <1>5, <2>2, RowAbsent DEF Shown
  <2>4. Take(taken, m) = [list |-> list, new |-> Append(taken.new, m)]
    BY <2>3 DEF Take
  <2>5. next = now
    <3>1. \A r \in R : Of(own, r) # Of(own, m)
      BY <1>7
    <3>2. {r \in R : \A i \in 1 .. k + 1 : Of(own, r) # Of(own, messages[i])}
            = {r \in R : \A i \in 1 .. k : Of(own, r) # Of(own, messages[i])}
      BY <1>1, <3>1
    <3>3. {j \in 1 .. k + 1 : met(j)} = {j \in 1 .. k : met(j)}
      BY <1>1, <1>7
    <3>. QED
      BY <3>2, <3>3 DEF ToldPart
  <2>. DEFINE new == Append(taken.new, m)
              n == Len(taken.new)
  <2>6. /\ taken.new \in Seq(Message) /\ n \in Nat /\ DOMAIN taken.new = 1 .. n
        /\ new \in Seq(Message) /\ DOMAIN new = 1 .. n + 1 /\ new[n + 1] = m
        /\ \A i \in 1 .. n : new[i] = taken.new[i]
    <3>1. taken.new \in Seq(Message)
      BY <1>4 DEF Proper
    <3>. QED
      BY <1>2, <3>1
  <2>7. \A i \in 1 .. n : Of(own, taken.new[i]) # Of(own, m)
    <3>1. ASSUME NEW i \in 1 .. n
          PROVE  \E j \in 1 .. k : taken.new[i] = messages[j]
      BY <1>4, <2>6
    <3>. QED
      BY <1>3, <3>1
  <2>. HIDE DEF new, n, m
  <2>8. Proper(own, new)
    <3>1. ASSUME NEW i \in 1 .. n + 1
          PROVE  Fit(own, new[i])
      <4>1. i \in 1 .. n \/ i = n + 1
        BY <2>6
      <4>. QED
        BY <1>2, <1>4, <2>6, <4>1 DEF Proper
    <3>2. ASSUME NEW i \in 1 .. n + 1, NEW j \in 1 .. n + 1, i # j
          PROVE  Of(own, new[i]) # Of(own, new[j])
      <4>1. (i \in 1 .. n \/ i = n + 1) /\ (j \in 1 .. n \/ j = n + 1)
        BY <2>6
      <4>. QED
        BY <1>4, <2>6, <2>7, <3>2, <4>1 DEF Proper
    <3>. QED
      BY <2>6, <3>1, <3>2 DEF Proper
  <2>9. \A i \in 1 .. n + 1 : new[i].chat = 1
    <3>1. ASSUME NEW i \in 1 .. n + 1
          PROVE  new[i].chat = 1
      <4>1. i \in 1 .. n \/ i = n + 1
        BY <2>6
      <4>. QED
        BY <1>2, <1>4, <2>6, <4>1
    <3>. QED
      BY <3>1
  <2>10. ASSUME NEW x
         PROVE  (\E i \in 1 .. n + 1 : new[i] = x)
                  <=> \E j \in 1 .. k + 1 : x = messages[j] /\ \A s \in R : Of(own, s) # Of(own, messages[j])
    <3>1. (\E i \in 1 .. n + 1 : new[i] = x) <=> x = m \/ \E i \in 1 .. n : taken.new[i] = x
      <4>1. 1 .. n + 1 = (1 .. n) \cup {n + 1}
        BY <2>6
      <4>. QED
        BY <2>6, <4>1
    <3>2. (\E j \in 1 .. k + 1 : x = messages[j] /\ \A s \in R : Of(own, s) # Of(own, messages[j]))
            <=> x = m \/ \E j \in 1 .. k : x = messages[j] /\ \A s \in R : Of(own, s) # Of(own, messages[j])
      BY <1>1, <1>7 DEF m
    <3>3. (\E i \in 1 .. n : taken.new[i] = x)
            <=> \E j \in 1 .. k : x = messages[j] /\ \A s \in R : Of(own, s) # Of(own, messages[j])
      BY <1>4, <2>6
    <3>. QED
      BY <3>1, <3>2, <3>3
  <2>. HIDE DEF now, next, list, met
  <2>11. Take(taken, m).list = list /\ Take(taken, m).new = new
    BY <2>4 DEF new
  <2>12. Family(own, next) /\ Shown(list, next)
    BY <1>4, <2>5
  <2>13. Take(taken, m) = [list |-> Take(taken, m).list, new |-> Take(taken, m).new]
    BY <2>4, <2>11 DEF new
  <2>14. DOMAIN new = 1 .. n + 1
    BY <2>6
  <2>15. TakenUp(own, R, messages, k + 1, Take(taken, m))
    BY <2>8, <2>9, <2>10, <2>11, <2>12, <2>13, <2>14 DEF TakenUp, next
  <2>. QED
    BY <2>15 DEF m
<1>. QED
  BY <1>6, <1>7

(* upsertMessages replaces the rows of the messages it is given and adds   *)
(* the others.                                                             *)
LEMMA UpsertedShown ==
  ASSUME NEW own, NEW R, Family(own, R), NEW list, Shown(list, R),
         NEW messages, Proper(own, messages),
         \A i \in DOMAIN messages : messages[i].chat = 1,
         \A i \in DOMAIN messages, r \in R :
           Of(own, r) = Of(own, messages[i]) => Aliases(r) \cap Aliases(messages[i]) # {}
  PROVE  /\ Family(own, Told(own, R, messages))
         /\ Shown(Upserted(list, messages), Told(own, R, messages))
<1>. DEFINE n == Len(messages)
<1>1. messages \in Seq(Message) /\ n \in Nat /\ DOMAIN messages = 1 .. n
  BY DEF Proper
<1>2. Coalesced(messages) = messages
  BY CoalescedAgain
<1>3. PICK f : /\ f[0] = [list |-> list, new |-> <<>>]
               /\ \A k \in 1 .. n : f[k] = Take(f[k - 1], messages[k])
               /\ Upserted(list, messages) =
                    IF f[n].new = <<>> THEN f[n].list ELSE Indexed(Inserted(f[n].list.rows, f[n].new))
  <2>1. Len(Coalesced(messages)) \in Nat
    BY <1>1, <1>2
  <2>2. \E f : /\ f[0] = [list |-> list, new |-> <<>>]
               /\ \A k \in 1 .. Len(Coalesced(messages)) : f[k] = Take(f[k - 1], Coalesced(messages)[k])
               /\ Upserted(list, messages) =
                    IF f[Len(Coalesced(messages))].new = <<>> THEN f[Len(Coalesced(messages))].list
                    ELSE Indexed(Inserted(f[Len(Coalesced(messages))].list.rows, f[Len(Coalesced(messages))].new))
    BY ONLY <2>1, UpsertedIs
  <2>. QED
    BY ONLY <1>2, <2>2
<1>. DEFINE S == {k \in 0 .. n : TakenUp(own, R, messages, k, f[k])}
<1>4. 0 \in S
  <2>1. 0 \in 0 .. n /\ 1 .. 0 = {}
    BY <1>1
  <2>2. ToldPart(own, R, messages, 0) = R
    BY <2>1 DEF ToldPart
  <2>3. f[0].list = list /\ f[0].new = <<>> /\ f[0] = [list |-> f[0].list, new |-> f[0].new]
    BY <1>3
  <2>4. <<>> \in Seq(Message) /\ DOMAIN <<>> = {}
    OBVIOUS
  <2>5. Proper(own, f[0].new) /\ DOMAIN f[0].new = {}
    BY <2>3, <2>4 DEF Proper
  <2>6. TakenUp(own, R, messages, 0, f[0])
    BY <2>1, <2>2, <2>3, <2>5 DEF TakenUp
  <2>. QED
    BY <2>1, <2>6
<1>5. ASSUME NEW k \in 0 .. n - 1, k \in S
      PROVE  k + 1 \in S
  <2>1. k \in Nat /\ k + 1 \in 1 .. n /\ k + 1 \in 0 .. n /\ (k + 1) - 1 = k
    BY <1>1
  <2>2. TakenUp(own, R, messages, k, f[k])
    BY <1>5
  <2>3. TakenUp(own, R, messages, k + 1, Take(f[k], messages[k + 1]))
    BY <1>1, <2>1, <2>2, TakesUp
  <2>4. f[k + 1] = Take(f[k], messages[k + 1])
    BY <1>3, <2>1
  <2>. QED
    BY <2>1, <2>3, <2>4
<1>. HIDE DEF S
<1>6. 0 .. n \subseteq S
  BY <1>1, <1>4, <1>5, UpTo
<1>. DEFINE part == ToldPart(own, R, messages, n)
            end == f[n].list
            new == f[n].new
            all == Told(own, R, messages)
<1>7. /\ Family(own, part) /\ Shown(end, part) /\ Proper(own, new) /\ \A i \in DOMAIN new : new[i].chat = 1
      /\ \A x : (\E i \in DOMAIN new : new[i] = x)
                  <=> \E i \in 1 .. n : x = messages[i] /\ \A r \in R : Of(own, r) # Of(own, messages[i])
  <2>1. n \in 0 .. n
    BY <1>1
  <2>2. n \in S
    BY <1>6, <2>1
  <2>3. TakenUp(own, R, messages, n, f[n])
    <3>. HIDE DEF n
    <3>. QED
      BY <2>2 DEF S
  <2>. HIDE DEF n
  <2>. QED
    BY <2>3 DEF TakenUp
<1>8. new \in Seq(Message) /\ DOMAIN new = 1 .. Len(new)
  BY <1>7 DEF Proper
<1>9. all = part \cup Given(new, Len(new))
  <2>1. ASSUME NEW x
        PROVE  x \in all <=> x \in part \cup Given(new, Len(new))
    <3>1. x \in Given(new, Len(new)) <=> \E i \in DOMAIN new : new[i] = x
      BY <1>8 DEF Given
    <3>2. x \in part <=> \/ x \in R /\ \A j \in 1 .. n : Of(own, x) # Of(own, messages[j])
                         \/ \E j \in 1 .. n : (\E r \in R : Of(own, r) = Of(own, messages[j])) /\ x = messages[j]
      BY DEF ToldPart
    <3>3. x \in all <=> \/ x \in R /\ \A j \in 1 .. n : Of(own, x) # Of(own, messages[j])
                        \/ \E j \in 1 .. n : x = messages[j]
      BY <1>1 DEF Told
    <3>4. (\E i \in DOMAIN new : new[i] = x)
            <=> \E i \in 1 .. n : x = messages[i] /\ \A r \in R : Of(own, r) # Of(own, messages[i])
      BY <1>7
    <3>. HIDE DEF all, part, new, n
    <3>. QED
      BY <3>1, <3>2, <3>3, <3>4
  <2>. HIDE DEF all, part, new
  <2>. QED
    BY <2>1
<1>10. Family(own, all)
  <2>1. ASSUME NEW r \in all
        PROVE  r \in Message /\ r.chat = 1 /\ Fit(own, r)
    <3>1. CASE r \in R
      BY <3>1 DEF Family
    <3>2. CASE \E j \in 1 .. n : r = messages[j]
      BY <1>1, <3>2 DEF Proper
    <3>. QED
      BY <1>1, <3>1, <3>2 DEF Told
  <2>2. ASSUME NEW r \in all, NEW s \in all, Of(own, r) = Of(own, s)
        PROVE  r = s
    <3>1. \/ r \in R /\ \A j \in 1 .. n : Of(own, r) # Of(own, messages[j])
          \/ \E j \in 1 .. n : r = messages[j]
      BY <1>1 DEF Told
    <3>2. \/ s \in R /\ \A j \in 1 .. n : Of(own, s) # Of(own, messages[j])
          \/ \E j \in 1 .. n : s = messages[j]
      BY <1>1 DEF Told
    <3>3. \A i, j \in 1 .. n : Of(own, messages[i]) = Of(own, messages[j]) => i = j
      BY <1>1 DEF Proper
    <3>4. \A x, y \in R : Of(own, x) = Of(own, y) => x = y
      BY DEF Family
    <3>. HIDE DEF n
    <3>. QED
      BY ONLY <2>2, <3>1, <3>2, <3>3, <3>4
  <2>. HIDE DEF all
  <2>. QED
    BY <2>1, <2>2 DEF Family
<1>11. ASSUME NEW r \in part, NEW i \in DOMAIN new
       PROVE  Of(own, r) # Of(own, new[i])
  <2>1. PICK j \in 1 .. n : new[i] = messages[j] /\ \A s \in R : Of(own, s) # Of(own, messages[j])
    BY <1>7
  <2>2. CASE r \in R
    BY <2>1, <2>2
  <2>3. CASE \E l \in 1 .. n : r = messages[l] /\ \E s \in R : Of(own, s) = Of(own, messages[l])
    <3>1. PICK l \in 1 .. n : r = messages[l] /\ \E s \in R : Of(own, s) = Of(own, messages[l])
      BY <2>3
    <3>2. l # j
      BY <2>1, <3>1
    <3>. QED
      BY <1>1, <2>1, <3>1, <3>2 DEF Proper
  <2>. QED
    BY <2>2, <2>3 DEF ToldPart
<1>12. CASE new = <<>>
  <2>1. Given(new, Len(new)) = {}
    BY <1>12 DEF Given
  <2>2. Upserted(list, messages) = end
    BY <1>3, <1>12
  <2>. QED
    BY <1>7, <1>9, <1>10, <2>1, <2>2
<1>13. CASE new # <<>>
  <2>. DEFINE rows == Inserted(end.rows, new)
  <2>1. Upserted(list, messages) = Indexed(rows)
    BY <1>3, <1>13
  <2>2. Ranked(end.rows, part)
    BY <1>7 DEF Shown
  <2>3. Family(own, part \cup Given(new, Len(new)))
    BY <1>9, <1>10
  <2>. HIDE DEF all, part, end, new
  <2>4. Ranked(rows, part \cup Given(new, Len(new)))
    BY <1>7, <1>11, <2>2, <2>3, InsertedRanked
  <2>. HIDE DEF rows
  <2>5. Proper(own, rows)
    BY <2>3, <2>4, RankedProper
  <2>6. Indexed(rows).rows = rows /\ Exact(Indexed(rows))
    BY <2>5, IndexedExact
  <2>7. Shown(Indexed(rows), all)
    BY <1>9, <2>4, <2>6 DEF Shown
  <2>. QED
    BY <1>10, <2>1, <2>7 DEF all
<1>. QED
  BY <1>12, <1>13

-----------------------------------------------------------------------------
(* What happens to messages.                                               *)

(* Changes one after the other, of any messages, as far as their lives go. *)
IsHistory(turns) ==
  /\ turns \in Seq(DOMAIN Lives)
  /\ \A l \in DOMAIN Lives : Age(turns, l, Len(turns)) <= Len(Lives[l])

(* A history of the model is one, however long.                            *)
LEMMA HistoriesAre ==
  ASSUME NEW turns \in Histories
  PROVE  IsHistory(turns)
<1>1. PICK n \in 1 .. MaxTurns : turns \in [1 .. n -> DOMAIN Lives]
  BY DEF Histories
<1>2. MaxTurns \in Nat
  BY ListAssumption
<1>3. turns \in Seq(DOMAIN Lives)
  BY <1>1, <1>2
<1>4. \A l \in DOMAIN Lives : Age(turns, l, Len(turns)) <= Len(Lives[l])
  BY DEF Histories
<1>. QED
  BY <1>3, <1>4 DEF IsHistory

(* A message gets on by the changes that are its own.                      *)
LEMMA AgeNext ==
  ASSUME NEW turns, NEW l
  PROVE  /\ Age(turns, l, 0) = 0
         /\ \A n \in Nat : /\ Age(turns, l, n) \in Nat
                           /\ turns[n + 1] = l => Age(turns, l, n + 1) = Age(turns, l, n) + 1
                           /\ turns[n + 1] # l => Age(turns, l, n + 1) = Age(turns, l, n)
<1>. DEFINE S(n) == {i \in 1 .. n : turns[i] = l}
<1>1. Age(turns, l, 0) = 0
  <2>1. S(0) = {}
    OBVIOUS
  <2>. QED
    BY <2>1, FS_EmptySet DEF Age
<1>2. ASSUME NEW n \in Nat
      PROVE  /\ Age(turns, l, n) \in Nat
             /\ turns[n + 1] = l => Age(turns, l, n + 1) = Age(turns, l, n) + 1
             /\ turns[n + 1] # l => Age(turns, l, n + 1) = Age(turns, l, n)
  <2>1. IsFiniteSet(S(n))
    <3>1. IsFiniteSet(1 .. n) /\ S(n) \subseteq 1 .. n
      BY FS_Interval
    <3>. QED
      BY <3>1, FS_Subset
  <2>2. Cardinality(S(n)) \in Nat
    BY <2>1, FS_CardinalityType
  <2>3. ASSUME turns[n + 1] = l
        PROVE  S(n + 1) = S(n) \cup {n + 1}
    BY <2>3
  <2>4. ASSUME turns[n + 1] # l
        PROVE  S(n + 1) = S(n)
    <3>1. \A i \in 1 .. n + 1 : turns[i] = l => i \in 1 .. n
      BY <2>4
    <3>. QED
      BY <3>1
  <2>5. n + 1 \notin S(n)
    OBVIOUS
  <2>6. Age(turns, l, n) = Cardinality(S(n)) /\ Age(turns, l, n + 1) = Cardinality(S(n + 1))
    BY DEF Age
  <2>. HIDE DEF S
  <2>7. Cardinality(S(n) \cup {n + 1}) = Cardinality(S(n)) + 1
    BY <2>1, <2>5, FS_AddElement
  <2>. QED
    BY <2>2, <2>3, <2>4, <2>6, <2>7
<1>. QED
  BY <1>1, <1>2

(* A message does not grow younger.                                        *)
LEMMA AgeGrows ==
  ASSUME NEW turns, NEW l, NEW c \in Nat, NEW k \in Nat
  PROVE  Age(turns, l, c) <= Age(turns, l, c + k)
<1>. DEFINE S == {j \in 0 .. k : Age(turns, l, c) <= Age(turns, l, c + j)}
<1>1. 0 \in S
  <2>1. 0 \in 0 .. k /\ c + 0 = c
    OBVIOUS
  <2>2. Age(turns, l, c) \in Nat
    BY AgeNext
  <2>3. Age(turns, l, c) <= Age(turns, l, c + 0)
    BY <2>1, <2>2
  <2>. QED
    BY <2>1, <2>3
<1>2. ASSUME NEW j \in 0 .. k - 1, j \in S
      PROVE  j + 1 \in S
  <2>1. c + j \in Nat /\ (c + j) + 1 = c + (j + 1) /\ j + 1 \in 0 .. k /\ c \in Nat
    OBVIOUS
  <2>2. /\ Age(turns, l, c) \in Nat /\ Age(turns, l, c + j) \in Nat
        /\ \/ Age(turns, l, (c + j) + 1) = Age(turns, l, c + j) + 1
           \/ Age(turns, l, (c + j) + 1) = Age(turns, l, c + j)
    BY <2>1, AgeNext
  <2>3. Age(turns, l, c) <= Age(turns, l, c + j)
    BY <1>2
  <2>4. Age(turns, l, c) <= Age(turns, l, c + (j + 1))
    BY <2>1, <2>2, <2>3
  <2>. QED
    BY <2>1, <2>4
<1>. HIDE DEF S
<1>3. 0 .. k \subseteq S
  BY <1>1, <1>2, UpTo
<1>4. k \in S
  BY <1>3
<1>. QED
  BY <1>4 DEF S

(* So it never gets further than its life goes.                            *)
LEMMA AgeWithin ==
  ASSUME NEW turns, IsHistory(turns), NEW l \in DOMAIN Lives, NEW n \in 0 .. Len(turns)
  PROVE  Age(turns, l, n) \in 0 .. Len(Lives[l])
<1>1. Len(turns) \in Nat /\ n \in Nat /\ Len(turns) - n \in Nat /\ n + (Len(turns) - n) = Len(turns)
  BY DEF IsHistory
<1>2. Age(turns, l, n) <= Age(turns, l, n + (Len(turns) - n))
  BY <1>1, AgeGrows
<1>3. Age(turns, l, n) \in Nat /\ Age(turns, l, Len(turns)) \in Nat
  BY <1>1, AgeNext
<1>4. Age(turns, l, Len(turns)) <= Len(Lives[l])
  BY DEF IsHistory
<1>5. Len(Lives[l]) \in Nat
  <2>1. Lives[l] \in Seq(Message)
    BY ListAssumption DEF LivesAssumption
  <2>. QED
    BY <2>1
<1>. QED
  BY <1>1, <1>2, <1>3, <1>4, <1>5

(* The states from one to another, as one message.                         *)
Merged(l, b, e) ==
  WithTemp(Lives[l][e], IF \E k \in b .. e : Lives[l][k].temp # 0 THEN Lives[l][1].id ELSE 0)

(* What the assumption says of one state of a life.                        *)
LEMMA LifeIs ==
  ASSUME NEW l \in DOMAIN Lives, NEW k \in 1 .. Len(Lives[l])
  PROVE  /\ Lives[l][k] \in Message /\ Lives[l][k].id # 0
         /\ Lives[l][k].chat = Lives[l][1].chat /\ Lives[l][k].temp \in {0, Lives[l][1].id}
         /\ Lives[l][1] \in Message /\ 1 \in 1 .. Len(Lives[l]) /\ Lives[l][1].id # 0
         /\ k > 1 /\ Lives[l][k].id # Lives[l][k - 1].id => Lives[l][k].temp = Lives[l][k - 1].id
<1>1. Lives[l] \in Seq(Message) /\ Lived(Lives[l])
  BY ListAssumption DEF LivesAssumption
<1>2. DOMAIN Lives[l] = 1 .. Len(Lives[l]) /\ 1 \in 1 .. Len(Lives[l])
  BY <1>1
<1>. QED
  BY <1>1, <1>2 DEF Lived

(* A message is its fields.                                                *)
LEMMA MessageIs ==
  ASSUME NEW m \in Message
  PROVE  /\ m.chat \in Nat /\ m.id \in Nat /\ m.temp \in Nat /\ m.time \in Nat /\ m.state \in States
         /\ m = [chat |-> m.chat, id |-> m.id, temp |-> m.temp, time |-> m.time, state |-> m.state]
BY Zenon DEF Message

(* Only the temporary id is another.                                       *)
LEMMA WithTempIs ==
  ASSUME NEW m \in Message, NEW temp \in Nat
  PROVE  /\ WithTemp(m, temp) \in Message
         /\ WithTemp(m, temp).chat = m.chat /\ WithTemp(m, temp).id = m.id
         /\ WithTemp(m, temp).temp = temp /\ WithTemp(m, temp).time = m.time
         /\ WithTemp(m, temp).state = m.state
         /\ m.temp = temp => WithTemp(m, temp) = m
<1>1. WithTemp(m, temp) = [chat |-> m.chat, id |-> m.id, temp |-> temp, time |-> m.time, state |-> m.state]
  BY DEF WithTemp, Change
<1>2. WithTemp(m, temp) \in Message
  BY <1>1, MessageIs, Zenon DEF Message
<1>. QED
  BY <1>1, <1>2, MessageIs

(* The last of the states, with the temporary id any of them had.          *)
LEMMA MergedIs ==
  ASSUME NEW l \in DOMAIN Lives, NEW e \in 1 .. Len(Lives[l]), NEW b \in 1 .. e
  PROVE  /\ Merged(l, b, e) \in Message
         /\ Merged(l, b, e).chat = Lives[l][1].chat /\ Merged(l, b, e).id = Lives[l][e].id
         /\ Merged(l, b, e).time = Lives[l][e].time /\ Merged(l, b, e).state = Lives[l][e].state
         /\ (\E k \in b .. e : Lives[l][k].temp # 0) => Merged(l, b, e).temp = Lives[l][1].id
         /\ ~(\E k \in b .. e : Lives[l][k].temp # 0) => Merged(l, b, e).temp = 0
         /\ Merged(l, e, e) = Lives[l][e]
         /\ Merged(l, b, e).id # 0 /\ Aliases(Merged(l, b, e)) \subseteq Names(Lives[l])
<1>. DEFINE life == Lives[l]
            some(i) == \E k \in i .. e : life[k].temp # 0
            temp(i) == IF some(i) THEN life[1].id ELSE 0
<1>1. /\ life[e] \in Message /\ life[e].id # 0 /\ life[e].chat = life[1].chat
      /\ life[e].temp \in {0, life[1].id} /\ life[1] \in Message /\ life[1].id # 0
      /\ 1 \in 1 .. Len(life)
  BY LifeIs
<1>2. ASSUME NEW i
      PROVE  temp(i) \in Nat
  BY <1>1, MessageIs
<1>3. ASSUME NEW i
      PROVE  Merged(l, i, e) = WithTemp(life[e], temp(i))
  BY DEF Merged
<1>4. temp(e) = life[e].temp
  <2>1. e .. e = {e}
    OBVIOUS
  <2>. QED
    BY <1>1, <2>1
<1>5. (some(b) => temp(b) = life[1].id) /\ (~some(b) => temp(b) = 0)
  OBVIOUS
<1>6. /\ Merged(l, b, e) \in Message
      /\ Merged(l, b, e).chat = life[1].chat /\ Merged(l, b, e).id = life[e].id
      /\ Merged(l, b, e).time = life[e].time /\ Merged(l, b, e).state = life[e].state
      /\ Merged(l, b, e).temp = temp(b) /\ Merged(l, e, e) = life[e]
  <2>. DEFINE m == life[e]
              x == temp(b)
              y == temp(e)
  <2>1. m \in Message /\ x \in Nat /\ y \in Nat /\ m.temp = y /\ m.chat = life[1].chat
    BY <1>1, <1>2, <1>4
  <2>2. Merged(l, b, e) = WithTemp(m, x) /\ Merged(l, e, e) = WithTemp(m, y)
    BY <1>3
  <2>. HIDE DEF m, x, y
  <2>3. /\ WithTemp(m, x) \in Message
        /\ WithTemp(m, x).chat = m.chat /\ WithTemp(m, x).id = m.id
        /\ WithTemp(m, x).temp = x /\ WithTemp(m, x).time = m.time
        /\ WithTemp(m, x).state = m.state
    BY ONLY <2>1, WithTempIs
  <2>4. WithTemp(m, y) = m
    BY ONLY <2>1, WithTempIs
  <2>5. /\ Merged(l, b, e) \in Message
        /\ Merged(l, b, e).chat = life[1].chat /\ Merged(l, b, e).id = m.id
        /\ Merged(l, b, e).time = m.time /\ Merged(l, b, e).state = m.state
        /\ Merged(l, b, e).temp = x /\ Merged(l, e, e) = m
    BY ONLY <2>1, <2>2, <2>3, <2>4
  <2>. QED
    BY <2>5 DEF m, x
<1>7. Aliases(Merged(l, b, e)) \subseteq Names(life)
  <2>1. ASSUME NEW a \in Aliases(Merged(l, b, e))
        PROVE  a \in Names(life)
    <3>1. 1 \in DOMAIN life /\ e \in DOMAIN life
      <4>1. life \in Seq(Message)
        BY ListAssumption DEF LivesAssumption
      <4>. QED
        BY <1>1, <4>1
    <3>2. <<life[1].chat, life[1].id>> \in Aliases(life[1]) /\ <<life[e].chat, life[e].id>> \in Aliases(life[e])
      BY <1>1, AliasesOf
    <3>3. \/ a = <<life[1].chat, life[e].id>>
          \/ Merged(l, b, e).temp # 0 /\ a = <<life[1].chat, Merged(l, b, e).temp>>
      BY <1>6, AliasesOf
    <3>4. Merged(l, b, e).temp # 0 => Merged(l, b, e).temp = life[1].id
      BY <1>5, <1>6
    <3>. HIDE DEF life
    <3>. QED
      BY <1>1, <3>1, <3>2, <3>3, <3>4 DEF Names
  <2>. QED
    BY <2>1
<1>. HIDE DEF temp, life
<1>. QED
  BY <1>1, <1>5, <1>6, <1>7 DEF life, some

(* One more state.                                                         *)
LEMMA MergedNext ==
  ASSUME NEW l \in DOMAIN Lives, NEW e \in 1 .. Len(Lives[l]) - 1, NEW b \in 1 .. e
  PROVE  /\ Lives[l][e + 1].temp # 0 => Merged(l, b, e + 1) = Lives[l][e + 1]
         /\ Lives[l][e + 1].temp = 0 => Merged(l, b, e + 1) = WithTemp(Lives[l][e + 1], Merged(l, b, e).temp)
<1>. DEFINE life == Lives[l]
            m == life[e + 1]
<1>1. e \in 1 .. Len(life) /\ e + 1 \in 1 .. Len(life) /\ b .. e + 1 = (b .. e) \cup {e + 1}
  <2>1. Len(life) \in Nat
    <3>1. Lives[l] \in Seq(Message)
      BY ListAssumption DEF LivesAssumption
    <3>. QED
      BY <3>1
  <2>. QED
    BY <2>1
<1>2. m \in Message /\ m.temp \in {0, life[1].id} /\ life[1] \in Message /\ life[1].id \in Nat
  BY <1>1, LifeIs, MessageIs
<1>3. /\ (\E k \in b .. e : life[k].temp # 0) => Merged(l, b, e).temp = life[1].id
      /\ ~(\E k \in b .. e : life[k].temp # 0) => Merged(l, b, e).temp = 0
  BY <1>1, MergedIs
<1>4. CASE m.temp # 0
  <2>1. Merged(l, b, e + 1) = WithTemp(m, life[1].id)
    BY <1>1, <1>4 DEF Merged
  <2>2. m.temp = life[1].id
    BY <1>2, <1>4
  <2>. QED
    BY <1>2, <1>4, <2>1, <2>2, WithTempIs
<1>5. CASE m.temp = 0
  <2>1. (\E k \in b .. e + 1 : life[k].temp # 0) <=> \E k \in b .. e : life[k].temp # 0
    BY <1>1, <1>5
  <2>2. Merged(l, b, e + 1) = WithTemp(m, IF \E k \in b .. e + 1 : life[k].temp # 0 THEN life[1].id ELSE 0)
    BY DEF Merged
  <2>3. (IF \E k \in b .. e + 1 : life[k].temp # 0 THEN life[1].id ELSE 0) = Merged(l, b, e).temp
    BY <1>3, <2>1
  <2>. QED
    BY <1>5, <2>2, <2>3
<1>. QED
  BY <1>4, <1>5

(* Whoever was told of a state finds the message by a later one.           *)
LEMMA Follows ==
  ASSUME NEW l \in DOMAIN Lives, NEW e \in 1 .. Len(Lives[l]), NEW f \in e .. Len(Lives[l])
  PROVE  Lives[l][f].id = Lives[l][e].id
           \/ \E k \in e + 1 .. f : Lives[l][k].temp # 0 /\ Lives[l][1].id = Lives[l][e].id
<1>. DEFINE life == Lives[l]
            follows(k) == life[k].id = life[e].id
                            \/ \E j \in e + 1 .. k : life[j].temp # 0 /\ life[1].id = life[e].id
            S == {k \in 0 .. f - e : follows(e + k)}
<1>1. e \in Nat /\ f \in Nat /\ f - e \in Nat /\ e + (f - e) = f /\ e >= 1
  OBVIOUS
<1>2. 0 \in S
  <2>1. 0 \in 0 .. f - e /\ e + 0 = e
    BY <1>1
  <2>. QED
    BY <2>1
<1>3. ASSUME NEW k \in 0 .. (f - e) - 1, k \in S
      PROVE  k + 1 \in S
  <2>. DEFINE n == e + k
  <2>1. /\ n \in Nat /\ n >= e /\ n + 1 \in 1 .. Len(life) /\ n + 1 > 1 /\ e + (k + 1) = n + 1
        /\ (n + 1) - 1 = n /\ n + 1 \in e + 1 .. n + 1 /\ k + 1 \in 0 .. f - e
        /\ \A j \in e + 1 .. n : j \in e + 1 .. n + 1
    BY <1>1
  <2>2. follows(n)
    BY <1>3
  <2>3. /\ life[n + 1].temp \in {0, life[1].id}
        /\ life[n + 1].id # life[n].id => life[n + 1].temp = life[n].id
    BY <2>1, LifeIs
  <2>4. life[n].id # 0 /\ life[1].id # 0
    <3>1. n \in 1 .. Len(life)
      BY <1>1
    <3>. QED
      BY <3>1, LifeIs
  <2>. HIDE DEF n, life
  <2>5. follows(n + 1)
    <3>1. CASE \E j \in e + 1 .. n : life[j].temp # 0 /\ life[1].id = life[e].id
      BY <2>1, <3>1
    <3>2. CASE life[n].id = life[e].id
      <4>1. CASE life[n + 1].id = life[n].id
        BY <3>2, <4>1
      <4>2. CASE life[n + 1].id # life[n].id
        <5>1. life[n + 1].temp # 0 /\ life[1].id = life[e].id
          BY <2>3, <2>4, <3>2, <4>2
        <5>. QED
          BY <2>1, <5>1
      <4>. QED
        BY <4>1, <4>2
    <3>. QED
      BY <2>2, <3>1, <3>2
  <2>. QED
    BY <2>1, <2>5 DEF n, life
<1>. HIDE DEF S
<1>4. 0 .. f - e \subseteq S
  BY <1>1, <1>2, <1>3, UpTo
<1>5. f - e \in S
  BY <1>1, <1>4
<1>6. follows(e + (f - e))
  BY <1>5 DEF S
<1>. QED
  BY <1>1, <1>6

(* A row and a later part of the same life that begins no later than after *)
(* it have an id in common.                                                *)
LEMMA Meet ==
  ASSUME NEW l \in DOMAIN Lives, NEW e \in 1 .. Len(Lives[l]), NEW b \in 1 .. e,
         NEW f \in e .. Len(Lives[l]), NEW c \in 1 .. f, c <= e + 1
  PROVE  Aliases(Merged(l, b, e)) \cap Aliases(Merged(l, c, f)) # {}
<1>. DEFINE life == Lives[l]
            m == Merged(l, b, e)
            n == Merged(l, c, f)
<1>1. f \in 1 .. Len(life)
  OBVIOUS
<1>2. m.chat = life[1].chat /\ m.id = life[e].id /\ m.id # 0
  BY MergedIs
<1>3. /\ n.chat = life[1].chat /\ n.id = life[f].id /\ n.id # 0
      /\ (\E k \in c .. f : life[k].temp # 0) => n.temp = life[1].id
  BY <1>1, MergedIs
<1>4. life[1].id # 0
  BY LifeIs
<1>5. <<m.chat, m.id>> \in Aliases(m)
  BY <1>2, AliasesOf
<1>6. CASE life[f].id = life[e].id
  <2>1. <<n.chat, n.id>> \in Aliases(n)
    BY <1>3, AliasesOf
  <2>. HIDE DEF m, n
  <2>2. <<n.chat, n.id>> = <<m.chat, m.id>>
    BY <1>2, <1>3, <1>6
  <2>. QED
    BY <1>5, <2>1, <2>2 DEF m, n
<1>7. CASE \E k \in e + 1 .. f : life[k].temp # 0 /\ life[1].id = life[e].id
  <2>1. PICK k \in e + 1 .. f : life[k].temp # 0 /\ life[1].id = life[e].id
    BY <1>7
  <2>2. k \in c .. f
    OBVIOUS
  <2>3. n.temp = life[1].id
    BY <1>3, <2>1, <2>2
  <2>4. <<n.chat, n.temp>> \in Aliases(n)
    BY <1>4, <2>3, AliasesOf
  <2>. HIDE DEF m, n, life
  <2>5. <<n.chat, n.temp>> = <<m.chat, m.id>>
    BY <1>2, <1>3, <2>1, <2>3
  <2>. QED
    BY <1>5, <2>4, <2>5 DEF m, n
<1>. QED
  BY <1>6, <1>7, Follows

-----------------------------------------------------------------------------
(* A batch of changes: one message each, in its last state, with the       *)
(* temporary id it had at any time of the batch.                           *)

OwnsLives(own) == \A l \in DOMAIN Lives : \A a \in Names(Lives[l]) : own[a] = l

(* It is its message's own.                                                *)
LEMMA MergedOwned ==
  ASSUME NEW own, OwnsLives(own),
         NEW l \in DOMAIN Lives, NEW e \in 1 .. Len(Lives[l]), NEW b \in 1 .. e
  PROVE  Fit(own, Merged(l, b, e)) /\ Of(own, Merged(l, b, e)) = l
<1>. DEFINE m == Merged(l, b, e)
<1>1. m.id # 0 /\ Aliases(m) \subseteq Names(Lives[l])
  BY MergedIs
<1>2. \A a \in Aliases(m) : own[a] = l
  BY <1>1 DEF OwnsLives
<1>3. <<m.chat, m.id>> \in Aliases(m)
  BY <1>1, AliasesOf
<1>. HIDE DEF m
<1>4. Of(own, m) = l
  BY <1>2, <1>3 DEF Of
<1>5. Fit(own, m)
  BY <1>1, <1>2, <1>4 DEF Fit
<1>. QED
  BY <1>4, <1>5 DEF m

(* What a batch of the changes after c up to k has of a message.           *)
Batched(turns, c, k, l, x) ==
  /\ Age(turns, l, c) < Age(turns, l, k)
  /\ x = Merged(l, Age(turns, l, c) + 1, Age(turns, l, k))

InBatch(own, turns, c, k, list) ==
  /\ Exact(list) /\ Proper(own, list.rows)
  /\ \A x : (\E i \in DOMAIN list.rows : list.rows[i] = x)
              <=> \E l \in DOMAIN Lives : Batched(turns, c, k, l, x)

(* What a batch has of a message.                                          *)
LEMMA BatchedIs ==
  ASSUME NEW own, OwnsLives(own), NEW turns, IsHistory(turns),
         NEW k \in 0 .. Len(turns), NEW c \in 0 .. k,
         NEW l \in DOMAIN Lives, NEW x, Batched(turns, c, k, l, x)
  PROVE  /\ Age(turns, l, k) \in 1 .. Len(Lives[l]) /\ Age(turns, l, c) + 1 \in 1 .. Age(turns, l, k)
         /\ x \in Message /\ x.chat = Lives[l][1].chat /\ Fit(own, x) /\ Of(own, x) = l
<1>1. Len(turns) \in Nat /\ c \in 0 .. Len(turns)
  BY DEF IsHistory
<1>2. Age(turns, l, k) \in 0 .. Len(Lives[l]) /\ Age(turns, l, c) \in 0 .. Len(Lives[l])
  BY <1>1, AgeWithin
<1>3. Age(turns, l, c) < Age(turns, l, k) /\ x = Merged(l, Age(turns, l, c) + 1, Age(turns, l, k))
  BY DEF Batched
<1>. DEFINE e == Age(turns, l, k)
            b == Age(turns, l, c) + 1
<1>4. e \in 1 .. Len(Lives[l]) /\ b \in 1 .. e /\ x = Merged(l, b, e)
  BY <1>2, <1>3
<1>. HIDE DEF b, e
<1>5. x \in Message /\ x.chat = Lives[l][1].chat
  BY <1>4, MergedIs
<1>6. Fit(own, x) /\ Of(own, x) = l
  BY <1>4, MergedOwned
<1>. QED
  BY <1>4, <1>5, <1>6 DEF b, e

(* One change more.                                                        *)
LEMMA BatchNext ==
  ASSUME NEW own, OwnsLives(own), NEW turns, IsHistory(turns),
         NEW k \in 0 .. Len(turns) - 1, NEW c \in 0 .. k,
         NEW list, InBatch(own, turns, c, k, list)
  PROVE  InBatch(own, turns, c, k + 1, Merge(list, Changes(turns)[k + 1]))
<1>. DEFINE l == turns[k + 1]
            m == Changes(turns)[k + 1]
            first == Age(turns, l, c) + 1
            e == Age(turns, l, k)
<1>1. /\ Len(turns) \in Nat /\ k \in Nat /\ k + 1 \in 1 .. Len(turns) /\ DOMAIN turns = 1 .. Len(turns)
      /\ k \in 0 .. Len(turns) /\ c \in Nat /\ c \in 0 .. k + 1 /\ k + 1 \in 0 .. Len(turns)
      /\ c \in 0 .. Len(turns)
  BY DEF IsHistory
<1>2. l \in DOMAIN Lives
  BY <1>1 DEF IsHistory
<1>3. Age(turns, l, k + 1) = e + 1 /\ e \in Nat
  BY <1>1, AgeNext
<1>4. \A other : other # l => Age(turns, other, k + 1) = Age(turns, other, k)
  BY <1>1, AgeNext
<1>5. e + 1 \in 1 .. Len(Lives[l])
  <2>1. Age(turns, l, k + 1) \in 0 .. Len(Lives[l])
    BY <1>1, <1>2, AgeWithin
  <2>. HIDE DEF l
  <2>. QED
    BY <1>3, <2>1
<1>6. m = Lives[l][e + 1]
  <2>1. m = Lives[l][Age(turns, l, k + 1)]
    BY <1>1 DEF Changes
  <2>. QED
    BY <1>3, <2>1
<1>7. first \in 1 .. e + 1 /\ first - 1 = Age(turns, l, c)
  <2>1. k - c \in Nat /\ c + (k - c) = k
    BY <1>1
  <2>2. Age(turns, l, c) <= Age(turns, l, c + (k - c)) /\ Age(turns, l, c) \in Nat
    BY <1>1, <2>1, AgeGrows, AgeNext
  <2>. HIDE DEF l
  <2>. QED
    BY <1>3, <2>1, <2>2
<1>8. m = Merged(l, e + 1, e + 1) /\ m \in Message /\ m.temp \in Nat
  <2>1. e + 1 \in 1 .. e + 1
    BY <1>3
  <2>2. Merged(l, e + 1, e + 1) = Lives[l][e + 1] /\ Merged(l, e + 1, e + 1) \in Message
    BY <1>2, <1>5, <2>1, MergedIs
  <2>. QED
    BY <1>6, <2>2, MessageIs
<1>9. Fit(own, m) /\ Of(own, m) = l
  <2>1. e + 1 \in 1 .. e + 1
    BY <1>3
  <2>. HIDE DEF m, l, e
  <2>. QED
    BY <1>2, <1>5, <1>8, <2>1, MergedOwned
<1>10. /\ Exact(list) /\ Proper(own, list.rows)
       /\ \A x : (\E i \in DOMAIN list.rows : list.rows[i] = x)
                   <=> \E o \in DOMAIN Lives : Batched(turns, c, k, o, x)
  BY DEF InBatch
<1>. DEFINE new == Merged(l, first, e + 1)
<1>11. ASSUME NEW x
       PROVE  (\E o \in DOMAIN Lives : Batched(turns, c, k + 1, o, x))
                <=> x = new \/ \E o \in DOMAIN Lives : o # l /\ Batched(turns, c, k, o, x)
  <2>1. Batched(turns, c, k + 1, l, x) <=> x = new
    BY <1>3, <1>7 DEF Batched
  <2>2. \A o : o # l => (Batched(turns, c, k + 1, o, x) <=> Batched(turns, c, k, o, x))
    BY <1>4 DEF Batched
  <2>. HIDE DEF l, new
  <2>. QED
    BY <1>2, <2>1, <2>2
<1>12. CASE Age(turns, l, c) < e
  <2>. DEFINE old == Merged(l, first, e)
  <2>1. first \in 1 .. e /\ e \in 1 .. Len(Lives[l]) /\ e \in 1 .. Len(Lives[l]) - 1
    <3>1. Len(Lives[l]) \in Nat
      <4>1. Lives[l] \in Seq(Message)
        BY <1>2, ListAssumption DEF LivesAssumption
      <4>. QED
        BY <4>1
    <3>. HIDE DEF l, e
    <3>. QED
      BY <1>3, <1>5, <1>7, <1>12, <3>1
  <2>2. Batched(turns, c, k, l, old)
    BY <1>12 DEF Batched
  <2>3. PICK i \in DOMAIN list.rows : list.rows[i] = old
    BY <1>2, <1>10, <2>2
  <2>4. Of(own, old) = l
    BY <1>2, <2>1, MergedOwned
  <2>5. RowOf(list.at, m) = i
    <3>1. Aliases(old) \cap Aliases(m) # {}
      <4>1. e + 1 \in e .. Len(Lives[l]) /\ e + 1 \in 1 .. e + 1 /\ e + 1 <= e + 1
        BY <1>3, <1>5
      <4>2. Aliases(old) \cap Aliases(Merged(l, e + 1, e + 1)) # {}
        BY <1>2, <2>1, <4>1, Meet
      <4>. QED
        BY <1>8, <4>2
    <3>. HIDE DEF old, m, l
    <3>. QED
      BY <1>9, <1>10, <2>3, <2>4, <3>1, RowFound
  <2>6. i # 0
    BY <1>10, <2>3 DEF Proper
  <2>7. Merge(list, m) = Changed(list, i, new)
    <3>1. /\ Lives[l][e + 1].temp # 0 => new = Lives[l][e + 1]
          /\ Lives[l][e + 1].temp = 0 => new = WithTemp(Lives[l][e + 1], old.temp)
      BY <1>2, <2>1, MergedNext
    <3>2. m.temp # 0 => new = m
      BY <1>6, <3>1
    <3>3. m.temp = 0 => new = WithTemp(m, list.rows[i].temp)
      BY <1>6, <2>3, <3>1
    <3>. HIDE DEF m, new
    <3>. QED
      BY <2>5, <2>6, <3>2, <3>3 DEF Merge
  <2>8. new \in Message /\ Fit(own, new) /\ Of(own, new) = l
    <3>1. first \in 1 .. e + 1 /\ e + 1 \in 1 .. Len(Lives[l])
      BY <1>5, <1>7
    <3>. QED
      BY <1>2, <3>1, MergedIs, MergedOwned
  <2>. HIDE DEF l, new, old, m, e, first
  <2>9. /\ Changed(list, i, new).rows = [list.rows EXCEPT ![i] = new]
        /\ Proper(own, [list.rows EXCEPT ![i] = new]) /\ Exact(Changed(list, i, new))
    <3>1. Of(own, list.rows[i]) = Of(own, new)
      BY <2>3, <2>4, <2>8
    <3>. QED
      BY <1>10, <2>8, <3>1, ChangedExact
  <2>10. DOMAIN [list.rows EXCEPT ![i] = new] = DOMAIN list.rows
    OBVIOUS
  <2>11. ASSUME NEW x
         PROVE  (\E j \in DOMAIN list.rows : [list.rows EXCEPT ![i] = new][j] = x)
                  <=> x = new \/ \E o \in DOMAIN Lives : o # l /\ Batched(turns, c, k, o, x)
    <3>1. (\E j \in DOMAIN list.rows : [list.rows EXCEPT ![i] = new][j] = x)
            <=> x = new \/ \E j \in DOMAIN list.rows : j # i /\ list.rows[j] = x
      BY <2>3
    <3>2. ASSUME NEW o \in DOMAIN Lives, Batched(turns, c, k, o, x)
          PROVE  Of(own, x) = o
      BY <1>1, <3>2, BatchedIs
    <3>3. ASSUME NEW j \in DOMAIN list.rows, j # i, list.rows[j] = x
          PROVE  \E o \in DOMAIN Lives : o # l /\ Batched(turns, c, k, o, x)
      <4>1. PICK o \in DOMAIN Lives : Batched(turns, c, k, o, x)
        BY <1>10, <3>3
      <4>2. Of(own, x) # l
        BY <1>10, <2>3, <2>4, <3>3 DEF Proper
      <4>. QED
        BY <3>2, <4>1, <4>2
    <3>4. ASSUME NEW o \in DOMAIN Lives, o # l, Batched(turns, c, k, o, x)
          PROVE  \E j \in DOMAIN list.rows : j # i /\ list.rows[j] = x
      <4>1. PICK j \in DOMAIN list.rows : list.rows[j] = x
        BY <1>10, <3>4
      <4>2. j # i
        BY <2>3, <2>4, <3>2, <3>4, <4>1
      <4>. QED
        BY <4>1, <4>2
    <3>. QED
      BY <3>1, <3>3, <3>4
  <2>. QED
    BY <1>11, <2>7, <2>9, <2>10, <2>11 DEF InBatch, m
<1>13. CASE ~(Age(turns, l, c) < e)
  <2>1. Age(turns, l, c) = e /\ first = e + 1
    <3>1. first - 1 = Age(turns, l, c) /\ Age(turns, l, c) \in Nat
      BY <1>1, <1>7, AgeNext
    <3>. HIDE DEF l, e
    <3>. QED
      BY <1>3, <1>7, <1>13, <3>1
  <2>2. new = m
    BY <1>8, <2>1
  <2>3. ASSUME NEW x
        PROVE  (\E o \in DOMAIN Lives : Batched(turns, c, k, o, x))
                 <=> \E o \in DOMAIN Lives : o # l /\ Batched(turns, c, k, o, x)
    BY <1>13 DEF Batched
  <2>. HIDE DEF l, new, m, e, first
  <2>4. \A i \in DOMAIN list.rows : Of(own, list.rows[i]) # l
    <3>1. ASSUME NEW i \in DOMAIN list.rows
          PROVE  Of(own, list.rows[i]) # l
      <4>1. PICK o \in DOMAIN Lives : o # l /\ Batched(turns, c, k, o, list.rows[i])
        BY <1>10, <2>3
      <4>2. Of(own, list.rows[i]) = o
        BY <1>1, <4>1, BatchedIs
      <4>. QED
        BY <4>1, <4>2
    <3>. QED
      BY <3>1
  <2>5. Merge(list, m) = Added(list, m)
    <3>1. RowOf(list.at, m) = 0
      BY <1>9, <1>10, <2>4, RowAbsent
    <3>. QED
      BY <3>1 DEF Merge
  <2>6. /\ Added(list, m).rows = Append(list.rows, m)
        /\ Proper(own, Append(list.rows, m)) /\ Exact(Added(list, m))
    BY <1>8, <1>9, <1>10, <2>4, AddedExact
  <2>7. ASSUME NEW x
        PROVE  (\E j \in DOMAIN Append(list.rows, m) : Append(list.rows, m)[j] = x)
                 <=> x = m \/ \E j \in DOMAIN list.rows : list.rows[j] = x
    <3>. DEFINE rows == list.rows
                n == Len(rows)
    <3>1. rows \in Seq(Message) /\ n \in Nat /\ DOMAIN rows = 1 .. n
      BY <1>10 DEF Proper
    <3>2. /\ DOMAIN Append(rows, m) = (1 .. n) \cup {n + 1} /\ Append(rows, m)[n + 1] = m
          /\ \A j \in 1 .. n : Append(rows, m)[j] = rows[j]
      BY <1>8, <3>1
    <3>. HIDE DEF rows, n
    <3>. QED
      BY <3>1, <3>2 DEF rows
  <2>. QED
    BY <1>10, <1>11, <2>2, <2>3, <2>5, <2>6, <2>7 DEF InBatch, m
<1>. QED
  BY <1>12, <1>13

(* A batch is a part of the changes.                                       *)
LEMMA WindowIs ==
  ASSUME NEW turns, IsHistory(turns), NEW n \in 0 .. Len(turns), NEW c \in 0 .. n
  PROVE  /\ Len(SubSeq(Changes(turns), c + 1, n)) = n - c
         /\ \A k \in 1 .. n - c : SubSeq(Changes(turns), c + 1, n)[k] = Changes(turns)[c + k]
<1>. DEFINE s == Changes(turns)
<1>1. Len(turns) \in Nat /\ DOMAIN turns = 1 .. Len(turns)
  BY DEF IsHistory
<1>2. DOMAIN s = 1 .. Len(turns) /\ s = [k \in 1 .. Len(turns) |-> s[k]]
  BY <1>1 DEF Changes
<1>. HIDE DEF s
<1>3. s \in Seq({s[k] : k \in 1 .. Len(turns)})
  BY <1>1, <1>2
<1>4. Len(s) = Len(turns)
  BY <1>1, <1>2, <1>3
<1>5. Len(SubSeq(s, c + 1, n)) = n - c /\ \A k \in 1 .. n - c : SubSeq(s, c + 1, n)[k] = s[c + k]
  BY <1>1, <1>3, <1>4
<1>. QED
  BY <1>5 DEF s

(* _coalesce_message_upserts of the changes from one to another.           *)
LEMMA BatchIs ==
  ASSUME NEW own, OwnsLives(own), NEW turns, IsHistory(turns),
         NEW n \in 0 .. Len(turns), NEW c \in 0 .. n
  PROVE  LET messages == Coalesced(SubSeq(Changes(turns), c + 1, n))
         IN /\ Proper(own, messages)
            /\ \A x : (\E i \in DOMAIN messages : messages[i] = x)
                        <=> \E l \in DOMAIN Lives : Batched(turns, c, n, l, x)
<1>. DEFINE batch == SubSeq(Changes(turns), c + 1, n)
            k == n - c
<1>1. Len(turns) \in Nat /\ c \in Nat /\ k \in Nat /\ c + k = n /\ n \in Nat
  BY DEF IsHistory
<1>2. Len(batch) = k /\ \A j \in 1 .. k : batch[j] = Changes(turns)[c + j]
  BY WindowIs
<1>. HIDE DEF batch, k
<1>3. PICK f : /\ f[0] = NoRows /\ \A j \in 1 .. k : f[j] = Merge(f[j - 1], batch[j])
               /\ Coalesced(batch) = f[k].rows
  <2>1. Len(batch) \in Nat
    BY <1>1, <1>2
  <2>2. \E f : /\ f[0] = NoRows
               /\ \A j \in 1 .. Len(batch) : f[j] = Merge(f[j - 1], batch[j])
               /\ Coalesced(batch) = f[Len(batch)].rows
    BY ONLY <2>1, CoalescedIs
  <2>. QED
    BY ONLY <1>2, <2>2
<1>. DEFINE S == {j \in 0 .. k : InBatch(own, turns, c, c + j, f[j])}
<1>4. 0 \in S
  <2>1. Exact(f[0]) /\ f[0].rows = <<>>
    BY <1>3, NoRowsExact
  <2>2. <<>> \in Seq(Message) /\ DOMAIN <<>> = {}
    OBVIOUS
  <2>3. Proper(own, f[0].rows) /\ DOMAIN f[0].rows = {}
    BY <2>1, <2>2 DEF Proper
  <2>4. \A l, x : ~Batched(turns, c, c, l, x)
    <3>1. \A l : Age(turns, l, c) \in Nat
      BY <1>1, AgeNext
    <3>. QED
      BY <3>1 DEF Batched
  <2>5. InBatch(own, turns, c, c, f[0])
    BY <2>1, <2>3, <2>4 DEF InBatch
  <2>6. c + 0 = c /\ 0 \in 0 .. k
    BY <1>1
  <2>. QED
    BY <2>5, <2>6
<1>5. ASSUME NEW j \in 0 .. k - 1, j \in S
      PROVE  j + 1 \in S
  <2>1. /\ c + j \in 0 .. Len(turns) - 1 /\ c \in 0 .. c + j /\ (c + j) + 1 = c + (j + 1)
        /\ j + 1 \in 1 .. k /\ j + 1 \in 0 .. k /\ (j + 1) - 1 = j
    BY <1>1
  <2>2. InBatch(own, turns, c, c + j, f[j])
    BY <1>5
  <2>3. InBatch(own, turns, c, (c + j) + 1, Merge(f[j], Changes(turns)[(c + j) + 1]))
    BY <2>1, <2>2, BatchNext
  <2>4. f[j + 1] = Merge(f[j], Changes(turns)[c + (j + 1)])
    BY <1>2, <1>3, <2>1
  <2>5. InBatch(own, turns, c, c + (j + 1), f[j + 1])
    BY <2>1, <2>3, <2>4
  <2>. QED
    BY <2>1, <2>5
<1>. HIDE DEF S
<1>6. 0 .. k \subseteq S
  BY <1>1, <1>4, <1>5, UpTo
<1>7. k \in S
  BY <1>1, <1>6
<1>8. InBatch(own, turns, c, n, f[k])
  BY <1>1, <1>7 DEF S
<1>9. /\ Proper(own, Coalesced(batch))
      /\ \A x : (\E i \in DOMAIN Coalesced(batch) : Coalesced(batch)[i] = x)
                  <=> \E l \in DOMAIN Lives : Batched(turns, c, n, l, x)
  BY <1>3, <1>8 DEF InBatch
<1>. QED
  BY <1>9 DEF batch

(* A row more, of another message.                                         *)
LEMMA AppendProper ==
  ASSUME NEW own, NEW rows, Proper(own, rows), NEW m \in Message, Fit(own, m),
         \A i \in DOMAIN rows : Of(own, rows[i]) # Of(own, m)
  PROVE  /\ Proper(own, Append(rows, m))
         /\ \A x : (\E i \in DOMAIN Append(rows, m) : Append(rows, m)[i] = x)
                     <=> x = m \/ \E i \in DOMAIN rows : rows[i] = x
<1>. DEFINE n == Len(rows)
            new == Append(rows, m)
<1>1. rows \in Seq(Message) /\ n \in Nat /\ DOMAIN rows = 1 .. n
  BY DEF Proper
<1>2. /\ new \in Seq(Message) /\ DOMAIN new = (1 .. n) \cup {n + 1} /\ new[n + 1] = m
      /\ \A i \in 1 .. n : new[i] = rows[i]
  BY <1>1
<1>3. n + 1 \notin 1 .. n
  BY <1>1
<1>. HIDE DEF new, n
<1>4. \A i \in DOMAIN new : Fit(own, new[i])
  BY <1>1, <1>2 DEF Proper
<1>5. ASSUME NEW i \in DOMAIN new, NEW j \in DOMAIN new, i # j
      PROVE  Of(own, new[i]) # Of(own, new[j])
  BY <1>1, <1>2, <1>5 DEF Proper
<1>6. Proper(own, new)
  BY <1>2, <1>4, <1>5 DEF Proper
<1>7. \A x : (\E i \in DOMAIN new : new[i] = x) <=> x = m \/ \E i \in DOMAIN rows : rows[i] = x
  BY <1>1, <1>2
<1>. QED
  BY <1>6, <1>7 DEF new

Picked(ours, m) == IF m.chat = 1 THEN Append(ours, m) ELSE ours

(* The equation of Ours, on the first n messages.                          *)
Picks(f, messages, n) ==
  f = [k \in 0 .. n |-> IF k = 0 THEN <<>> ELSE Picked(f[k - 1], messages[k])]

(* What the equation says.                                                 *)
LEMMA PicksAt ==
  ASSUME NEW messages, NEW n \in Nat, NEW f, Picks(f, messages, n)
  PROVE  f[0] = <<>> /\ \A k \in 1 .. n : f[k] = Picked(f[k - 1], messages[k])
<1>. DEFINE first == <<>>
            e(k) == IF k = 0 THEN first ELSE Picked(f[k - 1], messages[k])
<1>1. f = [k \in 0 .. n |-> e(k)]
  BY DEF Picks
<1>. HIDE DEF e
<1>2. \A k \in 0 .. n : f[k] = e(k)
  BY <1>1
<1>3. f[0] = e(0) /\ \A k \in 1 .. n : k # 0 /\ f[k] = e(k)
  BY <1>2
<1>. HIDE DEF first
<1>4. f[0] = first /\ \A k \in 1 .. n : f[k] = Picked(f[k - 1], messages[k])
  BY <1>3 DEF e
<1>. QED
  BY <1>4 DEF first

(* The equation has a solution.                                            *)
LEMMA PicksExist ==
  ASSUME NEW messages, NEW n \in Nat
  PROVE  \E f : Picks(f, messages, n)
<1>. DEFINE S == {m \in 0 .. n : \E f : Picks(f, messages, m)}
<1>1. 0 \in S
  <2>. DEFINE f == [k \in 0 .. 0 |-> <<>>]
  <2>1. f = [k \in 0 .. 0 |-> IF k = 0 THEN <<>> ELSE Picked(f[k - 1], messages[k])]
    OBVIOUS
  <2>2. Picks(f, messages, 0)
    BY <2>1 DEF Picks
  <2>. QED
    BY <2>2
<1>2. ASSUME NEW m \in 0 .. n - 1, m \in S
      PROVE  m + 1 \in S
  <2>1. PICK g : Picks(g, messages, m)
    BY <1>2
  <2>2. g[0] = <<>> /\ \A k \in 1 .. m : g[k] = Picked(g[k - 1], messages[k])
    <3>1. m \in Nat
      OBVIOUS
    <3>. QED
      BY <2>1, <3>1, PicksAt
  <2>. DEFINE h == [k \in 0 .. m + 1 |-> IF k <= m THEN g[k] ELSE Picked(g[m], messages[m + 1])]
              e(k) == IF k = 0 THEN <<>> ELSE Picked(h[k - 1], messages[k])
  <2>3. /\ \A k \in 0 .. m : h[k] = g[k]
        /\ h[m + 1] = Picked(g[m], messages[m + 1])
        /\ m \in Nat
    OBVIOUS
  <2>7. h = [k \in 0 .. m + 1 |-> h[k]]
    OBVIOUS
  <2>. HIDE DEF h
  <2>4. ASSUME NEW k \in 0 .. m + 1
        PROVE  h[k] = e(k)
    <3>1. CASE k = 0
      BY <2>2, <2>3, <3>1
    <3>2. CASE k \in 1 .. m
      <4>1. h[k] = g[k] /\ h[k - 1] = g[k - 1] /\ k # 0
        BY <2>3, <3>2
      <4>. QED
        BY <2>2, <3>2, <4>1
    <3>3. CASE k = m + 1
      <4>1. h[k - 1] = g[m] /\ k # 0
        BY <2>3, <3>3
      <4>. QED
        BY <2>3, <3>3, <4>1
    <3>. QED
      BY <3>1, <3>2, <3>3
  <2>5. h = [k \in 0 .. m + 1 |-> e(k)]
    <3>. HIDE DEF e
    <3>. QED
      BY <2>4, <2>7
  <2>6. Picks(h, messages, m + 1)
    BY <2>5 DEF Picks
  <2>. QED
    BY <2>6
<1>. HIDE DEF S
<1>3. 0 .. n \subseteq S
  BY <1>1, <1>2, UpTo
<1>. QED
  BY <1>3 DEF S

(* The page takes the messages of its chat.                                *)
LEMMA OursAre ==
  ASSUME NEW own, NEW messages, Proper(own, messages)
  PROVE  /\ Proper(own, Ours(messages))
         /\ \A x : (\E i \in DOMAIN Ours(messages) : Ours(messages)[i] = x)
                     <=> x.chat = 1 /\ \E i \in DOMAIN messages : messages[i] = x
<1>. DEFINE n == Len(messages)
            f == CHOOSE g : g = [k \in 0 .. n |-> IF k = 0 THEN <<>> ELSE Picked(g[k - 1], messages[k])]
            S == {k \in 0 .. n : /\ Proper(own, f[k])
                                /\ \A x : (\E i \in DOMAIN f[k] : f[k][i] = x)
                                            <=> x.chat = 1 /\ \E i \in 1 .. k : messages[i] = x}
<1>1. messages \in Seq(Message) /\ n \in Nat /\ DOMAIN messages = 1 .. n
  BY DEF Proper
<1>2. Picks(f, messages, n)
  <2>1. \E g : Picks(g, messages, n)
    BY <1>1, PicksExist
  <2>. QED
    BY <2>1 DEF Picks
<1>3. Ours(messages) = f[n]
  BY DEF Ours, Picked
<1>. HIDE DEF f
<1>4. /\ f[0] = <<>>
      /\ \A k \in 1 .. n : f[k] = IF messages[k].chat = 1 THEN Append(f[k - 1], messages[k]) ELSE f[k - 1]
  BY <1>1, <1>2, PicksAt DEF Picked
<1>5. 0 \in S
  <2>1. <<>> \in Seq(Message) /\ DOMAIN <<>> = {} /\ 1 .. 0 = {} /\ 0 \in 0 .. n
    BY <1>1
  <2>2. Proper(own, f[0]) /\ DOMAIN f[0] = {}
    BY <1>4, <2>1 DEF Proper
  <2>. QED
    BY <2>1, <2>2
<1>6. ASSUME NEW k \in 0 .. n - 1, k \in S
      PROVE  k + 1 \in S
  <2>. DEFINE m == messages[k + 1]
              rows == f[k]
  <2>1. /\ k + 1 \in 1 .. n /\ k + 1 \in 0 .. n /\ (k + 1) - 1 = k /\ 1 .. k + 1 = (1 .. k) \cup {k + 1}
        /\ 1 .. k \subseteq 1 .. n /\ k + 1 \notin 1 .. k
    BY <1>1
  <2>2. /\ Proper(own, rows)
        /\ \A x : (\E i \in DOMAIN rows : rows[i] = x) <=> x.chat = 1 /\ \E i \in 1 .. k : messages[i] = x
    BY <1>6
  <2>3. m \in Message /\ Fit(own, m)
    BY <1>1, <2>1 DEF Proper
  <2>4. CASE m.chat = 1
    <3>1. f[k + 1] = Append(rows, m)
      BY <1>4, <2>1, <2>4
    <3>2. \A i \in DOMAIN rows : Of(own, rows[i]) # Of(own, m)
      <4>1. ASSUME NEW i \in DOMAIN rows
            PROVE  \E j \in 1 .. k : rows[i] = messages[j]
        BY <2>2
      <4>2. \A j \in 1 .. k : Of(own, messages[j]) # Of(own, m)
        BY <1>1, <2>1 DEF Proper
      <4>. HIDE DEF rows, m
      <4>. QED
        BY <4>1, <4>2
    <3>. HIDE DEF rows
    <3>3. /\ Proper(own, Append(rows, m))
          /\ \A x : (\E i \in DOMAIN Append(rows, m) : Append(rows, m)[i] = x)
                      <=> x = m \/ \E i \in DOMAIN rows : rows[i] = x
      <4>1. Proper(own, rows)
        BY <2>2
      <4>. HIDE DEF m
      <4>. QED
        BY ONLY <2>3, <3>2, <4>1, AppendProper
    <3>4. ASSUME NEW x
          PROVE  (\E i \in DOMAIN Append(rows, m) : Append(rows, m)[i] = x)
                   <=> x.chat = 1 /\ \E i \in 1 .. k + 1 : messages[i] = x
      BY <2>1, <2>2, <2>4, <3>3
    <3>. QED
      BY <2>1, <3>1, <3>3, <3>4
  <2>5. CASE m.chat # 1
    <3>1. f[k + 1] = rows
      BY <1>4, <2>1, <2>5
    <3>2. ASSUME NEW x
          PROVE  (\E i \in DOMAIN rows : rows[i] = x)
                   <=> x.chat = 1 /\ \E i \in 1 .. k + 1 : messages[i] = x
      BY <2>1, <2>2, <2>5
    <3>. HIDE DEF rows
    <3>. QED
      BY <2>1, <2>2, <3>1, <3>2
  <2>. QED
    BY <2>4, <2>5
<1>. HIDE DEF S
<1>7. 0 .. n \subseteq S
  BY <1>1, <1>5, <1>6, UpTo
<1>8. n \in S
  BY <1>1, <1>7
<1>9. /\ Proper(own, f[n])
      /\ \A x : (\E i \in DOMAIN f[n] : f[n][i] = x)
                  <=> x.chat = 1 /\ \E i \in 1 .. n : messages[i] = x
  BY <1>8 DEF S
<1>. QED
  BY <1>1, <1>3, <1>9

-----------------------------------------------------------------------------
(* The list of a page that is told of the changes.                         *)

OwnsPage(own, page) == \A i \in DOMAIN page : \A a \in Aliases(page[i]) : own[a] = Len(Lives) + i

Owns(own, page) == OwnsLives(own) /\ OwnsPage(own, page)

(* Lives and pages have no id in common, so each alias is some message's   *)
(* own.                                                                    *)
LEMMA OwnersExist ==
  ASSUME NEW page \in Pages
  PROVE  \E own : Owns(own, page)
<1>. DEFINE A == UNION {Names(Lives[l]) : l \in DOMAIN Lives}
            B == UNION {Aliases(page[i]) : i \in DOMAIN page}
            ofLife(a) == CHOOSE l \in DOMAIN Lives : a \in Names(Lives[l])
            ofPage(a) == CHOOSE i \in DOMAIN page : a \in Aliases(page[i])
            own == [a \in A \cup B |-> IF a \in A THEN ofLife(a) ELSE Len(Lives) + ofPage(a)]
<1>1. Loaded(page) /\ LivesAssumption
  BY ListAssumption DEF PagesAssumption
<1>2. ASSUME NEW l \in DOMAIN Lives, NEW a \in Names(Lives[l])
      PROVE  own[a] = l
  <2>1. a \in A
    OBVIOUS
  <2>2. ofLife(a) = l
    <3>1. \A o \in DOMAIN Lives : a \in Names(Lives[o]) => o = l
      BY <1>1 DEF LivesAssumption
    <3>. QED
      BY <3>1
  <2>. HIDE DEF A, ofLife
  <2>. QED
    BY <2>1, <2>2
<1>3. ASSUME NEW i \in DOMAIN page, NEW a \in Aliases(page[i])
      PROVE  own[a] = Len(Lives) + i
  <2>1. a \in B
    OBVIOUS
  <2>2. a \notin A
    BY <1>1 DEF Loaded
  <2>3. ofPage(a) = i
    <3>1. \A j \in DOMAIN page : a \in Aliases(page[j]) => j = i
      BY <1>1 DEF Loaded
    <3>. QED
      BY <3>1
  <2>. HIDE DEF A, B, ofPage
  <2>. QED
    BY <2>1, <2>2, <2>3
<1>. HIDE DEF own
<1>4. Owns(own, page)
  BY <1>2, <1>3 DEF Owns, OwnsLives, OwnsPage
<1>. QED
  BY <1>4

(* What is loaded are different messages of chat 1.                        *)
LEMMA PageIs ==
  ASSUME NEW page \in Pages, NEW own, Owns(own, page)
  PROVE  /\ Proper(own, page) /\ page \in Seq(Message) /\ Len(page) \in Nat /\ DOMAIN page = 1 .. Len(page)
         /\ \A i \in DOMAIN page : /\ page[i] \in Message /\ page[i].chat = 1 /\ Fit(own, page[i])
                                   /\ Of(own, page[i]) = Len(Lives) + i
<1>1. page \in Seq(Message) /\ Loaded(page)
  BY ListAssumption DEF PagesAssumption
<1>2. ASSUME NEW i \in DOMAIN page
      PROVE  Fit(own, page[i]) /\ Of(own, page[i]) = Len(Lives) + i
  <2>1. page[i].id # 0
    BY <1>1 DEF Loaded
  <2>2. <<page[i].chat, page[i].id>> \in Aliases(page[i])
    BY <2>1, AliasesOf
  <2>3. \A a \in Aliases(page[i]) : own[a] = Len(Lives) + i
    BY DEF Owns, OwnsPage
  <2>. QED
    BY <2>1, <2>2, <2>3 DEF Fit, Of
<1>3. Len(Lives) \in Nat
  BY ListAssumption DEF LivesAssumption
<1>4. ASSUME NEW i \in DOMAIN page, NEW j \in DOMAIN page, i # j
      PROVE  Of(own, page[i]) # Of(own, page[j])
  BY <1>1, <1>2, <1>3, <1>4
<1>5. \A i \in DOMAIN page : page[i].chat = 1
  BY <1>1 DEF Loaded
<1>. QED
  BY <1>1, <1>2, <1>4, <1>5 DEF Proper

HereAt(turns, n) == {l \in DOMAIN Lives : Age(turns, l, n) > 0 /\ Lives[l][1].chat = 1}

Begun(turns, n, b) == \A l \in HereAt(turns, n) : b[l] \in 1 .. Age(turns, l, n)

Listed(page, turns, n, b) ==
  Given(page, Len(page)) \cup {Merged(l, b[l], Age(turns, l, n)) : l \in HereAt(turns, n)}

(* The page shows the last state of each message; it may have its temporary*)
(* id or not, by the batch it came with.                                   *)
ShowsAt(page, turns, n, list) ==
  \E b : Begun(turns, n, b) /\ Shown(list, Listed(page, turns, n, b))

(* The messages the page lists are different ones of chat 1.               *)
LEMMA ListedIs ==
  ASSUME NEW page \in Pages, NEW own, Owns(own, page), NEW turns, IsHistory(turns),
         NEW n \in 0 .. Len(turns), NEW b, Begun(turns, n, b)
  PROVE  /\ \A l \in HereAt(turns, n) :
              /\ l \in DOMAIN Lives /\ Age(turns, l, n) \in 1 .. Len(Lives[l]) /\ b[l] \in 1 .. Age(turns, l, n)
              /\ Merged(l, b[l], Age(turns, l, n)) \in Message
              /\ Merged(l, b[l], Age(turns, l, n)).chat = 1
              /\ Fit(own, Merged(l, b[l], Age(turns, l, n)))
              /\ Of(own, Merged(l, b[l], Age(turns, l, n))) = l
         /\ \A l \in DOMAIN Lives, i \in DOMAIN page : Of(own, page[i]) # l
         /\ Family(own, Listed(page, turns, n, b))
<1>1. ASSUME NEW l \in HereAt(turns, n)
      PROVE  /\ l \in DOMAIN Lives /\ Age(turns, l, n) \in 1 .. Len(Lives[l]) /\ b[l] \in 1 .. Age(turns, l, n)
             /\ Merged(l, b[l], Age(turns, l, n)) \in Message
             /\ Merged(l, b[l], Age(turns, l, n)).chat = 1
             /\ Fit(own, Merged(l, b[l], Age(turns, l, n)))
             /\ Of(own, Merged(l, b[l], Age(turns, l, n))) = l
  <2>1. l \in DOMAIN Lives /\ Age(turns, l, n) > 0 /\ Lives[l][1].chat = 1
    BY DEF HereAt
  <2>2. Age(turns, l, n) \in 0 .. Len(Lives[l])
    BY <2>1, AgeWithin
  <2>3. Age(turns, l, n) \in 1 .. Len(Lives[l]) /\ b[l] \in 1 .. Age(turns, l, n)
    BY <2>1, <2>2 DEF Begun
  <2>. DEFINE e == Age(turns, l, n)
              f == b[l]
  <2>. HIDE DEF e, f
  <2>4. e \in 1 .. Len(Lives[l]) /\ f \in 1 .. e
    BY <2>3 DEF e, f
  <2>5. Merged(l, f, e) \in Message /\ Merged(l, f, e).chat = 1
    BY <2>1, <2>4, MergedIs
  <2>6. Fit(own, Merged(l, f, e)) /\ Of(own, Merged(l, f, e)) = l
    <3>1. OwnsLives(own)
      BY DEF Owns
    <3>. QED
      BY <2>1, <2>4, <3>1, MergedOwned
  <2>. QED
    BY <2>1, <2>3, <2>5, <2>6 DEF e, f
<1>2. /\ \A i \in DOMAIN page : /\ page[i] \in Message /\ page[i].chat = 1 /\ Fit(own, page[i])
                               /\ Of(own, page[i]) = Len(Lives) + i
      /\ DOMAIN page = 1 .. Len(page) /\ Len(page) \in Nat
  BY PageIs
<1>3. Len(Lives) \in Nat /\ DOMAIN Lives = 1 .. Len(Lives)
  BY ListAssumption DEF LivesAssumption
<1>4. \A l \in DOMAIN Lives, i \in DOMAIN page : Of(own, page[i]) # l
  BY <1>2, <1>3
<1>5. ASSUME NEW r \in Listed(page, turns, n, b)
      PROVE  \/ \E i \in DOMAIN page : r = page[i]
             \/ \E l \in HereAt(turns, n) : r = Merged(l, b[l], Age(turns, l, n))
  BY <1>2 DEF Listed, Given
<1>6. Family(own, Listed(page, turns, n, b))
  <2>1. ASSUME NEW r \in Listed(page, turns, n, b)
        PROVE  r \in Message /\ r.chat = 1 /\ Fit(own, r)
    BY <1>1, <1>2, <1>5
  <2>2. ASSUME NEW r \in Listed(page, turns, n, b), NEW s \in Listed(page, turns, n, b),
               Of(own, r) = Of(own, s)
        PROVE  r = s
    <3>1. CASE (\E i \in DOMAIN page : r = page[i]) /\ \E i \in DOMAIN page : s = page[i]
      BY <1>2, <1>3, <2>2, <3>1
    <3>2. CASE (\E l \in HereAt(turns, n) : r = Merged(l, b[l], Age(turns, l, n)))
                 /\ \E l \in HereAt(turns, n) : s = Merged(l, b[l], Age(turns, l, n))
      BY <1>1, <2>2, <3>2
    <3>3. CASE (\E i \in DOMAIN page : r = page[i])
                 /\ \E l \in HereAt(turns, n) : s = Merged(l, b[l], Age(turns, l, n))
      BY <1>1, <1>4, <2>2, <3>3
    <3>4. CASE (\E i \in DOMAIN page : s = page[i])
                 /\ \E l \in HereAt(turns, n) : r = Merged(l, b[l], Age(turns, l, n))
      BY <1>1, <1>4, <2>2, <3>4
    <3>. QED
      BY <1>5, <3>1, <3>2, <3>3, <3>4
  <2>. QED
    BY <2>1, <2>2 DEF Family
<1>. QED
  BY <1>1, <1>4, <1>6

(* A batch, however long, keeps the list up to date.                       *)
LEMMA EmittedShows ==
  ASSUME NEW page \in Pages, NEW own, Owns(own, page), NEW turns, IsHistory(turns),
         NEW n \in 0 .. Len(turns), NEW c \in 0 .. n, NEW list, ShowsAt(page, turns, c, list)
  PROVE  ShowsAt(page, turns, n, Emitted(list, SubSeq(Changes(turns), c + 1, n)))
<1>. DEFINE batch == Coalesced(SubSeq(Changes(turns), c + 1, n))
            messages == Ours(batch)
<1>1. OwnsLives(own) /\ Len(turns) \in Nat /\ c \in 0 .. Len(turns)
  BY DEF Owns, IsHistory
<1>2. /\ Proper(own, batch)
      /\ \A x : (\E i \in DOMAIN batch : batch[i] = x) <=> \E l \in DOMAIN Lives : Batched(turns, c, n, l, x)
  BY <1>1, BatchIs
<1>. HIDE DEF batch
<1>3. /\ Proper(own, messages)
      /\ \A x : (\E i \in DOMAIN messages : messages[i] = x)
                  <=> x.chat = 1 /\ \E i \in DOMAIN batch : batch[i] = x
  <2>1. Proper(own, batch)
    BY <1>2
  <2>2. \A some : Proper(own, some) =>
          /\ Proper(own, Ours(some))
          /\ \A x : (\E i \in DOMAIN Ours(some) : Ours(some)[i] = x)
                      <=> x.chat = 1 /\ \E i \in DOMAIN some : some[i] = x
    BY ONLY OursAre
  <2>. HIDE DEF messages
  <2>3. messages = Ours(batch)
    BY DEF messages
  <2>. QED
    BY <2>1, <2>2, <2>3
<1>. HIDE DEF messages
<1>4. \A x : (\E i \in DOMAIN messages : messages[i] = x)
               <=> x.chat = 1 /\ \E l \in DOMAIN Lives : Batched(turns, c, n, l, x)
  BY <1>2, <1>3
<1>5. PICK b : Begun(turns, c, b) /\ Shown(list, Listed(page, turns, c, b))
  BY DEF ShowsAt
<1>. DEFINE R == Listed(page, turns, c, b)
            e(l) == Age(turns, l, c)
            f(l) == Age(turns, l, n)
            now(l) == Merged(l, b[l], e(l))
            next == [l \in DOMAIN Lives |-> IF e(l) < f(l) THEN e(l) + 1 ELSE b[l]]
            then(l) == Merged(l, next[l], f(l))
<1>6. /\ \A l \in HereAt(turns, c) :
           /\ l \in DOMAIN Lives /\ e(l) \in 1 .. Len(Lives[l]) /\ b[l] \in 1 .. e(l)
           /\ now(l) \in Message /\ now(l).chat = 1 /\ Fit(own, now(l)) /\ Of(own, now(l)) = l
      /\ \A l \in DOMAIN Lives, i \in DOMAIN page : Of(own, page[i]) # l
      /\ Family(own, R)
  BY <1>1, <1>5, ListedIs
<1>7. ASSUME NEW x
      PROVE  x \in R <=> (\E i \in DOMAIN page : x = page[i]) \/ \E l \in HereAt(turns, c) : x = now(l)
  <2>1. DOMAIN page = 1 .. Len(page)
    BY PageIs
  <2>. QED
    BY <2>1 DEF Listed, Given
<1>8. ASSUME NEW l \in DOMAIN Lives
      PROVE  e(l) \in Nat /\ f(l) \in 0 .. Len(Lives[l]) /\ e(l) <= f(l)
  <2>1. n \in Nat /\ c \in Nat /\ n - c \in Nat /\ c + (n - c) = n
    BY <1>1
  <2>2. Age(turns, l, c) <= Age(turns, l, c + (n - c)) /\ Age(turns, l, c) \in Nat
    BY <2>1, AgeGrows, AgeNext
  <2>3. f(l) \in 0 .. Len(Lives[l])
    BY AgeWithin
  <2>. QED
    BY <2>1, <2>2, <2>3
<1>9. ASSUME NEW l \in DOMAIN Lives, NEW x, Batched(turns, c, n, l, x)
      PROVE  /\ f(l) \in 1 .. Len(Lives[l]) /\ e(l) + 1 \in 1 .. f(l) /\ e(l) < f(l)
             /\ x = Merged(l, e(l) + 1, f(l)) /\ x.chat = Lives[l][1].chat /\ Of(own, x) = l
  BY <1>1, <1>9, BatchedIs DEF Batched
<1>. HIDE DEF e, f, R
<1>10. \A i \in DOMAIN messages : messages[i].chat = 1
  BY <1>4
<1>11. ASSUME NEW i \in DOMAIN messages, NEW r \in R, Of(own, r) = Of(own, messages[i])
       PROVE  Aliases(r) \cap Aliases(messages[i]) # {}
  <2>1. PICK l \in DOMAIN Lives : Batched(turns, c, n, l, messages[i])
    BY <1>4
  <2>2. /\ f(l) \in 1 .. Len(Lives[l]) /\ e(l) + 1 \in 1 .. f(l) /\ e(l) < f(l)
        /\ messages[i] = Merged(l, e(l) + 1, f(l)) /\ Of(own, messages[i]) = l
    BY <1>9, <2>1
  <2>3. PICK o \in HereAt(turns, c) : r = now(o)
    BY <1>6, <1>7, <1>11, <2>2
  <2>4. o = l
    BY <1>6, <1>11, <2>2, <2>3
  <2>5. e(l) \in 1 .. Len(Lives[l]) /\ b[l] \in 1 .. e(l) /\ r = Merged(l, b[l], e(l))
    BY <1>6, <2>3, <2>4
  <2>6. f(l) \in e(l) .. Len(Lives[l]) /\ e(l) + 1 <= e(l) + 1
    BY <2>2, <2>5
  <2>. QED
    BY <2>2, <2>5, <2>6, Meet
<1>12. /\ Family(own, Told(own, R, messages))
       /\ Shown(Upserted(list, messages), Told(own, R, messages))
  <2>1. Shown(list, R) /\ Family(own, R)
    BY <1>5, <1>6 DEF R
  <2>. QED
    BY <1>3, <1>10, <1>11, <2>1, UpsertedShown
<1>13. Begun(turns, n, next)
  <2>1. ASSUME NEW l \in HereAt(turns, n)
        PROVE  next[l] \in 1 .. f(l)
    <3>1. l \in DOMAIN Lives /\ f(l) > 0 /\ Lives[l][1].chat = 1
      BY DEF HereAt, f
    <3>2. e(l) \in Nat /\ f(l) \in Nat /\ e(l) <= f(l)
      BY <1>8, <3>1
    <3>3. CASE e(l) < f(l)
      BY <3>1, <3>2, <3>3
    <3>4. CASE ~(e(l) < f(l))
      <4>1. e(l) = f(l)
        BY <3>2, <3>4
      <4>2. l \in HereAt(turns, c)
        BY <3>1, <4>1 DEF HereAt, e
      <4>3. b[l] \in 1 .. e(l)
        BY <1>6, <4>2
      <4>. QED
        BY <3>1, <3>4, <4>1, <4>3
    <3>. QED
      BY <3>3, <3>4
  <2>. HIDE DEF next
  <2>. QED
    BY <2>1 DEF Begun, f
<1>14. Told(own, R, messages) = Listed(page, turns, n, next)
  <2>1. DOMAIN page = 1 .. Len(page)
    BY PageIs
  <2>2. ASSUME NEW x
        PROVE  x \in Listed(page, turns, n, next)
                 <=> (\E i \in DOMAIN page : x = page[i]) \/ \E l \in HereAt(turns, n) : x = then(l)
    <3>. HIDE DEF next
    <3>. QED
      BY <2>1 DEF Listed, Given, f
  <2>3. ASSUME NEW x
        PROVE  x \in Told(own, R, messages)
                 <=> \/ x \in R /\ \A i \in DOMAIN messages : Of(own, x) # Of(own, messages[i])
                     \/ \E i \in DOMAIN messages : messages[i] = x
    BY DEF Told
  <2>4. ASSUME NEW l \in HereAt(turns, n), e(l) < f(l)
        PROVE  \E i \in DOMAIN messages : messages[i] = then(l) /\ Of(own, messages[i]) = l
    <3>1. l \in DOMAIN Lives /\ Lives[l][1].chat = 1
      BY DEF HereAt
    <3>2. next[l] = e(l) + 1
      BY <2>4, <3>1
    <3>3. Batched(turns, c, n, l, then(l))
      BY <2>4, <3>2 DEF Batched, e, f
    <3>4. then(l).chat = 1 /\ Of(own, then(l)) = l
      BY <1>9, <3>1, <3>3
    <3>. HIDE DEF then
    <3>. QED
      BY <1>4, <3>1, <3>3, <3>4
  <2>5. ASSUME NEW i \in DOMAIN messages
        PROVE  \E l \in HereAt(turns, n) : e(l) < f(l) /\ messages[i] = then(l) /\ Of(own, messages[i]) = l
    <3>1. PICK l \in DOMAIN Lives : Batched(turns, c, n, l, messages[i])
      BY <1>4
    <3>2. /\ f(l) \in 1 .. Len(Lives[l]) /\ e(l) < f(l) /\ Of(own, messages[i]) = l
          /\ messages[i] = Merged(l, e(l) + 1, f(l)) /\ messages[i].chat = Lives[l][1].chat
      BY <1>9, <3>1
    <3>3. l \in HereAt(turns, n)
      <4>1. f(l) > 0 /\ Lives[l][1].chat = 1
        BY <1>10, <3>2
      <4>. QED
        BY <4>1 DEF HereAt, f
    <3>4. next[l] = e(l) + 1
      BY <3>2
    <3>. QED
      BY <3>2, <3>3, <3>4
  <2>6. ASSUME NEW l \in HereAt(turns, n), ~(e(l) < f(l))
        PROVE  l \in HereAt(turns, c) /\ then(l) = now(l)
    <3>1. l \in DOMAIN Lives /\ f(l) > 0 /\ Lives[l][1].chat = 1
      BY DEF HereAt, f
    <3>2. e(l) = f(l)
      BY <1>8, <2>6, <3>1
    <3>3. l \in HereAt(turns, c)
      BY <3>1, <3>2 DEF HereAt, e
    <3>4. next[l] = b[l]
      BY <2>6, <3>1
    <3>. QED
      BY <3>2, <3>3, <3>4
  <2>7. ASSUME NEW l \in HereAt(turns, c)
        PROVE  l \in HereAt(turns, n)
    <3>1. l \in DOMAIN Lives /\ e(l) > 0 /\ Lives[l][1].chat = 1
      BY DEF HereAt, e
    <3>2. f(l) > 0
      BY <1>8, <3>1
    <3>. QED
      BY <3>1, <3>2 DEF HereAt, f
  <2>. HIDE DEF next, then, now
  <2>8. ASSUME NEW x, x \in Listed(page, turns, n, next)
        PROVE  x \in Told(own, R, messages)
    <3>1. CASE \E i \in DOMAIN page : x = page[i]
      <4>1. x \in R
        BY <1>7, <3>1
      <4>2. \A i \in DOMAIN messages : Of(own, x) # Of(own, messages[i])
        <5>1. \A i \in DOMAIN messages : Of(own, messages[i]) \in DOMAIN Lives
          BY <2>5 DEF HereAt
        <5>. QED
          BY <1>6, <3>1, <5>1
      <4>. QED
        BY <2>3, <4>1, <4>2
    <3>2. ASSUME NEW l \in HereAt(turns, n), x = then(l)
          PROVE  x \in Told(own, R, messages)
      <4>1. CASE e(l) < f(l)
        BY <2>3, <2>4, <3>2, <4>1
      <4>2. CASE ~(e(l) < f(l))
        <5>1. l \in HereAt(turns, c) /\ x = now(l)
          BY <2>6, <3>2, <4>2
        <5>2. x \in R /\ Of(own, x) = l
          BY <1>6, <1>7, <5>1
        <5>3. \A i \in DOMAIN messages : Of(own, messages[i]) # l
          BY <2>5, <4>2
        <5>. QED
          BY <2>3, <5>2, <5>3
      <4>. QED
        BY <4>1, <4>2
    <3>. QED
      BY <2>2, <2>8, <3>1, <3>2
  <2>9. ASSUME NEW x, x \in Told(own, R, messages)
        PROVE  x \in Listed(page, turns, n, next)
    <3>1. CASE \E i \in DOMAIN messages : messages[i] = x
      BY <2>2, <2>5, <3>1
    <3>2. CASE x \in R /\ \A i \in DOMAIN messages : Of(own, x) # Of(own, messages[i])
      <4>1. CASE \E i \in DOMAIN page : x = page[i]
        BY <2>2, <4>1
      <4>2. ASSUME NEW l \in HereAt(turns, c), x = now(l)
            PROVE  x \in Listed(page, turns, n, next)
        <5>1. l \in HereAt(turns, n) /\ Of(own, x) = l
          BY <1>6, <2>7, <4>2
        <5>2. ~(e(l) < f(l))
          BY <2>4, <3>2, <5>1
        <5>. QED
          BY <2>2, <2>6, <4>2, <5>1, <5>2
      <4>. QED
        BY <1>7, <3>2, <4>1, <4>2
    <3>. QED
      BY <2>3, <2>9, <3>1, <3>2
  <2>. QED
    BY <2>8, <2>9
<1>15. Shown(Emitted(list, SubSeq(Changes(turns), c + 1, n)), Listed(page, turns, n, next))
  <2>1. Emitted(list, SubSeq(Changes(turns), c + 1, n)) = Upserted(list, messages)
    BY DEF Emitted, batch, messages
  <2>. QED
    BY <1>12, <1>14, <2>1
<1>. HIDE DEF next
<1>. QED
  BY <1>13, <1>15 DEF ShowsAt

(* A page that is loaded shows what it is given.                           *)
LEMMA ResetShown ==
  ASSUME NEW own, NEW messages, Proper(own, messages), \A i \in DOMAIN messages : messages[i].chat = 1
  PROVE  /\ Family(own, Given(messages, Len(messages)))
         /\ Shown(Reset(messages), Given(messages, Len(messages)))
<1>. DEFINE R == Given(messages, Len(messages))
            rows == Inserted(<<>>, messages)
<1>1. messages \in Seq(Message) /\ DOMAIN messages = 1 .. Len(messages)
  BY DEF Proper
<1>2. ASSUME NEW r \in R
      PROVE  \E i \in DOMAIN messages : r = messages[i]
  BY <1>1 DEF Given
<1>3. Family(own, R)
  <2>1. \A r \in R : r \in Message /\ r.chat = 1 /\ Fit(own, r)
    BY <1>1, <1>2 DEF Proper
  <2>2. \A r, s \in R : Of(own, r) = Of(own, s) => r = s
    BY <1>2 DEF Proper
  <2>. HIDE DEF R
  <2>. QED
    BY <2>1, <2>2 DEF Family
<1>4. Ranked(<<>>, {})
  <2>1. <<>> \in Seq(Message) /\ DOMAIN <<>> = {}
    OBVIOUS
  <2>. QED
    BY <2>1 DEF Ranked, InRank
<1>5. {} \cup R = R
  OBVIOUS
<1>6. Ranked(rows, {} \cup R)
  <2>1. Family(own, {} \cup Given(messages, Len(messages)))
    BY <1>3, <1>5
  <2>2. \A r \in {}, i \in DOMAIN messages : Of(own, r) # Of(own, messages[i])
    OBVIOUS
  <2>. QED
    BY <1>4, <2>1, <2>2, InsertedRanked
<1>7. Reset(messages) = Indexed(rows)
  <2>1. Coalesced(messages) = messages
    BY CoalescedAgain
  <2>. QED
    BY <2>1 DEF Reset
<1>. HIDE DEF rows, R
<1>8. Ranked(rows, R) /\ Proper(own, rows)
  BY <1>3, <1>5, <1>6, RankedProper
<1>9. Indexed(rows).rows = rows /\ Exact(Indexed(rows))
  BY <1>8, IndexedExact
<1>10. Shown(Reset(messages), R)
  BY <1>7, <1>8, <1>9 DEF Shown
<1>. QED
  BY <1>3, <1>10 DEF R

Heard(list, change) == Emitted(list, <<change>>)

(* The equation of Alone, on the first n changes.                         *)
Tells(f, list, changes, n) ==
  f = [k \in 0 .. n |-> IF k = 0 THEN list ELSE Heard(f[k - 1], changes[k])]

(* What the equation says.                                                 *)
LEMMA TellsAt ==
  ASSUME NEW list, NEW changes, NEW n \in Nat, NEW f, Tells(f, list, changes, n)
  PROVE  f[0] = list /\ \A k \in 1 .. n : f[k] = Heard(f[k - 1], changes[k])
<1>. DEFINE first == list
            e(k) == IF k = 0 THEN first ELSE Heard(f[k - 1], changes[k])
<1>1. f = [k \in 0 .. n |-> e(k)]
  BY DEF Tells
<1>. HIDE DEF e
<1>2. \A k \in 0 .. n : f[k] = e(k)
  BY <1>1
<1>3. f[0] = e(0) /\ \A k \in 1 .. n : k # 0 /\ f[k] = e(k)
  BY <1>2
<1>. HIDE DEF first
<1>4. f[0] = first /\ \A k \in 1 .. n : f[k] = Heard(f[k - 1], changes[k])
  BY <1>3 DEF e
<1>. QED
  BY <1>4 DEF first

(* The equation has a solution.                                            *)
LEMMA TellsExist ==
  ASSUME NEW list, NEW changes, NEW n \in Nat
  PROVE  \E f : Tells(f, list, changes, n)
<1>. DEFINE S == {m \in 0 .. n : \E f : Tells(f, list, changes, m)}
<1>1. 0 \in S
  <2>. DEFINE f == [k \in 0 .. 0 |-> list]
  <2>1. f = [k \in 0 .. 0 |-> IF k = 0 THEN list ELSE Heard(f[k - 1], changes[k])]
    OBVIOUS
  <2>2. Tells(f, list, changes, 0)
    BY <2>1 DEF Tells
  <2>. QED
    BY <2>2
<1>2. ASSUME NEW m \in 0 .. n - 1, m \in S
      PROVE  m + 1 \in S
  <2>1. PICK g : Tells(g, list, changes, m)
    BY <1>2
  <2>2. g[0] = list /\ \A k \in 1 .. m : g[k] = Heard(g[k - 1], changes[k])
    <3>1. m \in Nat
      OBVIOUS
    <3>. QED
      BY <2>1, <3>1, TellsAt
  <2>. DEFINE h == [k \in 0 .. m + 1 |-> IF k <= m THEN g[k] ELSE Heard(g[m], changes[m + 1])]
              e(k) == IF k = 0 THEN list ELSE Heard(h[k - 1], changes[k])
  <2>3. /\ \A k \in 0 .. m : h[k] = g[k]
        /\ h[m + 1] = Heard(g[m], changes[m + 1])
        /\ m \in Nat
    OBVIOUS
  <2>7. h = [k \in 0 .. m + 1 |-> h[k]]
    OBVIOUS
  <2>. HIDE DEF h
  <2>4. ASSUME NEW k \in 0 .. m + 1
        PROVE  h[k] = e(k)
    <3>1. CASE k = 0
      BY <2>2, <2>3, <3>1
    <3>2. CASE k \in 1 .. m
      <4>1. h[k] = g[k] /\ h[k - 1] = g[k - 1] /\ k # 0
        BY <2>3, <3>2
      <4>. QED
        BY <2>2, <3>2, <4>1
    <3>3. CASE k = m + 1
      <4>1. h[k - 1] = g[m] /\ k # 0
        BY <2>3, <3>3
      <4>. QED
        BY <2>3, <3>3, <4>1
    <3>. QED
      BY <3>1, <3>2, <3>3
  <2>5. h = [k \in 0 .. m + 1 |-> e(k)]
    <3>. HIDE DEF e
    <3>. QED
      BY <2>4, <2>7
  <2>6. Tells(h, list, changes, m + 1)
    BY <2>5 DEF Tells
  <2>. QED
    BY <2>6
<1>. HIDE DEF S
<1>3. 0 .. n \subseteq S
  BY <1>1, <1>2, UpTo
<1>. QED
  BY <1>3 DEF S

(* Alone by its steps.                                                     *)
LEMMA AloneIs ==
  ASSUME NEW list, NEW changes, Len(changes) \in Nat
  PROVE  \E f : /\ f[0] = list
                /\ \A k \in 1 .. Len(changes) : f[k] = Heard(f[k - 1], changes[k])
                /\ Alone(list, changes) = f[Len(changes)]
<1>. DEFINE n == Len(changes)
            told == CHOOSE f : f = [k \in 0 .. n |-> IF k = 0 THEN list ELSE Heard(f[k - 1], changes[k])]
<1>1. \E f : Tells(f, list, changes, n)
  BY TellsExist
<1>2. Tells(told, list, changes, n)
  BY <1>1 DEF Tells
<1>3. Alone(list, changes) = told[n]
  BY DEF Alone, Heard
<1>. HIDE DEF told
<1>4. told[0] = list /\ \A k \in 1 .. n : told[k] = Heard(told[k - 1], changes[k])
  BY <1>2, TellsAt
<1>. QED
  BY <1>3, <1>4

(* The list of a page that is told of each change by itself.               *)
LEMMA AloneShows ==
  ASSUME NEW page \in Pages, NEW own, Owns(own, page), NEW turns, IsHistory(turns),
         NEW cut \in 0 .. Len(turns)
  PROVE  ShowsAt(page, turns, cut, Alone(Reset(page), SubSeq(Changes(turns), 1, cut)))
<1>. DEFINE changes == SubSeq(Changes(turns), 1, cut)
<1>1. Len(turns) \in Nat /\ cut \in Nat
  BY DEF IsHistory
<1>2. Len(changes) = cut /\ \A k \in 1 .. cut : changes[k] = Changes(turns)[k]
  <2>1. 0 \in 0 .. cut /\ 0 + 1 = 1 /\ cut - 0 = cut /\ \A k \in 1 .. cut : 0 + k = k
    BY <1>1
  <2>2. /\ Len(SubSeq(Changes(turns), 0 + 1, cut)) = cut - 0
        /\ \A k \in 1 .. cut - 0 : SubSeq(Changes(turns), 0 + 1, cut)[k] = Changes(turns)[0 + k]
    BY <2>1, WindowIs
  <2>. QED
    BY <2>1, <2>2
<1>. HIDE DEF changes
<1>3. PICK f : /\ f[0] = Reset(page)
               /\ \A k \in 1 .. cut : f[k] = Heard(f[k - 1], changes[k])
               /\ Alone(Reset(page), changes) = f[cut]
  <2>. DEFINE list == Reset(page)
  <2>. HIDE DEF list
  <2>1. Len(changes) \in Nat
    BY <1>1, <1>2
  <2>2. \E f : /\ f[0] = list
               /\ \A k \in 1 .. Len(changes) : f[k] = Heard(f[k - 1], changes[k])
               /\ Alone(list, changes) = f[Len(changes)]
    BY ONLY <2>1, AloneIs
  <2>. QED
    BY ONLY <1>2, <2>2 DEF list
<1>. DEFINE S == {k \in 0 .. cut : ShowsAt(page, turns, k, f[k])}
<1>4. 0 \in S
  <2>1. HereAt(turns, 0) = {}
    <3>1. \A l : Age(turns, l, 0) = 0
      BY AgeNext
    <3>. QED
      BY <3>1 DEF HereAt
  <2>2. Begun(turns, 0, <<>>) /\ Listed(page, turns, 0, <<>>) = Given(page, Len(page))
    BY <2>1 DEF Begun, Listed
  <2>3. Shown(Reset(page), Given(page, Len(page)))
    BY PageIs, ResetShown
  <2>4. ShowsAt(page, turns, 0, f[0])
    BY <1>3, <2>2, <2>3 DEF ShowsAt
  <2>. QED
    BY <1>1, <2>4
<1>5. ASSUME NEW k \in 0 .. cut - 1, k \in S
      PROVE  k + 1 \in S
  <2>1. k \in 0 .. k + 1 /\ k + 1 \in 0 .. Len(turns) /\ k + 1 \in 1 .. cut /\ k + 1 \in 0 .. cut /\ (k + 1) - 1 = k
    BY <1>1
  <2>2. ShowsAt(page, turns, k, f[k])
    BY <1>5
  <2>3. ShowsAt(page, turns, k + 1, Emitted(f[k], SubSeq(Changes(turns), k + 1, k + 1)))
    BY <2>1, <2>2, EmittedShows
  <2>4. SubSeq(Changes(turns), k + 1, k + 1) = <<changes[k + 1]>>
    <3>1. (k + 1) - k = 1 /\ 1 \in 1 .. 1
      BY <2>1
    <3>2. /\ Len(SubSeq(Changes(turns), k + 1, k + 1)) = (k + 1) - k
          /\ \A j \in 1 .. (k + 1) - k : SubSeq(Changes(turns), k + 1, k + 1)[j] = Changes(turns)[k + j]
      BY <2>1, WindowIs
    <3>. DEFINE s == SubSeq(Changes(turns), k + 1, k + 1)
                c == changes[k + 1]
    <3>3. s = [j \in 1 .. 1 |-> s[j]]
      <4>1. \A t : SubSeq(t, k + 1, k + 1) = [j \in 1 .. ((k + 1) - (k + 1)) + 1 |-> t[((k + 1) + j) - 1]]
        BY <2>1
      <4>. QED
        BY <2>1, <4>1
    <3>4. s[1] = c
      BY <1>2, <2>1, <3>1, <3>2
    <3>. HIDE DEF s, c
    <3>5. \A j \in 1 .. 1 : s[j] = c
      BY <3>4
    <3>6. s = [j \in 1 .. 1 |-> c]
      BY <3>3, <3>5
    <3>7. <<c>> = [j \in 1 .. 1 |-> c]
      OBVIOUS
    <3>8. s = <<c>>
      BY <3>6, <3>7
    <3>. QED
      BY <3>8 DEF s, c
  <2>5. f[k + 1] = Emitted(f[k], <<changes[k + 1]>>)
    BY <1>3, <2>1 DEF Heard
  <2>. QED
    BY <2>1, <2>3, <2>4, <2>5
<1>. HIDE DEF S
<1>6. 0 .. cut \subseteq S
  BY <1>1, <1>4, <1>5, UpTo
<1>7. cut \in S
  BY <1>1, <1>6
<1>8. ShowsAt(page, turns, cut, f[cut])
  BY <1>7 DEF S
<1>. QED
  BY <1>3, <1>8 DEF changes

-----------------------------------------------------------------------------
(* The list in the end.                                                    *)

(* A finite set as a sequence.                                             *)
LEMMA SeqOfSet ==
  ASSUME NEW S, IsFiniteSet(S)
  PROVE  /\ SetToSeq(S) \in Seq(S)
         /\ \A k, l \in 1 .. Len(SetToSeq(S)) : SetToSeq(S)[k] = SetToSeq(S)[l] => k = l
         /\ \A x \in S : \E k \in 1 .. Len(SetToSeq(S)) : SetToSeq(S)[k] = x
<1>. DEFINE n == Cardinality(S)
            s == SetToSeq(S)
<1>1. n \in Nat /\ ExistsBijection(1 .. n, S)
  BY FS_CardinalityType
<1>2. \E f \in [1 .. n -> S] : IsInjective(f)
  BY <1>1 DEF ExistsBijection, Bijection, Injection
<1>3. s \in [1 .. n -> S] /\ IsInjective(s)
  <2>1. s = CHOOSE f \in [1 .. n -> S] : IsInjective(f)
    BY DEF SetToSeq
  <2>. HIDE DEF s, n
  <2>. QED
    BY <1>2, <2>1, Zenon
<1>. HIDE DEF s
<1>4. s \in Injection(1 .. n, S)
  BY <1>3 DEF Injection
<1>5. Cardinality(1 .. n) = n /\ IsFiniteSet(1 .. n)
  BY <1>1, FS_Interval
<1>6. s \in Surjection(1 .. n, S)
  BY <1>4, <1>5, FS_Injection
<1>7. s \in Seq(S) /\ Len(s) = n
  BY <1>1, <1>3
<1>8. \A x \in S : \E k \in 1 .. n : s[k] = x
  BY <1>6 DEF Surjection
<1>9. \A k, l \in 1 .. n : s[k] = s[l] => k = l
  BY <1>3 DEF IsInjective
<1>. QED
  BY <1>7, <1>8, <1>9 DEF s

(* How far each message has come in the end.                               *)
Final(turns) == [l \in DOMAIN Lives |-> Age(turns, l, Len(turns))]

(* What the store holds in the end: the page and the last states.          *)
LEMMA KeptIs ==
  ASSUME NEW page \in Pages, NEW own, Owns(own, page), NEW turns, IsHistory(turns)
  PROVE  /\ Begun(turns, Len(turns), Final(turns))
         /\ Proper(own, Kept(page, turns))
         /\ \A i \in DOMAIN Kept(page, turns) : Kept(page, turns)[i].chat = 1
         /\ Given(Kept(page, turns), Len(Kept(page, turns)))
              = Listed(page, turns, Len(turns), Final(turns))
<1>. DEFINE n == Len(turns)
            age(l) == Age(turns, l, n)
            here == HereAt(turns, n)
            S == {Lives[l][age(l)] : l \in here}
            t == SetToSeq(S)
            b == Final(turns)
            m == Len(page)
            kept == page \o t
<1>1. n \in Nat /\ n \in 0 .. n
  BY DEF IsHistory
<1>2. ASSUME NEW l \in here
      PROVE  l \in DOMAIN Lives /\ age(l) \in 1 .. Len(Lives[l]) /\ b[l] = age(l)
  <2>1. l \in DOMAIN Lives /\ age(l) > 0
    BY DEF HereAt
  <2>2. age(l) \in 0 .. Len(Lives[l])
    BY <1>1, <2>1, AgeWithin
  <2>3. b[l] = age(l)
    BY <2>1 DEF Final
  <2>. QED
    BY <2>1, <2>2, <2>3
<1>3. Begun(turns, n, b)
  BY <1>2 DEF Begun
<1>. HIDE DEF b, age
<1>4. ASSUME NEW l \in here
      PROVE  Merged(l, b[l], age(l)) = Lives[l][age(l)]
  <2>1. age(l) \in 1 .. age(l)
    BY <1>2
  <2>2. Merged(l, age(l), age(l)) = Lives[l][age(l)]
    BY <1>2, <2>1, MergedIs
  <2>. QED
    BY <1>2, <2>2
<1>5. /\ \A l \in here : /\ Lives[l][age(l)] \in Message /\ Lives[l][age(l)].chat = 1
                         /\ Fit(own, Lives[l][age(l)]) /\ Of(own, Lives[l][age(l)]) = l
      /\ \A l \in here, i \in DOMAIN page : Of(own, page[i]) # l
  <2>1. /\ \A l \in HereAt(turns, n) :
             /\ Merged(l, b[l], Age(turns, l, n)) \in Message
             /\ Merged(l, b[l], Age(turns, l, n)).chat = 1
             /\ Fit(own, Merged(l, b[l], Age(turns, l, n)))
             /\ Of(own, Merged(l, b[l], Age(turns, l, n))) = l
        /\ \A l \in DOMAIN Lives, i \in DOMAIN page : Of(own, page[i]) # l
    BY <1>1, <1>3, ListedIs
  <2>2. ASSUME NEW l \in here
        PROVE  /\ Lives[l][age(l)] \in Message /\ Lives[l][age(l)].chat = 1
               /\ Fit(own, Lives[l][age(l)]) /\ Of(own, Lives[l][age(l)]) = l
    <3>1. Merged(l, b[l], Age(turns, l, n)) = Lives[l][age(l)]
      BY <1>4 DEF age
    <3>. QED
      BY <2>1, <3>1
  <2>. QED
    BY <1>2, <2>1, <2>2
<1>6. IsFiniteSet(S)
  <2>. DEFINE f == [l \in here |-> Lives[l][age(l)]]
  <2>1. IsFiniteSet(DOMAIN Lives)
    <3>1. DOMAIN Lives = 1 .. Len(Lives) /\ Len(Lives) \in Nat
      BY ListAssumption DEF LivesAssumption
    <3>. QED
      BY <3>1, FS_Interval
  <2>2. IsFiniteSet(here)
    <3>1. here \in SUBSET DOMAIN Lives
      BY DEF HereAt
    <3>. QED
      BY <2>1, <3>1, FS_Subset
  <2>3. f \in Surjection(here, S)
    <3>1. f \in [here -> S]
      OBVIOUS
    <3>2. \A x \in S : \E l \in here : f[l] = x
      OBVIOUS
    <3>. HIDE DEF f, S
    <3>. QED
      BY <3>1, <3>2 DEF Surjection
  <2>. HIDE DEF f, S
  <2>. QED
    BY <2>2, <2>3, FS_Surjection
<1>7. \A x : x \in S <=> \E l \in here : x = Lives[l][age(l)]
  OBVIOUS
<1>8. Kept(page, turns) = kept
  BY DEF Kept, HereAt, age
<1>. HIDE DEF S, here
<1>9. /\ t \in Seq(S)
      /\ \A k, l \in 1 .. Len(t) : t[k] = t[l] => k = l
      /\ \A x \in S : \E k \in 1 .. Len(t) : t[k] = x
  BY <1>6, SeqOfSet
<1>. HIDE DEF t
<1>10. /\ page \in Seq(Message) /\ m \in Nat /\ DOMAIN page = 1 .. m
       /\ \A i \in DOMAIN page : /\ page[i] \in Message /\ page[i].chat = 1 /\ Fit(own, page[i])
                                 /\ Of(own, page[i]) = Len(Lives) + i
  BY PageIs
<1>11. /\ Len(t) \in Nat /\ t \in Seq(Message)
       /\ \A k \in 1 .. Len(t) : \E l \in here : t[k] = Lives[l][age(l)]
  <2>1. S \subseteq Message
    BY <1>5, <1>7
  <2>2. Len(t) \in Nat /\ \A k \in 1 .. Len(t) : t[k] \in S
    BY <1>9
  <2>3. t \in Seq(Message)
    BY <1>9, <2>1
  <2>. QED
    BY <1>7, <2>2, <2>3
<1>12. /\ kept \in Seq(Message) /\ Len(kept) = m + Len(t) /\ DOMAIN kept = 1 .. m + Len(t)
       /\ \A i \in 1 .. m : kept[i] = page[i]
       /\ \A k \in 1 .. Len(t) : kept[m + k] = t[k]
  BY <1>10, <1>11
<1>. HIDE DEF kept
<1>13. ASSUME NEW i \in DOMAIN kept
       PROVE  \/ i \in 1 .. m /\ kept[i] = page[i]
              \/ \E k \in 1 .. Len(t) : i = m + k /\ kept[i] = t[k] /\ \E l \in here : t[k] = Lives[l][age(l)]
  <2>1. CASE i \in 1 .. m
    BY <1>12, <2>1
  <2>2. CASE i \notin 1 .. m
    <3>1. i - m \in 1 .. Len(t) /\ i = m + (i - m)
      BY <1>10, <1>11, <1>12, <2>2
    <3>. QED
      BY <1>11, <1>12, <3>1
  <2>. QED
    BY <2>1, <2>2
<1>14. ASSUME NEW i \in DOMAIN kept
       PROVE  Fit(own, kept[i]) /\ kept[i].chat = 1
  BY <1>5, <1>10, <1>13
<1>15. ASSUME NEW i \in DOMAIN kept, NEW j \in DOMAIN kept, Of(own, kept[i]) = Of(own, kept[j])
       PROVE  i = j
  <2>1. CASE i \in 1 .. m /\ kept[i] = page[i] /\ j \in 1 .. m /\ kept[j] = page[j]
    <3>1. Len(Lives) \in Nat
      BY ListAssumption DEF LivesAssumption
    <3>2. Len(Lives) + i = Len(Lives) + j
      BY <1>10, <1>15, <2>1
    <3>. QED
      BY <2>1, <3>1, <3>2
  <2>2. ASSUME NEW k \in 1 .. Len(t), i = m + k, kept[i] = t[k], \E l \in here : t[k] = Lives[l][age(l)],
               NEW o \in 1 .. Len(t), j = m + o, kept[j] = t[o], \E l \in here : t[o] = Lives[l][age(l)]
        PROVE  i = j
    <3>1. t[k] = t[o]
      BY <1>5, <1>15, <2>2
    <3>. QED
      BY <1>9, <2>2, <3>1
  <2>3. ASSUME \E l \in here : kept[j] = Lives[l][age(l)], i \in 1 .. m, kept[i] = page[i]
        PROVE  FALSE
    BY <1>5, <1>10, <1>15, <2>3
  <2>4. ASSUME \E l \in here : kept[i] = Lives[l][age(l)], j \in 1 .. m, kept[j] = page[j]
        PROVE  FALSE
    BY <1>5, <1>10, <1>15, <2>4
  <2>. QED
    BY <1>13, <2>1, <2>2, <2>3, <2>4
<1>16. Proper(own, kept)
  BY <1>12, <1>14, <1>15 DEF Proper
<1>17. ASSUME NEW x
       PROVE  x \in Given(kept, Len(kept)) <=> x \in Listed(page, turns, n, b)
  <2>1. x \in Given(kept, Len(kept)) <=> \E i \in DOMAIN kept : x = kept[i]
    BY <1>12 DEF Given
  <2>2. x \in Listed(page, turns, n, b)
          <=> (\E i \in 1 .. m : x = page[i]) \/ \E l \in here : x = Merged(l, b[l], age(l))
    BY DEF Listed, Given, here, age
  <2>3. ASSUME NEW i \in DOMAIN kept
        PROVE  (\E j \in 1 .. m : kept[i] = page[j]) \/ \E l \in here : kept[i] = Merged(l, b[l], age(l))
    BY <1>4, <1>13
  <2>4. ASSUME NEW i \in 1 .. m
        PROVE  \E j \in DOMAIN kept : page[i] = kept[j]
    <3>1. i \in DOMAIN kept
      BY <1>10, <1>11, <1>12
    <3>. QED
      BY <1>12, <3>1
  <2>5. ASSUME NEW l \in here
        PROVE  \E j \in DOMAIN kept : Merged(l, b[l], age(l)) = kept[j]
    <3>1. PICK k \in 1 .. Len(t) : t[k] = Lives[l][age(l)]
      BY <1>7, <1>9
    <3>2. m + k \in DOMAIN kept
      BY <1>10, <1>11, <1>12
    <3>. QED
      BY <1>4, <1>12, <3>1, <3>2
  <2>. QED
    BY <2>1, <2>2, <2>3, <2>4, <2>5
<1>18. Given(kept, Len(kept)) = Listed(page, turns, n, b)
  BY <1>17
<1>. QED
  BY <1>3, <1>8, <1>14, <1>16, <1>18 DEF b

(* What is shown of a message.                                             *)
Visible(m) == [id |-> m.id, time |-> m.time, state |-> m.state]

(* Rows that look alike are shown alike.                                   *)
LEMMA LookAlike ==
  ASSUME NEW own, NEW R, Family(own, R), NEW T, Family(own, T),
         \A r \in R : \E s \in T : Visible(r) = Visible(s),
         \A s \in T : \E r \in R : Visible(r) = Visible(s),
         NEW list, Shown(list, R), NEW other, Shown(other, T)
  PROVE  Display(list) = Display(other)
<1>. DEFINE X == [id : Nat, time : Nat, state : States]
            Less == {p \in X \X X : p[1].time > p[2].time \/ (p[1].time = p[2].time /\ p[1].id > p[2].id)}
            Ahead(x, y) == x.time > y.time \/ (x.time = y.time /\ x.id > y.id)
<1>1. ASSUME NEW x \in X, NEW y \in X
      PROVE  <<x, y>> \in Less <=> Ahead(x, y)
  OBVIOUS
<1>2. \A x \in X : x.time \in Nat /\ x.id \in Nat
  OBVIOUS
<1>3. ASSUME NEW x \in X, NEW y \in X, <<x, y>> \in Less
      PROVE  <<y, x>> \notin Less
  <2>. HIDE DEF X, Less
  <2>. QED
    BY <1>1, <1>2, <1>3
<1>. HIDE DEF Less, Ahead
<1>4. ASSUME NEW m \in Message
      PROVE  Visible(m) \in X /\ Visible(m).time = m.time /\ Visible(m).id = m.id
  <2>1. m.id \in Nat /\ m.time \in Nat /\ m.state \in States
    BY MessageIs
  <2>2. Visible(m) = [id |-> m.id, time |-> m.time, state |-> m.state]
    BY DEF Visible
  <2>3. [id |-> m.id, time |-> m.time, state |-> m.state] \in X
    BY <2>1, Zenon
  <2>. QED
    BY <2>2, <2>3
<1>5. ASSUME NEW Q, Family(own, Q), NEW l, Shown(l, Q)
      PROVE  /\ Display(l) \in Seq(X) /\ Len(Display(l)) = Len(l.rows)
             /\ \A i \in 1 .. Len(l.rows) : l.rows[i] \in Q /\ Display(l)[i] = Visible(l.rows[i])
             /\ \A i, j \in 1 .. Len(Display(l)) : i < j => <<Display(l)[i], Display(l)[j]>> \in Less
             /\ \A r \in Q : \E i \in 1 .. Len(Display(l)) : Display(l)[i] = Visible(r)
  <2>. DEFINE rows == l.rows
              d == Display(l)
              k == Len(rows)
  <2>1. /\ rows \in Seq(Message) /\ InRank(rows) /\ \A r : (\E i \in DOMAIN rows : rows[i] = r) <=> r \in Q
    BY <1>5 DEF Shown, Ranked
  <2>2. d = [i \in DOMAIN rows |-> Visible(rows[i])]
    BY DEF Display, Visible
  <2>. HIDE DEF rows, d
  <2>3. k \in Nat /\ DOMAIN rows = 1 .. k /\ \A i \in 1 .. k : rows[i] \in Message /\ rows[i] \in Q
    BY <2>1
  <2>4. \A i \in 1 .. k : d[i] = Visible(rows[i]) /\ d[i] \in X
    BY <1>4, <2>2, <2>3
  <2>5. d \in Seq(X) /\ Len(d) = k
    <3>1. d \in [1 .. k -> X]
      BY <2>2, <2>3, <2>4
    <3>. HIDE DEF X
    <3>. QED
      BY <2>3, <3>1
  <2>6. ASSUME NEW i \in 1 .. k, NEW j \in 1 .. k, i < j
        PROVE  <<d[i], d[j]>> \in Less
    <3>1. DisplayBefore(rows[i], rows[j])
      BY <2>1, <2>3, <2>6 DEF InRank
    <3>2. rows[i].id # 0 /\ rows[j].id # 0 /\ rows[i] \in Message /\ rows[j] \in Message
      BY <1>5, <2>3 DEF Family, Fit
    <3>3. rows[i].time > rows[j].time \/ (rows[i].time = rows[j].time /\ rows[i].id > rows[j].id)
      BY <3>1, <3>2, BeforeIs
    <3>4. d[i].time = rows[i].time /\ d[j].time = rows[j].time /\ d[i].id = rows[i].id /\ d[j].id = rows[j].id
      BY <1>4, <2>4, <3>2
    <3>5. Ahead(d[i], d[j])
      BY <3>3, <3>4 DEF Ahead
    <3>. HIDE DEF X
    <3>. QED
      BY <1>1, <2>4, <3>5
  <2>7. ASSUME NEW r \in Q
        PROVE  \E i \in 1 .. k : d[i] = Visible(r)
    BY <2>1, <2>3, <2>4
  <2>. HIDE DEF X
  <2>. QED
    BY <2>3, <2>4, <2>5, <2>6, <2>7 DEF rows, d
<1>. HIDE DEF X
<1>. DEFINE s == Display(list)
            t == Display(other)
<1>6. /\ s \in Seq(X) /\ Len(s) = Len(list.rows)
      /\ \A i \in 1 .. Len(s) : \E r \in R : s[i] = Visible(r)
      /\ \A i, j \in 1 .. Len(s) : i < j => <<s[i], s[j]>> \in Less
      /\ \A r \in R : \E i \in 1 .. Len(s) : s[i] = Visible(r)
  BY <1>5
<1>7. /\ t \in Seq(X) /\ Len(t) = Len(other.rows)
      /\ \A i \in 1 .. Len(t) : \E r \in T : t[i] = Visible(r)
      /\ \A i, j \in 1 .. Len(t) : i < j => <<t[i], t[j]>> \in Less
      /\ \A r \in T : \E i \in 1 .. Len(t) : t[i] = Visible(r)
  BY <1>5
<1>. HIDE DEF s, t
<1>8. ASSUME NEW k \in 1 .. Len(s)
      PROVE  \E l \in 1 .. Len(t) : t[l] = s[k]
  <2>1. PICK r \in R : s[k] = Visible(r)
    BY <1>6
  <2>2. PICK q \in T : Visible(r) = Visible(q)
    OBVIOUS
  <2>3. PICK l \in 1 .. Len(t) : t[l] = Visible(q)
    BY <1>7
  <2>. QED
    BY <2>1, <2>2, <2>3
<1>9. ASSUME NEW l \in 1 .. Len(t)
      PROVE  \E k \in 1 .. Len(s) : s[k] = t[l]
  <2>1. PICK q \in T : t[l] = Visible(q)
    BY <1>7
  <2>2. PICK r \in R : Visible(r) = Visible(q)
    OBVIOUS
  <2>3. PICK k \in 1 .. Len(s) : s[k] = Visible(r)
    BY <1>6
  <2>. QED
    BY <2>1, <2>2, <2>3
<1>10. s = t
  <2>1. \A x, y \in X : <<x, y>> \in Less => <<y, x>> \notin Less
    BY <1>3
  <2>. QED
    BY ONLY <1>6, <1>7, <1>8, <1>9, <2>1, OneRank
<1>. QED
  BY <1>10 DEF s, t

(* The list model shows what the store keeps, for every page, whatever     *)
(* happened to however many messages and wherever the batch begins: each   *)
(* message once and in its last state, in order, with its aliases; the     *)
(* batch may hold several states of a message, and what is loaded again    *)
(* changes nothing.                                                        *)
THEOREM KeptIsShown ==
  ASSUME NEW page \in Pages, NEW turns, IsHistory(turns), NEW cut \in 0 .. Len(turns)
  PROVE  ShowsKept(page, turns, cut)
<1>. DEFINE n == Len(turns)
            before == Alone(Reset(page), SubSeq(Changes(turns), 1, cut))
            list == Emitted(before, SubSeq(Changes(turns), cut + 1, n))
            kept == Kept(page, turns)
            last == Final(turns)
            K == Listed(page, turns, n, last)
<1>1. PICK own : Owns(own, page)
  BY OwnersExist
<1>2. n \in Nat /\ n \in 0 .. n /\ cut \in 0 .. n
  BY DEF IsHistory
<1>3. ShowsAt(page, turns, n, list)
  <2>1. ShowsAt(page, turns, cut, before)
    BY <1>1, AloneShows
  <2>. HIDE DEF before
  <2>. QED
    BY <1>1, <1>2, <2>1, EmittedShows
<1>4. /\ Begun(turns, n, last)
      /\ Proper(own, kept) /\ \A i \in DOMAIN kept : kept[i].chat = 1
      /\ Given(kept, Len(kept)) = K
  BY <1>1, KeptIs
<1>. HIDE DEF list, kept, last
<1>5. PICK b : Begun(turns, n, b) /\ Shown(list, Listed(page, turns, n, b))
  BY <1>3 DEF ShowsAt
<1>. DEFINE R == Listed(page, turns, n, b)
            e(l) == Age(turns, l, n)
<1>6. /\ \A l \in HereAt(turns, n) :
           /\ l \in DOMAIN Lives /\ e(l) \in 1 .. Len(Lives[l]) /\ b[l] \in 1 .. e(l)
           /\ Of(own, Merged(l, b[l], e(l))) = l
      /\ Family(own, R)
  BY <1>1, <1>2, <1>5, ListedIs
<1>7. /\ \A l \in HereAt(turns, n) : last[l] \in 1 .. e(l) /\ Of(own, Merged(l, last[l], e(l))) = l
      /\ \A l \in DOMAIN Lives, i \in DOMAIN page : Of(own, page[i]) # l
      /\ Family(own, K)
  BY <1>1, <1>2, <1>4, ListedIs
<1>. HIDE DEF e
<1>8. ASSUME NEW l \in HereAt(turns, n)
      PROVE  Visible(Merged(l, b[l], e(l))) = Visible(Merged(l, last[l], e(l)))
  <2>1. /\ Merged(l, b[l], e(l)).id = Lives[l][e(l)].id /\ Merged(l, b[l], e(l)).time = Lives[l][e(l)].time
        /\ Merged(l, b[l], e(l)).state = Lives[l][e(l)].state
    BY <1>6, MergedIs
  <2>2. /\ Merged(l, last[l], e(l)).id = Lives[l][e(l)].id /\ Merged(l, last[l], e(l)).time = Lives[l][e(l)].time
        /\ Merged(l, last[l], e(l)).state = Lives[l][e(l)].state
    BY <1>6, <1>7, MergedIs
  <2>. QED
    BY <2>1, <2>2 DEF Visible
<1>9. \A r : r \in R <=> r \in Given(page, Len(page)) \/ \E l \in HereAt(turns, n) : r = Merged(l, b[l], e(l))
  BY DEF Listed, e
<1>10. \A r : r \in K <=> r \in Given(page, Len(page)) \/ \E l \in HereAt(turns, n) : r = Merged(l, last[l], e(l))
  BY DEF Listed, e
<1>. HIDE DEF R, K
<1>11. ASSUME NEW r \in R
       PROVE  \E s \in K : Visible(r) = Visible(s)
  <2>1. CASE r \in Given(page, Len(page))
    BY <1>10, <2>1
  <2>2. ASSUME NEW l \in HereAt(turns, n), r = Merged(l, b[l], e(l))
        PROVE  \E s \in K : Visible(r) = Visible(s)
    BY <1>8, <1>10, <2>2
  <2>. QED
    BY <1>9, <2>1, <2>2
<1>12. ASSUME NEW s \in K
       PROVE  \E r \in R : Visible(r) = Visible(s)
  <2>1. CASE s \in Given(page, Len(page))
    BY <1>9, <2>1
  <2>2. ASSUME NEW l \in HereAt(turns, n), s = Merged(l, last[l], e(l))
        PROVE  \E r \in R : Visible(r) = Visible(s)
    BY <1>8, <1>9, <2>2
  <2>. QED
    BY <1>10, <2>1, <2>2
<1>13. Shown(Reset(kept), K)
  BY <1>4, ResetShown
<1>14. Shown(list, R)
  BY <1>5 DEF R
<1>15. Display(list) = Display(Reset(kept))
  BY <1>6, <1>7, <1>11, <1>12, <1>13, <1>14, LookAlike
<1>16. \A x : x \in K <=> \E i \in DOMAIN kept : x = kept[i]
  <2>1. DOMAIN kept = 1 .. Len(kept)
    BY <1>4 DEF Proper
  <2>2. Given(kept, Len(kept)) = {kept[i] : i \in DOMAIN kept}
    BY <2>1 DEF Given
  <2>. QED
    BY <1>4, <2>2
<1>17. ASSUME NEW i \in DOMAIN kept, NEW r \in R, Of(own, r) = Of(own, kept[i])
       PROVE  Aliases(r) \cap Aliases(kept[i]) # {}
  <2>1. kept[i] \in K
    BY <1>16
  <2>2. CASE r \in Given(page, Len(page))
    <3>1. r \in K
      BY <1>10, <2>2
    <3>2. r = kept[i]
      BY <1>7, <1>17, <2>1, <3>1 DEF Family
    <3>3. r.id # 0
      BY <1>6 DEF Family, Fit
    <3>. QED
      BY <3>2, <3>3, AliasesOf
  <2>3. ASSUME NEW l \in HereAt(turns, n), r = Merged(l, b[l], e(l))
        PROVE  Aliases(r) \cap Aliases(kept[i]) # {}
    <3>1. Merged(l, last[l], e(l)) \in K
      BY <1>10
    <3>2. kept[i] = Merged(l, last[l], e(l))
      <4>1. Of(own, Merged(l, last[l], e(l))) = Of(own, kept[i])
        BY <1>6, <1>7, <1>17, <2>3
      <4>. QED
        BY <1>7, <2>1, <3>1, <4>1 DEF Family
    <3>3. e(l) \in e(l) .. Len(Lives[l]) /\ last[l] <= e(l) + 1
      BY <1>6, <1>7
    <3>. QED
      BY <1>6, <1>7, <2>3, <3>2, <3>3, Meet
  <2>. QED
    BY <1>9, <2>2, <2>3
<1>. DEFINE told == Told(own, R, kept)
<1>18. Family(own, told) /\ Shown(Upserted(list, kept), told)
  BY <1>4, <1>6, <1>14, <1>17, UpsertedShown
<1>19. told = K
  <2>1. \A x : x \in told <=> \/ x \in R /\ \A i \in DOMAIN kept : Of(own, x) # Of(own, kept[i])
                              \/ \E i \in DOMAIN kept : x = kept[i]
    BY DEF Told
  <2>. HIDE DEF told
  <2>2. ASSUME NEW x \in R
        PROVE  \E i \in DOMAIN kept : Of(own, x) = Of(own, kept[i])
    <3>1. \E y \in K : Of(own, x) = Of(own, y)
      <4>1. CASE x \in Given(page, Len(page))
        BY <1>10, <4>1
      <4>2. ASSUME NEW l \in HereAt(turns, n), x = Merged(l, b[l], e(l))
            PROVE  \E y \in K : Of(own, x) = Of(own, y)
        BY <1>6, <1>7, <1>10, <4>2
      <4>. QED
        BY <1>9, <4>1, <4>2
    <3>. QED
      BY <1>16, <3>1
  <2>3. \A x : x \in told <=> x \in K
    BY <1>16, <2>1, <2>2
  <2>. QED
    BY <2>3
<1>. HIDE DEF told
<1>20. Display(Upserted(list, kept)) = Display(list)
  BY <1>6, <1>7, <1>11, <1>12, <1>14, <1>18, <1>19, LookAlike
<1>21. list.at = Indexed(list.rows).at
  <2>1. Exact(list) /\ Ranked(list.rows, R)
    BY <1>14 DEF Shown
  <2>2. Proper(own, list.rows)
    BY <1>6, <2>1, RankedProper
  <2>3. Indexed(list.rows).rows = list.rows /\ Exact(Indexed(list.rows))
    BY <2>2, IndexedExact
  <2>4. list = Indexed(list.rows)
    BY <2>1, <2>3, ExactOnce
  <2>. QED
    BY <2>4
<1>. QED
  BY <1>15, <1>20, <1>21 DEF ShowsKept, list, kept

=============================================================================
