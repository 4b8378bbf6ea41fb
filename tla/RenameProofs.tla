----------------------------- MODULE RenameProofs -----------------------------
(***************************************************************************)
(* The text edits of a rename, applied one after the other from the end of  *)
(* the file, give what applying all of them at once to the document the     *)
(* server knew would, for any files and characters.  A document is the text *)
(* of its joined lines; a position cuts it in two, and an edit puts its new *)
(* text between two cuts.                                                   *)
(***************************************************************************)
EXTENDS EditingProofs

-----------------------------------------------------------------------------
(* Concatenation, as an operator that the provers leave as it is.           *)

Cat(a, b) == a \o b

\* The result is a sequence of both lengths.
LEMMA CatTypes ==
  ASSUME NEW T, NEW a \in Seq(T), NEW b \in Seq(T)
  PROVE  Cat(a, b) \in Seq(T) /\ Len(Cat(a, b)) = Len(a) + Len(b)
BY ConcatProperties DEF Cat

\* Brackets do not matter.
LEMMA CatMoves ==
  ASSUME NEW T, NEW a \in Seq(T), NEW b \in Seq(T), NEW c \in Seq(T)
  PROVE  Cat(Cat(a, b), c) = Cat(a, Cat(b, c))
<1>1. Bracketed(a, b, c)
  BY Brackets
<1> QED
  BY <1>1 DEF Bracketed, Cat

\* Nothing put in front or behind changes nothing.
LEMMA CatNone ==
  ASSUME NEW T, NEW a \in Seq(T)
  PROVE  Cat(a, <<>>) = a /\ Cat(<<>>, a) = a
BY ConcatEmptySeq DEF Cat

\* What is in front may be taken away.
LEMMA CatCancel ==
  ASSUME NEW T, NEW a \in Seq(T), NEW b \in Seq(T), NEW c \in Seq(T), Cat(a, b) = Cat(a, c)
  PROVE  b = c
<1> DEFINE x == a \o b
           y == a \o c
<1>1. x = y
  BY DEF Cat
<1>2. Len(a) \in Nat /\ Len(b) \in Nat /\ Len(c) \in Nat
  BY LenProperties
<1>3. Len(x) = Len(a) + Len(b) /\ \A i \in 1..(Len(a) + Len(b)) :
        x[i] = IF i <= Len(a) THEN a[i] ELSE b[i - Len(a)]
  BY ConcatProperties
<1>4. Len(y) = Len(a) + Len(c) /\ \A i \in 1..(Len(a) + Len(c)) :
        y[i] = IF i <= Len(a) THEN a[i] ELSE c[i - Len(a)]
  BY ConcatProperties
<1> HIDE DEF x, y
<1>5. Len(b) = Len(c)
  BY <1>1, <1>2, <1>3, <1>4
<1>6. ASSUME NEW i \in 1..Len(b) PROVE b[i] = c[i]
  <2>1. /\ Len(a) + i \in 1..(Len(a) + Len(b)) /\ ~(Len(a) + i <= Len(a))
        /\ (Len(a) + i) - Len(a) = i
    BY <1>2
  <2>2. x[Len(a) + i] = b[i]
    BY <1>3, <2>1
  <2>3. y[Len(a) + i] = c[i]
    BY <1>4, <1>5, <2>1
  <2> QED
    BY <1>1, <2>2, <2>3
<1> QED
  BY <1>5, <1>6, SeqEqual

\* An element behind it.
LEMMA CatOne ==
  ASSUME NEW T, NEW a \in Seq(T), NEW x \in T
  PROVE  Append(a, x) = Cat(a, <<x>>) /\ <<x>> \in Seq(T) /\ Len(<<x>>) = 1
<1>1. Append(a, x) = a \o <<x>>
  BY AppendIsConcat
<1>2. <<x>> \in Seq(T) /\ Len(<<x>>) = 1
  OBVIOUS
<1> QED
  BY <1>1, <1>2 DEF Cat

\* The first n elements, and the others.
Fore(s, n) == SubSeq(s, 1, n)
Aft(s, n) == SubSeq(s, n + 1, Len(s))

\* A sequence is cut at n.
LEMMA Halves ==
  ASSUME NEW T, NEW s \in Seq(T), NEW n \in 0..Len(s)
  PROVE  /\ Fore(s, n) \in Seq(T) /\ Aft(s, n) \in Seq(T)
         /\ Len(Fore(s, n)) = n /\ Len(Aft(s, n)) = Len(s) - n
         /\ Cat(Fore(s, n), Aft(s, n)) = s
<1>1. Len(s) \in Nat /\ n \in Nat /\ n <= Len(s)
  BY LenProperties
<1>2. Fore(s, n) \in Seq(T) /\ Len(Fore(s, n)) = n
  BY <1>1 DEF Fore
<1>3. Aft(s, n) \in Seq(T) /\ Len(Aft(s, n)) = Len(s) - n
  BY <1>1 DEF Aft
<1>4. SubSeq(s, 1, n) \o SubSeq(s, n + 1, Len(s)) = SubSeq(s, 1, Len(s))
  <2>1. 1 \in 1..(Len(s) + 1) /\ n \in (1 - 1)..Len(s) /\ Len(s) \in n..Len(s)
    BY <1>1
  <2> QED
    BY <2>1, ConcatAdjacentSubSeq
<1>5. SubSeq(s, 1, Len(s)) = s
  BY SubSeqFull
<1>6. Cat(Fore(s, n), Aft(s, n)) = s
  BY <1>4, <1>5 DEF Cat, Fore, Aft
<1>7. /\ Fore(s, n) \in Seq(T) /\ Aft(s, n) \in Seq(T)
      /\ Len(Fore(s, n)) = n /\ Len(Aft(s, n)) = Len(s) - n
  BY <1>2, <1>3
<1> QED
  BY <1>6, <1>7

-----------------------------------------------------------------------------
(* A block for every element.                                              *)

\* The blocks g of the elements of s, one behind the other.
FlatMap(g, s) == Rename!FlattenSeq([i \in DOMAIN s |-> g[s[i]]])

\* g has a block for each element of S.
Blocks(g, S, T) == g \in [S -> Seq(T)]

\* FlattenSeq is one operator.
LEMMA FlattenAlike == ASSUME NEW B PROVE Rename!FlattenSeq(B) = Edits!FlattenSeq(B)
BY DEF Rename!FlattenSeq, Edits!FlattenSeq

\* One block more.
LEMMA FlattenMore ==
  ASSUME NEW T, NEW m \in Nat, NEW B \in [1..(m + 1) -> Seq(T)], NEW A \in [1..m -> Seq(T)],
         \A i \in 1..m : A[i] = B[i]
  PROVE  /\ Rename!FlattenSeq(B) = Cat(Rename!FlattenSeq(A), B[m + 1])
         /\ Rename!FlattenSeq(A) \in Seq(T)
<1>1. m + 1 \in Nat
  OBVIOUS
<1>2. PICK more : Totals(more, T, m + 1, B)
  BY <1>1, SumsAre
<1>3. PICK sum : Totals(sum, T, m, A)
  BY SumsAre
<1> DEFINE W == {j \in 0..m : more[j] = sum[j]}
<1>4. 0 \in W
  BY <1>2, <1>3 DEF Totals
<1>5. ASSUME NEW j \in 0..m, j \in W, j < m PROVE j + 1 \in W
  <2>1. j + 1 \in 1..m /\ j + 1 \in 1..(m + 1) /\ (j + 1) - 1 = j /\ j + 1 \in 0..m
    BY <1>5
  <2>2. more[j + 1] = more[j] \o B[j + 1]
    BY <1>2, <2>1 DEF Totals
  <2>3. sum[j + 1] = sum[j] \o A[j + 1]
    BY <1>3, <2>1 DEF Totals
  <2>4. more[j] = sum[j] /\ A[j + 1] = B[j + 1]
    BY <1>5, <2>1
  <2> QED
    BY <2>1, <2>2, <2>3, <2>4
<1>6. m \in W
  <2>1. \A j \in 0..m : j \in W /\ j < m => j + 1 \in W
    BY <1>5
  <2>2. m \in 0..m
    OBVIOUS
  <2> HIDE DEF W
  <2> QED
    BY <1>4, <2>1, <2>2, Climb
<1>7. more[m] = sum[m]
  BY <1>6
<1>8. more[m + 1] = more[m] \o B[m + 1]
  <2>1. m + 1 \in 1..(m + 1) /\ (m + 1) - 1 = m
    OBVIOUS
  <2> QED
    BY <1>2, <2>1 DEF Totals
<1>9. Rename!FlattenSeq(B) = more[m + 1] /\ Rename!FlattenSeq(A) = sum[m]
  BY <1>2, <1>3, FlattenAlike DEF Totals
<1>10. sum[m] \in Seq(T)
  <2>1. m \in 0..m
    OBVIOUS
  <2> QED
    BY <1>3, <2>1 DEF Totals
<1> QED
  BY <1>7, <1>8, <1>9, <1>10 DEF Cat

\* The blocks of nothing, and of one element more.
LEMMA FlatMapMore ==
  ASSUME NEW S, NEW T, NEW g, Blocks(g, S, T), NEW s \in Seq(S), NEW x \in S
  PROVE  /\ FlatMap(g, Append(s, x)) = Cat(FlatMap(g, s), g[x])
         /\ FlatMap(g, s) \in Seq(T)
<1> DEFINE m == Len(s)
           B == [i \in DOMAIN Append(s, x) |-> g[Append(s, x)[i]]]
           A == [i \in DOMAIN s |-> g[s[i]]]
<1>1. m \in Nat /\ DOMAIN s = 1..m /\ \A i \in 1..m : s[i] \in S
  BY LenProperties, ElementOfSeq
<1>2. /\ DOMAIN Append(s, x) = 1..(m + 1) /\ Append(s, x)[m + 1] = x
      /\ \A i \in 1..m : Append(s, x)[i] = s[i]
  BY AppendProperties, LenProperties
<1>3. \A i \in 1..(m + 1) : Append(s, x)[i] \in S
  BY <1>1, <1>2
<1>4. B \in [1..(m + 1) -> Seq(T)] /\ B[m + 1] = g[x]
  BY <1>1, <1>2, <1>3 DEF Blocks
<1>5. A \in [1..m -> Seq(T)]
  BY <1>1 DEF Blocks
<1>6. \A i \in 1..m : A[i] = B[i]
  BY <1>1, <1>2
<1> HIDE DEF A, B
<1>7. /\ Rename!FlattenSeq(B) = Cat(Rename!FlattenSeq(A), B[m + 1])
      /\ Rename!FlattenSeq(A) \in Seq(T)
  BY <1>1, <1>4, <1>5, <1>6, FlattenMore
<1> QED
  BY <1>4, <1>7 DEF FlatMap, A, B

\* No blocks.
LEMMA FlatMapNone == ASSUME NEW g PROVE FlatMap(g, <<>>) = <<>>
BY DEF FlatMap, Rename!FlattenSeq

\* They are a sequence.
LEMMA FlatMapTypes ==
  ASSUME NEW S, NEW T, NEW g, Blocks(g, S, T), NEW s \in Seq(S)
  PROVE  FlatMap(g, s) \in Seq(T)
<1>1. CASE S = {}
  <2>1. s = <<>>
    BY <1>1, LenProperties
  <2> QED
    BY <2>1, FlatMapNone, EmptySeq
<1>2. CASE S # {}
  <2>1. PICK x \in S : TRUE
    BY <1>2
  <2>2. FlatMap(g, Append(s, x)) = Cat(FlatMap(g, s), g[x]) /\ FlatMap(g, s) \in Seq(T)
    BY FlatMapMore
  <2> QED
    BY <2>2
<1> QED
  BY <1>1, <1>2

\* The blocks of two sequences.
LEMMA FlatMapCat ==
  ASSUME NEW S, NEW T, NEW g, Blocks(g, S, T), NEW s \in Seq(S), NEW t \in Seq(S)
  PROVE  FlatMap(g, Cat(s, t)) = Cat(FlatMap(g, s), FlatMap(g, t))
<1> DEFINE W == {u \in Seq(S) : FlatMap(g, Cat(s, u)) = Cat(FlatMap(g, s), FlatMap(g, u))}
<1>0. \A u \in Seq(S) : FlatMap(g, u) \in Seq(T)
  BY FlatMapTypes
<1>1. <<>> \in W
  <2>1. Cat(s, <<>>) = s /\ FlatMap(g, <<>>) = <<>> /\ <<>> \in Seq(S)
    BY CatNone, FlatMapNone
  <2>2. Cat(FlatMap(g, s), <<>>) = FlatMap(g, s)
    BY <1>0, CatNone
  <2> QED
    BY <2>1, <2>2
<1>2. ASSUME NEW u \in Seq(S), NEW x \in S, u \in W PROVE Append(u, x) \in W
  <2> DEFINE y == <<x>>
             su == Cat(s, u)
             ux == Append(u, x)
  <2>1. ux = Cat(u, y) /\ y \in Seq(S) /\ ux \in Seq(S)
    BY CatOne
  <2>11. su \in Seq(S)
    BY CatTypes
  <2>12. Append(su, x) = Cat(su, y)
    BY <2>11, CatOne
  <2>13. FlatMap(g, ux) = Cat(FlatMap(g, u), g[x])
    BY FlatMapMore
  <2> HIDE DEF ux, y
  <2>2. Cat(s, ux) = Append(su, x)
    <3>1. Cat(Cat(s, u), y) = Cat(s, Cat(u, y))
      BY <2>1, CatMoves
    <3> QED
      BY <2>1, <2>12, <3>1
  <2>3. FlatMap(g, Append(su, x)) = Cat(FlatMap(g, su), g[x])
    BY <2>11, FlatMapMore
  <2>5. FlatMap(g, Cat(s, u)) = Cat(FlatMap(g, s), FlatMap(g, u))
    BY <1>2
  <2>6. Cat(Cat(FlatMap(g, s), FlatMap(g, u)), g[x]) = Cat(FlatMap(g, s), Cat(FlatMap(g, u), g[x]))
    BY <1>0, CatMoves DEF Blocks
  <2>7. ux \in W
    BY <2>1, <2>2, <2>3, <2>5, <2>6, <2>13
  <2> QED
    BY <2>7 DEF ux
<1>3. \A u \in Seq(S), x \in S : u \in W => Append(u, x) \in W
  BY <1>2
<1> HIDE DEF W
<1>4. Seq(S) \subseteq W
  BY <1>1, <1>3, SequencesAre
<1>5. t \in W
  BY <1>4
<1> QED
  BY <1>5 DEF W

-----------------------------------------------------------------------------
(* Texts in UTF-16.                                                        *)

Letters == {Narrow, WideChar}
Marks == Letters \cup {NL}
Unit == Marks \X Nat

\* The units of each character.
Coded == [c \in Marks |-> [u \in 1..Rename!Width(c) |-> <<c, u>>]]

\* There is at least one.
LEMMA CodedIs == Blocks(Coded, Marks, Unit) /\ \A c \in Marks : Len(Coded[c]) \in Nat /\ Len(Coded[c]) >= 1
<1>1. ASSUME NEW c \in Marks PROVE Coded[c] \in Seq(Unit) /\ Len(Coded[c]) \in Nat /\ Len(Coded[c]) >= 1
  <2> DEFINE w == Rename!Width(c)
             b == [u \in 1..w |-> <<c, u>>]
  <2>1. w \in {1, 2}
    BY DEF Rename!Width
  <2> HIDE DEF w
  <2>2. b \in [1..w -> Unit] /\ w \in Nat
    BY <2>1 DEF Unit
  <2> HIDE DEF b
  <2>3. b \in Seq(Unit) /\ Len(b) = w
    BY <2>2
  <2>4. Coded[c] = b
    BY DEF Coded, b, w
  <2> QED
    BY <2>1, <2>3, <2>4
<1>2. Coded = [c \in Marks |-> Coded[c]]
  BY DEF Coded
<1>3. Coded \in [Marks -> Seq(Unit)]
  BY <1>1, <1>2
<1> QED
  BY <1>1, <1>3 DEF Blocks

\* A text is coded character by character.
LEMMA Utf16Is == ASSUME NEW t \in Seq(Marks) PROVE Rename!Utf16(t) = FlatMap(Coded, t)
<1> DEFINE B == [i \in DOMAIN t |-> [u \in 1..Rename!Width(t[i]) |-> <<t[i], u>>]]
           A == [i \in DOMAIN t |-> Coded[t[i]]]
<1>1. \A i \in DOMAIN t : t[i] \in Marks
  BY LenProperties, ElementOfSeq
<1>2. \A i \in DOMAIN t : Coded[t[i]] = [u \in 1..Rename!Width(t[i]) |-> <<t[i], u>>]
  BY <1>1 DEF Coded
<1>3. A = B
  BY <1>2
<1>4. Rename!Utf16(t) = Rename!FlattenSeq(B)
  BY DEF Rename!Utf16
<1> HIDE DEF A, B
<1> QED
  BY <1>3, <1>4 DEF FlatMap, A

\* The units of a text.
LEMMA UnitsAre ==
  ASSUME NEW t \in Seq(Marks)
  PROVE  /\ Rename!Utf16(t) \in Seq(Unit) /\ Rename!Units(t) \in Nat
         /\ Len(Rename!Utf16(t)) = Rename!Units(t)
<1>1. Rename!Utf16(t) \in Seq(Unit)
  BY CodedIs, FlatMapTypes, Utf16Is
<1> QED
  BY <1>1, LenProperties DEF Rename!Units

\* The units of two texts.
LEMMA UnitsCat ==
  ASSUME NEW s \in Seq(Marks), NEW t \in Seq(Marks)
  PROVE  /\ Rename!Utf16(Cat(s, t)) = Cat(Rename!Utf16(s), Rename!Utf16(t))
         /\ Rename!Units(Cat(s, t)) = Rename!Units(s) + Rename!Units(t)
<1>1. Cat(s, t) \in Seq(Marks)
  BY CatTypes
<1>2. FlatMap(Coded, Cat(s, t)) = Cat(FlatMap(Coded, s), FlatMap(Coded, t))
  BY CodedIs, FlatMapCat
<1>3. Rename!Utf16(Cat(s, t)) = Cat(Rename!Utf16(s), Rename!Utf16(t))
  BY <1>1, <1>2, Utf16Is
<1>4. Len(Cat(Rename!Utf16(s), Rename!Utf16(t))) = Len(Rename!Utf16(s)) + Len(Rename!Utf16(t))
  BY UnitsAre, CatTypes
<1> QED
  BY <1>3, <1>4 DEF Rename!Units

\* Only the empty text has none.
LEMMA UnitsNone ==
  /\ Rename!Utf16(<<>>) = <<>> /\ Rename!Units(<<>>) = 0
  /\ \A t \in Seq(Marks) : t # <<>> => Rename!Units(t) >= 1
<1>1. Rename!Utf16(<<>>) = <<>>
  BY Utf16Is, FlatMapNone, EmptySeq
<1>2. Rename!Units(<<>>) = 0
  BY <1>1, EmptySeq DEF Rename!Units
<1>3. ASSUME NEW t \in Seq(Marks), t # <<>> PROVE Rename!Units(t) >= 1
  <2>1. PICK s \in Seq(Marks), x \in Marks : t = Append(s, x)
    BY <1>3, SequenceEmptyOrAppend
  <2>2. FlatMap(Coded, Append(s, x)) = Cat(FlatMap(Coded, s), Coded[x])
    BY CodedIs, FlatMapMore
  <2>3. Rename!Utf16(t) = Cat(Rename!Utf16(s), Coded[x])
    BY <2>1, <2>2, Utf16Is
  <2>4. Coded[x] \in Seq(Unit) /\ Len(Coded[x]) \in Nat /\ Len(Coded[x]) >= 1
    BY CodedIs DEF Blocks
  <2>5. Rename!Utf16(s) \in Seq(Unit) /\ Len(Rename!Utf16(s)) \in Nat
    BY UnitsAre
  <2>6. Len(Rename!Utf16(t)) = Len(Rename!Utf16(s)) + Len(Coded[x])
    BY <2>3, <2>4, <2>5, CatTypes
  <2>7. Len(Rename!Utf16(t)) >= 1
    BY <2>4, <2>5, <2>6
  <2> QED
    BY <2>7 DEF Rename!Units
<1> QED
  BY <1>1, <1>2, <1>3

-----------------------------------------------------------------------------
(* Documents.                                                              *)

Text == Seq(Marks)
Docs == Seq(Text)

\* Each line with its break.
Ended == [l \in Text |-> Cat(l, <<NL>>)]
Broken(d) == FlatMap(Ended, d)

\* What is behind a line: the break and the other lines, if any.
Behind(d) == IF d = <<>> THEN <<>> ELSE Cat(<<NL>>, Rename!Joined(d))

\* They are texts.
LEMMA EndedIs == Blocks(Ended, Text, Marks) /\ <<NL>> \in Text
<1>1. <<NL>> \in Text
  BY DEF Text, Marks
<1>2. \A l \in Text : Cat(l, <<NL>>) \in Text
  BY <1>1, CatTypes DEF Text
<1> QED
  BY <1>1, <1>2 DEF Ended, Blocks, Text

\* The lines broken, and one line more.
LEMMA BrokenMore ==
  ASSUME NEW d \in Docs, NEW l \in Text
  PROVE  /\ Broken(d) \in Text /\ Broken(Append(d, l)) = Cat(Broken(d), Cat(l, <<NL>>))
         /\ Broken(<<>>) = <<>>
<1>1. d \in Seq(Text) /\ Ended[l] = Cat(l, <<NL>>)
  BY DEF Docs, Ended
<1>2. FlatMap(Ended, Append(d, l)) = Cat(FlatMap(Ended, d), Ended[l])
  BY <1>1, EndedIs, FlatMapMore
<1>3. FlatMap(Ended, d) \in Seq(Marks)
  BY <1>1, EndedIs, FlatMapTypes
<1>4. FlatMap(Ended, <<>>) = <<>>
  BY FlatMapNone
<1> QED
  BY <1>1, <1>2, <1>3, <1>4 DEF Broken, Text

\* A document is its lines broken but the last.
LEMMA JoinedMore ==
  ASSUME NEW d \in Docs, NEW l \in Text
  PROVE  Rename!Joined(Append(d, l)) = Cat(Broken(d), l)
<1> DEFINE m == Len(d)
           e == Append(d, l)
           B == [i \in DOMAIN e |-> IF i < Len(e) THEN e[i] \o <<NL>> ELSE e[i]]
           A == [i \in DOMAIN d |-> Ended[d[i]]]
<1>1. m \in Nat /\ DOMAIN d = 1..m /\ \A i \in 1..m : d[i] \in Text
  BY LenProperties, ElementOfSeq DEF Docs
<1>2. /\ e \in Seq(Text) /\ Len(e) = m + 1 /\ DOMAIN e = 1..(m + 1) /\ e[m + 1] = l
      /\ \A i \in 1..m : e[i] = d[i]
  BY AppendProperties, LenProperties DEF Docs
<1>3. Rename!Joined(e) = Rename!FlattenSeq(B)
  BY DEF Rename!Joined
<1> HIDE DEF e, m
<1>4. ASSUME NEW i \in 1..m PROVE A[i] = B[i] /\ B[i] \in Text
  <2>1. i \in 1..(m + 1) /\ i < m + 1 /\ i \in DOMAIN d
    BY <1>1
  <2>2. B[i] = e[i] \o <<NL>> /\ A[i] = Ended[d[i]]
    BY <1>2, <2>1
  <2>3. Ended[d[i]] = Cat(d[i], <<NL>>)
    BY <1>1, <2>1 DEF Ended
  <2>4. Cat(d[i], <<NL>>) \in Text
    BY <1>1, EndedIs, CatTypes DEF Text
  <2> HIDE DEF A, B
  <2> QED
    BY <1>2, <2>2, <2>3, <2>4 DEF Cat
<1>5. B[m + 1] = l
  BY <1>1, <1>2
<1>6. DOMAIN B = 1..(m + 1) /\ DOMAIN A = 1..m
  BY <1>1, <1>2
<1>61. A = [i \in 1..m |-> A[i]] /\ B = [i \in 1..(m + 1) |-> B[i]]
  BY <1>1, <1>2
<1> HIDE DEF A, B
<1>7. B \in [1..(m + 1) -> Seq(Marks)] /\ A \in [1..m -> Seq(Marks)]
  <2>1. \A i \in 1..(m + 1) : i \in 1..m \/ i = m + 1
    BY <1>1
  <2>2. \A i \in 1..(m + 1) : B[i] \in Seq(Marks)
    BY <1>4, <1>5, <2>1 DEF Text
  <2>3. \A i \in 1..m : A[i] \in Seq(Marks)
    BY <1>4 DEF Text
  <2> QED
    BY <1>61, <2>2, <2>3
<1>8. \A i \in 1..m : A[i] = B[i]
  BY <1>4
<1>9. Rename!FlattenSeq(B) = Cat(Rename!FlattenSeq(A), B[m + 1])
  BY <1>1, <1>7, <1>8, FlattenMore
<1>10. Rename!FlattenSeq(A) = Broken(d)
  BY DEF A, Broken, FlatMap
<1> QED
  BY <1>3, <1>5, <1>9, <1>10 DEF e

\* A document is some lines, and a last one.
LEMMA DocIs ==
  ASSUME NEW d \in Docs, d # <<>>
  PROVE  \E e \in Docs, l \in Text : d = Append(e, l)
BY SequenceEmptyOrAppend DEF Docs

\* Joined lines are a text.
LEMMA JoinedTypes == ASSUME NEW d \in Docs PROVE Rename!Joined(d) \in Text
<1>1. CASE d = <<>>
  BY <1>1, EmptySeq DEF Rename!Joined, Rename!FlattenSeq, Text
<1>2. CASE d # <<>>
  <2>1. PICK e \in Docs, l \in Text : d = Append(e, l)
    BY <1>2, DocIs
  <2>2. Rename!Joined(d) = Cat(Broken(e), l) /\ Broken(e) \in Text
    BY <2>1, JoinedMore, BrokenMore
  <2> QED
    BY <2>2, CatTypes DEF Text
<1> QED
  BY <1>1, <1>2

\* One line.
LEMMA JoinedOne == ASSUME NEW l \in Text PROVE <<l>> \in Docs /\ Rename!Joined(<<l>>) = l
<1>1. <<>> \in Docs /\ Append(<<>>, l) = <<l>> /\ <<l>> \in Docs
  BY EmptySeq DEF Docs
<1>2. Rename!Joined(Append(<<>>, l)) = Cat(Broken(<<>>), l) /\ Broken(<<>>) = <<>>
  BY <1>1, JoinedMore, BrokenMore
<1>3. Cat(<<>>, l) = l
  BY CatNone DEF Text
<1> QED
  BY <1>1, <1>2, <1>3

\* Lines in front of lines.
LEMMA JoinedCat ==
  ASSUME NEW d \in Docs, NEW e \in Docs
  PROVE  /\ Broken(Cat(d, e)) = Cat(Broken(d), Broken(e))
         /\ e # <<>> => Rename!Joined(Cat(d, e)) = Cat(Broken(d), Rename!Joined(e))
<1>1. \A x, y \in Docs : Broken(Cat(x, y)) = Cat(Broken(x), Broken(y)) /\ Cat(x, y) \in Docs
  BY EndedIs, FlatMapCat, CatTypes DEF Docs, Broken
<1>2. ASSUME e # <<>> PROVE Rename!Joined(Cat(d, e)) = Cat(Broken(d), Rename!Joined(e))
  <2>1. PICK f \in Docs, l \in Text : e = Append(f, l)
    BY <1>2, DocIs
  <2>2. Cat(d, f) \in Docs
    BY <1>1
  <2>3. Cat(d, e) = Append(Cat(d, f), l)
    <3> DEFINE y == <<l>>
    <3>1. y \in Docs /\ Append(f, l) = Cat(f, y) /\ Append(Cat(d, f), l) = Cat(Cat(d, f), y)
      BY <2>2, CatOne DEF Docs
    <3> HIDE DEF y
    <3>2. Cat(Cat(d, f), y) = Cat(d, Cat(f, y))
      BY <3>1, CatMoves DEF Docs
    <3> QED
      BY <2>1, <3>1, <3>2
  <2>4. Rename!Joined(Cat(d, e)) = Cat(Broken(Cat(d, f)), l)
    BY <2>2, <2>3, JoinedMore
  <2>5. Rename!Joined(e) = Cat(Broken(f), l)
    BY <2>1, JoinedMore
  <2>6. Broken(d) \in Text /\ Broken(f) \in Text
    BY BrokenMore
  <2>7. Cat(Cat(Broken(d), Broken(f)), l) = Cat(Broken(d), Cat(Broken(f), l))
    BY <2>6, CatMoves DEF Text
  <2>8. Broken(Cat(d, f)) = Cat(Broken(d), Broken(f))
    BY <1>1
  <2> QED
    BY <2>4, <2>5, <2>7, <2>8
<1> QED
  BY <1>1, <1>2

\* And behind them.
LEMMA JoinedBehind ==
  ASSUME NEW d \in Docs, NEW e \in Docs, d # <<>>
  PROVE  Rename!Joined(Cat(d, e)) = Cat(Rename!Joined(d), Behind(e)) /\ Behind(e) \in Text
<1>1. PICK f \in Docs, l \in Text : d = Append(f, l)
  BY DocIs
<1>2. Rename!Joined(d) = Cat(Broken(f), l) /\ Broken(f) \in Text /\ Rename!Joined(d) \in Text
  BY <1>1, JoinedMore, BrokenMore, JoinedTypes
<1>3. CASE e = <<>>
  <2>1. Cat(d, e) = d /\ Behind(e) = <<>>
    BY <1>3, CatNone DEF Docs, Behind
  <2>2. Cat(Rename!Joined(d), <<>>) = Rename!Joined(d) /\ <<>> \in Text
    BY <1>2, CatNone, EmptySeq DEF Text
  <2> QED
    BY <2>1, <2>2
<1>4. CASE e # <<>>
  <2> DEFINE nl == <<NL>>
             j == Rename!Joined(e)
  <2>1. Rename!Joined(Cat(d, e)) = Cat(Broken(d), j) /\ j \in Text
    BY <1>4, JoinedCat, JoinedTypes
  <2>2. Broken(d) = Cat(Broken(f), Cat(l, nl)) /\ nl \in Text
    BY <1>1, BrokenMore, EndedIs
  <2>3. Behind(e) = Cat(nl, j)
    BY <1>4 DEF Behind
  <2> HIDE DEF nl, j
  <2>4. Cat(Broken(f), Cat(l, nl)) = Cat(Cat(Broken(f), l), nl)
    BY <1>2, <2>2, CatMoves DEF Text
  <2>5. Cat(Cat(Rename!Joined(d), nl), j) = Cat(Rename!Joined(d), Cat(nl, j)) /\ Cat(nl, j) \in Text
    BY <1>2, <2>1, <2>2, CatMoves, CatTypes DEF Text
  <2> QED
    BY <1>2, <2>1, <2>2, <2>3, <2>4, <2>5
<1> QED
  BY <1>3, <1>4

\* Lines between lines.
LEMMA JoinedAround ==
  ASSUME NEW d \in Docs, NEW ls \in Docs, NEW e \in Docs, ls # <<>>
  PROVE  /\ Rename!Joined(Cat(d, Cat(ls, e))) = Cat(Broken(d), Cat(Rename!Joined(ls), Behind(e)))
         /\ Broken(d) \in Text /\ Behind(e) \in Text /\ Rename!Joined(ls) \in Text
<1>1. Cat(ls, e) \in Docs /\ Cat(ls, e) # <<>>
  <2>1. Cat(ls, e) \in Docs /\ Len(Cat(ls, e)) = Len(ls) + Len(e)
    BY CatTypes DEF Docs
  <2>2. Len(ls) \in Nat /\ Len(e) \in Nat /\ Len(ls) # 0
    BY EmptySeq, LenProperties DEF Docs
  <2> QED
    BY <2>1, <2>2, EmptySeq
<1>2. Rename!Joined(Cat(d, Cat(ls, e))) = Cat(Broken(d), Rename!Joined(Cat(ls, e)))
  BY <1>1, JoinedCat
<1>3. Rename!Joined(Cat(ls, e)) = Cat(Rename!Joined(ls), Behind(e)) /\ Behind(e) \in Text
  BY JoinedBehind
<1> QED
  BY <1>2, <1>3, BrokenMore, JoinedTypes

-----------------------------------------------------------------------------
(* Lines.                                                                  *)

\* Lines without breaks in them; there is always one.
Clean == Seq(Seq(Letters))
Leaves == Clean \ {<<>>}

\* They are a document.
LEMMA CleanIsDoc == Clean \subseteq Docs /\ Seq(Letters) \subseteq Text /\ <<<<>>>> \in Leaves
<1>1. Letters \subseteq Marks
  BY DEF Marks
<1>2. Seq(Letters) \subseteq Text
  BY <1>1, SeqMonotonic DEF Text
<1>3. Clean \subseteq Docs
  BY <1>2, SeqMonotonic DEF Clean, Docs
<1>4. <<>> \in Seq(Letters)
  BY EmptySeq
<1> DEFINE none == <<>>
<1> HIDE DEF none
<1>5. \A l \in Seq(Letters) : <<l>> \in Clean /\ <<l>> # <<>>
  BY DEF Clean
<1> QED
  BY <1>2, <1>3, <1>4, <1>5 DEF Leaves

\* The lines, and one character more.
More(ls, c) == IF c = NL THEN Append(ls, <<>>) ELSE [ls EXCEPT ![Len(ls)] = Append(@, c)]

\* The last line, or a new one, takes it.
LEMMA MoreIs ==
  ASSUME NEW ls \in Leaves, NEW c \in Marks
  PROVE  /\ More(ls, c) \in Leaves /\ Rename!Joined(More(ls, c)) = Append(Rename!Joined(ls), c)
         /\ Len(ls) = 1 /\ c # NL => More(ls, c) = <<Append(ls[1], c)>>
         /\ More(ls, c)[1] \in {ls[1], Append(ls[1], c)} /\ ls[1] \in Seq(Letters)
<1>1. ls \in Clean /\ ls # <<>> /\ Len(ls) \in Nat /\ Len(ls) >= 1 /\ DOMAIN ls = 1..Len(ls)
  BY EmptySeq, LenProperties DEF Leaves, Clean
<1>2. PICK f \in Clean, l \in Seq(Letters) : ls = Append(f, l)
  BY <1>1, SequenceEmptyOrAppend DEF Clean
<1>3. /\ Len(ls) = Len(f) + 1 /\ Len(f) \in Nat /\ ls[Len(ls)] = l
      /\ \A i \in 1..Len(f) : ls[i] = f[i]
  BY <1>2, AppendProperties, LenProperties DEF Clean
<1>31. Len(ls) = 1 => Len(f) = 0
  <2>1. \A m, n \in Nat : m = n + 1 /\ m = 1 => n = 0
    OBVIOUS
  <2> DEFINE m == Len(ls)
             n == Len(f)
  <2>2. m \in Nat /\ n \in Nat /\ m = n + 1
    BY <1>1, <1>3
  <2> HIDE DEF m, n
  <2>3. m = 1 => n = 0
    BY <2>1, <2>2
  <2> QED
    BY <2>3 DEF m, n
<1>4. f \in Docs /\ l \in Text /\ ls \in Docs /\ <<>> \in Text /\ <<>> \in Seq(Letters)
  BY <1>1, CleanIsDoc, EmptySeq DEF Text
<1>5. ls[1] \in Seq(Letters)
  BY <1>1, ElementOfSeq DEF Clean
<1>6. Rename!Joined(ls) = Cat(Broken(f), l) /\ Broken(f) \in Text /\ Rename!Joined(ls) \in Text
  BY <1>2, <1>4, JoinedMore, BrokenMore, JoinedTypes
<1> DEFINE y == <<c>>
<1>7. /\ y \in Text /\ Append(Rename!Joined(ls), c) = Cat(Rename!Joined(ls), y)
      /\ Append(l, c) = Cat(l, y)
  BY <1>4, <1>6, CatOne DEF Text
<1> HIDE DEF y
<1>8. Append(Rename!Joined(ls), c) = Cat(Broken(f), Cat(l, y)) /\ Cat(l, y) \in Text
  BY <1>4, <1>6, <1>7, CatMoves, CatTypes DEF Text
<1>9. CASE c = NL
  <2> DEFINE new == <<>>
  <2>0. new \in Text /\ new \in Seq(Letters)
    BY <1>4
  <2> HIDE DEF new
  <2>1. More(ls, c) = Append(ls, new)
    BY <1>9 DEF More, new
  <2>2. Append(ls, new) \in Clean /\ Append(ls, new) # <<>> /\ Append(ls, new)[1] = ls[1]
    <3>1. ls \in Seq(Seq(Letters)) /\ 1 \in 1..Len(ls)
      BY <1>1 DEF Clean
    <3>2. /\ Append(ls, new) \in Seq(Seq(Letters)) /\ Append(ls, new) # <<>>
          /\ \A i \in 1..Len(ls) : Append(ls, new)[i] = ls[i]
      BY <2>0, <3>1, AppendProperties
    <3> QED
      BY <3>1, <3>2 DEF Clean
  <2>3. Rename!Joined(Append(ls, new)) = Cat(Broken(ls), new)
    BY <1>4, <2>0, JoinedMore
  <2>4. Broken(ls) = Cat(Broken(f), Cat(l, y)) /\ Broken(ls) \in Text
    BY <1>2, <1>4, <1>9, BrokenMore DEF y
  <2>5. Cat(Broken(ls), new) = Broken(ls)
    BY <2>4, CatNone DEF new, Text
  <2> QED
    BY <1>5, <1>8, <1>9, <2>1, <2>2, <2>3, <2>4, <2>5 DEF Leaves
<1>10. CASE c # NL
  <2>1. c \in Letters
    BY <1>10 DEF Marks
  <2> DEFINE k == Append(l, c)
             n == [ls EXCEPT ![Len(ls)] = Append(@, c)]
  <2>2. k \in Seq(Letters) /\ k \in Text
    BY <2>1, AppendProperties, CleanIsDoc
  <2>3. n = [ls EXCEPT ![Len(ls)] = k]
    BY <1>1, <1>3
  <2> HIDE DEF n
  <2>4. /\ n \in Clean /\ Len(n) = Len(ls)
        /\ \A j \in 1..Len(ls) : n[j] = IF j = Len(ls) THEN k ELSE ls[j]
    <3>1. Len(ls) \in 1..Len(ls)
      BY <1>1
    <3> QED
      BY <1>1, <2>2, <2>3, <3>1, ExceptSeq DEF Clean
  <2>5. n = Append(f, k)
    <3>1. /\ Append(f, k) \in Clean /\ Len(Append(f, k)) = Len(f) + 1
          /\ Append(f, k)[Len(f) + 1] = k /\ \A j \in 1..Len(f) : Append(f, k)[j] = f[j]
      BY <2>2, AppendProperties DEF Clean
    <3>2. ASSUME NEW j \in 1..Len(n) PROVE n[j] = Append(f, k)[j]
      <4>1. j \in 1..Len(f) \/ j = Len(f) + 1
        BY <1>3, <2>4
      <4>2. CASE j = Len(f) + 1
        BY <1>3, <2>4, <3>1, <4>2
      <4>3. CASE j \in 1..Len(f)
        <5>1. j # Len(ls) /\ j \in 1..Len(ls)
          BY <1>3, <4>3
        <5> QED
          BY <1>3, <2>4, <3>1, <4>3, <5>1
      <4> QED
        BY <4>1, <4>2, <4>3
    <3> QED
      BY <1>3, <2>4, <3>1, <3>2, SeqEqual DEF Clean
  <2>6. Rename!Joined(n) = Cat(Broken(f), k)
    BY <1>4, <2>2, <2>5, JoinedMore
  <2>7. n # <<>>
    <3>1. Len(n) >= 1 /\ Len(<<>>) = 0
      BY <1>1, <2>4, EmptySeq
    <3> QED
      BY <3>1
  <2>8. n[1] \in {ls[1], Append(ls[1], c)}
    <3>1. 1 \in 1..Len(ls)
      BY <1>1
    <3>2. CASE Len(ls) = 1
      BY <1>3, <2>4, <3>1, <3>2 DEF k
    <3>3. CASE Len(ls) # 1
      BY <2>4, <3>1, <3>3
    <3> QED
      BY <3>2, <3>3
  <2>9. ASSUME Len(ls) = 1 PROVE n = <<Append(ls[1], c)>>
    <3>1. Len(f) = 0
      BY <1>31, <2>9
    <3>2. f = <<>>
      <4>1. f # <<>> => Len(f) \in Nat \ {0}
        BY EmptySeq DEF Clean
      <4> QED
        BY <3>1, <4>1
    <3>3. l = ls[1]
      BY <1>3, <2>9
    <3> QED
      BY <2>5, <3>2, <3>3 DEF k
  <2>10. More(ls, c) = n
    BY <1>10 DEF More, n
  <2> HIDE DEF k
  <2>11. k = Cat(l, y)
    BY <1>7 DEF k
  <2> QED
    BY <1>5, <1>8, <2>4, <2>6, <2>7, <2>8, <2>9, <2>10, <2>11 DEF Leaves
<1> QED
  BY <1>9, <1>10

\* The lines of the first characters of t, from none to n.
AreLines(up, t, n) ==
  up = [i \in 0..n |-> IF i = 0 THEN <<<<>>>> ELSE More(up[i - 1], t[i])]

\* There are such lines, for any text.
LEMMA LinesExist ==
  ASSUME NEW t \in Text, NEW m \in Nat, m = Len(t)
  PROVE  \E up \in [0..m -> Leaves] : AreLines(up, t, m)
<1> DEFINE W == {n \in 0..m : \E up \in [0..n -> Leaves] : AreLines(up, t, n)}
<1>1. 0 \in W
  <2> DEFINE one == [i \in 0..0 |-> <<<<>>>>]
  <2>1. \A i \in 0..0 : i = 0
    OBVIOUS
  <2>2. one \in [0..0 -> Leaves]
    BY CleanIsDoc
  <2>3. AreLines(one, t, 0)
    BY <2>1 DEF AreLines
  <2> HIDE DEF one
  <2>4. 0 \in 0..m
    OBVIOUS
  <2> QED
    BY <2>2, <2>3, <2>4
<1>2. ASSUME NEW n \in 0..m, n \in W, n < m PROVE n + 1 \in W
  <2>1. PICK up \in [0..n -> Leaves] : AreLines(up, t, n)
    BY <1>2
  <2>2. n + 1 \in 0..m /\ n + 1 \in 1..Len(t) /\ n \in Nat
    BY <1>2
  <2> DEFINE longest == More(up[n], t[n + 1])
             more == [i \in 0..(n + 1) |-> IF i = n + 1 THEN longest ELSE up[i]]
  <2>3. longest \in Leaves
    <3>1. up[n] \in Leaves /\ t[n + 1] \in Marks
      BY <2>1, <2>2, ElementOfSeq DEF Text
    <3> QED
      BY <3>1, MoreIs
  <2> HIDE DEF longest
  <2>4. more \in [0..(n + 1) -> Leaves]
    <3>1. \A i \in 0..(n + 1) : i # n + 1 => i \in 0..n
      BY <2>2
    <3> QED
      BY <2>1, <2>3, <3>1
  <2>5. ASSUME NEW i \in 0..(n + 1)
        PROVE  more[i] = IF i = 0 THEN <<<<>>>> ELSE More(more[i - 1], t[i])
    <3>1. CASE i <= n
      <4>1. i \in 0..n /\ more[i] = up[i] /\ (i # 0 => i - 1 \in 0..n /\ more[i - 1] = up[i - 1])
        BY <2>2, <3>1
      <4>2. up[i] = IF i = 0 THEN <<<<>>>> ELSE More(up[i - 1], t[i])
        BY <2>1, <4>1 DEF AreLines
      <4> QED
        BY <4>1, <4>2
    <3>2. CASE i = n + 1
      <4>1. more[i] = longest /\ i # 0 /\ i - 1 = n /\ more[n] = up[n]
        BY <2>2, <3>2
      <4> QED
        BY <3>2, <4>1 DEF longest
    <3> QED
      BY <2>2, <3>1, <3>2
  <2>6. AreLines(more, t, n + 1)
    BY <2>4, <2>5 DEF AreLines
  <2> QED
    BY <2>2, <2>4, <2>6
<1>3. m \in W
  <2>1. \A n \in 0..m : n \in W /\ n < m => n + 1 \in W
    BY <1>2
  <2>2. m \in 0..m
    OBVIOUS
  <2> HIDE DEF W
  <2> QED
    BY <1>1, <2>1, <2>2, Climb
<1> QED
  BY <1>3

\* The lines of the first characters, and what Lines computes.
Grows(up, t) ==
  /\ \A n \in 0..Len(t) : up[n] \in Leaves
  /\ up[0] = <<<<>>>> /\ \A n \in 1..Len(t) : up[n] = More(up[n - 1], t[n])
  /\ Rename!Lines(t) = up[Len(t)]

\* Lines computes them.
LEMMA LinesGrow == ASSUME NEW t \in Text PROVE \E up : Grows(up, t)
<1> DEFINE up == CHOOSE u : AreLines(u, t, Len(t))
<1>1. Len(t) \in Nat
  BY LenProperties DEF Text
<1>2. AreLines(up, t, Len(t))
  <2>1. \E u : AreLines(u, t, Len(t))
    BY <1>1, LinesExist
  <2> QED
    BY <2>1
<1>3. Rename!Lines(t) = up[Len(t)]
  BY DEF Rename!Lines, AreLines, More
<1> HIDE DEF up
<1>4. \A n \in 0..Len(t) : up[n] = IF n = 0 THEN <<<<>>>> ELSE More(up[n - 1], t[n])
  BY <1>2 DEF AreLines
<1>5. up[0] = <<<<>>>> /\ \A n \in 1..Len(t) : up[n] = More(up[n - 1], t[n])
  BY <1>1, <1>4
<1> DEFINE W == {n \in 0..Len(t) : up[n] \in Leaves}
<1>6. 0 \in W
  BY <1>1, <1>5, CleanIsDoc
<1>7. ASSUME NEW n \in 0..Len(t), n \in W, n < Len(t) PROVE n + 1 \in W
  <2>1. n + 1 \in 1..Len(t) /\ n + 1 \in 0..Len(t) /\ (n + 1) - 1 = n
    BY <1>1, <1>7
  <2>2. t[n + 1] \in Marks
    BY <2>1, ElementOfSeq DEF Text
  <2>3. up[n + 1] = More(up[n], t[n + 1]) /\ up[n] \in Leaves
    BY <1>5, <1>7, <2>1
  <2>4. More(up[n], t[n + 1]) \in Leaves
    BY <2>2, <2>3, MoreIs
  <2> QED
    BY <2>1, <2>3, <2>4
<1>8. \A n \in 0..Len(t) : n \in W
  <2>1. \A n \in 0..Len(t) : n \in W /\ n < Len(t) => n + 1 \in W
    BY <1>7
  <2> HIDE DEF W
  <2> QED
    BY <1>1, <1>6, <2>1, Climb
<1> QED
  BY <1>3, <1>5, <1>8 DEF Grows

\* The lines of a text, joined, are the text.
LEMMA LinesJoin ==
  ASSUME NEW t \in Text
  PROVE  Rename!Lines(t) \in Leaves /\ Rename!Joined(Rename!Lines(t)) = t
<1>1. PICK up : Grows(up, t)
  BY LinesGrow
<1>2. Len(t) \in Nat /\ t \in Seq(Marks)
  BY LenProperties DEF Text
<1> DEFINE W == {n \in 0..Len(t) : Rename!Joined(up[n]) = Fore(t, n)}
<1>3. 0 \in W
  <2>1. Rename!Joined(<<<<>>>>) = <<>>
    <3>1. <<>> \in Text
      BY EmptySeq DEF Text
    <3> DEFINE l == <<>>
    <3> HIDE DEF l
    <3>2. \A x \in Text : Rename!Joined(<<x>>) = x
      BY JoinedOne
    <3> QED
      BY <3>1, <3>2
  <2>2. Fore(t, 0) = <<>>
    BY <1>2 DEF Fore
  <2> QED
    BY <1>1, <1>2, <2>1, <2>2 DEF Grows
<1>4. ASSUME NEW n \in 0..Len(t), n \in W, n < Len(t) PROVE n + 1 \in W
  <2>1. n + 1 \in 1..Len(t) /\ n + 1 \in 0..Len(t) /\ (n + 1) - 1 = n
    BY <1>2, <1>4
  <2>2. t[n + 1] \in Marks
    BY <2>1, ElementOfSeq DEF Text
  <2>3. up[n + 1] = More(up[n], t[n + 1]) /\ up[n] \in Leaves
    BY <1>1, <2>1 DEF Grows
  <2>4. Rename!Joined(up[n + 1]) = Append(Fore(t, n), t[n + 1])
    BY <1>4, <2>2, <2>3, MoreIs
  <2>5. Append(Fore(t, n), t[n + 1]) = Fore(t, n + 1)
    <3>1. Fore(t, n + 1) = SubSeq(t, 1, n) \o <<t[n + 1]>>
      <4>1. 1 \in 1..Len(t) /\ n + 1 \in 1..Len(t)
        BY <1>2, <2>1
      <4> QED
        BY <1>2, <2>1, <4>1, SubSeqRecursiveSecond DEF Fore
    <3>2. Fore(t, n) \in Seq(Marks)
      BY <1>2, Halves
    <3>3. Append(Fore(t, n), t[n + 1]) = Fore(t, n) \o <<t[n + 1]>>
      BY <2>2, <3>2, AppendIsConcat
    <3> QED
      BY <3>1, <3>3 DEF Fore
  <2> QED
    BY <2>1, <2>4, <2>5
<1>5. Len(t) \in W
  <2>1. \A n \in 0..Len(t) : n \in W /\ n < Len(t) => n + 1 \in W
    BY <1>4
  <2>2. Len(t) \in 0..Len(t)
    BY <1>2
  <2> HIDE DEF W
  <2>3. \A n \in 0..Len(t) : n \in W
    BY <1>2, <1>3, <2>1, Climb
  <2> QED
    BY <2>2, <2>3
<1>6. Fore(t, Len(t)) = t
  BY <1>2, SubSeqFull DEF Fore
<1>7. Len(t) \in 0..Len(t)
  BY <1>2
<1> QED
  BY <1>1, <1>5, <1>6, <1>7 DEF Grows

\* A sequence of one line.
LEMMA OneLine == ASSUME NEW l PROVE Len(<<l>>) = 1 /\ <<l>>[1] = l
OBVIOUS

\* What is in front of a break stays in the first line.
LEMMA LinesBegin ==
  ASSUME NEW t \in Text, NEW k \in 0..Len(t), Fore(t, k) \in Seq(Letters)
  PROVE  LET first == Rename!Lines(t)[1]
         IN  first \in Seq(Letters) /\ Len(first) >= k /\ Fore(first, k) = Fore(t, k)
<1>1. PICK up : Grows(up, t)
  BY LinesGrow
<1>2. Len(t) \in Nat /\ k \in Nat /\ k <= Len(t) /\ t \in Seq(Marks)
  BY LenProperties DEF Text
<1>3. ASSUME NEW n \in 0..Len(t), n < Len(t)
      PROVE  /\ n + 1 \in 1..Len(t) /\ n + 1 \in 0..Len(t) /\ n \in Nat
             /\ t[n + 1] \in Marks /\ up[n] \in Leaves /\ up[n + 1] = More(up[n], t[n + 1])
             /\ Fore(t, n + 1) = Append(Fore(t, n), t[n + 1])
  <2>1. n + 1 \in 1..Len(t) /\ n + 1 \in 0..Len(t) /\ (n + 1) - 1 = n /\ 1 \in 1..Len(t) /\ n \in Nat
    BY <1>2, <1>3
  <2>2. t[n + 1] \in Marks
    BY <2>1, ElementOfSeq DEF Text
  <2>3. up[n + 1] = More(up[n], t[n + 1]) /\ up[n] \in Leaves
    BY <1>1, <2>1 DEF Grows
  <2>4. Fore(t, n + 1) = SubSeq(t, 1, n) \o <<t[n + 1]>>
    BY <1>2, <2>1, SubSeqRecursiveSecond DEF Fore
  <2>5. Fore(t, n) \in Seq(Marks)
    BY <1>2, Halves
  <2>6. Append(Fore(t, n), t[n + 1]) = Fore(t, n) \o <<t[n + 1]>>
    BY <2>2, <2>5, AppendIsConcat
  <2>7. Fore(t, n + 1) = Append(Fore(t, n), t[n + 1])
    BY <2>4, <2>6 DEF Fore
  <2> QED
    BY <2>1, <2>2, <2>3, <2>7
<1> DEFINE V == {n \in 0..k : up[n] = <<Fore(t, n)>>}
<1>4. 0 \in V
  <2>1. Fore(t, 0) = <<>>
    BY <1>2 DEF Fore
  <2> QED
    BY <1>1, <1>2, <2>1 DEF Grows
<1>5. ASSUME NEW n \in 0..k, n \in V, n < k PROVE n + 1 \in V
  <2>1. n \in 0..Len(t) /\ n < Len(t) /\ n + 1 \in 0..k /\ n + 1 \in 1..k
    BY <1>2, <1>5
  <2>2. t[n + 1] \in Marks /\ up[n] \in Leaves /\ up[n + 1] = More(up[n], t[n + 1])
    BY <1>3, <2>1
  <2>3. t[n + 1] # NL
    <3>1. Len(Fore(t, k)) = k
      BY <1>2, Halves
    <3>2. Fore(t, k)[n + 1] \in Letters
      BY <2>1, <3>1, ElementOfSeq
    <3>3. Fore(t, k)[n + 1] = t[n + 1]
      BY <1>2, <2>1 DEF Fore
    <3> QED
      BY <3>2, <3>3, RecordsAssumption DEF Letters
  <2>4. up[n] = <<Fore(t, n)>> /\ Len(up[n]) = 1 /\ up[n][1] = Fore(t, n)
    BY <1>5, OneLine
  <2>5. up[n + 1] = <<Append(Fore(t, n), t[n + 1])>>
    BY <2>2, <2>3, <2>4, MoreIs
  <2>6. Fore(t, n + 1) = Append(Fore(t, n), t[n + 1])
    BY <1>3, <2>1
  <2> QED
    BY <2>1, <2>5, <2>6
<1>6. up[k] = <<Fore(t, k)>>
  <2>1. \A n \in 0..k : n \in V /\ n < k => n + 1 \in V
    BY <1>5
  <2>2. k \in 0..k
    BY <1>2
  <2> HIDE DEF V
  <2>3. \A n \in 0..k : n \in V
    BY <1>2, <1>4, <2>1, Climb
  <2>4. k \in V
    BY <2>2, <2>3
  <2> QED
    BY <2>4 DEF V
<1> DEFINE Same(l) == l \in Seq(Letters) /\ Len(l) >= k /\ Fore(l, k) = Fore(t, k)
           W == {n \in 0..Len(t) : n >= k => Same(up[n][1])}
<1>7. ASSUME NEW n \in 0..Len(t), n = k PROVE n \in W
  <2>1. up[n][1] = Fore(t, k)
    BY <1>6, <1>7, OneLine
  <2>2. Len(Fore(t, k)) = k
    BY <1>2, Halves
  <2>3. Fore(Fore(t, k), k) = Fore(t, k)
    BY <2>2, SubSeqFull DEF Fore
  <2>4. Same(Fore(t, k))
    BY <1>2, <2>2, <2>3
  <2> QED
    BY <2>1, <2>4
<1>8. 0 \in W
  <2>1. CASE k = 0
    BY <1>2, <1>7, <2>1
  <2>2. CASE k # 0
    BY <1>2, <2>2
  <2> QED
    BY <2>1, <2>2
<1>9. ASSUME NEW n \in 0..Len(t), n \in W, n < Len(t) PROVE n + 1 \in W
  <2>1. /\ n + 1 \in 0..Len(t) /\ n \in Nat
        /\ t[n + 1] \in Marks /\ up[n] \in Leaves /\ up[n + 1] = More(up[n], t[n + 1])
    BY <1>3, <1>9
  <2>2. CASE n + 1 = k
    BY <1>7, <2>1, <2>2
  <2>3. CASE n + 1 < k
    BY <1>2, <2>1, <2>3
  <2>4. CASE n >= k
    <3>1. Same(up[n][1])
      BY <1>9, <2>4
    <3> DEFINE l == up[n][1]
               x == t[n + 1]
    <3>2. More(up[n], x)[1] \in {l, Append(l, x)}
      BY <2>1, MoreIs
    <3>3. up[n + 1][1] \in Seq(Letters)
      <4>1. More(up[n], t[n + 1]) \in Leaves
        BY <2>1, MoreIs
      <4>2. up[n + 1] \in Seq(Seq(Letters)) /\ up[n + 1] # <<>>
        BY <2>1, <4>1 DEF Leaves, Clean
      <4>3. 1 \in 1..Len(up[n + 1])
        BY <4>2, EmptySeq
      <4> QED
        BY <4>2, <4>3, ElementOfSeq
    <3>4. l \in Seq(Marks) /\ Len(l) \in Nat /\ Len(l) >= k /\ Fore(l, k) = Fore(t, k)
      BY <3>1, CleanIsDoc, LenProperties DEF Text
    <3>5. x \in Marks
      BY <2>1
    <3> HIDE DEF l, x
    <3>6. Len(Append(l, x)) >= k /\ Fore(Append(l, x), k) = Fore(t, k)
      <4>1. /\ Append(l, x) \in Seq(Marks) /\ Len(Append(l, x)) = Len(l) + 1
            /\ \A i \in 1..Len(l) : Append(l, x)[i] = l[i]
        BY <3>4, <3>5, AppendProperties
      <4>2. Len(Append(l, x)) >= k
        BY <1>2, <3>4, <4>1
      <4> DEFINE a == Append(l, x)
      <4>3. k \in 0..Len(a) /\ k \in 0..Len(l) /\ a \in Seq(Marks)
        BY <1>2, <3>4, <4>1
      <4>4. \A i \in 1..k : a[i] = l[i]
        BY <1>2, <3>4, <4>1
      <4> HIDE DEF a
      <4>5. /\ Fore(a, k) \in Seq(Marks) /\ Len(Fore(a, k)) = k
            /\ Fore(l, k) \in Seq(Marks) /\ Len(Fore(l, k)) = k
        BY <3>4, <4>3, Halves
      <4>6. \A i \in 1..k : Fore(a, k)[i] = a[i] /\ Fore(l, k)[i] = l[i]
        BY <1>2, <3>4, <4>3 DEF Fore
      <4>7. Fore(a, k) = Fore(l, k)
        BY <4>4, <4>5, <4>6, SeqEqual
      <4> QED
        BY <3>4, <4>2, <4>7 DEF a
    <3>7. Same(up[n + 1][1])
      BY <2>1, <3>2, <3>3, <3>4, <3>6 DEF x
    <3> QED
      BY <2>1, <3>7
  <2>5. n + 1 = k \/ n + 1 < k \/ n >= k
    BY <1>2, <2>1
  <2> QED
    BY <2>2, <2>3, <2>4, <2>5
<1>10. Len(t) \in W
  <2>1. \A n \in 0..Len(t) : n \in W /\ n < Len(t) => n + 1 \in W
    BY <1>9
  <2>2. Len(t) \in 0..Len(t)
    BY <1>2
  <2> HIDE DEF W
  <2>3. \A n \in 0..Len(t) : n \in W
    BY <1>2, <1>8, <2>1, Climb
  <2> QED
    BY <2>2, <2>3
<1>11. Same(up[Len(t)][1])
  BY <1>2, <1>10
<1> QED
  BY <1>1, <1>11 DEF Grows

-----------------------------------------------------------------------------
(* A position cuts a document in two.                                      *)

\* What is in front of character k of the line behind the first n, and the rest.
Point(d, n, k) == Cat(Broken(Fore(d, n)), Fore(d[n + 1], k))
Beyond(d, n, k) == Cat(Aft(d[n + 1], k), Behind(Aft(d, n + 1)))

\* The line, and the lines around it.
Around(d, n) ==
  /\ d[n + 1] \in Text /\ Fore(d, n) \in Docs /\ Aft(d, n + 1) \in Docs
  /\ Cat(Fore(d, n), Cat(<<d[n + 1]>>, Aft(d, n + 1))) = d

\* They are the document.
LEMMA LineAround ==
  ASSUME NEW d \in Docs, NEW n \in Nat, n < Len(d)
  PROVE  Around(d, n)
<1>1. Len(d) \in Nat /\ n \in 0..Len(d) /\ n + 1 \in 0..Len(d) /\ n + 1 \in 1..Len(d) /\ d \in Seq(Text)
  BY LenProperties DEF Docs
<1>2. d[n + 1] \in Text
  BY <1>1, ElementOfSeq
<1>3. Fore(d, n) \in Docs /\ Cat(Fore(d, n), Aft(d, n)) = d
  BY <1>1, Halves DEF Docs
<1>4. Aft(d, n + 1) \in Docs
  BY <1>1, Halves DEF Docs
<1>5. Aft(d, n) = Cat(<<d[n + 1]>>, Aft(d, n + 1))
  <2>1. Len(d) \in (n + 1)..Len(d)
    BY <1>1
  <2>2. SubSeq(d, n + 1, Len(d)) = <<d[n + 1]>> \o SubSeq(d, (n + 1) + 1, Len(d))
    BY <1>1, <2>1, SubSeqRecursiveFirst
  <2> QED
    BY <2>2 DEF Aft, Cat
<1> QED
  BY <1>2, <1>3, <1>4, <1>5 DEF Around

\* A document is what is in front of a position and what is behind it.
IsCut(d, n, k) ==
  /\ Rename!Joined(d) = Cat(Point(d, n, k), Beyond(d, n, k))
  /\ Point(d, n, k) \in Text /\ Beyond(d, n, k) \in Text
  /\ Broken(Fore(d, n)) \in Text /\ Fore(d[n + 1], k) \in Text
  /\ Aft(d[n + 1], k) \in Text /\ Behind(Aft(d, n + 1)) \in Text

\* It is, at every position.
LEMMA CutDoc ==
  ASSUME NEW d \in Docs, NEW n \in Nat, n < Len(d), NEW k \in 0..Len(d[n + 1])
  PROVE  IsCut(d, n, k)
<1> DEFINE x == Fore(d, n)
           y == Aft(d, n + 1)
           l == d[n + 1]
           ls == <<l>>
<1>1. l \in Text /\ x \in Docs /\ y \in Docs /\ Cat(x, Cat(ls, y)) = d
  BY LineAround DEF Around
<1> HIDE DEF x, y
<1>2. ls \in Docs /\ Rename!Joined(ls) = l
  BY <1>1, JoinedOne
<1>3. ls # <<>>
  OBVIOUS
<1> HIDE DEF l, ls
<1>4. /\ Rename!Joined(d) = Cat(Broken(x), Cat(l, Behind(y)))
      /\ Broken(x) \in Text /\ Behind(y) \in Text
  BY <1>1, <1>2, <1>3, JoinedAround
<1>5. k \in 0..Len(l)
  BY DEF l
<1>6. Fore(l, k) \in Text /\ Aft(l, k) \in Text /\ Cat(Fore(l, k), Aft(l, k)) = l
  BY <1>1, <1>5, Halves DEF Text
<1> DEFINE a == Broken(x)
           b == Fore(l, k)
           c == Aft(l, k)
           e == Behind(y)
<1>7. a \in Text /\ b \in Text /\ c \in Text /\ e \in Text /\ Cat(b, c) = l
      /\ Rename!Joined(d) = Cat(a, Cat(l, e))
  BY <1>4, <1>6
<1>8. Point(d, n, k) = Cat(a, b) /\ Beyond(d, n, k) = Cat(c, e)
  BY DEF Point, Beyond, a, b, c, e, x, y, l
<1> HIDE DEF a, b, c, e
<1>9. Cat(Cat(b, c), e) = Cat(b, Cat(c, e)) /\ Cat(c, e) \in Text /\ Cat(a, b) \in Text
  BY <1>7, CatMoves, CatTypes DEF Text
<1>10. Cat(Cat(a, b), Cat(c, e)) = Cat(a, Cat(b, Cat(c, e)))
  BY <1>7, <1>9, CatMoves DEF Text
<1>11. /\ Rename!Joined(d) = Cat(Point(d, n, k), Beyond(d, n, k))
       /\ Point(d, n, k) \in Text /\ Beyond(d, n, k) \in Text
  BY <1>7, <1>8, <1>9, <1>10
<1> QED
  BY <1>7, <1>11 DEF IsCut, a, b, c, e, x, y, l

\* Lines put between two positions.
LEMMA PutBetween ==
  ASSUME NEW d \in Docs, NEW n \in Nat, NEW m \in Nat, n < Len(d), m < Len(d),
         NEW i \in 0..Len(d[n + 1]), NEW j \in 0..Len(d[m + 1]), NEW new \in Text,
         NEW ls \in Docs, ls # <<>>,
         Rename!Joined(ls) = Cat(Fore(d[n + 1], i), Cat(new, Aft(d[m + 1], j)))
  PROVE  Rename!Joined(Cat(Fore(d, n), Cat(ls, Aft(d, m + 1)))) =
           Cat(Point(d, n, i), Cat(new, Beyond(d, m, j)))
<1> DEFINE a == Broken(Fore(d, n))
           b == Fore(d[n + 1], i)
           c == Aft(d[m + 1], j)
           e == Behind(Aft(d, m + 1))
           r == Rename!Joined(Cat(Fore(d, n), Cat(ls, Aft(d, m + 1))))
<1>1. Fore(d, n) \in Docs /\ Aft(d, m + 1) \in Docs
  BY LineAround DEF Around
<1>2. r = Cat(a, Cat(Cat(b, Cat(new, c)), e))
  BY <1>1, JoinedAround
<1>3. a \in Text /\ b \in Text
  BY CutDoc DEF IsCut
<1>4. c \in Text /\ e \in Text
  BY CutDoc DEF IsCut
<1>5. Point(d, n, i) = Cat(a, b) /\ Beyond(d, m, j) = Cat(c, e)
  BY DEF Point, Beyond
<1> HIDE DEF a, b, c, e, r
<1>6. Cat(new, c) \in Text /\ Cat(c, e) \in Text
  BY <1>4, CatTypes DEF Text
<1>7. Cat(Cat(b, Cat(new, c)), e) = Cat(b, Cat(Cat(new, c), e))
  BY <1>3, <1>4, <1>6, CatMoves DEF Text
<1>8. Cat(Cat(new, c), e) = Cat(new, Cat(c, e)) /\ Cat(new, Cat(c, e)) \in Text
  BY <1>4, <1>6, CatMoves, CatTypes DEF Text
<1>9. Cat(Cat(a, b), Cat(new, Cat(c, e))) = Cat(a, Cat(b, Cat(new, Cat(c, e))))
  BY <1>3, <1>8, CatMoves DEF Text
<1>10. r = Cat(Point(d, n, i), Cat(new, Beyond(d, m, j)))
  BY <1>2, <1>5, <1>7, <1>8, <1>9
<1> QED
  BY <1>10 DEF r

-----------------------------------------------------------------------------
(* One edit.                                                               *)

\* The edit e lies between character i of its first line and j of its last.
Cuts(d, e, i, j) ==
  /\ e.line \in Nat /\ e.endLine \in Nat /\ e.line <= e.endLine /\ e.endLine < Len(d)
  /\ i \in 0..Len(d[e.line + 1]) /\ j \in 0..Len(d[e.endLine + 1])
  /\ Rename!Before(d[e.line + 1], e.char) = {i}
  /\ Rename!Before(d[e.endLine + 1], e.endChar) = {j}
  /\ e.new \in Text /\ Fore(d[e.line + 1], i) \in Seq(Letters)

\* What takes the place of its lines.
Text1(d, e, i, j) == Cat(Fore(d[e.line + 1], i), Cat(e.new, Aft(d[e.endLine + 1], j)))
Lines1(d, e, i, j) ==
  IF e.line = e.endLine THEN <<Text1(d, e, i, j)>> ELSE Rename!Lines(Text1(d, e, i, j))

\* The document with it.
Edited1(d, e, i, j) == Cat(Fore(d, e.line), Cat(Lines1(d, e, i, j), Aft(d, e.endLine + 1)))

\* Its parts are texts and documents, and it starts as the document does.
LEMMA Lines1Is ==
  ASSUME NEW d \in Docs, NEW e, NEW i, NEW j, Cuts(d, e, i, j)
  PROVE  /\ Text1(d, e, i, j) \in Text
         /\ Lines1(d, e, i, j) \in Docs /\ Lines1(d, e, i, j) # <<>>
         /\ Rename!Joined(Lines1(d, e, i, j)) = Text1(d, e, i, j)
         /\ Lines1(d, e, i, j)[1] \in Text /\ Len(Lines1(d, e, i, j)[1]) >= i
         /\ Fore(Lines1(d, e, i, j)[1], i) = Fore(d[e.line + 1], i)
<1> DEFINE a == Fore(d[e.line + 1], i)
           c == Aft(d[e.endLine + 1], j)
           t == Text1(d, e, i, j)
           ls == Lines1(d, e, i, j)
<1>1. /\ e.line \in Nat /\ e.endLine \in Nat /\ e.line < Len(d) /\ e.endLine < Len(d) /\ e.new \in Text
      /\ i \in 0..Len(d[e.line + 1]) /\ j \in 0..Len(d[e.endLine + 1]) /\ a \in Seq(Letters)
  BY LenProperties DEF Cuts, Docs
<1>2. d[e.line + 1] \in Text /\ d[e.endLine + 1] \in Text
  BY <1>1, LineAround DEF Around
<1>3. a \in Text /\ Len(a) = i /\ c \in Text
  BY <1>1, <1>2, Halves DEF Text
<1>4. t = Cat(a, Cat(e.new, c))
  BY DEF Text1
<1> HIDE DEF a, c, t
<1>5. Cat(e.new, c) \in Text /\ t \in Text /\ Len(t) = i + Len(Cat(e.new, c))
  BY <1>1, <1>3, <1>4, CatTypes DEF Text
<1>6. Len(t) \in Nat /\ Len(Cat(e.new, c)) \in Nat /\ i \in Nat
  BY <1>1, <1>5, LenProperties DEF Text
<1>7. i \in 0..Len(t)
  BY <1>5, <1>6
<1>8. Fore(t, i) = a
  <2>1. Fore(t, i) \in Text /\ Len(Fore(t, i)) = i
    BY <1>5, <1>7, Halves DEF Text
  <2>2. ASSUME NEW k \in 1..i PROVE Fore(t, i)[k] = a[k]
    <3> DEFINE b == Cat(e.new, c)
    <3>1. k \in 1..(Len(a) + Len(b)) /\ k <= Len(a)
      BY <1>3, <1>6
    <3> HIDE DEF b
    <3>2. (a \o b)[k] = a[k]
      BY <1>3, <1>5, <3>1, ConcatProperties DEF Text, b
    <3>3. t = a \o b
      BY <1>4 DEF Cat, b
    <3>4. Fore(t, i)[k] = t[k]
      BY <1>5, <1>6, <1>7 DEF Fore, Text
    <3> QED
      BY <3>2, <3>3, <3>4
  <2> QED
    BY <1>3, <2>1, <2>2, SeqEqual DEF Text
<1>9. CASE e.line = e.endLine
  <2>1. ls = <<t>>
    BY <1>9 DEF Lines1, t
  <2>2. <<t>> \in Docs /\ Rename!Joined(<<t>>) = t
    BY <1>5, JoinedOne
  <2>3. <<t>> # <<>> /\ <<t>>[1] = t
    OBVIOUS
  <2>4. Len(t) >= i
    BY <1>7
  <2> HIDE DEF ls
  <2> QED
    BY <1>5, <1>8, <2>1, <2>2, <2>3, <2>4 DEF ls, t, a
<1>10. CASE e.line # e.endLine
  <2>1. ls = Rename!Lines(t)
    BY <1>10 DEF Lines1, t
  <2>2. Rename!Lines(t) \in Docs /\ Rename!Lines(t) # <<>> /\ Rename!Joined(Rename!Lines(t)) = t
    BY <1>5, LinesJoin, CleanIsDoc DEF Leaves
  <2>3. Fore(t, i) \in Seq(Letters)
    BY <1>1, <1>8 DEF a
  <2>4. /\ Rename!Lines(t)[1] \in Seq(Letters) /\ Len(Rename!Lines(t)[1]) >= i
        /\ Fore(Rename!Lines(t)[1], i) = Fore(t, i)
    BY <1>5, <1>7, <2>3, LinesBegin
  <2>5. Rename!Lines(t)[1] \in Text
    BY <2>4, CleanIsDoc
  <2> HIDE DEF ls
  <2> QED
    BY <1>5, <1>8, <2>1, <2>2, <2>4, <2>5 DEF ls, t, a
<1> QED
  BY <1>9, <1>10

\* A document is padded with empty lines.
LEMMA PaddedIs ==
  ASSUME NEW d \in Docs, NEW n \in Nat
  PROVE  /\ Rename!Padded(d, n) \in Docs /\ Len(Rename!Padded(d, n)) >= n
         /\ Len(Rename!Padded(d, n)) \in Nat /\ Len(Rename!Padded(d, n)) >= Len(d)
         /\ n <= Len(d) => Rename!Padded(d, n) = d
         /\ n > Len(d) => Len(Rename!Padded(d, n)) = n
         /\ \A i \in 1..Len(Rename!Padded(d, n)) :
              Rename!Padded(d, n)[i] = IF i \in 1..Len(d) THEN d[i] ELSE <<>>
<1> DEFINE m == IF Len(d) < n THEN n ELSE Len(d)
           p == [i \in 1..m |-> IF i \in DOMAIN d THEN d[i] ELSE <<>>]
<1>1. Len(d) \in Nat /\ DOMAIN d = 1..Len(d) /\ \A i \in 1..Len(d) : d[i] \in Text
  BY LenProperties, ElementOfSeq DEF Docs
<1>2. m \in Nat /\ m >= n /\ m >= Len(d) /\ (n <= Len(d) => m = Len(d)) /\ (n > Len(d) => m = n)
  <2> DEFINE k == Len(d)
  <2>1. k \in Nat
    BY <1>1
  <2> HIDE DEF k
  <2>2. \A x, y \in Nat : LET z == IF x < y THEN y ELSE x
                         IN  z \in Nat /\ z >= y /\ z >= x /\ (y <= x => z = x) /\ (y > x => z = y)
    OBVIOUS
  <2>3. m = IF k < n THEN n ELSE k
    BY DEF k
  <2>4. m \in Nat /\ m >= n /\ m >= k /\ (n <= k => m = k) /\ (n > k => m = n)
    BY <2>1, <2>2, <2>3
  <2> QED
    BY <2>4 DEF k
<1>3. Rename!Padded(d, n) = p
  BY DEF Rename!Padded
<1> HIDE DEF m
<1>4. <<>> \in Text
  BY EmptySeq DEF Text
<1>5. \A i \in 1..m : p[i] = (IF i \in 1..Len(d) THEN d[i] ELSE <<>>) /\ p[i] \in Text
  BY <1>1, <1>4
<1>6. p \in Seq(Text) /\ Len(p) = m
  <2>1. p = [i \in 1..m |-> p[i]]
    OBVIOUS
  <2> HIDE DEF p
  <2>2. p \in [1..m -> Text]
    BY <1>5, <2>1
  <2> QED
    BY <1>2, <2>2
<1> HIDE DEF p
<1>7. ASSUME n <= Len(d) PROVE p = d
  <2>1. d \in Seq(Text) /\ m = Len(d)
    BY <1>2, <1>7 DEF Docs
  <2>2. \A i \in 1..Len(p) : p[i] = d[i]
    BY <1>5, <1>6, <2>1
  <2> QED
    BY <1>6, <2>1, <2>2, SeqEqual
<1> QED
  BY <1>2, <1>3, <1>5, <1>6, <1>7 DEF Docs

\* Edited, with the padded document given to it.
EditedWith(d, e, D) ==
  LET first == D[e.line + 1]
      final == D[e.endLine + 1]
      from == Rename!Before(first, e.char)
      to == Rename!Before(final, e.endChar)
      Put(i, j) == SubSeq(first, 1, i) \o e.new \o SubSeq(final, j + 1, Len(final))
  IN  IF d = <<>> \/ from = {} \/ to = {} THEN <<>>
      ELSE LET text == CHOOSE t \in {Put(i, j) : i \in from, j \in to} : TRUE
           IN  SubSeq(D, 1, e.line)
               \o (IF e.line = e.endLine THEN <<text>> ELSE Rename!Lines(text))
               \o SubSeq(D, e.endLine + 2, Len(D))

\* The padding reaches to the last line of the edit.
LEMMA EditedPads ==
  ASSUME NEW d, NEW e, e.line \in Nat, e.endLine \in Nat, e.line <= e.endLine
  PROVE  Rename!Edited(d, e) = EditedWith(d, e, Rename!Padded(d, e.endLine + 1))
<1> DEFINE top == IF e.line > e.endLine THEN e.line ELSE e.endLine
<1>1. top = e.endLine
  OBVIOUS
<1>2. Rename!Edited(d, e) = EditedWith(d, e, Rename!Padded(d, top + 1))
  BY DEF Rename!Edited, EditedWith
<1> HIDE DEF top
<1> QED
  BY <1>1, <1>2

\* What stands around the edit, with the text put there.
Framed(D, e, text) ==
  SubSeq(D, 1, e.line)
    \o (IF e.line = e.endLine THEN <<text>> ELSE Rename!Lines(text))
    \o SubSeq(D, e.endLine + 2, Len(D))

\* One place to cut at either end: the text that is put there.
LEMMA EditedCuts ==
  ASSUME NEW d, NEW e, NEW D, NEW i, NEW j, d # <<>>,
         Rename!Before(D[e.line + 1], e.char) = {i},
         Rename!Before(D[e.endLine + 1], e.endChar) = {j}
  PROVE  EditedWith(d, e, D) =
           Framed(D, e, SubSeq(D[e.line + 1], 1, i) \o e.new
                          \o SubSeq(D[e.endLine + 1], j + 1, Len(D[e.endLine + 1])))
<1> DEFINE first == D[e.line + 1]
           final == D[e.endLine + 1]
           from == Rename!Before(first, e.char)
           to == Rename!Before(final, e.endChar)
           Put(x, y) == SubSeq(first, 1, x) \o e.new \o SubSeq(final, y + 1, Len(final))
           chosen == CHOOSE t \in {Put(x, y) : x \in from, y \in to} : TRUE
<1>1. EditedWith(d, e, D) = IF d = <<>> \/ from = {} \/ to = {} THEN <<>> ELSE Framed(D, e, chosen)
  BY DEF EditedWith, Framed
<1>2. from = {i} /\ to = {j}
  OBVIOUS
<1> HIDE DEF from, to, Put
<1>3. {Put(x, y) : x \in {i}, y \in {j}} = {Put(i, j)}
  OBVIOUS
<1>4. chosen = Put(i, j)
  <2>1. chosen \in {Put(i, j)}
    BY <1>2, <1>3
  <2> QED
    BY <2>1
<1> HIDE DEF chosen
<1>5. EditedWith(d, e, D) = Framed(D, e, Put(i, j))
  BY <1>1, <1>2, <1>4
<1> QED
  BY <1>5 DEF Put

\* Edited is that, unless a position is within a character.
LEMMA EditedIs ==
  ASSUME NEW d, NEW e, NEW D \in Docs, NEW i, NEW j, d # <<>>,
         D = Rename!Padded(d, e.endLine + 1), Cuts(D, e, i, j)
  PROVE  Rename!Edited(d, e) = Edited1(D, e, i, j)
<1> DEFINE first == D[e.line + 1]
           final == D[e.endLine + 1]
           a == SubSeq(first, 1, i)
           c == SubSeq(final, j + 1, Len(final))
           text == a \o e.new \o c
           x == SubSeq(D, 1, e.line)
           ls == Lines1(D, e, i, j)
           y == SubSeq(D, e.endLine + 2, Len(D))
<1>1. /\ e.line \in Nat /\ e.endLine \in Nat /\ e.line <= e.endLine /\ Len(D) \in Nat
      /\ e.line < Len(D) /\ e.endLine < Len(D) /\ (e.endLine + 1) + 1 = e.endLine + 2
  BY LenProperties DEF Cuts, Docs
<1>2. /\ Rename!Before(first, e.char) = {i} /\ Rename!Before(final, e.endChar) = {j}
      /\ i \in 0..Len(first) /\ j \in 0..Len(final) /\ e.new \in Text
  BY DEF Cuts
<1>3. Rename!Edited(d, e) = Framed(D, e, text)
  <2>1. Rename!Edited(d, e) = EditedWith(d, e, D)
    BY <1>1, EditedPads
  <2> QED
    BY <1>2, <2>1, EditedCuts
<1>4. first \in Text /\ final \in Text
  BY <1>1, LineAround DEF Around
<1>5. x \in Docs /\ y \in Docs
  <2>1. Fore(D, e.line) \in Docs /\ Aft(D, e.endLine + 1) \in Docs
    BY <1>1, LineAround DEF Around
  <2> QED
    BY <1>1, <2>1 DEF Fore, Aft
<1>6. text = Text1(D, e, i, j)
  <2>1. a \in Text /\ c \in Text
    <3> HIDE DEF first, final
    <3> QED
      BY <1>2, <1>4, Halves DEF Fore, Aft, Text
  <2>2. Text1(D, e, i, j) = a \o (e.new \o c)
    BY DEF Text1, Fore, Aft, Cat
  <2> HIDE DEF a, c
  <2>3. Bracketed(a, e.new, c)
    BY <1>2, <2>1, Brackets DEF Text
  <2> QED
    BY <2>2, <2>3 DEF Bracketed
<1> HIDE DEF text, first, final, a, c
<1>7. Rename!Edited(d, e) = (x \o ls) \o y
  BY <1>3, <1>6 DEF Lines1, Framed
<1>8. Edited1(D, e, i, j) = x \o (ls \o y)
  BY <1>1 DEF Edited1, Fore, Aft, Cat
<1>9. ls \in Docs
  BY Lines1Is
<1> HIDE DEF x, y, ls
<1>10. Bracketed(x, ls, y)
  BY <1>5, <1>9, Brackets DEF Docs
<1> QED
  BY <1>7, <1>8, <1>10 DEF Bracketed

-----------------------------------------------------------------------------
(* All edits at once, unit by unit.                                        *)

\* The units from behind the first a to b, if there are as many.
Piece(G, a, b) == SubSeq(G, a + 1, IF b < Len(G) THEN b ELSE Len(G))

\* What is kept at unit k when t is the end of the edit.
KeptAt(G, t, k) == IF k = Len(G) \/ k < t THEN <<>> ELSE <<G[k + 1]>>

\* A piece grows by what is kept, and is what is in front and behind.
LEMMA PieceIs ==
  ASSUME NEW T, NEW G \in Seq(T), NEW a \in 0..Len(G)
  PROVE  /\ \A b \in Nat : Piece(G, a, b) \in Seq(T)
         /\ \A b \in 0..a : Piece(G, a, b) = <<>>
         /\ \A k \in 0..Len(G) : /\ KeptAt(G, a, k) \in Seq(T)
                                 /\ Piece(G, a, k + 1) = Cat(Piece(G, a, k), KeptAt(G, a, k))
         /\ Piece(G, a, Len(G) + 1) = Aft(G, a) /\ \A b \in 0..Len(G) : Piece(G, 0, b) = Fore(G, b)
<1>1. Len(G) \in Nat
  BY LenProperties
<1> DEFINE n == Len(G)
<1>2. ASSUME NEW b \in Nat PROVE Piece(G, a, b) \in Seq(T)
  <2> DEFINE m == IF b < n THEN b ELSE n
  <2>1. a + 1 \in 1..(n + 1) /\ m \in 0..n
    BY <1>1
  <2>2. \A i \in (a + 1)..m : i \in 1..n
    BY <2>1
  <2> HIDE DEF m
  <2>3. SubSeq(G, a + 1, m) \in Seq(T)
    BY <1>1, <2>1, <2>2
  <2> QED
    BY <2>3 DEF Piece, m
<1>3. ASSUME NEW b \in 0..a PROVE Piece(G, a, b) = <<>>
  <2>1. (IF b < n THEN b ELSE n) = b /\ b < a + 1
    BY <1>1
  <2> QED
    BY <1>1, <2>1, SubSeqEmpty DEF Piece
<1>4. ASSUME NEW k \in 0..n
      PROVE  KeptAt(G, a, k) \in Seq(T) /\ Piece(G, a, k + 1) = Cat(Piece(G, a, k), KeptAt(G, a, k))
  <2>1. Piece(G, a, k) \in Seq(T)
    BY <1>2
  <2>2. CASE k < a
    <3>1. KeptAt(G, a, k) = <<>>
      BY <2>2 DEF KeptAt
    <3>2. k \in 0..a /\ k + 1 \in 0..a
      BY <1>1, <2>2
    <3>3. Piece(G, a, k) = <<>> /\ Piece(G, a, k + 1) = <<>>
      BY <1>3, <3>2
    <3>4. Cat(<<>>, <<>>) = <<>> /\ <<>> \in Seq(T)
      BY CatNone, EmptySeq
    <3> QED
      BY <3>1, <3>3, <3>4
  <2>3. CASE k = n
    <3>1. KeptAt(G, a, k) = <<>>
      BY <2>3 DEF KeptAt
    <3>2. (IF k < n THEN k ELSE n) = (IF k + 1 < n THEN k + 1 ELSE n)
      BY <1>1, <2>3
    <3>3. Piece(G, a, k) = Piece(G, a, k + 1)
      BY <3>2 DEF Piece
    <3>4. Cat(Piece(G, a, k), <<>>) = Piece(G, a, k)
      BY <2>1, CatNone
    <3>5. <<>> \in Seq(T)
      BY EmptySeq
    <3> QED
      BY <3>1, <3>3, <3>4, <3>5
  <2>4. CASE k >= a /\ k < n
    <3>1. KeptAt(G, a, k) = <<G[k + 1]>>
      BY <1>1, <2>4 DEF KeptAt
    <3>2. (IF k < n THEN k ELSE n) = k /\ (IF k + 1 < n THEN k + 1 ELSE n) = k + 1
      BY <1>1, <2>4
    <3>3. Piece(G, a, k) = SubSeq(G, a + 1, k) /\ Piece(G, a, k + 1) = SubSeq(G, a + 1, k + 1)
      BY <3>2 DEF Piece
    <3>4. a + 1 \in 1..n /\ k + 1 \in (a + 1)..n /\ k + 1 \in 1..n /\ (k + 1) - 1 = k
      BY <1>1, <2>4
    <3>5. SubSeq(G, a + 1, k + 1) = SubSeq(G, a + 1, (k + 1) - 1) \o <<G[k + 1]>>
      BY <3>4, SubSeqRecursiveSecond
    <3>6. G[k + 1] \in T
      BY <3>4, ElementOfSeq
    <3> QED
      BY <3>1, <3>3, <3>4, <3>5, <3>6 DEF Cat
  <2> QED
    BY <1>1, <2>2, <2>3, <2>4
<1>5. Piece(G, a, n + 1) = Aft(G, a)
  <2>1. (IF n + 1 < n THEN n + 1 ELSE n) = n
    BY <1>1
  <2> QED
    BY <2>1 DEF Piece, Aft
<1>6. ASSUME NEW b \in 0..n PROVE Piece(G, 0, b) = Fore(G, b)
  <2>1. (IF b < n THEN b ELSE n) = b /\ 0 + 1 = 1
    BY <1>1
  <2> QED
    BY <2>1 DEF Piece, Fore
<1> QED
  BY <1>2, <1>3, <1>4, <1>5, <1>6

\* Sums of blocks for the units of G and the end of it.
UnitSums(sum, T, B, G) ==
  /\ G \in Seq(T) /\ Totals(sum, T, Len(G) + 1, B) /\ B \in [1..(Len(G) + 1) -> Seq(T)]

\* One block more.
LEMMA UnitMore ==
  ASSUME NEW T, NEW B, NEW G, NEW sum, UnitSums(sum, T, B, G), NEW k \in 0..Len(G)
  PROVE  /\ sum[k] \in Seq(T) /\ sum[k + 1] \in Seq(T) /\ B[k + 1] \in Seq(T)
         /\ sum[k + 1] = Cat(sum[k], B[k + 1])
<1>1. Len(G) \in Nat
  BY LenProperties DEF UnitSums
<1>2. k \in 0..(Len(G) + 1) /\ k + 1 \in 1..(Len(G) + 1) /\ k + 1 \in 0..(Len(G) + 1) /\ (k + 1) - 1 = k
  BY <1>1
<1>3. /\ sum \in [0..(Len(G) + 1) -> Seq(T)] /\ B \in [1..(Len(G) + 1) -> Seq(T)]
      /\ \A j \in 1..(Len(G) + 1) : sum[j] = sum[j - 1] \o B[j]
  BY DEF UnitSums, Totals
<1>4. sum[k + 1] = sum[k] \o B[k + 1]
  BY <1>2, <1>3
<1> QED
  BY <1>2, <1>3, <1>4 DEF Cat

\* The blocks from u to v are what is kept when t is the end of the edit.
AllKept(B, G, t, u, v) == \A k \in u..(v - 1) : B[k + 1] = KeptAt(G, t, k)

\* They add up to a piece.
LEMMA Growing ==
  ASSUME NEW T, NEW B, NEW G, NEW sum, UnitSums(sum, T, B, G), NEW p \in Seq(T),
         NEW t \in 0..Len(G), NEW u \in 0..(Len(G) + 1), NEW v \in u..(Len(G) + 1),
         AllKept(B, G, t, u, v), sum[u] = Cat(p, Piece(G, t, u))
  PROVE  sum[v] = Cat(p, Piece(G, t, v))
<1>1. Len(G) \in Nat /\ G \in Seq(T)
  BY LenProperties DEF UnitSums
<1>2. v - u \in Nat /\ u + 0 = u /\ u + (v - u) = v /\ 0 \in 0..(v - u) /\ v - u \in 0..(v - u)
  BY <1>1
<1> DEFINE W == {d \in 0..(v - u) : sum[u + d] = Cat(p, Piece(G, t, u + d))}
<1>3. 0 \in W
  BY <1>2
<1>4. ASSUME NEW d \in 0..(v - u), d \in W, d < v - u PROVE d + 1 \in W
  <2> DEFINE k == u + d
  <2>1. k \in 0..Len(G) /\ k \in u..(v - 1) /\ d + 1 \in 0..(v - u) /\ u + (d + 1) = k + 1 /\ k \in Nat
    BY <1>1, <1>4
  <2>2. sum[k] = Cat(p, Piece(G, t, k))
    BY <1>4
  <2> HIDE DEF k
  <2>3. sum[k + 1] = Cat(sum[k], B[k + 1])
    BY <2>1, UnitMore
  <2>4. B[k + 1] = KeptAt(G, t, k)
    BY <2>1 DEF AllKept
  <2>5. /\ KeptAt(G, t, k) \in Seq(T) /\ Piece(G, t, k) \in Seq(T)
        /\ Piece(G, t, k + 1) = Cat(Piece(G, t, k), KeptAt(G, t, k))
    BY <1>1, <2>1, PieceIs
  <2>6. Cat(Cat(p, Piece(G, t, k)), KeptAt(G, t, k)) = Cat(p, Cat(Piece(G, t, k), KeptAt(G, t, k)))
    BY <2>5, CatMoves
  <2>7. sum[k + 1] = Cat(p, Piece(G, t, k + 1))
    BY <2>2, <2>3, <2>4, <2>5, <2>6
  <2> QED
    BY <2>1, <2>7
<1>5. \A d \in 0..(v - u) : d \in W
  <2>1. \A d \in 0..(v - u) : d \in W /\ d < v - u => d + 1 \in W
    BY <1>4
  <2> HIDE DEF W
  <2> QED
    BY <1>2, <1>3, <2>1, Climb
<1>6. sum[u + (v - u)] = Cat(p, Piece(G, t, u + (v - u)))
  BY <1>2, <1>5
<1> QED
  BY <1>2, <1>6

\* The blocks from a to b are those of an edit that puts N at f and takes what
\* is there as far as t.
Lands(B, G, N, a, f, t, b) ==
  /\ f \in a..Len(G) /\ t \in f..Len(G) /\ b \in (f + 1)..(Len(G) + 1)
  /\ AllKept(B, G, a, a, f) /\ B[f + 1] = Cat(N, KeptAt(G, t, f))
  /\ AllKept(B, G, t, f + 1, b)

\* What they add up to.
LEMMA Landing ==
  ASSUME NEW T, NEW B, NEW G, NEW sum, UnitSums(sum, T, B, G), NEW N \in Seq(T),
         NEW a \in 0..Len(G), NEW f, NEW t, NEW b, Lands(B, G, N, a, f, t, b)
  PROVE  sum[b] = Cat(Cat(Cat(sum[a], Piece(G, a, f)), N), Piece(G, t, b))
<1>1. Len(G) \in Nat /\ G \in Seq(T)
  BY LenProperties DEF UnitSums
<1>2. /\ f \in 0..Len(G) /\ t \in 0..Len(G) /\ a \in 0..(Len(G) + 1) /\ f \in a..(Len(G) + 1)
      /\ f + 1 \in 0..(Len(G) + 1) /\ b \in (f + 1)..(Len(G) + 1) /\ a \in 0..a /\ f \in 0..t
      /\ f \in Nat
  BY <1>1 DEF Lands
<1>3. sum[a] \in Seq(T) /\ sum[f] \in Seq(T)
  BY <1>2, UnitMore
<1>4. sum[f] = Cat(sum[a], Piece(G, a, f))
  <2>1. Piece(G, a, a) = <<>>
    BY <1>1, <1>2, PieceIs
  <2>2. sum[a] = Cat(sum[a], Piece(G, a, a))
    BY <1>3, <2>1, CatNone
  <2>3. AllKept(B, G, a, a, f)
    BY DEF Lands
  <2> QED
    BY <1>2, <1>3, <2>2, <2>3, Growing
<1>5. /\ Piece(G, t, f) = <<>> /\ KeptAt(G, t, f) \in Seq(T)
      /\ Piece(G, t, f + 1) = Cat(Piece(G, t, f), KeptAt(G, t, f))
  BY <1>1, <1>2, PieceIs
<1>6. Piece(G, t, f + 1) = KeptAt(G, t, f)
  <2> DEFINE x == KeptAt(G, t, f)
  <2>1. x \in Seq(T) /\ Piece(G, t, f + 1) = Cat(<<>>, x)
    BY <1>5
  <2> HIDE DEF x
  <2>2. Cat(<<>>, x) = x
    BY <2>1, CatNone
  <2> QED
    BY <2>1, <2>2 DEF x
<1> DEFINE p == Cat(sum[f], N)
<1>7. p \in Seq(T)
  BY <1>3, CatTypes
<1>8. sum[f + 1] = Cat(p, Piece(G, t, f + 1))
  <2>1. sum[f + 1] = Cat(sum[f], B[f + 1])
    BY <1>2, UnitMore
  <2>2. B[f + 1] = Cat(N, KeptAt(G, t, f))
    BY DEF Lands
  <2>3. Cat(Cat(sum[f], N), KeptAt(G, t, f)) = Cat(sum[f], Cat(N, KeptAt(G, t, f)))
    BY <1>3, <1>5, CatMoves
  <2> QED
    BY <1>6, <2>1, <2>2, <2>3
<1>9. AllKept(B, G, t, f + 1, b)
  BY DEF Lands
<1> HIDE DEF p
<1>10. sum[b] = Cat(p, Piece(G, t, b))
  BY <1>2, <1>7, <1>8, <1>9, Growing
<1> QED
  BY <1>4, <1>10 DEF p

\* One edit.
LEMMA LandOne ==
  ASSUME NEW T, NEW G \in Seq(T), NEW B \in [1..(Len(G) + 1) -> Seq(T)], NEW N \in Seq(T),
         NEW f, NEW t, Lands(B, G, N, 0, f, t, Len(G) + 1)
  PROVE  Rename!FlattenSeq(B) = Cat(Cat(Fore(G, f), N), Aft(G, t))
<1>1. Len(G) \in Nat /\ Len(G) + 1 \in Nat /\ 0 \in 0..Len(G)
  BY LenProperties
<1>2. f \in 0..Len(G) /\ t \in 0..Len(G) /\ f \in Nat
  BY <1>1 DEF Lands
<1>3. PICK sum : Totals(sum, T, Len(G) + 1, B)
  BY <1>1, SumsAre
<1>4. UnitSums(sum, T, B, G)
  BY <1>3 DEF UnitSums
<1>5. sum[0] = <<>> /\ Edits!FlattenSeq(B) = sum[Len(G) + 1]
  BY <1>3 DEF Totals
<1>6. sum[Len(G) + 1] = Cat(Cat(Cat(sum[0], Piece(G, 0, f)), N), Piece(G, t, Len(G) + 1))
  BY <1>1, <1>4, Landing
<1>7. Piece(G, 0, f) = Fore(G, f) /\ Piece(G, 0, f) \in Seq(T)
  BY <1>1, <1>2, PieceIs
<1>8. Piece(G, t, Len(G) + 1) = Aft(G, t)
  BY <1>2, PieceIs
<1>9. Cat(<<>>, Piece(G, 0, f)) = Piece(G, 0, f)
  <2> DEFINE x == Piece(G, 0, f)
  <2>1. x \in Seq(T)
    BY <1>7
  <2> HIDE DEF x
  <2>2. Cat(<<>>, x) = x
    BY <2>1, CatNone
  <2> QED
    BY <2>2 DEF x
<1>10. Edits!FlattenSeq(B) = Cat(Cat(Fore(G, f), N), Aft(G, t))
  BY <1>5, <1>6, <1>7, <1>8, <1>9
<1> QED
  BY <1>10, FlattenAlike

\* Two edits.
LEMMA LandTwo ==
  ASSUME NEW T, NEW G \in Seq(T), NEW B \in [1..(Len(G) + 1) -> Seq(T)],
         NEW N \in Seq(T), NEW M \in Seq(T), NEW f, NEW t, NEW g, NEW u,
         Lands(B, G, N, 0, f, t, g), Lands(B, G, M, g, g, u, Len(G) + 1)
  PROVE  Rename!FlattenSeq(B) =
           Cat(Cat(Cat(Cat(Fore(G, f), N), Piece(G, t, g)), M), Aft(G, u))
<1>1. Len(G) \in Nat /\ Len(G) + 1 \in Nat /\ 0 \in 0..Len(G)
  BY LenProperties
<1>2. /\ f \in 0..Len(G) /\ t \in 0..Len(G) /\ f \in Nat
      /\ g \in 0..Len(G) /\ u \in 0..Len(G) /\ g \in Nat /\ g \in 0..g
  BY <1>1 DEF Lands
<1>3. PICK sum : Totals(sum, T, Len(G) + 1, B)
  BY <1>1, SumsAre
<1>4. UnitSums(sum, T, B, G)
  BY <1>3 DEF UnitSums
<1>5. sum[0] = <<>> /\ Edits!FlattenSeq(B) = sum[Len(G) + 1]
  BY <1>3 DEF Totals
<1>6. sum[g] = Cat(Cat(Cat(sum[0], Piece(G, 0, f)), N), Piece(G, t, g))
  BY <1>1, <1>4, Landing
<1>7. sum[Len(G) + 1] = Cat(Cat(Cat(sum[g], Piece(G, g, g)), M), Piece(G, u, Len(G) + 1))
  BY <1>2, <1>4, Landing
<1>8. Piece(G, 0, f) = Fore(G, f) /\ Piece(G, 0, f) \in Seq(T) /\ Piece(G, g, g) = <<>>
  BY <1>1, <1>2, PieceIs
<1>9. Piece(G, u, Len(G) + 1) = Aft(G, u)
  BY <1>2, PieceIs
<1>10. Cat(<<>>, Piece(G, 0, f)) = Piece(G, 0, f)
  <2> DEFINE x == Piece(G, 0, f)
  <2>1. x \in Seq(T)
    BY <1>8
  <2> HIDE DEF x
  <2>2. Cat(<<>>, x) = x
    BY <2>1, CatNone
  <2> QED
    BY <2>2 DEF x
<1>11. Cat(sum[g], Piece(G, g, g)) = sum[g]
  <2>1. sum[g] \in Seq(T)
    BY <1>2, <1>4, UnitMore
  <2> QED
    BY <1>8, <2>1, CatNone
<1>12. Edits!FlattenSeq(B) = Cat(Cat(Cat(Cat(Fore(G, f), N), Piece(G, t, g)), M), Aft(G, u))
  BY <1>5, <1>6, <1>7, <1>8, <1>9, <1>10, <1>11
<1> QED
  BY <1>12, FlattenAlike

-----------------------------------------------------------------------------
(* One edit and then another, unit by unit.                                *)

\* What is in front and what is behind is found again.
LEMMA Recut ==
  ASSUME NEW T, NEW p \in Seq(T), NEW q \in Seq(T)
  PROVE  Fore(Cat(p, q), Len(p)) = p /\ Aft(Cat(p, q), Len(p)) = q /\ Len(p) \in 0..Len(Cat(p, q))
<1> DEFINE s == Cat(p, q)
           n == Len(p)
<1>1. s \in Seq(T) /\ Len(s) = n + Len(q) /\ n \in Nat /\ Len(q) \in Nat
  BY CatTypes, LenProperties
<1>2. n \in 0..Len(s)
  BY <1>1
<1>3. Fore(s, n) = p
  <2>1. Fore(s, n) \in Seq(T) /\ Len(Fore(s, n)) = n
    BY <1>1, <1>2, Halves
  <2>2. ASSUME NEW k \in 1..n PROVE Fore(s, n)[k] = p[k]
    <3>1. (p \o q)[k] = p[k]
      <4>1. k \in 1..(Len(p) + Len(q)) /\ k <= Len(p)
        BY <1>1
      <4> QED
        BY <4>1, ConcatProperties
    <3> HIDE DEF n
    <3>2. s[k] = p[k]
      BY <3>1 DEF Cat
    <3> HIDE DEF s
    <3>3. Fore(s, n)[k] = s[k]
      BY <1>1, <1>2 DEF Fore
    <3> QED
      BY <3>2, <3>3
  <2> HIDE DEF s
  <2> QED
    BY <2>1, <2>2, SeqEqual
<1>4. Cat(Fore(s, n), Aft(s, n)) = s /\ Aft(s, n) \in Seq(T)
  BY <1>1, <1>2, Halves
<1> DEFINE r == Aft(s, n)
<1>5. Cat(p, r) = Cat(p, q) /\ r \in Seq(T)
  BY <1>3, <1>4
<1> HIDE DEF r
<1>6. r = q
  BY <1>5, CatCancel
<1> QED
  BY <1>2, <1>3, <1>6 DEF r

\* The first f units of what is in front, and what is behind the first f.
LEMMA CutCat ==
  ASSUME NEW T, NEW x \in Seq(T), NEW y \in Seq(T), NEW f \in 0..Len(x)
  PROVE  /\ Fore(Cat(x, y), f) = Fore(x, f) /\ Aft(Cat(x, y), f) = Cat(Aft(x, f), y)
         /\ f \in 0..Len(Cat(x, y))
<1> DEFINE a == Fore(x, f)
           b == Aft(x, f)
           c == Cat(b, y)
<1>1. a \in Seq(T) /\ b \in Seq(T) /\ Cat(a, b) = x /\ Len(a) = f
  BY Halves
<1> HIDE DEF a, b
<1>2. c \in Seq(T) /\ Cat(Cat(a, b), y) = Cat(a, c)
  BY <1>1, CatTypes, CatMoves
<1> HIDE DEF c
<1>3. Fore(Cat(a, c), Len(a)) = a /\ Aft(Cat(a, c), Len(a)) = c /\ Len(a) \in 0..Len(Cat(a, c))
  BY <1>1, <1>2, Recut
<1>4. Cat(x, y) = Cat(a, c)
  BY <1>1, <1>2
<1> QED
  BY <1>1, <1>3, <1>4 DEF a, b, c

\* Two cuts of a sequence.
LEMMA CutTwice ==
  ASSUME NEW T, NEW G \in Seq(T), NEW g \in 0..Len(G), NEW t \in 0..g
  PROVE  Fore(Fore(G, g), t) = Fore(G, t) /\ Aft(Fore(G, g), t) = Piece(G, t, g)
<1>1. Len(G) \in Nat /\ t \in 0..Len(G)
  BY LenProperties
<1> DEFINE x == Fore(G, g)
           y == Aft(G, g)
<1>2. x \in Seq(T) /\ y \in Seq(T) /\ Cat(x, y) = G /\ Len(x) = g
  BY Halves
<1> HIDE DEF x, y
<1>3. Fore(x, t) = Fore(G, t)
  BY <1>2, CutCat
<1> DEFINE p == Fore(G, t)
           q == Piece(G, t, g)
<1>4. p \in Seq(T) /\ Len(p) = t /\ q \in Seq(T)
  <2>1. g \in Nat
    BY <1>1
  <2> QED
    BY <1>1, <2>1, Halves, PieceIs
<1>5. Cat(p, q) = x
  <2>1. 1 \in 1..(Len(G) + 1) /\ t \in (1 - 1)..Len(G) /\ g \in t..Len(G)
    BY <1>1
  <2>2. SubSeq(G, 1, t) \o SubSeq(G, t + 1, g) = SubSeq(G, 1, g)
    BY <2>1, ConcatAdjacentSubSeq
  <2>3. (IF g < Len(G) THEN g ELSE Len(G)) = g
    BY <1>1
  <2> QED
    BY <2>2, <2>3 DEF Fore, Cat, Piece, x
<1> HIDE DEF p, q
<1>6. Aft(Cat(p, q), Len(p)) = q
  BY <1>4, Recut
<1>7. Aft(x, t) = q
  BY <1>4, <1>5, <1>6
<1> QED
  BY <1>3, <1>7 DEF x, q

\* An edit behind another does not move it.
LEMMA PutTwice ==
  ASSUME NEW T, NEW G \in Seq(T), NEW N \in Seq(T), NEW M \in Seq(T),
         NEW u \in 0..Len(G), NEW g \in 0..u, NEW t \in 0..g, NEW f \in 0..t, NEW H,
         H = Cat(Cat(Fore(G, g), M), Aft(G, u))
  PROVE  Cat(Cat(Fore(H, f), N), Aft(H, t)) =
           Cat(Cat(Cat(Cat(Fore(G, f), N), Piece(G, t, g)), M), Aft(G, u))
<1>1. /\ Len(G) \in Nat /\ g \in 0..Len(G) /\ t \in 0..Len(G) /\ f \in 0..Len(G) /\ f \in 0..g
      /\ g \in Nat
  BY LenProperties
<1> DEFINE x == Fore(G, g)
           z == Aft(G, u)
           y == Cat(M, z)
<1>2. x \in Seq(T) /\ Len(x) = g /\ z \in Seq(T)
  BY <1>1, Halves
<1>3. Fore(x, f) = Fore(G, f) /\ Aft(x, t) = Piece(G, t, g)
  BY <1>1, CutTwice
<1> HIDE DEF x, z
<1>4. y \in Seq(T) /\ Cat(Cat(x, M), z) = Cat(x, y)
  BY <1>2, CatTypes, CatMoves
<1>5. H = Cat(x, y)
  BY <1>4 DEF x, z
<1> HIDE DEF y
<1>6. Fore(Cat(x, y), f) = Fore(x, f)
  BY <1>1, <1>2, <1>4, CutCat
<1>7. Aft(Cat(x, y), t) = Cat(Aft(x, t), y)
  BY <1>2, <1>4, CutCat
<1> DEFINE a == Fore(G, f)
           b == Piece(G, t, g)
           c == Cat(a, N)
<1>8. Fore(H, f) = a /\ Aft(H, t) = Cat(b, y)
  BY <1>3, <1>5, <1>6, <1>7
<1>9. a \in Seq(T) /\ b \in Seq(T)
  BY <1>1, Halves, PieceIs
<1> HIDE DEF a, b
<1>10. c \in Seq(T)
  BY <1>9, CatTypes
<1> HIDE DEF c
<1>11. Cat(c, Cat(b, y)) = Cat(Cat(c, b), y)
  BY <1>4, <1>9, <1>10, CatMoves
<1> DEFINE k == Cat(c, b)
<1>12. k \in Seq(T)
  BY <1>9, <1>10, CatTypes
<1> HIDE DEF k
<1>13. Cat(k, y) = Cat(Cat(k, M), z)
  BY <1>2, <1>12, CatMoves DEF y
<1> QED
  BY <1>8, <1>11, <1>13 DEF k, c, a, b, z

-----------------------------------------------------------------------------
(* Positions and places.                                                   *)

\* The first k characters of a text have no more units than the first n.
LEMMA UnitsGrow ==
  ASSUME NEW l \in Text, NEW n \in 0..Len(l), NEW k \in 0..n
  PROVE  /\ Rename!Units(Fore(l, k)) \in Nat /\ Rename!Units(Fore(l, n)) \in Nat
         /\ Rename!Units(Fore(l, k)) <= Rename!Units(Fore(l, n))
         /\ k < n => Rename!Units(Fore(l, k)) < Rename!Units(Fore(l, n))
         /\ Fore(l, Len(l)) = l
<1>1. Len(l) \in Nat /\ k \in 0..Len(l) /\ l \in Seq(Marks) /\ n \in Nat
  BY LenProperties DEF Text
<1> DEFINE x == Fore(l, n)
           a == Fore(x, k)
           b == Aft(x, k)
<1>2. x \in Seq(Marks) /\ Len(x) = n
  BY <1>1, Halves
<1>3. a = Fore(l, k)
  BY <1>1, CutTwice
<1> HIDE DEF x
<1>4. a \in Seq(Marks) /\ b \in Seq(Marks) /\ Len(b) = n - k /\ Cat(a, b) = x
  BY <1>2, Halves
<1> HIDE DEF a, b
<1>5. /\ Rename!Units(Cat(a, b)) = Rename!Units(a) + Rename!Units(b)
      /\ Rename!Units(a) \in Nat /\ Rename!Units(b) \in Nat
  BY <1>4, UnitsCat, UnitsAre
<1>6. k < n => Rename!Units(b) >= 1
  <2>1. SUFFICES ASSUME k < n PROVE b # <<>>
    BY <1>4, UnitsNone
  <2>2. Len(b) # 0
    BY <1>1, <1>4, <2>1
  <2> QED
    BY <2>2
<1>7. Fore(l, Len(l)) = l
  BY <1>1, SubSeqFull DEF Fore
<1>8. Rename!Units(x) = Rename!Units(a) + Rename!Units(b)
  BY <1>4, <1>5
<1> DEFINE ua == Rename!Units(a)
           ub == Rename!Units(b)
           ux == Rename!Units(x)
<1>9. ua \in Nat /\ ub \in Nat /\ ux = ua + ub /\ (k < n => ub >= 1)
  BY <1>5, <1>6, <1>8
<1> HIDE DEF ua, ub, ux
<1>10. ua \in Nat /\ ux \in Nat /\ ua <= ux /\ (k < n => ua < ux)
  BY <1>9
<1> QED
  BY <1>3, <1>7, <1>10 DEF ua, ux, x

\* Character k is the only one at position c.
Marked(l, c, k) ==
  k \in 0..Len(l) /\ Rename!Before(l, c) = {k} /\ Rename!Units(Fore(l, k)) = c

\* It is, if there is one.
LEMMA MarkedIs ==
  ASSUME NEW l \in Text, NEW c \in 0..Rename!Units(l), NEW k \in Rename!Before(l, c)
  PROVE  Marked(l, c, k)
<1>1. Len(l) \in Nat /\ Rename!Units(l) \in Nat /\ l \in Seq(Marks) /\ c \in Nat
  <2>1. Rename!Units(l) \in Nat
    BY UnitsAre DEF Text
  <2> QED
    BY <2>1, LenProperties DEF Text
<1>2. CASE c >= Rename!Units(l)
  <2>1. Rename!Before(l, c) = {Len(l)} /\ c = Rename!Units(l)
    BY <1>1, <1>2 DEF Rename!Before
  <2>2. k = Len(l) /\ Fore(l, Len(l)) = l /\ Len(l) \in 0..Len(l)
    <3>1. Len(l) \in 0..Len(l)
      BY <1>1
    <3> QED
      BY <2>1, <3>1, UnitsGrow
  <2> QED
    BY <2>1, <2>2 DEF Marked
<1>3. CASE ~(c >= Rename!Units(l))
  <2>1. Rename!Before(l, c) = {n \in 0..Len(l) : Rename!Units(Fore(l, n)) = c}
    BY <1>3 DEF Rename!Before, Fore
  <2>2. k \in 0..Len(l) /\ Rename!Units(Fore(l, k)) = c
    BY <2>1
  <2>3. ASSUME NEW n \in 0..Len(l), Rename!Units(Fore(l, n)) = c PROVE n = k
    <3>1. CASE n < k
      <4>1. n \in 0..k
        BY <1>1, <2>2, <3>1
      <4>2. Rename!Units(Fore(l, n)) < Rename!Units(Fore(l, k))
        BY <2>2, <3>1, <4>1, UnitsGrow
      <4> QED
        BY <1>1, <2>2, <2>3, <4>2
    <3>2. CASE k < n
      <4>1. k \in 0..n
        BY <1>1, <2>2, <3>2
      <4>2. Rename!Units(Fore(l, k)) < Rename!Units(Fore(l, n))
        BY <3>2, <4>1, UnitsGrow
      <4> QED
        BY <1>1, <2>2, <2>3, <4>2
    <3>3. n \in Int /\ k \in Int
      BY <1>1, <2>2
    <3> QED
      BY <3>1, <3>2, <3>3
  <2>4. Rename!Before(l, c) = {k}
    BY <2>1, <2>2, <2>3
  <2> QED
    BY <2>2, <2>4 DEF Marked
<1> QED
  BY <1>2, <1>3

\* A text with the same first i characters has the positions in front of them
\* at the same characters.
LEMMA MarkedAlike ==
  ASSUME NEW l \in Text, NEW m \in Text, NEW i \in 0..Len(l), i \in 0..Len(m),
         Fore(m, i) = Fore(l, i), NEW c \in 0..Rename!Units(Fore(l, i)), NEW k \in Rename!Before(m, c)
  PROVE  /\ Marked(m, c, k) /\ k \in 0..i /\ k \in 0..Len(l)
         /\ Fore(m, k) = Fore(l, k) /\ Rename!Units(Fore(l, k)) = c
<1>1. /\ Len(l) \in Nat /\ Len(m) \in Nat /\ l \in Seq(Marks) /\ m \in Seq(Marks) /\ i \in Nat
      /\ Len(m) \in 0..Len(m)
  BY LenProperties DEF Text
<1>2. Rename!Units(Fore(m, i)) \in Nat /\ Rename!Units(Fore(m, i)) <= Rename!Units(m)
      /\ Rename!Units(m) \in Nat
  BY <1>1, UnitsGrow
<1>3. c \in 0..Rename!Units(m) /\ c \in Nat /\ c <= Rename!Units(Fore(m, i))
  BY <1>2
<1>4. Marked(m, c, k)
  BY <1>3, MarkedIs
<1>5. k \in 0..Len(m) /\ Rename!Units(Fore(m, k)) = c
  BY <1>4 DEF Marked
<1>6. k <= i
  <2>1. SUFFICES ASSUME i < k PROVE FALSE
    BY <1>1, <1>5
  <2>2. i \in 0..k
    BY <1>1, <1>5, <2>1
  <2>3. Rename!Units(Fore(m, i)) < Rename!Units(Fore(m, k))
    BY <1>5, <2>1, <2>2, UnitsGrow
  <2> QED
    BY <1>2, <1>3, <1>5, <2>3
<1>7. k \in 0..i /\ k \in 0..Len(l)
  BY <1>1, <1>5, <1>6
<1>8. Fore(Fore(m, i), k) = Fore(m, k) /\ Fore(Fore(l, i), k) = Fore(l, k)
  BY <1>1, <1>7, CutTwice
<1> QED
  BY <1>4, <1>5, <1>7, <1>8

\* Where a line starts.
Start(d, n) == Rename!Units(Broken(Fore(d, n)))

\* A line starts behind the lines in front of it.
LEMMA StartsGrow ==
  ASSUME NEW d \in Docs, NEW m \in 0..Len(d), NEW n \in Nat, n < m
  PROVE  /\ Start(d, n) \in Nat /\ Start(d, m) \in Nat /\ Rename!Units(d[n + 1]) \in Nat
         /\ Start(d, n) + Rename!Units(d[n + 1]) < Start(d, m)
<1>1. /\ Len(d) \in Nat /\ n \in 0..Len(d) /\ n + 1 \in 0..Len(d) /\ n + 1 \in 1..Len(d)
      /\ n + 1 \in 0..m /\ n < Len(d) /\ d \in Seq(Text) /\ m \in Nat
  BY LenProperties DEF Docs
<1>2. d[n + 1] \in Text /\ Fore(d, n) \in Docs
  BY <1>1, LineAround DEF Around
<1> DEFINE l == d[n + 1]
           x == Broken(Fore(d, n))
<1>3. Fore(d, n + 1) = Append(Fore(d, n), l)
  <2>1. SubSeq(d, 1, n + 1) = SubSeq(d, 1, n) \o <<d[n + 1]>>
    <3>1. 1 \in 1..Len(d) /\ n + 1 \in 1..Len(d) /\ (n + 1) - 1 = n
      BY <1>1
    <3> QED
      BY <1>1, <3>1, SubSeqRecursiveSecond
  <2>2. Append(Fore(d, n), l) = Fore(d, n) \o <<l>>
    BY <1>2, AppendIsConcat DEF Docs
  <2> QED
    BY <2>1, <2>2 DEF Fore
<1>4. x \in Text /\ Broken(Fore(d, n + 1)) = Cat(x, Cat(l, <<NL>>))
  BY <1>2, <1>3, BrokenMore
<1>5. <<NL>> \in Text /\ <<NL>> # <<>>
  BY EndedIs
<1> DEFINE y == Fore(d, n + 1)
           z == Piece(d, n + 1, m)
<1>6. y \in Docs /\ z \in Docs /\ Cat(y, z) = Fore(d, m)
  <2> DEFINE w == Fore(d, m)
  <2>1. w \in Seq(Text) /\ Len(w) = m
    BY <1>1, Halves
  <2>2. Fore(w, n + 1) = y /\ Aft(w, n + 1) = z
    BY <1>1, CutTwice
  <2> HIDE DEF w, y, z
  <2>3. Fore(w, n + 1) \in Seq(Text) /\ Aft(w, n + 1) \in Seq(Text) /\ Cat(Fore(w, n + 1), Aft(w, n + 1)) = w
    BY <1>1, <2>1, Halves
  <2> QED
    BY <2>2, <2>3 DEF w, Docs
<1>7. Broken(Fore(d, m)) = Cat(Broken(y), Broken(z)) /\ Broken(z) \in Text
  BY <1>2, <1>6, JoinedCat, BrokenMore
<1> DEFINE b == <<NL>>
           v == Broken(z)
<1>8. x \in Text /\ l \in Text /\ b \in Text /\ v \in Text /\ b # <<>>
  BY <1>2, <1>4, <1>5, <1>7
<1>9. Broken(Fore(d, m)) = Cat(Cat(x, Cat(l, b)), v)
  BY <1>4, <1>7
<1> HIDE DEF x, l, b, v
<1>10. Cat(l, b) \in Text /\ Cat(x, Cat(l, b)) \in Text
  BY <1>8, CatTypes DEF Text
<1>11. /\ Rename!Units(Cat(l, b)) = Rename!Units(l) + Rename!Units(b)
       /\ Rename!Units(Cat(x, Cat(l, b))) = Rename!Units(x) + Rename!Units(Cat(l, b))
       /\ Rename!Units(Cat(Cat(x, Cat(l, b)), v)) = Rename!Units(Cat(x, Cat(l, b))) + Rename!Units(v)
  BY <1>8, <1>10, UnitsCat DEF Text
<1>12. /\ Rename!Units(x) \in Nat /\ Rename!Units(l) \in Nat /\ Rename!Units(v) \in Nat
       /\ Rename!Units(b) \in Nat /\ Rename!Units(b) >= 1
  BY <1>8, UnitsAre, UnitsNone DEF Text
<1>13. Start(d, m) = Rename!Units(x) + Rename!Units(l) + Rename!Units(b) + Rename!Units(v)
  BY <1>9, <1>11, <1>12 DEF Start
<1>14. Start(d, n) = Rename!Units(x)
  BY DEF Start, x
<1> DEFINE ux == Rename!Units(x)
           ul == Rename!Units(l)
           ub == Rename!Units(b)
           uv == Rename!Units(v)
<1>15. ux \in Nat /\ ul \in Nat /\ ub \in Nat /\ uv \in Nat /\ ub >= 1
  BY <1>12
<1>16. Start(d, m) = ux + ul + ub + uv /\ Start(d, n) = ux
  BY <1>13, <1>14
<1> HIDE DEF ux, ul, ub, uv
<1>17. Start(d, n) \in Nat /\ Start(d, m) \in Nat /\ ul \in Nat /\ Start(d, n) + ul < Start(d, m)
  BY <1>15, <1>16
<1> QED
  BY <1>17 DEF ul, l

\* A position is in the document.
Inside(d, n, c) == n \in Nat /\ n < Len(d) /\ c \in 0..Rename!Units(d[n + 1])

\* The place of a position.
LEMMA PlaceIs ==
  ASSUME NEW d \in Docs, NEW n, NEW c, Inside(d, n, c)
  PROVE  /\ Rename!Place(d, n, c) = Start(d, n) + c /\ Start(d, n) \in Nat
         /\ \A k \in 0..Len(d[n + 1]) : Rename!Units(Fore(d[n + 1], k)) = c =>
              Rename!Units(Point(d, n, k)) = Rename!Place(d, n, c)
<1>1. n \in Nat /\ n < Len(d) /\ d[n + 1] \in Text /\ Fore(d, n) \in Docs
  BY LineAround DEF Around, Inside
<1>2. Rename!Units(d[n + 1]) \in Nat /\ c \in Nat /\ c <= Rename!Units(d[n + 1])
  <2>1. Rename!Units(d[n + 1]) \in Nat
    BY <1>1, UnitsAre DEF Text
  <2> QED
    BY <2>1 DEF Inside
<1> DEFINE x == Fore(d, n)
           none == <<>>
<1>3. none \in Text /\ none = <<>>
  BY EmptySeq DEF Text
<1>4. SubSeq(d, 1, n) \o <<<<>>>> = Append(x, none)
  <2> HIDE DEF none
  <2>1. Append(x, none) = x \o <<none>>
    BY <1>1, <1>3, AppendIsConcat DEF Docs
  <2> QED
    BY <2>1 DEF none, Fore
<1> HIDE DEF none, x
<1>5. Rename!Joined(Append(x, none)) = Cat(Broken(x), none) /\ Broken(x) \in Text
  BY <1>1, <1>3, JoinedMore, BrokenMore DEF x
<1>6. Cat(Broken(x), none) = Broken(x)
  BY <1>3, <1>5, CatNone DEF Text
<1>7. Rename!Units(Broken(x)) \in Nat
  BY <1>5, UnitsAre DEF Text
<1>8. Rename!Place(d, n, c) = Rename!Units(Rename!Joined(SubSeq(d, 1, n) \o <<<<>>>>)) + c
  <2> DEFINE most == IF n < Len(d) THEN Rename!Units(d[n + 1]) ELSE 0
  <2>1. (IF c > most THEN most ELSE c) = c
    BY <1>1, <1>2
  <2> HIDE DEF most
  <2>2. Rename!Place(d, n, c) =
          Rename!Units(Rename!Joined(SubSeq(d, 1, n) \o <<<<>>>>)) + (IF c > most THEN most ELSE c)
    BY DEF Rename!Place, most
  <2> QED
    BY <2>1, <2>2
<1>9. Rename!Place(d, n, c) = Start(d, n) + c
  BY <1>4, <1>5, <1>6, <1>8 DEF Start, x
<1>10. ASSUME NEW k \in 0..Len(d[n + 1]), Rename!Units(Fore(d[n + 1], k)) = c
       PROVE  Rename!Units(Point(d, n, k)) = Start(d, n) + c
  <2> DEFINE a == Broken(x)
             b == Fore(d[n + 1], k)
  <2>1. b \in Text
    BY <1>1, <1>10, Halves DEF Text
  <2>2. a \in Text
    BY <1>5
  <2> HIDE DEF a, b
  <2>3. Rename!Units(Cat(a, b)) = Rename!Units(a) + Rename!Units(b)
    BY <2>1, <2>2, UnitsCat DEF Text
  <2> QED
    BY <1>10, <2>3 DEF Point, Start, a, b, x
<1> QED
  BY <1>7, <1>9, <1>10 DEF Start, x

\* Places are in the order of the positions.
LEMMA PlacesGrow ==
  ASSUME NEW d \in Docs, NEW n, NEW c, Inside(d, n, c), NEW m, NEW b, Inside(d, m, b),
         n < m \/ (n = m /\ c <= b)
  PROVE  /\ Rename!Place(d, n, c) \in Nat /\ Rename!Place(d, m, b) \in Nat
         /\ Rename!Place(d, n, c) <= Rename!Place(d, m, b)
         /\ <<n, c>> # <<m, b>> => Rename!Place(d, n, c) < Rename!Place(d, m, b)
<1>1. /\ Rename!Place(d, n, c) = Start(d, n) + c /\ Start(d, n) \in Nat
      /\ Rename!Place(d, m, b) = Start(d, m) + b /\ Start(d, m) \in Nat
  BY PlaceIs
<1>2. n \in Nat /\ m \in Nat /\ n < Len(d) /\ m < Len(d) /\ Len(d) \in Nat
  BY LenProperties DEF Inside, Docs
<1>3. d[n + 1] \in Text /\ d[m + 1] \in Text
  BY <1>2, LineAround DEF Around
<1>4. Rename!Units(d[n + 1]) \in Nat /\ Rename!Units(d[m + 1]) \in Nat
  BY <1>3, UnitsAre DEF Text
<1>5. c \in Nat /\ b \in Nat /\ c <= Rename!Units(d[n + 1])
  BY <1>4 DEF Inside
<1>6. CASE n < m
  <2>1. m \in 0..Len(d)
    BY <1>2
  <2>2. Start(d, n) + Rename!Units(d[n + 1]) < Start(d, m)
    BY <1>2, <1>6, <2>1, StartsGrow
  <2> QED
    BY <1>1, <1>4, <1>5, <2>2
<1>7. CASE n = m /\ c <= b
  BY <1>1, <1>5, <1>7
<1> QED
  BY <1>6, <1>7

-----------------------------------------------------------------------------
(* An edit, unit by unit.                                                  *)

\* A cut of the document cuts its units.
LEMMA FlatCut ==
  ASSUME NEW d \in Docs, NEW n \in Nat, n < Len(d), NEW k \in 0..Len(d[n + 1])
  PROVE  LET G == Rename!Flat(d)
             f == Rename!Units(Point(d, n, k))
         IN  /\ G \in Seq(Unit) /\ f \in 0..Len(G)
             /\ Fore(G, f) = Rename!Utf16(Point(d, n, k))
             /\ Aft(G, f) = Rename!Utf16(Beyond(d, n, k))
<1> DEFINE p == Point(d, n, k)
           q == Beyond(d, n, k)
           x == Rename!Utf16(p)
           y == Rename!Utf16(q)
<1>1. p \in Text /\ q \in Text /\ Rename!Joined(d) = Cat(p, q)
  BY CutDoc DEF IsCut
<1> HIDE DEF p, q
<1>2. Rename!Flat(d) = Cat(x, y)
  BY <1>1, UnitsCat DEF Text, Rename!Flat
<1>3. x \in Seq(Unit) /\ y \in Seq(Unit) /\ Len(x) = Rename!Units(p)
  BY <1>1, UnitsAre DEF Text
<1> HIDE DEF x, y
<1>4. Fore(Cat(x, y), Len(x)) = x /\ Aft(Cat(x, y), Len(x)) = y /\ Len(x) \in 0..Len(Cat(x, y))
  BY <1>3, Recut
<1>5. Cat(x, y) \in Seq(Unit)
  BY <1>3, CatTypes
<1> QED
  BY <1>2, <1>3, <1>4, <1>5 DEF x, y, p, q

\* The units with the edit: those in front of it, the new ones, those behind it.
LEMMA FlatEdited ==
  ASSUME NEW d \in Docs, NEW e, NEW i, NEW j, Cuts(d, e, i, j)
  PROVE  LET G == Rename!Flat(d)
             R == Edited1(d, e, i, j)
             f == Rename!Units(Point(d, e.line, i))
             t == Rename!Units(Point(d, e.endLine, j))
         IN  /\ R \in Docs
             /\ Rename!Flat(R) = Cat(Cat(Fore(G, f), Rename!Utf16(e.new)), Aft(G, t))
<1>1. /\ e.line \in Nat /\ e.endLine \in Nat /\ e.line < Len(d) /\ e.endLine < Len(d) /\ e.new \in Text
      /\ i \in 0..Len(d[e.line + 1]) /\ j \in 0..Len(d[e.endLine + 1])
  BY LenProperties DEF Cuts, Docs
<1> DEFINE p == Point(d, e.line, i)
           q == Beyond(d, e.endLine, j)
           G == Rename!Flat(d)
           R == Edited1(d, e, i, j)
           ls == Lines1(d, e, i, j)
<1>2. ls \in Docs /\ ls # <<>> /\ Rename!Joined(ls) = Cat(Fore(d[e.line + 1], i), Cat(e.new, Aft(d[e.endLine + 1], j)))
  BY Lines1Is DEF Text1
<1>3. Fore(d, e.line) \in Docs /\ Aft(d, e.endLine + 1) \in Docs
  BY <1>1, LineAround DEF Around
<1>4. R = Cat(Fore(d, e.line), Cat(ls, Aft(d, e.endLine + 1)))
  BY DEF Edited1
<1> HIDE DEF ls
<1>5. Rename!Joined(R) = Cat(p, Cat(e.new, q))
  BY <1>1, <1>2, <1>4, PutBetween
<1>6. R \in Docs
  BY <1>2, <1>3, <1>4, CatTypes DEF Docs
<1>7. p \in Text /\ q \in Text
  BY <1>1, CutDoc DEF IsCut
<1>8. Fore(G, Rename!Units(p)) = Rename!Utf16(p)
  BY <1>1, FlatCut
<1>9. Aft(G, Rename!Units(Point(d, e.endLine, j))) = Rename!Utf16(q)
  BY <1>1, FlatCut
<1> HIDE DEF p, q, R, G
<1>10. /\ Rename!Utf16(Cat(e.new, q)) = Cat(Rename!Utf16(e.new), Rename!Utf16(q))
       /\ Cat(e.new, q) \in Text
  BY <1>1, <1>7, UnitsCat, CatTypes DEF Text
<1>11. Rename!Utf16(Cat(p, Cat(e.new, q))) = Cat(Rename!Utf16(p), Rename!Utf16(Cat(e.new, q)))
  BY <1>7, <1>10, UnitsCat DEF Text
<1> DEFINE a == Rename!Utf16(p)
           b == Rename!Utf16(e.new)
           c == Rename!Utf16(q)
<1>12. a \in Seq(Unit) /\ b \in Seq(Unit) /\ c \in Seq(Unit)
  BY <1>1, <1>7, UnitsAre DEF Text
<1>13. Rename!Flat(R) = Cat(a, Cat(b, c))
  BY <1>5, <1>10, <1>11 DEF Rename!Flat
<1> HIDE DEF a, b, c
<1>14. Cat(a, Cat(b, c)) = Cat(Cat(a, b), c)
  BY <1>12, CatMoves
<1>15. Rename!Flat(R) = Cat(Cat(a, b), c)
  BY <1>13, <1>14
<1> QED
  BY <1>6, <1>8, <1>9, <1>15 DEF a, b, c, p, q, R, G

\* In front of the edit the document is the same, and its first line starts as it did.
LEMMA EditedAgrees ==
  ASSUME NEW d \in Docs, NEW e, NEW i, NEW j, Cuts(d, e, i, j)
  PROVE  LET R == Edited1(d, e, i, j)
         IN  /\ e.line < Len(R) /\ \A n \in 0..e.line : Fore(R, n) = Fore(d, n)
             /\ \A n \in 0..(e.line - 1) : R[n + 1] = d[n + 1]
             /\ R[e.line + 1] \in Text /\ i \in 0..Len(R[e.line + 1])
             /\ Fore(R[e.line + 1], i) = Fore(d[e.line + 1], i)
<1> DEFINE L == e.line
           x == Fore(d, L)
           ls == Lines1(d, e, i, j)
           y == Aft(d, e.endLine + 1)
           z == Cat(ls, y)
           R == Cat(x, z)
<1>1. /\ L \in Nat /\ e.endLine \in Nat /\ L < Len(d) /\ e.endLine < Len(d) /\ d \in Seq(Text)
      /\ i \in 0..Len(d[L + 1]) /\ L \in 0..Len(d) /\ Len(d) \in Nat
  BY LenProperties DEF Cuts, Docs
<1>2. /\ ls \in Docs /\ ls # <<>> /\ ls[1] \in Text /\ Len(ls[1]) >= i
      /\ Fore(ls[1], i) = Fore(d[L + 1], i)
  BY Lines1Is
<1>3. x \in Docs /\ y \in Docs
  BY <1>1, LineAround DEF Around
<1>4. Len(x) = L
  BY <1>1, Halves
<1>5. Edited1(d, e, i, j) = R
  BY DEF Edited1
<1> HIDE DEF ls, y
<1>6. z \in Docs /\ Len(z) = Len(ls) + Len(y) /\ Len(ls) \in Nat /\ Len(y) \in Nat /\ Len(ls) >= 1
  <2>1. Len(ls) \in Nat /\ Len(y) \in Nat /\ z \in Seq(Text) /\ Len(z) = Len(ls) + Len(y)
    BY <1>2, <1>3, CatTypes, LenProperties DEF Docs
  <2>2. Len(ls) # 0
    BY <1>2 DEF Docs
  <2> QED
    BY <2>1, <2>2 DEF Docs
<1>7. z[1] = ls[1]
  <2>1. 1 \in 1..(Len(ls) + Len(y)) /\ 1 <= Len(ls)
    BY <1>6
  <2>2. (ls \o y)[1] = ls[1]
    BY <1>2, <1>3, <2>1, ConcatProperties DEF Docs
  <2> QED
    BY <2>2 DEF Cat
<1> HIDE DEF z
<1>8. Len(R) = L + Len(z) /\ L < Len(R) /\ Len(z) \in Nat /\ Len(z) >= 1
  <2>1. Len(R) = Len(x) + Len(z)
    BY <1>3, <1>6, CatTypes DEF Docs
  <2> QED
    BY <1>1, <1>4, <1>6, <2>1
<1>9. R[L + 1] = ls[1]
  <2>1. L + 1 \in 1..(Len(x) + Len(z)) /\ ~(L + 1 <= Len(x)) /\ (L + 1) - Len(x) = 1
    BY <1>1, <1>4, <1>8
  <2>2. (x \o z)[L + 1] = z[(L + 1) - Len(x)]
    <3> DEFINE w == L + 1
    <3> HIDE DEF w, x
    <3>1. x \in Seq(Text) /\ z \in Seq(Text)
      BY <1>3, <1>6 DEF Docs
    <3>2. w \in 1..(Len(x) + Len(z)) /\ ~(w <= Len(x))
      BY <2>1 DEF w
    <3>3. (x \o z)[w] = z[w - Len(x)]
      BY <3>1, <3>2, ConcatProperties
    <3> QED
      BY <3>3 DEF w
  <2> QED
    BY <1>7, <2>1, <2>2 DEF Cat
<1>10. ASSUME NEW n \in 0..L PROVE Fore(R, n) = Fore(d, n)
  <2>1. Fore(x, n) = Fore(d, n)
    BY <1>1, CutTwice
  <2> HIDE DEF x
  <2>2. Fore(Cat(x, z), n) = Fore(x, n)
    <3>1. n \in 0..Len(x)
      BY <1>4
    <3> QED
      BY <1>3, <1>6, <3>1, CutCat DEF Docs
  <2> QED
    BY <2>1, <2>2
<1>11. ASSUME NEW n \in 0..(L - 1) PROVE R[n + 1] = d[n + 1]
  <2>1. n + 1 \in 1..L /\ n + 1 \in 1..(Len(x) + Len(z)) /\ n + 1 <= Len(x) /\ n + 1 \in 1..Len(x)
    BY <1>1, <1>4, <1>8
  <2>2. x[n + 1] = d[n + 1]
    BY <1>1, <1>4, <2>1 DEF Fore
  <2>3. (x \o z)[n + 1] = x[n + 1]
    <3> DEFINE w == n + 1
    <3> HIDE DEF w, x
    <3>1. x \in Seq(Text) /\ z \in Seq(Text)
      BY <1>3, <1>6 DEF Docs
    <3>2. w \in 1..(Len(x) + Len(z)) /\ w <= Len(x)
      BY <2>1 DEF w
    <3>3. (x \o z)[w] = x[w]
      BY <3>1, <3>2, ConcatProperties
    <3> QED
      BY <3>3 DEF w
  <2> QED
    BY <2>2, <2>3 DEF Cat
<1>12. i \in 0..Len(ls[1])
  <2>1. Len(d[L + 1]) \in Nat /\ Len(ls[1]) \in Nat
    BY <1>1, <1>2, LineAround, LenProperties DEF Around, Text
  <2> QED
    BY <1>1, <1>2, <2>1
<1> HIDE DEF R
<1> QED
  BY <1>2, <1>5, <1>8, <1>9, <1>10, <1>11, <1>12

\* An edit between two positions of the document, at characters i and j.
Held(d, e, i, j) ==
  /\ Cuts(d, e, i, j) /\ Inside(d, e.line, e.char) /\ Inside(d, e.endLine, e.endChar)
  /\ Rename!Units(Fore(d[e.line + 1], i)) = e.char
  /\ Rename!Units(Fore(d[e.endLine + 1], j)) = e.endChar
StartsAt(d, e) == Rename!Place(d, e.line, e.char)
EndsAt(d, e) == Rename!Place(d, e.endLine, e.endChar)

\* The units with it.
LEMMA FlatHeld ==
  ASSUME NEW d \in Docs, NEW e, NEW i, NEW j, Held(d, e, i, j)
  PROVE  LET G == Rename!Flat(d)
             R == Edited1(d, e, i, j)
         IN  /\ G \in Seq(Unit) /\ StartsAt(d, e) \in 0..Len(G) /\ EndsAt(d, e) \in 0..Len(G)
             /\ R \in Docs
             /\ Rename!Flat(R) =
                  Cat(Cat(Fore(G, StartsAt(d, e)), Rename!Utf16(e.new)), Aft(G, EndsAt(d, e)))
<1>1. /\ e.line \in Nat /\ e.endLine \in Nat /\ e.line < Len(d) /\ e.endLine < Len(d)
      /\ i \in 0..Len(d[e.line + 1]) /\ j \in 0..Len(d[e.endLine + 1]) /\ Cuts(d, e, i, j)
  BY LenProperties DEF Held, Cuts, Docs
<1>2. Rename!Units(Point(d, e.line, i)) = StartsAt(d, e)
  BY <1>1, PlaceIs DEF Held, StartsAt
<1>3. Rename!Units(Point(d, e.endLine, j)) = EndsAt(d, e)
  BY <1>1, PlaceIs DEF Held, EndsAt
<1>4. Rename!Flat(d) \in Seq(Unit) /\ StartsAt(d, e) \in 0..Len(Rename!Flat(d))
  BY <1>1, <1>2, FlatCut
<1>5. EndsAt(d, e) \in 0..Len(Rename!Flat(d))
  BY <1>1, <1>3, FlatCut
<1> QED
  BY <1>1, <1>2, <1>3, <1>4, <1>5, FlatEdited

-----------------------------------------------------------------------------
(* A second edit, in front of the first.                                   *)

\* A position in front of the edit e.
InFront(n, c, e) == n < e.line \/ (n = e.line /\ c <= e.char)

\* It is at the same place when e has been applied.
LEMMA PlaceKept ==
  ASSUME NEW d \in Docs, NEW e, NEW i, NEW j, Held(d, e, i, j), NEW R, R = Edited1(d, e, i, j),
         NEW n, NEW c, Inside(d, n, c), InFront(n, c, e), NEW k \in Rename!Before(R[n + 1], c)
  PROVE  /\ n < Len(R) /\ Marked(R[n + 1], c, k) /\ k \in 0..Len(d[n + 1])
         /\ Fore(R[n + 1], k) = Fore(d[n + 1], k)
         /\ Rename!Units(Point(R, n, k)) = Rename!Place(d, n, c)
<1>1. /\ e.line \in Nat /\ n \in Nat /\ n < Len(d) /\ e.line < Len(d) /\ n <= e.line /\ Len(d) \in Nat
      /\ i \in 0..Len(d[e.line + 1]) /\ e.endLine \in Nat
  BY LenProperties DEF Held, Cuts, Docs, Inside, InFront
<1>2. /\ e.line < Len(R) /\ \A m \in 0..e.line : Fore(R, m) = Fore(d, m)
      /\ \A m \in 0..(e.line - 1) : R[m + 1] = d[m + 1]
      /\ R[e.line + 1] \in Text /\ i \in 0..Len(R[e.line + 1])
      /\ Fore(R[e.line + 1], i) = Fore(d[e.line + 1], i) /\ R \in Docs
  BY EditedAgrees, FlatEdited DEF Held
<1>3. n < Len(R)
  <2>1. Len(R) \in Nat
    BY <1>2, LenProperties DEF Docs
  <2> QED
    BY <1>1, <1>2, <2>1
<1>4. d[n + 1] \in Text /\ d[e.line + 1] \in Text
  BY <1>1, LineAround DEF Around
<1>5. c \in 0..Rename!Units(d[n + 1])
  BY DEF Inside
<1>6. /\ Marked(R[n + 1], c, k) /\ k \in 0..Len(d[n + 1]) /\ Fore(R[n + 1], k) = Fore(d[n + 1], k)
      /\ Rename!Units(Fore(d[n + 1], k)) = c
  <2>1. CASE n < e.line
    <3>1. n \in 0..(e.line - 1)
      BY <1>1, <2>1
    <3>2. R[n + 1] = d[n + 1]
      BY <1>2, <3>1
    <3>3. Marked(d[n + 1], c, k)
      BY <1>4, <1>5, <3>2, MarkedIs
    <3> QED
      BY <3>2, <3>3 DEF Marked
  <2>2. CASE ~(n < e.line)
    <3>1. n = e.line /\ c <= e.char
      BY <1>1, <2>2 DEF InFront
    <3>2. c \in 0..Rename!Units(Fore(d[n + 1], i))
      <4>1. e.char = Rename!Units(Fore(d[n + 1], i)) /\ e.char \in 0..Rename!Units(d[n + 1])
        BY <3>1 DEF Held, Inside
      <4>2. Rename!Units(d[n + 1]) \in Nat
        BY <1>4, UnitsAre DEF Text
      <4> QED
        BY <1>5, <3>1, <4>1, <4>2
    <3> DEFINE l == d[n + 1]
               m == R[n + 1]
    <3>3. /\ l \in Text /\ m \in Text /\ i \in 0..Len(l) /\ i \in 0..Len(m) /\ Fore(m, i) = Fore(l, i)
          /\ c \in 0..Rename!Units(Fore(l, i)) /\ k \in Rename!Before(m, c)
      BY <1>1, <1>2, <1>4, <3>1, <3>2
    <3> HIDE DEF l, m
    <3>4. Marked(m, c, k) /\ k \in 0..Len(l) /\ Fore(m, k) = Fore(l, k) /\ Rename!Units(Fore(l, k)) = c
      BY <3>3, MarkedAlike
    <3> QED
      BY <3>4 DEF l, m
  <2> QED
    BY <2>1, <2>2
<1>7. Point(R, n, k) = Point(d, n, k)
  <2>1. n \in 0..e.line
    BY <1>1
  <2>2. Fore(R, n) = Fore(d, n)
    BY <1>2, <2>1
  <2> QED
    BY <1>6, <2>2 DEF Point
<1>8. Rename!Units(Point(d, n, k)) = Rename!Place(d, n, c)
  BY <1>6, PlaceIs
<1> QED
  BY <1>3, <1>6, <1>7, <1>8

\* What the edits of a document ask for: two positions in it, and a new text.
Asks(d, e) ==
  /\ Inside(d, e.line, e.char) /\ Inside(d, e.endLine, e.endChar) /\ e.new \in Text
  /\ e.line < e.endLine \/ (e.line = e.endLine /\ e.char <= e.endChar)

\* An edit that can be applied at i and j.
LEMMA HeldIs ==
  ASSUME NEW d \in Clean, NEW e, Asks(d, e), NEW i \in Rename!Before(d[e.line + 1], e.char),
         NEW j \in Rename!Before(d[e.endLine + 1], e.endChar)
  PROVE  Held(d, e, i, j)
<1>1. d \in Docs /\ Len(d) \in Nat
  BY CleanIsDoc, LenProperties DEF Docs
<1>2. /\ e.line \in Nat /\ e.endLine \in Nat /\ e.line <= e.endLine /\ e.endLine < Len(d)
      /\ e.line < Len(d) /\ e.new \in Text /\ e.line + 1 \in 1..Len(d)
      /\ e.char \in 0..Rename!Units(d[e.line + 1]) /\ e.endChar \in 0..Rename!Units(d[e.endLine + 1])
  BY <1>1 DEF Asks, Inside
<1>3. d[e.line + 1] \in Text /\ d[e.endLine + 1] \in Text
  BY <1>1, <1>2, LineAround DEF Around
<1>4. Marked(d[e.line + 1], e.char, i)
  BY <1>2, <1>3, MarkedIs
<1>5. Marked(d[e.endLine + 1], e.endChar, j)
  BY <1>2, <1>3, MarkedIs
<1>6. Fore(d[e.line + 1], i) \in Seq(Letters)
  <2>1. d[e.line + 1] \in Seq(Letters)
    BY <1>2, ElementOfSeq DEF Clean
  <2> QED
    BY <1>4, <2>1, Halves DEF Marked
<1> QED
  BY <1>2, <1>4, <1>5, <1>6 DEF Held, Cuts, Asks, Marked

\* The other is in front of it, and can be applied at a and b when e has been.
LEMMA CutsKept ==
  ASSUME NEW d \in Clean, NEW e, NEW i, NEW j, Held(d, e, i, j), NEW R, R = Edited1(d, e, i, j),
         NEW o, Asks(d, o), InFront(o.endLine, o.endChar, e),
         NEW a \in Rename!Before(R[o.line + 1], o.char),
         NEW b \in Rename!Before(R[o.endLine + 1], o.endChar)
  PROVE  /\ Cuts(R, o, a, b)
         /\ Rename!Units(Point(R, o.line, a)) = StartsAt(d, o)
         /\ Rename!Units(Point(R, o.endLine, b)) = EndsAt(d, o)
<1>1. d \in Docs /\ Len(d) \in Nat
  BY CleanIsDoc, LenProperties DEF Docs
<1>2. /\ o.line \in Nat /\ o.endLine \in Nat /\ o.line <= o.endLine /\ o.endLine < Len(d)
      /\ o.line < Len(d) /\ o.new \in Text /\ o.line + 1 \in 1..Len(d)
      /\ Inside(d, o.line, o.char) /\ Inside(d, o.endLine, o.endChar)
  BY <1>1 DEF Asks, Inside
<1>3. InFront(o.line, o.char, e)
  <2>1. e.line \in Nat /\ e.line < Len(d)
    BY <1>1 DEF Held, Cuts
  <2>2. d[o.line + 1] \in Text /\ d[o.endLine + 1] \in Text /\ d[e.line + 1] \in Text
    BY <1>1, <1>2, <2>1, LineAround DEF Around
  <2>3. /\ Rename!Units(d[o.line + 1]) \in Nat /\ Rename!Units(d[o.endLine + 1]) \in Nat
        /\ Rename!Units(d[e.line + 1]) \in Nat
    BY <2>2, UnitsAre DEF Text
  <2>4. o.char \in Nat /\ o.endChar \in Nat /\ e.char \in Nat
    BY <2>3 DEF Asks, Inside, Held
  <2>5. o.line < o.endLine \/ (o.line = o.endLine /\ o.char <= o.endChar)
    BY DEF Asks
  <2>6. o.endLine < e.line \/ (o.endLine = e.line /\ o.endChar <= e.char)
    BY DEF InFront
  <2>7. o.line < e.line \/ (o.line = e.line /\ o.char <= e.char)
    BY <1>2, <2>1, <2>4, <2>5, <2>6
  <2> QED
    BY <2>7 DEF InFront
<1>4. /\ Marked(R[o.line + 1], o.char, a) /\ a \in 0..Len(d[o.line + 1])
      /\ Fore(R[o.line + 1], a) = Fore(d[o.line + 1], a)
      /\ Rename!Units(Point(R, o.line, a)) = Rename!Place(d, o.line, o.char)
  BY <1>1, <1>2, <1>3, PlaceKept
<1>5. /\ o.endLine < Len(R) /\ Marked(R[o.endLine + 1], o.endChar, b)
      /\ Rename!Units(Point(R, o.endLine, b)) = Rename!Place(d, o.endLine, o.endChar)
  <2> DEFINE n == o.endLine
             c == o.endChar
  <2>1. Inside(d, n, c) /\ InFront(n, c, e) /\ b \in Rename!Before(R[n + 1], c)
    BY <1>2
  <2> HIDE DEF n, c
  <2>2. n < Len(R) /\ Marked(R[n + 1], c, b) /\ Rename!Units(Point(R, n, b)) = Rename!Place(d, n, c)
    BY <1>1, <2>1, PlaceKept
  <2> QED
    BY <2>2 DEF n, c
<1>6. Fore(R[o.line + 1], a) \in Seq(Letters)
  <2>1. d[o.line + 1] \in Seq(Letters)
    BY <1>2, ElementOfSeq DEF Clean
  <2> QED
    BY <1>4, <2>1, Halves
<1> QED
  BY <1>2, <1>4, <1>5, <1>6 DEF Cuts, Marked, StartsAt, EndsAt

\* The units with both edits: those in front of o, its own, those in between,
\* those of e, and those behind it.
BothApplied(d, o, e, S) ==
  LET G == Rename!Flat(d)
  IN  /\ EndsAt(d, e) \in 0..Len(G) /\ StartsAt(d, e) \in 0..EndsAt(d, e)
      /\ EndsAt(d, o) \in 0..StartsAt(d, e) /\ StartsAt(d, o) \in 0..EndsAt(d, o)
      /\ S \in Docs
      /\ Rename!Flat(S) =
           Cat(Cat(Cat(Cat(Fore(G, StartsAt(d, o)), Rename!Utf16(o.new)),
                       Piece(G, EndsAt(d, o), StartsAt(d, e))),
                   Rename!Utf16(e.new)), Aft(G, EndsAt(d, e)))

\* They are.
LEMMA FlatTwo ==
  ASSUME NEW d \in Clean, NEW e, NEW i, NEW j, Held(d, e, i, j), Asks(d, e), NEW R, R = Edited1(d, e, i, j),
         NEW o, Asks(d, o), InFront(o.endLine, o.endChar, e),
         NEW a \in Rename!Before(R[o.line + 1], o.char),
         NEW b \in Rename!Before(R[o.endLine + 1], o.endChar)
  PROVE  R \in Docs /\ Cuts(R, o, a, b) /\ BothApplied(d, o, e, Edited1(R, o, a, b))
<1> DEFINE G == Rename!Flat(d)
           S == Edited1(R, o, a, b)
           f == StartsAt(d, o)
           t == EndsAt(d, o)
           g == StartsAt(d, e)
           u == EndsAt(d, e)
           N == Rename!Utf16(o.new)
           M == Rename!Utf16(e.new)
           H == Rename!Flat(R)
<1>1. d \in Docs
  BY CleanIsDoc
<1>2. /\ G \in Seq(Unit) /\ g \in 0..Len(G) /\ u \in 0..Len(G) /\ R \in Docs
      /\ H = Cat(Cat(Fore(G, g), M), Aft(G, u))
  BY <1>1, FlatHeld
<1>3. /\ Cuts(R, o, a, b) /\ Rename!Units(Point(R, o.line, a)) = f
      /\ Rename!Units(Point(R, o.endLine, b)) = t
  BY CutsKept
<1>4. S \in Docs /\ Rename!Flat(S) = Cat(Cat(Fore(H, f), N), Aft(H, t))
  BY <1>2, <1>3, FlatEdited
<1>5. f \in Nat /\ t \in Nat /\ f <= t
  BY <1>1, PlacesGrow DEF Asks, StartsAt, EndsAt
<1>6. g \in Nat /\ t <= g
  <2>1. o.endLine < e.line \/ (o.endLine = e.line /\ o.endChar <= e.char)
    BY DEF InFront
  <2> QED
    BY <1>1, <2>1, PlacesGrow DEF Asks, StartsAt, EndsAt
<1>7. u \in Nat /\ g <= u
  BY <1>1, PlacesGrow DEF Asks, StartsAt, EndsAt
<1>8. N \in Seq(Unit) /\ M \in Seq(Unit)
  BY UnitsAre DEF Asks, Text
<1> HIDE DEF G, S, f, t, g, u, N, M, H
<1>9. g \in 0..u /\ t \in 0..g /\ f \in 0..t
  BY <1>5, <1>6, <1>7
<1>10. Cat(Cat(Fore(H, f), N), Aft(H, t)) = Cat(Cat(Cat(Cat(Fore(G, f), N), Piece(G, t, g)), M), Aft(G, u))
  BY <1>2, <1>8, <1>9, PutTwice
<1> QED
  BY <1>2, <1>3, <1>4, <1>9, <1>10 DEF BothApplied, G, S, f, t, g, u, N, M

-----------------------------------------------------------------------------
(* The order in which the edits are applied.                               *)

\* What FoldLeft makes of the edits of a set, the greatest index last.
Runs(it, f, order) ==
  it = [s \in SUBSET (DOMAIN order) |->
          IF s = {} THEN f
          ELSE Rename!Edited(it[s \ {Rename!Max(s)}], order[Rename!Max(s)])]

\* The document with the edits applied in the given order.
AllEdited(f, order) == Rename!FoldLeft(Rename!Edited, f, order)

\* It is what Runs makes of all of them.
LEMMA RunMakes ==
  ASSUME NEW f, NEW order
  PROVE  AllEdited(f, order) = (CHOOSE it : Runs(it, f, order))[DOMAIN order]
BY DEF Rename!FoldLeft, Rename!MapThenFoldSet, Runs, AllEdited

\* Which of one or two comes last.
LEMMA LargestIs ==
  Rename!Max({1}) = 1 /\ Rename!Max({2}) = 2 /\ Rename!Max({1, 2}) = 2
<1>1. ASSUME NEW n \in Nat PROVE Rename!Max({n}) = n
  BY DEF Rename!Max
<1>2. Rename!Max({1, 2}) = 2
  <2>1. \E x \in {1, 2} : \A y \in {1, 2} : x >= y
    OBVIOUS
  <2>2. Rename!Max({1, 2}) \in {1, 2} /\ \A y \in {1, 2} : Rename!Max({1, 2}) >= y
    BY <2>1 DEF Rename!Max
  <2> QED
    BY <2>2
<1> QED
  BY <1>1, <1>2

\* One edit is applied.
LEMMA RunOne ==
  ASSUME NEW f, NEW order, DOMAIN order = 1..1
  PROVE  AllEdited(f, order) = Rename!Edited(f, order[1])
<1> DEFINE it == CHOOSE g : Runs(g, f, order)
           one == Rename!Edited(f, order[1])
           made == [s \in SUBSET (DOMAIN order) |-> IF s = {} THEN f ELSE one]
<1>1. 1..1 = {1} /\ \A s \in SUBSET (1..1) : s = {} \/ s = {1}
  BY SubsetsOfTwo
<1>2. Rename!Max({1}) = 1 /\ {1} \ {1} = {} /\ {} \in SUBSET (DOMAIN order)
  BY LargestIs
<1>3. Runs(made, f, order)
  <2>1. ASSUME NEW s \in SUBSET (DOMAIN order)
        PROVE  made[s] = IF s = {} THEN f
                         ELSE Rename!Edited(made[s \ {Rename!Max(s)}], order[Rename!Max(s)])
    <3>1. s = {} \/ s = {1}
      BY <1>1
    <3>2. made[{}] = f
      BY <1>2
    <3>3. CASE s = {}
      BY <3>2, <3>3
    <3>4. CASE s = {1}
      <4>1. made[s] = one /\ s \ {Rename!Max(s)} = {}
        BY <1>2, <3>4
      <4>2. order[Rename!Max(s)] = order[1] /\ s # {}
        BY <1>2, <3>4
      <4> HIDE DEF made
      <4> QED
        BY <3>2, <4>1, <4>2
    <3> QED
      BY <3>1, <3>3, <3>4
  <2>2. made \in [SUBSET (DOMAIN order) -> {f, one}]
    <3>1. \A s \in SUBSET (DOMAIN order) : (IF s = {} THEN f ELSE one) \in {f, one}
      OBVIOUS
    <3> HIDE DEF one
    <3> QED
      BY <3>1
  <2> HIDE DEF made
  <2>3. made = [s \in SUBSET (DOMAIN order) |-> made[s]]
    BY <2>2, FunctionIs
  <2>4. made = [s \in SUBSET (DOMAIN order) |->
                  IF s = {} THEN f
                  ELSE Rename!Edited(made[s \ {Rename!Max(s)}], order[Rename!Max(s)])]
    BY <2>1, <2>3
  <2> QED
    BY <2>4 DEF Runs
<1> HIDE DEF made
<1>4. Runs(it, f, order)
  <2>1. \E g : Runs(g, f, order)
    BY <1>3
  <2> QED
    BY <2>1
<1> HIDE DEF it
<1>5. \A s \in SUBSET (DOMAIN order) :
        it[s] = IF s = {} THEN f
                ELSE Rename!Edited(it[s \ {Rename!Max(s)}], order[Rename!Max(s)])
  BY <1>4 DEF Runs
<1>6. it[{}] = f
  BY <1>2, <1>5
<1>7. it[{1}] = one
  <2>1. {1} \in SUBSET (DOMAIN order) /\ {1} # {}
    BY <1>1
  <2>2. it[{1}] = Rename!Edited(it[{1} \ {Rename!Max({1})}], order[Rename!Max({1})])
    BY <1>5, <2>1
  <2>3. {1} \ {Rename!Max({1})} = {} /\ order[Rename!Max({1})] = order[1]
    BY <1>2
  <2> QED
    BY <1>6, <2>2, <2>3
<1>8. it[DOMAIN order] = one
  BY <1>1, <1>7
<1> QED
  BY <1>8, RunMakes DEF it

\* The edits are applied one after the other.
LEMMA RunTwo ==
  ASSUME NEW f, NEW order, DOMAIN order = 1..2
  PROVE  AllEdited(f, order) = Rename!Edited(Rename!Edited(f, order[1]), order[2])
<1> DEFINE it == CHOOSE g : Runs(g, f, order)
           one == Rename!Edited(f, order[1])
           two == Rename!Edited(f, order[2])
           both == Rename!Edited(one, order[2])
           made == [s \in SUBSET (DOMAIN order) |->
                      IF s = {} THEN f ELSE IF s = {1} THEN one ELSE IF s = {2} THEN two ELSE both]
<1>1. /\ DOMAIN order = {1, 2}
      /\ \A s \in SUBSET {1, 2} : s = {} \/ s = {1} \/ s = {2} \/ s = {1, 2}
  BY SubsetsOfTwo
<1>2. /\ Rename!Max({1}) = 1 /\ Rename!Max({2}) = 2 /\ Rename!Max({1, 2}) = 2
      /\ {1} \ {1} = {} /\ {2} \ {2} = {} /\ {1, 2} \ {2} = {1}
      /\ {} \in SUBSET (DOMAIN order) /\ {1} \in SUBSET (DOMAIN order)
      /\ {2} \in SUBSET (DOMAIN order) /\ {1, 2} \in SUBSET (DOMAIN order)
      /\ {1} # {} /\ {2} # {} /\ {2} # {1} /\ {1, 2} # {} /\ {1, 2} # {1} /\ {1, 2} # {2}
  BY LargestIs
<1>3. made[{}] = f /\ made[{1}] = one /\ made[{2}] = two /\ made[{1, 2}] = both
  BY <1>2
<1>4. made \in [SUBSET (DOMAIN order) -> {f, one, two, both}]
  <2>1. \A s \in SUBSET (DOMAIN order) :
          (IF s = {} THEN f ELSE IF s = {1} THEN one ELSE IF s = {2} THEN two ELSE both)
            \in {f, one, two, both}
    OBVIOUS
  <2> HIDE DEF one, two, both
  <2> QED
    BY <2>1
<1> HIDE DEF made
<1>5. made = [s \in SUBSET (DOMAIN order) |-> made[s]]
  BY <1>4, FunctionIs
<1>6. Runs(made, f, order)
  <2>1. ASSUME NEW s \in SUBSET (DOMAIN order)
        PROVE  made[s] = IF s = {} THEN f
                         ELSE Rename!Edited(made[s \ {Rename!Max(s)}], order[Rename!Max(s)])
    <3>1. s = {} \/ s = {1} \/ s = {2} \/ s = {1, 2}
      BY <1>1
    <3>2. CASE s = {}
      BY <1>3, <3>2
    <3>3. CASE s = {1}
      <4>1. s \ {Rename!Max(s)} = {} /\ order[Rename!Max(s)] = order[1] /\ s # {}
        BY <1>2, <3>3
      <4> QED
        BY <1>3, <3>3, <4>1
    <3>4. CASE s = {2}
      <4>1. s \ {Rename!Max(s)} = {} /\ order[Rename!Max(s)] = order[2] /\ s # {}
        BY <1>2, <3>4
      <4> QED
        BY <1>3, <3>4, <4>1
    <3>5. CASE s = {1, 2}
      <4>1. s \ {Rename!Max(s)} = {1} /\ order[Rename!Max(s)] = order[2] /\ s # {}
        BY <1>2, <3>5
      <4> QED
        BY <1>3, <3>5, <4>1
    <3> QED
      BY <3>1, <3>2, <3>3, <3>4, <3>5
  <2>2. made = [s \in SUBSET (DOMAIN order) |->
                  IF s = {} THEN f
                  ELSE Rename!Edited(made[s \ {Rename!Max(s)}], order[Rename!Max(s)])]
    BY <1>5, <2>1
  <2> QED
    BY <2>2 DEF Runs
<1>7. Runs(it, f, order)
  <2>1. \E g : Runs(g, f, order)
    BY <1>6
  <2> QED
    BY <2>1
<1> HIDE DEF it
<1>8. \A s \in SUBSET (DOMAIN order) :
        it[s] = IF s = {} THEN f
                ELSE Rename!Edited(it[s \ {Rename!Max(s)}], order[Rename!Max(s)])
  BY <1>7 DEF Runs
<1>9. it[{}] = f
  BY <1>2, <1>8
<1>10. it[{1}] = one
  <2>1. it[{1}] = Rename!Edited(it[{1} \ {Rename!Max({1})}], order[Rename!Max({1})])
    BY <1>2, <1>8
  <2>2. {1} \ {Rename!Max({1})} = {} /\ order[Rename!Max({1})] = order[1]
    BY <1>2
  <2> QED
    BY <1>9, <2>1, <2>2
<1>11. it[{1, 2}] = both
  <2>1. it[{1, 2}] = Rename!Edited(it[{1, 2} \ {Rename!Max({1, 2})}], order[Rename!Max({1, 2})])
    BY <1>2, <1>8
  <2>2. {1, 2} \ {Rename!Max({1, 2})} = {1} /\ order[Rename!Max({1, 2})] = order[2]
    BY <1>2
  <2> QED
    BY <1>10, <2>1, <2>2
<1>12. it[DOMAIN order] = both
  BY <1>1, <1>11
<1> QED
  BY <1>12, RunMakes DEF it

\* One edit is sorted.
LEMMA OrderedOne ==
  ASSUME NEW s, DOMAIN s = 1..1
  PROVE  DOMAIN Rename!Sorted(s) = 1..1 /\ Rename!Sorted(s)[1] = s[1]
<1> DEFINE Goes(i, j) == Rename!Later(s[i], s[j]) \/ (~Rename!Later(s[j], s[i]) /\ i < j)
           Fine(o) == \A i, j \in DOMAIN s : i < j => Goes(o[i], o[j])
           order == CHOOSE o \in [DOMAIN s -> DOMAIN s] : Fine(o)
<1>1. Rename!Sorted(s) = [k \in DOMAIN s |-> s[order[k]]]
  BY DEF Rename!Sorted
<1> HIDE DEF Goes
<1>2. \E o \in [DOMAIN s -> DOMAIN s] : Fine(o)
  <2>1. \A i, j \in DOMAIN s : ~(i < j)
    OBVIOUS
  <2>2. [i \in DOMAIN s |-> i] \in [DOMAIN s -> DOMAIN s]
    OBVIOUS
  <2> QED
    BY <2>1, <2>2
<1> HIDE DEF Fine
<1>3. order \in [DOMAIN s -> DOMAIN s]
  BY <1>2
<1> HIDE DEF order
<1> QED
  BY <1>1, <1>3

\* Edits at different positions.
AtDifferent(a, b) ==
  /\ a.line \in Nat /\ a.char \in Nat /\ b.line \in Nat /\ b.char \in Nat
  /\ <<a.line, a.char>> # <<b.line, b.char>>

\* Two edits are sorted, the later first.
LEMMA OrderedTwo ==
  ASSUME NEW s, DOMAIN s = 1..2, AtDifferent(s[1], s[2])
  PROVE  /\ DOMAIN Rename!Sorted(s) = 1..2
         /\ \E p, q \in 1..2 : /\ p # q /\ Rename!Sorted(s)[1] = s[p] /\ Rename!Sorted(s)[2] = s[q]
                               /\ Rename!Later(s[p], s[q])
<1> DEFINE Goes(i, j) == Rename!Later(s[i], s[j]) \/ (~Rename!Later(s[j], s[i]) /\ i < j)
           Fine(o) == \A i, j \in DOMAIN s : i < j => Goes(o[i], o[j])
           order == CHOOSE o \in [DOMAIN s -> DOMAIN s] : Fine(o)
<1>1. Rename!Sorted(s) = [k \in DOMAIN s |-> s[order[k]]]
  BY DEF Rename!Sorted
<1>2. /\ Rename!Later(s[1], s[2]) <=> ~Rename!Later(s[2], s[1])
      /\ ~Rename!Later(s[1], s[1]) /\ ~Rename!Later(s[2], s[2])
  BY DEF AtDifferent, Rename!Later
<1>3. \A i, j \in 1..2 : Goes(i, j) <=> Rename!Later(s[i], s[j])
  <2> TAKE i, j \in 1..2
  <2>1. (i = 1 \/ i = 2) /\ (j = 1 \/ j = 2)
    OBVIOUS
  <2>2. ~(1 < 1) /\ ~(2 < 2)
    OBVIOUS
  <2> QED
    BY <1>2, <2>1, <2>2
<1> HIDE DEF Goes
<1>4. \E o \in [DOMAIN s -> DOMAIN s] : Fine(o)
  <2>1. \A i, j \in DOMAIN s : i < j => i = 1 /\ j = 2
    OBVIOUS
  <2>2. CASE Rename!Later(s[1], s[2])
    <3> DEFINE o == [i \in DOMAIN s |-> i]
    <3>1. o \in [DOMAIN s -> DOMAIN s] /\ o[1] = 1 /\ o[2] = 2
      OBVIOUS
    <3> HIDE DEF o
    <3>2. Goes(1, 2)
      BY <1>3, <2>2
    <3>3. Fine(o)
      BY <2>1, <3>1, <3>2
    <3> HIDE DEF Fine
    <3> QED
      BY <3>1, <3>3
  <2>3. CASE Rename!Later(s[2], s[1])
    <3> DEFINE o == [i \in DOMAIN s |-> 3 - i]
    <3>1. o \in [DOMAIN s -> DOMAIN s] /\ o[1] = 2 /\ o[2] = 1
      OBVIOUS
    <3> HIDE DEF o
    <3>2. Goes(2, 1)
      BY <1>3, <2>3
    <3>3. Fine(o)
      BY <2>1, <3>1, <3>2
    <3> HIDE DEF Fine
    <3> QED
      BY <3>1, <3>3
  <2> QED
    BY <1>2, <2>2, <2>3
<1>5. order \in [DOMAIN s -> DOMAIN s] /\ Fine(order)
  BY <1>4
<1> HIDE DEF order
<1>6. order[1] \in 1..2 /\ order[2] \in 1..2 /\ Goes(order[1], order[2])
  BY <1>5
<1> HIDE DEF Fine
<1>7. Rename!Later(s[order[1]], s[order[2]])
  BY <1>3, <1>6
<1>8. order[1] # order[2]
  <2>1. order[1] = 1 \/ order[1] = 2
    BY <1>6
  <2> QED
    BY <1>2, <1>7, <2>1
<1>9. DOMAIN Rename!Sorted(s) = 1..2
  BY <1>1
<1>10. Rename!Sorted(s)[1] = s[order[1]] /\ Rename!Sorted(s)[2] = s[order[2]]
  BY <1>1
<1> QED
  BY <1>6, <1>7, <1>8, <1>9, <1>10

-----------------------------------------------------------------------------
(* What AtOnce puts at each unit.                                          *)

\* Nothing in front of something.
LEMMA NothingPut == ASSUME NEW T, NEW x \in Seq(T) PROVE Cat(<<>>, x) = x
BY CatNone

\* With one edit: its text where it begins, and the units that it leaves.
OneBlock(G, N, f, t, k) ==
  Cat(IF f = k THEN N ELSE <<>>,
      IF k = Len(G) \/ k \in f..(t - 1) THEN <<>> ELSE <<G[k + 1]>>)

\* That is an edit.
LEMMA OneLands ==
  ASSUME NEW T, NEW G \in Seq(T), NEW B, NEW N, NEW f \in 0..Len(G), NEW t \in f..Len(G),
         \A k \in 0..Len(G) : B[k + 1] = OneBlock(G, N, f, t, k)
  PROVE  Lands(B, G, N, 0, f, t, Len(G) + 1)
<1>1. Len(G) \in Nat /\ f \in Nat /\ t \in Nat /\ f <= t /\ t <= Len(G) /\ 0 \in 0..Len(G)
  BY LenProperties
<1>2. \A k \in 0..Len(G) : KeptAt(G, 0, k) \in Seq(T) /\ KeptAt(G, t, k) \in Seq(T)
  <2>1. t \in 0..Len(G)
    BY <1>1
  <2> QED
    BY <1>1, <2>1, PieceIs
<1>3. ASSUME NEW k \in 0..(f - 1) PROVE B[k + 1] = KeptAt(G, 0, k)
  <2>1. k \in 0..Len(G) /\ k # Len(G) /\ f # k /\ k \notin f..(t - 1) /\ ~(k < 0)
    BY <1>1
  <2>2. B[k + 1] = Cat(<<>>, KeptAt(G, 0, k))
    BY <2>1 DEF OneBlock, KeptAt
  <2> QED
    BY <1>2, <2>1, <2>2, NothingPut
<1>4. B[f + 1] = Cat(N, KeptAt(G, t, f))
  <2>1. f \in f..(t - 1) <=> f < t
    BY <1>1
  <2>2. B[f + 1] = OneBlock(G, N, f, t, f)
    OBVIOUS
  <2> QED
    BY <2>1, <2>2 DEF OneBlock, KeptAt
<1>5. ASSUME NEW k \in (f + 1)..((Len(G) + 1) - 1) PROVE B[k + 1] = KeptAt(G, t, k)
  <2>1. k \in 0..Len(G) /\ f # k /\ (k \in f..(t - 1) <=> k < t)
    BY <1>1
  <2>2. B[k + 1] = Cat(<<>>, KeptAt(G, t, k))
    BY <2>1 DEF OneBlock, KeptAt
  <2> QED
    BY <1>2, <2>1, <2>2, NothingPut
<1>6. Len(G) + 1 \in (f + 1)..(Len(G) + 1) /\ f \in 0..Len(G)
  BY <1>1
<1> QED
  BY <1>3, <1>4, <1>5, <1>6 DEF Lands, AllKept

\* With two edits: the text of the one that begins there, and the units that
\* both leave.
TwoBlock(G, N, M, f, t, g, u, k) ==
  Cat(IF f = k THEN N ELSE IF g = k THEN M ELSE <<>>,
      IF k = Len(G) \/ k \in f..(t - 1) \/ k \in g..(u - 1) THEN <<>> ELSE <<G[k + 1]>>)

\* That is one edit and then the other.
LEMMA TwoLand ==
  ASSUME NEW T, NEW G \in Seq(T), NEW B, NEW N, NEW M,
         NEW u \in 0..Len(G), NEW g \in 0..u, NEW t \in 0..g, NEW f \in 0..t, f # g,
         \A k \in 0..Len(G) : B[k + 1] = TwoBlock(G, N, M, f, t, g, u, k)
  PROVE  Lands(B, G, N, 0, f, t, g) /\ Lands(B, G, M, g, g, u, Len(G) + 1)
<1>1. /\ Len(G) \in Nat /\ f \in Nat /\ t \in Nat /\ g \in Nat /\ u \in Nat
      /\ f <= t /\ t <= g /\ g <= u /\ u <= Len(G) /\ f < g /\ 0 \in 0..Len(G)
  BY LenProperties
<1>2. \A k \in 0..Len(G) :
        KeptAt(G, 0, k) \in Seq(T) /\ KeptAt(G, t, k) \in Seq(T) /\ KeptAt(G, u, k) \in Seq(T)
  <2>1. t \in 0..Len(G) /\ u \in 0..Len(G)
    BY <1>1
  <2> QED
    BY <1>1, <2>1, PieceIs
<1>3. ASSUME NEW k \in 0..(f - 1) PROVE B[k + 1] = KeptAt(G, 0, k)
  <2>1. /\ k \in 0..Len(G) /\ k # Len(G) /\ f # k /\ g # k /\ k \notin f..(t - 1) /\ k \notin g..(u - 1)
        /\ ~(k < 0)
    BY <1>1
  <2>2. B[k + 1] = Cat(<<>>, KeptAt(G, 0, k))
    BY <2>1 DEF TwoBlock, KeptAt
  <2> QED
    BY <1>2, <2>1, <2>2, NothingPut
<1>4. B[f + 1] = Cat(N, KeptAt(G, t, f))
  <2>1. f \in 0..Len(G) /\ (f \in f..(t - 1) <=> f < t) /\ f \notin g..(u - 1)
    BY <1>1
  <2>2. B[f + 1] = TwoBlock(G, N, M, f, t, g, u, f)
    BY <2>1
  <2> QED
    BY <2>1, <2>2 DEF TwoBlock, KeptAt
<1>5. ASSUME NEW k \in (f + 1)..(g - 1) PROVE B[k + 1] = KeptAt(G, t, k)
  <2>1. /\ k \in 0..Len(G) /\ f # k /\ g # k /\ (k \in f..(t - 1) <=> k < t) /\ k \notin g..(u - 1)
        /\ k # Len(G)
    BY <1>1
  <2>2. B[k + 1] = Cat(<<>>, KeptAt(G, t, k))
    BY <2>1 DEF TwoBlock, KeptAt
  <2> QED
    BY <1>2, <2>1, <2>2, NothingPut
<1>6. B[g + 1] = Cat(M, KeptAt(G, u, g))
  <2>1. g \in 0..Len(G) /\ (g \in g..(u - 1) <=> g < u) /\ g \notin f..(t - 1)
    BY <1>1
  <2>2. B[g + 1] = TwoBlock(G, N, M, f, t, g, u, g)
    BY <2>1
  <2> QED
    BY <2>1, <2>2 DEF TwoBlock, KeptAt
<1>7. ASSUME NEW k \in (g + 1)..((Len(G) + 1) - 1) PROVE B[k + 1] = KeptAt(G, u, k)
  <2>1. /\ k \in 0..Len(G) /\ f # k /\ g # k /\ (k \in g..(u - 1) <=> k < u) /\ k \notin f..(t - 1)
    BY <1>1
  <2>2. B[k + 1] = Cat(<<>>, KeptAt(G, u, k))
    BY <2>1 DEF TwoBlock, KeptAt
  <2> QED
    BY <1>2, <2>1, <2>2, NothingPut
<1>8. /\ f \in 0..Len(G) /\ t \in f..Len(G) /\ g \in (f + 1)..(Len(G) + 1)
      /\ g \in g..Len(G) /\ u \in g..Len(G) /\ Len(G) + 1 \in (g + 1)..(Len(G) + 1)
  BY <1>1
<1>9. Lands(B, G, N, 0, f, t, g)
  BY <1>3, <1>4, <1>5, <1>8 DEF Lands, AllKept
<1>10. AllKept(B, G, g, g, g)
  <2>1. \A k \in g..(g - 1) : FALSE
    BY <1>1
  <2> QED
    BY <2>1 DEF AllKept
<1>11. Lands(B, G, M, g, g, u, Len(G) + 1)
  BY <1>6, <1>7, <1>8, <1>10 DEF Lands, AllKept
<1> QED
  BY <1>9, <1>11

\* The places of two edits, one behind the other, and what they add up to.
Spots(G, f, t, g, u) == u \in 0..Len(G) /\ g \in 0..u /\ t \in 0..g /\ f \in 0..t /\ f # g
TwoParts(G, N, M, f, t, g, u) ==
  Cat(Cat(Cat(Cat(Fore(G, f), N), Piece(G, t, g)), M), Aft(G, u))

\* The blocks do.
LEMMA TwoBlocksAdd ==
  ASSUME NEW T, NEW G \in Seq(T), NEW B \in [1..(Len(G) + 1) -> Seq(T)], NEW N \in Seq(T), NEW M \in Seq(T),
         NEW f, NEW t, NEW g, NEW u, Spots(G, f, t, g, u),
         \A k \in 0..Len(G) : B[k + 1] = TwoBlock(G, N, M, f, t, g, u, k)
  PROVE  Rename!FlattenSeq(B) = TwoParts(G, N, M, f, t, g, u)
<1>1. Lands(B, G, N, 0, f, t, g) /\ Lands(B, G, M, g, g, u, Len(G) + 1)
  BY TwoLand DEF Spots
<1> QED
  BY <1>1, LandTwo DEF TwoParts

-----------------------------------------------------------------------------
(* What AtOnce computes.                                                   *)

\* The last line of any edit.
LastLine(s) ==
  LET ends == {s[i].endLine : i \in DOMAIN s}
  IN  CHOOSE n \in ends : \A m \in ends : m <= n

\* What is put at a unit of the document, and what is kept of it.
PutAt(d, s, k) ==
  Rename!FlattenSeq([i \in DOMAIN s |->
    IF StartsAt(d, s[i]) = k THEN Rename!Flat(<<s[i].new>>) ELSE <<>>])
LeftAt(d, s, k) ==
  IF k = Len(Rename!Flat(d)) \/ \E i \in DOMAIN s : k \in StartsAt(d, s[i])..(EndsAt(d, s[i]) - 1)
  THEN <<>> ELSE <<Rename!Flat(d)[k + 1]>>
BlocksOf(d, s) == [k \in 1..(Len(Rename!Flat(d)) + 1) |-> PutAt(d, s, k - 1) \o LeftAt(d, s, k - 1)]

\* That is AtOnce, with the padded document.
LEMMA AtOnceIs ==
  ASSUME NEW doc, NEW s
  PROVE  Rename!AtOnce(doc, s) =
           Rename!FlattenSeq(BlocksOf(Rename!Padded(doc, 1 + LastLine(s)), s))
BY DEF Rename!AtOnce, BlocksOf, PutAt, LeftAt, LastLine, StartsAt, EndsAt

\* The blocks, one by one.
LEMMA BlockIs ==
  ASSUME NEW d, NEW s, NEW n, n = Len(Rename!Flat(d)), n \in Nat, NEW k \in 0..n
  PROVE  BlocksOf(d, s)[k + 1] = Cat(PutAt(d, s, k), LeftAt(d, s, k))
<1>1. k + 1 \in 1..(n + 1) /\ (k + 1) - 1 = k
  OBVIOUS
<1> QED
  BY <1>1 DEF BlocksOf, Cat

\* The blocks are sequences of units.
LEMMA BlockTypes ==
  ASSUME NEW d, NEW s, NEW n, n = Len(Rename!Flat(d)), n \in Nat,
         \A k \in 0..n : Cat(PutAt(d, s, k), LeftAt(d, s, k)) \in Seq(Unit)
  PROVE  BlocksOf(d, s) \in [1..(n + 1) -> Seq(Unit)]
<1>1. ASSUME NEW k \in 1..(n + 1) PROVE PutAt(d, s, k - 1) \o LeftAt(d, s, k - 1) \in Seq(Unit)
  <2>1. k - 1 \in 0..n
    OBVIOUS
  <2> QED
    BY <2>1 DEF Cat
<1> QED
  BY <1>1 DEF BlocksOf

\* The units of a new text.
LEMMA FlatNew ==
  ASSUME NEW t \in Text
  PROVE  Rename!Flat(<<t>>) = Rename!Utf16(t) /\ Rename!Utf16(t) \in Seq(Unit)
<1>1. Rename!Joined(<<t>>) = t
  BY JoinedOne
<1> QED
  BY <1>1, UnitsAre DEF Rename!Flat, Text

\* FlattenSeq of one and of two blocks.
LEMMA FlattenPair ==
  ASSUME NEW T, NEW x \in Seq(T), NEW y \in Seq(T)
  PROVE  /\ \A B : B = [i \in 1..1 |-> x] => Rename!FlattenSeq(B) = x
         /\ \A B \in [1..2 -> Seq(T)] : B[1] = x /\ B[2] = y => Rename!FlattenSeq(B) = Cat(x, y)
<1>1. ASSUME NEW B, B = [i \in 1..1 |-> x] PROVE Rename!FlattenSeq(B) = x
  <2>1. B \in [1..1 -> Seq(T)] /\ B[1] = x /\ 1 \in {1, 2}
    BY <1>1
  <2>2. Edits!FlattenSeq(B) = IF 1 = 1 THEN B[1] ELSE B[1] \o B[2]
    BY <2>1, FlattenFew
  <2> QED
    BY <2>1, <2>2, FlattenAlike
<1>2. ASSUME NEW B \in [1..2 -> Seq(T)], B[1] = x, B[2] = y PROVE Rename!FlattenSeq(B) = Cat(x, y)
  <2>1. 2 \in {1, 2}
    OBVIOUS
  <2>2. Edits!FlattenSeq(B) = IF 2 = 1 THEN B[1] ELSE B[1] \o B[2]
    BY <2>1, FlattenFew
  <2> QED
    BY <1>2, <2>2, FlattenAlike DEF Cat
<1> QED
  BY <1>1, <1>2

\* One edit at once.
LEMMA AtOnceOne ==
  ASSUME NEW d \in Docs, NEW s, DOMAIN s = 1..1, s[1].new \in Text,
         NEW G \in Seq(Unit), G = Rename!Flat(d),
         NEW f \in 0..Len(G), f = StartsAt(d, s[1]), NEW t \in f..Len(G), t = EndsAt(d, s[1])
  PROVE  Rename!FlattenSeq(BlocksOf(d, s)) = Cat(Cat(Fore(G, f), Rename!Utf16(s[1].new)), Aft(G, t))
<1> DEFINE N == Rename!Utf16(s[1].new)
           B == BlocksOf(d, s)
<1>1. N \in Seq(Unit) /\ Rename!Flat(<<s[1].new>>) = N /\ Len(G) \in Nat
  BY FlatNew, LenProperties
<1>2. ASSUME NEW k \in 0..Len(G)
      PROVE  Cat(PutAt(d, s, k), LeftAt(d, s, k)) = OneBlock(G, N, f, t, k)
  <2> DEFINE x == IF f = k THEN N ELSE <<>>
  <2>1. x \in Seq(Unit)
    BY <1>1, EmptySeq
  <2>2. [i \in DOMAIN s |-> IF StartsAt(d, s[i]) = k THEN Rename!Flat(<<s[i].new>>) ELSE <<>>] =
          [i \in 1..1 |-> x]
    <3>1. \A i \in 1..1 : i = 1
      OBVIOUS
    <3>2. ASSUME NEW i \in 1..1
          PROVE  (IF StartsAt(d, s[i]) = k THEN Rename!Flat(<<s[i].new>>) ELSE <<>>) = x
      BY <1>1, <3>1
    <3> HIDE DEF x
    <3> QED
      BY <3>2
  <2> HIDE DEF x
  <2>3. PutAt(d, s, k) = x
    BY <2>1, <2>2, FlattenPair DEF PutAt
  <2>4. LeftAt(d, s, k) = IF k = Len(G) \/ k \in f..(t - 1) THEN <<>> ELSE <<G[k + 1]>>
    <3>1. (\E i \in DOMAIN s : k \in StartsAt(d, s[i])..(EndsAt(d, s[i]) - 1)) <=> k \in f..(t - 1)
      <4>1. \A i \in 1..1 : i = 1
        OBVIOUS
      <4> QED
        BY <4>1
    <3> QED
      BY <3>1 DEF LeftAt
  <2> QED
    BY <2>3, <2>4 DEF OneBlock, x
<1>3. ASSUME NEW k \in 0..Len(G) PROVE OneBlock(G, N, f, t, k) \in Seq(Unit)
  <2> DEFINE x == IF f = k THEN N ELSE <<>>
             y == IF k = Len(G) \/ k \in f..(t - 1) THEN <<>> ELSE <<G[k + 1]>>
  <2>1. x \in Seq(Unit)
    BY <1>1, EmptySeq
  <2>2. y \in Seq(Unit)
    <3>1. k # Len(G) => k + 1 \in 1..Len(G)
      BY <1>1
    <3>2. k # Len(G) => G[k + 1] \in Unit
      BY <3>1, ElementOfSeq
    <3> QED
      BY <3>2, EmptySeq
  <2> HIDE DEF x, y
  <2>3. Cat(x, y) \in Seq(Unit)
    BY <2>1, <2>2, CatTypes
  <2> QED
    BY <2>3 DEF OneBlock, x, y
<1>4. B \in [1..(Len(G) + 1) -> Seq(Unit)]
  <2>1. \A k \in 0..Len(G) : Cat(PutAt(d, s, k), LeftAt(d, s, k)) \in Seq(Unit)
    BY <1>2, <1>3
  <2> DEFINE n == Len(G)
  <2>2. n = Len(Rename!Flat(d)) /\ n \in Nat /\ \A k \in 0..n : Cat(PutAt(d, s, k), LeftAt(d, s, k)) \in Seq(Unit)
    BY <1>1, <2>1
  <2> HIDE DEF n, B
  <2>3. BlocksOf(d, s) \in [1..(n + 1) -> Seq(Unit)]
    BY <2>2, BlockTypes
  <2> QED
    BY <2>3 DEF n, B
<1>5. \A k \in 0..Len(G) : B[k + 1] = OneBlock(G, N, f, t, k)
  BY <1>1, <1>2, BlockIs
<1> HIDE DEF B, N
<1>6. Lands(B, G, N, 0, f, t, Len(G) + 1)
  BY <1>5, OneLands
<1>7. Rename!FlattenSeq(B) = Cat(Cat(Fore(G, f), N), Aft(G, t))
  BY <1>1, <1>4, <1>6, LandOne
<1> QED
  BY <1>7 DEF B, N

\* Two edits at once.
LEMMA AtOnceTwo ==
  ASSUME NEW d \in Docs, NEW s, DOMAIN s = 1..2, NEW p \in 1..2, NEW q \in 1..2, p # q,
         s[p].new \in Text, s[q].new \in Text, NEW G \in Seq(Unit), G = Rename!Flat(d),
         NEW f, f = StartsAt(d, s[p]), NEW t, t = EndsAt(d, s[p]),
         NEW g, g = StartsAt(d, s[q]), NEW u, u = EndsAt(d, s[q]), Spots(G, f, t, g, u)
  PROVE  Rename!FlattenSeq(BlocksOf(d, s)) =
           TwoParts(G, Rename!Utf16(s[p].new), Rename!Utf16(s[q].new), f, t, g, u)
<1> DEFINE N == Rename!Utf16(s[p].new)
           M == Rename!Utf16(s[q].new)
           B == BlocksOf(d, s)
<1>1. /\ N \in Seq(Unit) /\ Rename!Flat(<<s[p].new>>) = N /\ Len(G) \in Nat
      /\ M \in Seq(Unit) /\ Rename!Flat(<<s[q].new>>) = M
  BY FlatNew, LenProperties
<1>2. (p = 1 /\ q = 2) \/ (p = 2 /\ q = 1)
  OBVIOUS
<1>3. \A i \in 1..2 : i = p \/ i = q
  BY <1>2
<1>4. ASSUME NEW k \in 0..Len(G)
      PROVE  Cat(PutAt(d, s, k), LeftAt(d, s, k)) = TwoBlock(G, N, M, f, t, g, u, k)
  <2> DEFINE x == IF f = k THEN N ELSE <<>>
             y == IF g = k THEN M ELSE <<>>
             z == IF f = k THEN N ELSE IF g = k THEN M ELSE <<>>
             A == [i \in DOMAIN s |->
                     IF StartsAt(d, s[i]) = k THEN Rename!Flat(<<s[i].new>>) ELSE <<>>]
  <2>1. x \in Seq(Unit) /\ y \in Seq(Unit)
    BY <1>1, EmptySeq
  <2>2. A[p] = x /\ A[q] = y /\ A \in [1..2 -> Seq(Unit)]
    <3>1. /\ (IF StartsAt(d, s[p]) = k THEN Rename!Flat(<<s[p].new>>) ELSE <<>>) = x
          /\ (IF StartsAt(d, s[q]) = k THEN Rename!Flat(<<s[q].new>>) ELSE <<>>) = y
      BY <1>1
    <3> HIDE DEF x, y
    <3>2. A[p] = x /\ A[q] = y
      BY <3>1
    <3>3. \A i \in 1..2 : A[i] \in Seq(Unit)
      BY <1>3, <2>1, <3>2
    <3>4. A = [i \in 1..2 |-> A[i]]
      OBVIOUS
    <3> HIDE DEF A
    <3> QED
      BY <3>2, <3>3, <3>4
  <2>3. (f = k \/ x = <<>>) /\ (g = k \/ y = <<>>) /\ (f # k \/ g # k)
    BY DEF Spots
  <2>4. Cat(x, y) = z /\ Cat(y, x) = z
    <3>1. \A w \in Seq(Unit) : Cat(w, <<>>) = w /\ Cat(<<>>, w) = w
      BY CatNone
    <3>2. CASE f = k
      <4>1. y = <<>> /\ z = x
        BY <2>3, <3>2
      <4> HIDE DEF x, y, z
      <4> QED
        BY <2>1, <3>1, <4>1
    <3>3. CASE f # k
      <4>1. x = <<>> /\ z = y
        BY <2>3, <3>3
      <4> HIDE DEF x, y, z
      <4> QED
        BY <2>1, <3>1, <4>1
    <3> QED
      BY <3>2, <3>3
  <2>5. PutAt(d, s, k) = z
    <3> HIDE DEF x, y, z, A
    <3>1. Rename!FlattenSeq(A) = z
      <4>1. CASE p = 1 /\ q = 2
        <5>1. Rename!FlattenSeq(A) = Cat(x, y)
          BY <2>1, <2>2, <4>1, FlattenPair
        <5> QED
          BY <2>4, <5>1
      <4>2. CASE p = 2 /\ q = 1
        <5>1. Rename!FlattenSeq(A) = Cat(y, x)
          BY <2>1, <2>2, <4>2, FlattenPair
        <5> QED
          BY <2>4, <5>1
      <4> QED
        BY <1>2, <4>1, <4>2
    <3> QED
      BY <3>1 DEF PutAt, A
  <2>6. LeftAt(d, s, k) =
          IF k = Len(G) \/ k \in f..(t - 1) \/ k \in g..(u - 1) THEN <<>> ELSE <<G[k + 1]>>
    <3>1. (\E i \in DOMAIN s : k \in StartsAt(d, s[i])..(EndsAt(d, s[i]) - 1)) <=>
            k \in f..(t - 1) \/ k \in g..(u - 1)
      BY <1>3
    <3> QED
      BY <3>1 DEF LeftAt
  <2> HIDE DEF A
  <2> QED
    BY <2>5, <2>6 DEF TwoBlock, z
<1>5. ASSUME NEW k \in 0..Len(G) PROVE TwoBlock(G, N, M, f, t, g, u, k) \in Seq(Unit)
  <2> DEFINE x == IF f = k THEN N ELSE IF g = k THEN M ELSE <<>>
             y == IF k = Len(G) \/ k \in f..(t - 1) \/ k \in g..(u - 1) THEN <<>> ELSE <<G[k + 1]>>
  <2>1. x \in Seq(Unit)
    BY <1>1, EmptySeq
  <2>2. y \in Seq(Unit)
    <3>1. k # Len(G) => k + 1 \in 1..Len(G)
      BY <1>1
    <3>2. k # Len(G) => G[k + 1] \in Unit
      BY <3>1, ElementOfSeq
    <3> QED
      BY <3>2, EmptySeq
  <2> HIDE DEF x, y
  <2>3. Cat(x, y) \in Seq(Unit)
    BY <2>1, <2>2, CatTypes
  <2> QED
    BY <2>3 DEF TwoBlock, x, y
<1>6. B \in [1..(Len(G) + 1) -> Seq(Unit)]
  <2>1. \A k \in 0..Len(G) : Cat(PutAt(d, s, k), LeftAt(d, s, k)) \in Seq(Unit)
    BY <1>4, <1>5
  <2> DEFINE n == Len(G)
  <2>2. n = Len(Rename!Flat(d)) /\ n \in Nat /\ \A k \in 0..n : Cat(PutAt(d, s, k), LeftAt(d, s, k)) \in Seq(Unit)
    BY <1>1, <2>1
  <2> HIDE DEF n, B
  <2>3. BlocksOf(d, s) \in [1..(n + 1) -> Seq(Unit)]
    BY <2>2, BlockTypes
  <2> QED
    BY <2>3 DEF n, B
<1>7. \A k \in 0..Len(G) : B[k + 1] = TwoBlock(G, N, M, f, t, g, u, k)
  BY <1>1, <1>4, BlockIs
<1> HIDE DEF B, N, M
<1>8. Rename!FlattenSeq(B) = TwoParts(G, N, M, f, t, g, u)
  BY <1>1, <1>6, <1>7, TwoBlocksAdd
<1> QED
  BY <1>8 DEF B, N, M

-----------------------------------------------------------------------------
(* The edits that a server sends.                                          *)

\* A padded document is clean when the document is.
LEMMA PaddedClean ==
  ASSUME NEW d \in Clean, NEW n \in Nat
  PROVE  Rename!Padded(d, n) \in Clean
<1> DEFINE p == Rename!Padded(d, n)
<1>1. d \in Docs
  BY CleanIsDoc
<1>2. /\ p \in Docs /\ Len(p) \in Nat
      /\ \A i \in 1..Len(p) : p[i] = IF i \in 1..Len(d) THEN d[i] ELSE <<>>
  BY <1>1, PaddedIs
<1> HIDE DEF p
<1>3. \A i \in 1..Len(p) : p[i] \in Seq(Letters)
  <2>1. <<>> \in Seq(Letters)
    BY EmptySeq
  <2>2. \A i \in 1..Len(d) : d[i] \in Seq(Letters)
    BY ElementOfSeq DEF Clean
  <2> QED
    BY <1>2, <2>1, <2>2
<1>4. p \in Clean
  BY <1>2, <1>3 DEF Clean, Docs
<1> QED
  BY <1>4 DEF p

\* The new texts are texts, and the documents are clean.
LEMMA GivenDocuments == News \subseteq Text /\ Documents \subseteq Leaves
<1>1. Narrow \in Letters /\ WideChar \in Letters
  BY DEF Letters
<1>2. Letters \subseteq Marks /\ NL \in Marks
  BY DEF Marks
<1>3. <<>> \in Text /\ <<Narrow, NL>> \in Text
  BY <1>1, <1>2, EmptySeq DEF Text
<1>4. <<Narrow>> \in Seq(Letters) /\ <<WideChar, Narrow>> \in Seq(Letters)
  BY <1>1
<1> DEFINE a == <<Narrow>>
           b == <<WideChar, Narrow>>
<1> HIDE DEF a, b
<1>5. a \in Seq(Letters) /\ b \in Seq(Letters)
  BY <1>4 DEF a, b
<1>6. <<a>> \in Leaves /\ <<b, a>> \in Leaves
  BY <1>5 DEF Leaves, Clean
<1> QED
  BY <1>3, <1>6 DEF News, Documents, a, b

\* A position that a server sends is in the padded document.
LEMMA InsideIs ==
  ASSUME NEW doc \in Leaves, NEW p \in Rename!Positions(doc), NEW m \in Nat, p[1] <= m
  PROVE  Inside(Rename!Padded(doc, m + 1), p[1], p[2])
<1> DEFINE D == Rename!Padded(doc, m + 1)
           n == p[1]
           c == p[2]
<1>1. doc \in Docs /\ Len(doc) \in Nat /\ m + 1 \in Nat
  BY CleanIsDoc, LenProperties DEF Leaves, Docs
<1>2. /\ D \in Docs /\ Len(D) >= m + 1 /\ Len(D) \in Nat /\ Len(D) >= Len(doc)
      /\ \A i \in 1..Len(D) : D[i] = IF i \in 1..Len(doc) THEN doc[i] ELSE <<>>
  BY <1>1, PaddedIs
<1>3. /\ n \in 0..Len(doc) /\ c \in Nat
      /\ IF n = Len(doc) THEN c = 0 ELSE c <= Rename!Units(doc[n + 1])
  BY DEF Rename!Positions
<1> HIDE DEF D, n, c
<1>4. n \in Nat /\ n < Len(D) /\ n + 1 \in 1..Len(D)
  BY <1>1, <1>2, <1>3 DEF n
<1>5. c \in 0..Rename!Units(D[n + 1])
  <2>1. CASE n = Len(doc)
    <3>1. D[n + 1] = <<>>
      BY <1>1, <1>2, <1>4, <2>1
    <3>2. Rename!Units(D[n + 1]) = 0
      BY <3>1, UnitsNone
    <3> QED
      BY <1>3, <2>1, <3>2
  <2>2. CASE n # Len(doc)
    <3>1. n + 1 \in 1..Len(doc) /\ n < Len(doc)
      BY <1>1, <1>3, <2>2
    <3>2. D[n + 1] = doc[n + 1]
      BY <1>2, <1>4, <3>1
    <3>3. doc[n + 1] \in Text
      BY <1>1, <3>1, ElementOfSeq DEF Docs
    <3>4. Rename!Units(doc[n + 1]) \in Nat
      BY <3>3, UnitsAre DEF Text
    <3> QED
      BY <1>3, <2>2, <3>2, <3>4
  <2> QED
    BY <2>1, <2>2
<1>6. Inside(D, n, c)
  BY <1>4, <1>5 DEF Inside
<1> QED
  BY <1>6 DEF D, n, c

\* An edit lies between two positions, in order.
Ordered(e) ==
  /\ e.line \in Nat /\ e.endLine \in Nat /\ e.char \in Nat /\ e.endChar \in Nat
  /\ e.line < e.endLine \/ (e.line = e.endLine /\ e.char <= e.endChar)
  /\ e.new \in Text

\* The edits that a server sends do.
LEMMA EditIs ==
  ASSUME NEW doc \in Leaves, NEW e \in Rename!TextEdits(doc)
  PROVE  /\ Ordered(e) /\ e.line <= e.endLine
         /\ \A m \in Nat : e.endLine <= m => Asks(Rename!Padded(doc, m + 1), e)
<1>1. PICK r \in {s \in Rename!Positions(doc) \X Rename!Positions(doc) : Rename!Follows(s[2], s[1])},
          t \in News :
        e = [line |-> r[1][1], char |-> r[1][2], endLine |-> r[2][1], endChar |-> r[2][2], new |-> t]
  BY DEF Rename!TextEdits
<1> DEFINE p == r[1]
           q == r[2]
<1>2. p \in Rename!Positions(doc) /\ q \in Rename!Positions(doc) /\ Rename!Follows(q, p)
  BY <1>1
<1>3. /\ e.line = p[1] /\ e.char = p[2] /\ e.endLine = q[1] /\ e.endChar = q[2] /\ e.new = t
  BY <1>1
<1> HIDE DEF p, q
<1>4. p[1] \in Nat /\ p[2] \in Nat /\ q[1] \in Nat /\ q[2] \in Nat
  BY <1>2 DEF Rename!Positions
<1>5. p[1] < q[1] \/ (p[1] = q[1] /\ p[2] <= q[2])
  BY <1>2, <1>4 DEF Rename!Follows
<1>6. Ordered(e) /\ e.line <= e.endLine
  BY <1>3, <1>4, <1>5, GivenDocuments DEF Ordered
<1>7. ASSUME NEW m \in Nat, e.endLine <= m PROVE Asks(Rename!Padded(doc, m + 1), e)
  <2>1. p[1] <= m /\ q[1] <= m
    BY <1>3, <1>4, <1>5, <1>7
  <2>2. /\ Inside(Rename!Padded(doc, m + 1), p[1], p[2])
        /\ Inside(Rename!Padded(doc, m + 1), q[1], q[2])
    BY <1>2, <2>1, InsideIs
  <2> QED
    BY <1>3, <1>6, <2>2 DEF Asks, Ordered
<1> QED
  BY <1>6, <1>7

\* The last line of one edit, and of two.
LEMMA LastLineIs ==
  ASSUME NEW s
  PROVE  /\ DOMAIN s = 1..1 /\ s[1].endLine \in Nat => LastLine(s) = s[1].endLine
         /\ DOMAIN s = 1..2 => \A p, q \in 1..2 :
              p # q /\ s[p].endLine \in Nat /\ s[q].endLine \in Nat /\ s[q].endLine <= s[p].endLine =>
                LastLine(s) = s[p].endLine
<1>1. ASSUME NEW n \in Nat, NEW ends, n \in ends, \A m \in ends : m \in Nat /\ m <= n
      PROVE  (CHOOSE x \in ends : \A m \in ends : m <= x) = n
  <2> DEFINE x == CHOOSE y \in ends : \A m \in ends : m <= y
  <2>1. x \in ends /\ \A m \in ends : m <= x
    BY <1>1
  <2> HIDE DEF x
  <2>2. x = n
    BY <1>1, <2>1
  <2> QED
    BY <2>2 DEF x
<1> DEFINE ends == {s[i].endLine : i \in DOMAIN s}
<1>2. LastLine(s) = CHOOSE x \in ends : \A m \in ends : m <= x
  BY DEF LastLine
<1>3. ASSUME DOMAIN s = 1..1, s[1].endLine \in Nat PROVE LastLine(s) = s[1].endLine
  <2>1. s[1].endLine \in ends /\ \A m \in ends : m \in Nat /\ m <= s[1].endLine
    <3>1. \A i \in 1..1 : i = 1
      OBVIOUS
    <3> QED
      BY <1>3, <3>1
  <2> HIDE DEF ends
  <2> QED
    BY <1>1, <1>2, <1>3, <2>1
<1>4. ASSUME DOMAIN s = 1..2, NEW p \in 1..2, NEW q \in 1..2, p # q,
             s[p].endLine \in Nat, s[q].endLine \in Nat, s[q].endLine <= s[p].endLine
      PROVE  LastLine(s) = s[p].endLine
  <2>1. s[p].endLine \in ends /\ \A m \in ends : m \in Nat /\ m <= s[p].endLine
    <3>1. \A i \in 1..2 : i = p \/ i = q
      BY <1>4
    <3>2. \A i \in 1..2 : s[i].endLine \in Nat /\ s[i].endLine <= s[p].endLine
      BY <1>4, <3>1
    <3> QED
      BY <1>4, <3>2
  <2> HIDE DEF ends
  <2> QED
    BY <1>1, <1>2, <1>4, <2>1
<1> QED
  BY <1>3, <1>4

\* An edit that can be applied has a place to cut at either end.
LEMMA EditedSome ==
  ASSUME NEW d, NEW e, e.line \in Nat, e.endLine \in Nat, e.line <= e.endLine,
         Rename!Edited(d, e) # <<>>, NEW D, D = Rename!Padded(d, e.endLine + 1)
  PROVE  /\ d # <<>>
         /\ \E i \in Rename!Before(D[e.line + 1], e.char) :
              \E j \in Rename!Before(D[e.endLine + 1], e.endChar) : TRUE
<1> DEFINE from == Rename!Before(D[e.line + 1], e.char)
           to == Rename!Before(D[e.endLine + 1], e.endChar)
<1>1. EditedWith(d, e, D) # <<>>
  BY EditedPads
<1>2. d = <<>> \/ from = {} \/ to = {} => EditedWith(d, e, D) = <<>>
  BY DEF EditedWith
<1> HIDE DEF from, to
<1>3. d # <<>> /\ \E i \in from : \E j \in to : TRUE
  BY <1>1, <1>2
<1> QED
  BY <1>3 DEF from, to

\* What is written are the units of the lines that the edits leave.
LEMMA AppliedIs ==
  ASSUME NEW doc, NEW s, NEW lines \in Docs, lines = AllEdited(doc, Rename!Sorted(s))
  PROVE  /\ Rename!Applied(doc, s) \in Clean
         /\ Rename!Applied(doc, s) # <<>> => /\ lines # <<>>
                                             /\ Rename!Flat(Rename!Applied(doc, s)) = Rename!Flat(lines)
<1>1. Rename!Applied(doc, s) = IF lines = <<>> THEN <<>> ELSE Rename!Lines(Rename!Joined(lines))
  BY DEF Rename!Applied, AllEdited
<1>2. Rename!Joined(lines) \in Text
  BY JoinedTypes
<1>3. /\ Rename!Lines(Rename!Joined(lines)) \in Leaves
      /\ Rename!Joined(Rename!Lines(Rename!Joined(lines))) = Rename!Joined(lines)
  BY <1>2, LinesJoin
<1>4. <<>> \in Clean
  BY EmptySeq DEF Clean
<1> QED
  BY <1>1, <1>3, <1>4 DEF Rename!Flat, Leaves

-----------------------------------------------------------------------------
(* One after the other is at once.                                         *)

\* What applies in sequence is what applies at once.
Agrees(doc, s) ==
  Rename!Applied(doc, s) # <<>> => Rename!Flat(Rename!Applied(doc, s)) = Rename!AtOnce(doc, s)

\* One edit.
LEMMA OneAgrees ==
  ASSUME NEW doc \in Leaves, NEW s, DOMAIN s = 1..1, s[1] \in Rename!TextEdits(doc)
  PROVE  Agrees(doc, s)
<1> DEFINE e == s[1]
           D == Rename!Padded(doc, e.endLine + 1)
           lines == Rename!Edited(doc, e)
<1>1. SUFFICES ASSUME Rename!Applied(doc, s) # <<>>
               PROVE  Rename!Flat(Rename!Applied(doc, s)) = Rename!AtOnce(doc, s)
  BY DEF Agrees
<1>2. AllEdited(doc, Rename!Sorted(s)) = lines
  BY OrderedOne, RunOne
<1>3. doc \in Clean /\ doc \in Docs /\ doc # <<>>
  BY CleanIsDoc DEF Leaves
<1>4. /\ e.line \in Nat /\ e.endLine \in Nat /\ e.line <= e.endLine /\ e.new \in Text
      /\ e.endLine <= e.endLine /\ e.endLine + 1 \in Nat
  BY EditIs DEF Ordered
<1>5. Asks(D, e)
  BY <1>4, EditIs
<1>6. D \in Clean /\ D \in Docs
  BY <1>3, <1>4, PaddedClean, CleanIsDoc
<1>7. LastLine(s) = e.endLine
  BY <1>4, LastLineIs
<1>8. Rename!AtOnce(doc, s) = Rename!FlattenSeq(BlocksOf(D, s))
  <2>1. 1 + LastLine(s) = e.endLine + 1
    BY <1>4, <1>7
  <2> HIDE DEF e
  <2> QED
    BY <2>1, AtOnceIs
<1>9. lines # <<>>
  <2>1. SUFFICES ASSUME lines = <<>> PROVE FALSE
    OBVIOUS
  <2>2. Rename!Applied(doc, s) = <<>>
    BY <1>2, <2>1 DEF Rename!Applied, AllEdited
  <2> QED
    BY <1>1, <2>2
<1> HIDE DEF D, lines, e
<1>10. PICK i \in Rename!Before(D[e.line + 1], e.char) :
         \E j \in Rename!Before(D[e.endLine + 1], e.endChar) : TRUE
  BY <1>4, <1>9, EditedSome DEF D, lines
<1>11. PICK j \in Rename!Before(D[e.endLine + 1], e.endChar) : TRUE
  BY <1>10
<1>12. Held(D, e, i, j)
  BY <1>5, <1>6, HeldIs
<1>13. lines = Edited1(D, e, i, j)
  <2>1. Cuts(D, e, i, j)
    BY <1>12 DEF Held
  <2> QED
    BY <1>3, <1>6, <2>1, EditedIs DEF D, lines
<1> DEFINE G == Rename!Flat(D)
           f == StartsAt(D, e)
           t == EndsAt(D, e)
           N == Rename!Utf16(e.new)
<1>14. /\ G \in Seq(Unit) /\ f \in 0..Len(G) /\ t \in 0..Len(G) /\ lines \in Docs
       /\ Rename!Flat(lines) = Cat(Cat(Fore(G, f), N), Aft(G, t))
  BY <1>6, <1>12, <1>13, FlatHeld
<1>15. f \in Nat /\ t \in Nat /\ f <= t
  BY <1>5, <1>6, PlacesGrow DEF Asks, StartsAt, EndsAt
<1>16. t \in f..Len(G)
  BY <1>14, <1>15, LenProperties
<1>17. Rename!FlattenSeq(BlocksOf(D, s)) = Cat(Cat(Fore(G, f), N), Aft(G, t))
  <2> HIDE DEF G, f, t
  <2>1. /\ G = Rename!Flat(D) /\ f = StartsAt(D, s[1]) /\ t = EndsAt(D, s[1]) /\ s[1].new \in Text
        /\ N = Rename!Utf16(s[1].new)
    BY <1>4 DEF G, f, t, e
  <2> HIDE DEF N
  <2> QED
    BY <1>6, <1>14, <1>16, <2>1, AtOnceOne
<1>18. Rename!Flat(Rename!Applied(doc, s)) = Rename!Flat(lines)
  BY <1>1, <1>2, <1>14, AppliedIs
<1> QED
  BY <1>8, <1>14, <1>17, <1>18

\* What the edits of a document are: one, or two apart.
LEMMA ListsAre ==
  ASSUME NEW doc, NEW s \in Rename!EditLists(doc)
  PROVE  \/ DOMAIN s = 1..1 /\ s[1] \in Rename!TextEdits(doc)
         \/ /\ DOMAIN s = 1..2 /\ s[1] \in Rename!TextEdits(doc) /\ s[2] \in Rename!TextEdits(doc)
            /\ Rename!Apart(s[1], s[2])
<1>1. CASE s \in {<<e>> : e \in Rename!TextEdits(doc)}
  BY <1>1
<1>2. CASE s \in {p \in Rename!TextEdits(doc) \X Rename!TextEdits(doc) : Rename!Apart(p[1], p[2])}
  BY <1>2
<1> QED
  BY <1>1, <1>2 DEF Rename!EditLists

\* The later of two edits that are apart is behind the other.
LEMMA ApartIs ==
  ASSUME NEW e, NEW o, Ordered(e), Ordered(o), Rename!Apart(e, o) \/ Rename!Apart(o, e)
  PROVE  /\ AtDifferent(e, o) /\ AtDifferent(o, e)
         /\ Rename!Later(e, o) => InFront(o.endLine, o.endChar, e)
<1>1. /\ e.line \in Nat /\ e.endLine \in Nat /\ e.char \in Nat /\ e.endChar \in Nat
      /\ e.line < e.endLine \/ (e.line = e.endLine /\ e.char <= e.endChar)
      /\ o.line \in Nat /\ o.endLine \in Nat /\ o.char \in Nat /\ o.endChar \in Nat
      /\ o.line < o.endLine \/ (o.line = o.endLine /\ o.char <= o.endChar)
  BY DEF Ordered
<1>2. /\ <<e.line, e.char>> # <<o.line, o.char>>
      /\ \/ e.line > o.endLine \/ (e.line = o.endLine /\ e.char >= o.endChar)
         \/ o.line > e.endLine \/ (o.line = e.endLine /\ o.char >= e.endChar)
  BY DEF Rename!Apart, Rename!Follows
<1>3. ASSUME Rename!Later(e, o) PROVE InFront(o.endLine, o.endChar, e)
  <2>1. e.line > o.line \/ (e.line = o.line /\ e.char > o.char)
    BY <1>3 DEF Rename!Later
  <2>2. o.endLine < e.line \/ (o.endLine = e.line /\ o.endChar <= e.char)
    BY <1>1, <1>2, <2>1
  <2> QED
    BY <2>2 DEF InFront
<1> QED
  BY <1>1, <1>2, <1>3 DEF AtDifferent

\* Two edits, of which q is the later.
LEMMA TwoAgree ==
  ASSUME NEW doc \in Leaves, NEW s, DOMAIN s = 1..2, NEW p \in 1..2, NEW q \in 1..2, p # q,
         s[p] \in Rename!TextEdits(doc), s[q] \in Rename!TextEdits(doc),
         InFront(s[p].endLine, s[p].endChar, s[q]), AtDifferent(s[p], s[q]),
         NEW lines, lines = Rename!Edited(Rename!Edited(doc, s[q]), s[p]), lines # <<>>
  PROVE  lines \in Docs /\ Rename!Flat(lines) = Rename!AtOnce(doc, s)
<1> DEFINE e == s[q]
           o == s[p]
           D == Rename!Padded(doc, e.endLine + 1)
           R == Rename!Edited(doc, e)
<1>1. doc \in Clean /\ doc \in Docs /\ doc # <<>>
  BY CleanIsDoc DEF Leaves
<1>2. Ordered(e) /\ Ordered(o) /\ e.line <= e.endLine /\ o.line <= o.endLine
  BY EditIs
<1>3. /\ e.line \in Nat /\ e.endLine \in Nat /\ e.new \in Text /\ e.endLine + 1 \in Nat
      /\ o.line \in Nat /\ o.endLine \in Nat /\ o.new \in Text /\ o.endLine + 1 \in Nat
      /\ o.endLine <= e.line /\ o.endLine <= e.endLine /\ e.endLine <= e.endLine
  BY <1>2 DEF Ordered, InFront
<1>4. Asks(D, e) /\ Asks(D, o)
  BY <1>3, EditIs
<1>5. D \in Clean /\ D \in Docs
  BY <1>1, <1>3, PaddedClean, CleanIsDoc
<1>6. LastLine(s) = e.endLine
  BY <1>3, LastLineIs
<1>7. Rename!AtOnce(doc, s) = Rename!FlattenSeq(BlocksOf(D, s))
  <2>1. 1 + LastLine(s) = e.endLine + 1
    BY <1>3, <1>6
  <2> HIDE DEF e
  <2> QED
    BY <2>1, AtOnceIs
<1>8. InFront(o.endLine, o.endChar, e) /\ AtDifferent(o, e) /\ lines = Rename!Edited(R, o)
  OBVIOUS
<1>9. o = s[p] /\ e = s[q]
  OBVIOUS
<1> HIDE DEF D, R, e, o
<1> DEFINE P == Rename!Padded(R, o.endLine + 1)
<1>10. /\ R # <<>>
       /\ \E a \in Rename!Before(P[o.line + 1], o.char) :
            \E b \in Rename!Before(P[o.endLine + 1], o.endChar) : TRUE
  BY <1>2, <1>3, <1>8, EditedSome
<1>11. PICK i \in Rename!Before(D[e.line + 1], e.char) :
         \E j \in Rename!Before(D[e.endLine + 1], e.endChar) : TRUE
  BY <1>2, <1>3, <1>10, EditedSome DEF D, R
<1>12. PICK j \in Rename!Before(D[e.endLine + 1], e.endChar) : TRUE
  BY <1>11
<1>13. Held(D, e, i, j)
  BY <1>4, <1>5, HeldIs
<1>14. R = Edited1(D, e, i, j)
  <2>1. Cuts(D, e, i, j)
    BY <1>13 DEF Held
  <2> QED
    BY <1>1, <1>5, <2>1, EditedIs DEF D, R
<1>15. R \in Docs /\ e.line < Len(R)
  <2>1. Cuts(D, e, i, j)
    BY <1>13 DEF Held
  <2> QED
    BY <1>5, <1>14, <2>1, FlatEdited, EditedAgrees
<1>16. P = R
  <2>1. Len(R) \in Nat
    BY <1>15, LenProperties DEF Docs
  <2>2. o.endLine + 1 <= Len(R)
    BY <1>3, <1>15, <2>1
  <2> QED
    BY <1>3, <1>15, <2>2, PaddedIs
<1>17. PICK a \in Rename!Before(R[o.line + 1], o.char) :
         \E b \in Rename!Before(R[o.endLine + 1], o.endChar) : TRUE
  BY <1>10, <1>16
<1>18. PICK b \in Rename!Before(R[o.endLine + 1], o.endChar) : TRUE
  BY <1>17
<1> DEFINE G == Rename!Flat(D)
           f == StartsAt(D, o)
           t == EndsAt(D, o)
           g == StartsAt(D, e)
           u == EndsAt(D, e)
           N == Rename!Utf16(o.new)
           M == Rename!Utf16(e.new)
<1>19. /\ Edited1(R, o, a, b) \in Docs /\ Cuts(R, o, a, b)
       /\ u \in 0..Len(G) /\ g \in 0..u /\ t \in 0..g /\ f \in 0..t
       /\ Rename!Flat(Edited1(R, o, a, b)) = TwoParts(G, N, M, f, t, g, u)
  <2>1. Cuts(R, o, a, b) /\ BothApplied(D, o, e, Edited1(R, o, a, b))
    BY <1>4, <1>5, <1>8, <1>13, <1>14, FlatTwo
  <2> QED
    BY <2>1 DEF BothApplied, TwoParts
<1>20. lines = Edited1(R, o, a, b)
  <2> HIDE DEF P
  <2>1. R = P
    BY <1>16
  <2> QED
    BY <1>8, <1>10, <1>15, <1>19, <2>1, EditedIs DEF P
<1>21. f # g
  <2>1. f <= t /\ t <= g /\ f \in Nat /\ g \in Nat
    <3>1. Len(G) \in Nat
      BY <1>5, FlatHeld, <1>13, LenProperties
    <3> QED
      BY <1>19, <3>1
  <2>2. /\ Inside(D, o.line, o.char) /\ Inside(D, e.line, e.char)
        /\ <<o.line, o.char>> # <<e.line, e.char>>
    BY <1>4, <1>8 DEF Asks, AtDifferent
  <2>3. o.line < e.line \/ (o.line = e.line /\ o.char <= e.char)
    <3>1. /\ o.char \in Nat /\ o.endChar \in Nat /\ e.char \in Nat
          /\ o.line < o.endLine \/ (o.line = o.endLine /\ o.char <= o.endChar)
          /\ o.endLine < e.line \/ (o.endLine = e.line /\ o.endChar <= e.char)
      BY <1>2, <1>8 DEF Ordered, InFront
    <3> QED
      BY <1>3, <3>1
  <2>4. f < g
    BY <1>5, <2>2, <2>3, PlacesGrow DEF StartsAt
  <2> QED
    BY <2>1, <2>4
<1>22. G \in Seq(Unit)
  BY <1>5, <1>13, FlatHeld
<1>23. Spots(G, f, t, g, u)
  BY <1>19, <1>21 DEF Spots
<1>24. Rename!FlattenSeq(BlocksOf(D, s)) = TwoParts(G, N, M, f, t, g, u)
  <2> HIDE DEF G, f, t, g, u
  <2>1. /\ G = Rename!Flat(D) /\ f = StartsAt(D, s[p]) /\ t = EndsAt(D, s[p])
        /\ g = StartsAt(D, s[q]) /\ u = EndsAt(D, s[q]) /\ s[p].new \in Text /\ s[q].new \in Text
        /\ N = Rename!Utf16(s[p].new) /\ M = Rename!Utf16(s[q].new)
    BY <1>3, <1>9 DEF G, f, t, g, u
  <2> HIDE DEF N, M
  <2> QED
    BY <1>5, <1>22, <1>23, <2>1, AtOnceTwo
<1> QED
  BY <1>7, <1>19, <1>20, <1>24

\* What a server sends for a document applies as it asks.
LEMMA ListsAgree ==
  ASSUME NEW doc \in Leaves, NEW s \in Rename!EditLists(doc)
  PROVE  Agrees(doc, s)
<1>1. CASE DOMAIN s = 1..1 /\ s[1] \in Rename!TextEdits(doc)
  BY <1>1, OneAgrees
<1>2. CASE /\ DOMAIN s = 1..2 /\ s[1] \in Rename!TextEdits(doc) /\ s[2] \in Rename!TextEdits(doc)
           /\ Rename!Apart(s[1], s[2])
  <2>1. Ordered(s[1]) /\ Ordered(s[2])
    BY <1>2, EditIs
  <2>2. AtDifferent(s[1], s[2])
    BY <1>2, <2>1, ApartIs
  <2>3. /\ DOMAIN Rename!Sorted(s) = 1..2
        /\ \E q, p \in 1..2 : /\ q # p /\ Rename!Sorted(s)[1] = s[q] /\ Rename!Sorted(s)[2] = s[p]
                              /\ Rename!Later(s[q], s[p])
    BY <1>2, <2>2, OrderedTwo
  <2>4. PICK q, p \in 1..2 : /\ q # p /\ Rename!Sorted(s)[1] = s[q] /\ Rename!Sorted(s)[2] = s[p]
                             /\ Rename!Later(s[q], s[p])
    BY <2>3
  <2>5. (p = 1 /\ q = 2) \/ (p = 2 /\ q = 1)
    BY <2>4
  <2>6. Ordered(s[p]) /\ Ordered(s[q]) /\ (Rename!Apart(s[q], s[p]) \/ Rename!Apart(s[p], s[q]))
        /\ s[p] \in Rename!TextEdits(doc) /\ s[q] \in Rename!TextEdits(doc)
    BY <1>2, <2>1, <2>5
  <2>7. InFront(s[p].endLine, s[p].endChar, s[q]) /\ AtDifferent(s[p], s[q])
    BY <2>4, <2>6, ApartIs
  <2> DEFINE lines == Rename!Edited(Rename!Edited(doc, s[q]), s[p])
  <2>8. AllEdited(doc, Rename!Sorted(s)) = lines
    BY <2>3, <2>4, RunTwo
  <2> HIDE DEF lines
  <2>9. SUFFICES ASSUME Rename!Applied(doc, s) # <<>>
                 PROVE  Rename!Flat(Rename!Applied(doc, s)) = Rename!AtOnce(doc, s)
    BY DEF Agrees
  <2>10. lines # <<>>
    <3>1. SUFFICES ASSUME lines = <<>> PROVE FALSE
      OBVIOUS
    <3>2. Rename!Applied(doc, s) = <<>>
      BY <2>8, <3>1 DEF Rename!Applied, AllEdited
    <3> QED
      BY <2>9, <3>2
  <2>11. lines \in Docs /\ Rename!Flat(lines) = Rename!AtOnce(doc, s)
    BY <1>2, <2>4, <2>6, <2>7, <2>10, TwoAgree DEF lines
  <2> QED
    BY <2>8, <2>9, <2>11, AppliedIs
<1> QED
  BY <1>1, <1>2, ListsAre

-----------------------------------------------------------------------------
(* The tool.                                                               *)

\* Whatever the document, an edit leaves one, or fails.
LEMMA EditedTypes ==
  ASSUME NEW d \in Docs, NEW e, Ordered(e)
  PROVE  Rename!Edited(d, e) \in Docs
<1> DEFINE D == Rename!Padded(d, e.endLine + 1)
           first == D[e.line + 1]
           final == D[e.endLine + 1]
           from == Rename!Before(first, e.char)
           to == Rename!Before(final, e.endChar)
           Put(i, j) == SubSeq(first, 1, i) \o e.new \o SubSeq(final, j + 1, Len(final))
           chosen == CHOOSE t \in {Put(i, j) : i \in from, j \in to} : TRUE
<1>1. /\ e.line \in Nat /\ e.endLine \in Nat /\ e.line <= e.endLine /\ e.endLine + 1 \in Nat
      /\ e.new \in Text
  BY DEF Ordered
<1>2. D \in Docs /\ Len(D) \in Nat /\ e.line < Len(D) /\ e.endLine < Len(D)
  <2>1. D \in Docs /\ Len(D) \in Nat /\ Len(D) >= e.endLine + 1
    BY <1>1, PaddedIs
  <2> HIDE DEF D
  <2> QED
    BY <1>1, <2>1
<1>3. Rename!Edited(d, e) = EditedWith(d, e, D)
  BY <1>1, EditedPads
<1> HIDE DEF D
<1>4. EditedWith(d, e, D) = IF d = <<>> \/ from = {} \/ to = {} THEN <<>> ELSE Framed(D, e, chosen)
  BY DEF EditedWith, Framed
<1>5. first \in Text /\ final \in Text
  BY <1>1, <1>2, LineAround DEF Around
<1> HIDE DEF first, final
<1>6. from \subseteq 0..Len(first) /\ to \subseteq 0..Len(final)
  <2>1. ASSUME NEW l \in Text, NEW c PROVE Rename!Before(l, c) \subseteq 0..Len(l)
    <3>1. Len(l) \in 0..Len(l)
      BY LenProperties DEF Text
    <3> QED
      BY <3>1 DEF Rename!Before
  <2> QED
    BY <1>5, <2>1
<1> HIDE DEF from, to
<1>7. ASSUME NEW i \in from, NEW j \in to PROVE Put(i, j) \in Text
  <2> DEFINE a == SubSeq(first, 1, i)
             c == SubSeq(final, j + 1, Len(final))
  <2>1. i \in 0..Len(first) /\ j \in 0..Len(final)
    BY <1>6
  <2>2. a \in Text /\ c \in Text
    BY <1>5, <2>1, Halves DEF Fore, Aft, Text
  <2> HIDE DEF a, c
  <2>3. a \o e.new \in Text
    BY <1>1, <2>2, ConcatProperties DEF Text
  <2>4. (a \o e.new) \o c \in Text
    <3> DEFINE b == a \o e.new
    <3>1. b \in Text
      BY <2>3
    <3> HIDE DEF b
    <3>2. b \o c \in Text
      BY <2>2, <3>1, ConcatProperties DEF Text
    <3> QED
      BY <3>2 DEF b
  <2> QED
    BY <2>4 DEF a, c
<1>8. from # {} /\ to # {} => chosen \in Text
  <2> DEFINE all == {Put(i, j) : i \in from, j \in to}
  <2> HIDE DEF Put
  <2>1. from # {} /\ to # {} => \E t : t \in all
    <3> SUFFICES ASSUME NEW i \in from, NEW j \in to PROVE \E t : t \in all
      OBVIOUS
    <3>1. Put(i, j) \in all
      OBVIOUS
    <3> QED
      BY <3>1
  <2>2. all \subseteq Text
    BY <1>7
  <2> HIDE DEF all
  <2>3. from # {} /\ to # {} => chosen \in all
    BY <2>1 DEF all
  <2> QED
    BY <2>2, <2>3
<1> HIDE DEF chosen
<1>9. ASSUME NEW t \in Text PROVE Framed(D, e, t) \in Docs
  <2> DEFINE x == SubSeq(D, 1, e.line)
             ls == IF e.line = e.endLine THEN <<t>> ELSE Rename!Lines(t)
             y == SubSeq(D, e.endLine + 2, Len(D))
  <2>1. x \in Docs /\ y \in Docs
    <3>1. Fore(D, e.line) \in Docs /\ Aft(D, e.endLine + 1) \in Docs
      BY <1>1, <1>2, LineAround DEF Around
    <3>2. (e.endLine + 1) + 1 = e.endLine + 2
      BY <1>1
    <3> QED
      BY <3>1, <3>2 DEF Fore, Aft
  <2>2. ls \in Docs
    <3>1. <<t>> \in Docs /\ Rename!Lines(t) \in Docs
      BY JoinedOne, LinesJoin, CleanIsDoc DEF Leaves
    <3> QED
      BY <3>1
  <2> HIDE DEF x, y, ls
  <2>3. Cat(x, ls) \in Docs
    BY <2>1, <2>2, CatTypes DEF Docs
  <2>4. Cat(Cat(x, ls), y) \in Docs
    BY <2>1, <2>3, CatTypes DEF Docs
  <2> QED
    BY <2>4 DEF Framed, Cat, x, y, ls
<1>10. <<>> \in Docs
  BY EmptySeq DEF Docs
<1> QED
  BY <1>3, <1>4, <1>8, <1>9, <1>10

\* What the edits of one document make of another.
LEMMA AppliedTypes ==
  ASSUME NEW doc \in Leaves, NEW s \in Rename!EditLists(doc), NEW d \in Clean
  PROVE  Rename!Applied(d, s) \in Clean
<1>1. d \in Docs
  BY CleanIsDoc
<1>2. CASE DOMAIN s = 1..1 /\ s[1] \in Rename!TextEdits(doc)
  <2>1. AllEdited(d, Rename!Sorted(s)) = Rename!Edited(d, s[1])
    BY <1>2, OrderedOne, RunOne
  <2>2. Rename!Edited(d, s[1]) \in Docs
    BY <1>1, <1>2, EditIs, EditedTypes
  <2> QED
    BY <2>1, <2>2, AppliedIs
<1>3. CASE /\ DOMAIN s = 1..2 /\ s[1] \in Rename!TextEdits(doc) /\ s[2] \in Rename!TextEdits(doc)
           /\ Rename!Apart(s[1], s[2])
  <2>1. Ordered(s[1]) /\ Ordered(s[2])
    BY <1>3, EditIs
  <2>2. AtDifferent(s[1], s[2])
    BY <1>3, <2>1, ApartIs
  <2>3. /\ DOMAIN Rename!Sorted(s) = 1..2
        /\ \E q, p \in 1..2 : Rename!Sorted(s)[1] = s[q] /\ Rename!Sorted(s)[2] = s[p]
    BY <1>3, <2>2, OrderedTwo
  <2>4. PICK q, p \in 1..2 : Rename!Sorted(s)[1] = s[q] /\ Rename!Sorted(s)[2] = s[p]
    BY <2>3
  <2>5. Ordered(s[p]) /\ Ordered(s[q])
    <3>1. (p = 1 \/ p = 2) /\ (q = 1 \/ q = 2)
      OBVIOUS
    <3> QED
      BY <2>1, <3>1
  <2>6. AllEdited(d, Rename!Sorted(s)) = Rename!Edited(Rename!Edited(d, s[q]), s[p])
    BY <2>3, <2>4, RunTwo
  <2>7. Rename!Edited(Rename!Edited(d, s[q]), s[p]) \in Docs
    <3>1. Rename!Edited(d, s[q]) \in Docs
      BY <1>1, <2>5, EditedTypes
    <3> QED
      BY <2>5, <3>1, EditedTypes
  <2> QED
    BY <2>6, <2>7, AppliedIs
<1> QED
  BY <1>2, <1>3, ListsAre

\* A change that the server asks for: edits are those of a file it knew.
AskedFor(c, k) ==
  /\ c.kind = "edits" => /\ c.path \in Files /\ k[c.path] \in Leaves
                         /\ c.edits \in Rename!EditLists(k[c.path])
  /\ c.kind = "rename" /\ c.path # Outside => c.path \in Files

\* All files are clean, the changes are those asked for, and the edits applied
\* last gave what they give at once.
TextInv ==
  /\ disk \in [Files -> Clean] /\ known \in [Files -> Clean]
  /\ \E plan : changes \in Seq(plan) /\ \A c \in plan : AskedFor(c, known)
  /\ phase # "applying" => changes = <<>>
  /\ TextEditsMatch

\* A file gets another clean document.
LEMMA DiskStays ==
  ASSUME disk \in [Files -> Clean], NEW f, NEW doc \in Clean
  PROVE  [disk EXCEPT ![f] = doc] \in [Files -> Clean]
OBVIOUS

\* It holds in the initial state.
LEMMA TextStarts == Rename!Init => TextInv
<1> SUFFICES ASSUME Rename!Init PROVE TextInv
  OBVIOUS
<1>1. Documents \subseteq Clean
  BY GivenDocuments DEF Leaves
<1>2. disk \in [Files -> Clean] /\ known \in [Files -> Clean]
  BY <1>1 DEF Rename!Init
<1>3. changes = <<>> /\ changes \in Seq({}) /\ \A c \in {} : AskedFor(c, known)
  BY DEF Rename!Init
<1>4. TextEditsMatch
  BY DEF Rename!Init, Rename!NoEdits, TextEditsMatch, Rename!TextEditsMatch
<1>5. \E plan : changes \in Seq(plan) /\ \A c \in plan : AskedFor(c, known)
  <2> DEFINE none == {}
  <2>1. changes \in Seq(none) /\ \A c \in none : AskedFor(c, known)
    BY <1>3
  <2> HIDE DEF none
  <2> QED
    BY <2>1
<1> QED
  BY <1>2, <1>3, <1>4, <1>5 DEF TextInv

\* It is kept when the edits stay as they are and the files clean.
LEMMA TextKept ==
  ASSUME TextInv, disk' \in [Files -> Clean], UNCHANGED <<known, changes, last>>,
         phase' # "applying" => phase # "applying" \/ changes = <<>>
  PROVE  TextInv'
<1>1. TextEditsMatch'
  BY DEF TextInv, TextEditsMatch, Rename!TextEditsMatch
<1> QED
  BY <1>1 DEF TextInv

\* The server's answer.
LEMMA AnsweredKeeps ==
  ASSUME TextInv, Rename!Answered
  PROVE  TextInv'
<1>1. PICK c \in Rename!Changes(disk) : \E more \in {<<>>} \cup
        {<<Rename!Change("delete", Outside, Outside, <<>>)>>,
         <<Rename!Change("create", c.path, c.path, <<>>)>>} :
           changes' = <<c>> \o more
  BY DEF Rename!Answered
<1> DEFINE d1 == Rename!Change("delete", Outside, Outside, <<>>)
           d2 == Rename!Change("create", c.path, c.path, <<>>)
           all == {c, d1, d2}
<1>2. AskedFor(c, disk)
  <2>1. CASE c \in { Rename!Change(k, f, g, <<>>) :
           k \in {"create", "rename", "delete"}, f \in Files \cup {Outside}, g \in Files }
    BY <2>1 DEF Rename!Change, AskedFor
  <2>2. CASE c \in UNION {{Rename!Change("edits", f, f, s) : s \in Rename!EditLists(disk[f])} :
                            f \in {g \in Files : disk[g] # <<>>}}
    <3>1. PICK f \in Files : disk[f] # <<>> /\ \E s \in Rename!EditLists(disk[f]) :
                               c = Rename!Change("edits", f, f, s)
      BY <2>2
    <3>2. disk[f] \in Leaves
      BY <3>1 DEF TextInv, Leaves
    <3> QED
      BY <3>1, <3>2 DEF Rename!Change, AskedFor
  <2> QED
    BY <1>1, <2>1, <2>2 DEF Rename!Changes
<1>3. AskedFor(d1, disk) /\ AskedFor(d2, disk)
  BY DEF Rename!Change, AskedFor
<1>4. changes' \in {<<c>> \o <<>>, <<c>> \o <<d1>>, <<c>> \o <<d2>>}
  BY <1>1
<1> HIDE DEF d1, d2
<1>5. changes' \in Seq(all)
  <2> HIDE DEF all
  <2>1. c \in all /\ d1 \in all /\ d2 \in all
    BY DEF all
  <2>2. <<>> \in Seq(all) /\ <<c>> \in Seq(all) /\ <<d1>> \in Seq(all) /\ <<d2>> \in Seq(all)
    BY <2>1
  <2>3. /\ <<c>> \o <<>> \in Seq(all) /\ <<c>> \o <<d1>> \in Seq(all)
        /\ <<c>> \o <<d2>> \in Seq(all)
    BY <2>2, ConcatProperties
  <2> QED
    BY <1>4, <2>3
<1>6. known' = disk /\ disk' = disk /\ last' = last /\ phase' = "applying"
  BY DEF Rename!Answered
<1>7. TextEditsMatch'
  BY <1>6 DEF TextInv, TextEditsMatch, Rename!TextEditsMatch
<1>8. \A x \in all : AskedFor(x, known')
  BY <1>2, <1>3, <1>6
<1> QED
  BY <1>5, <1>6, <1>7, <1>8 DEF TextInv

\* A change is taken and the files stay clean.
LEMMA TakeKeepsEdits ==
  ASSUME TextInv, Rename!Take, disk' \in [Files -> Clean], TextEditsMatch'
  PROVE  TextInv'
<1>1. PICK plan : changes \in Seq(plan) /\ \A c \in plan : AskedFor(c, known)
  BY DEF TextInv
<1>2. changes # <<>> /\ changes' = Tail(changes) /\ known' = known /\ phase' = "applying"
  BY DEF Rename!Take
<1>3. changes' \in Seq(plan)
  BY <1>1, <1>2
<1> QED
  BY <1>1, <1>2, <1>3 DEF TextInv

\* The first change is one asked for.
LEMMA FirstAsked ==
  ASSUME TextInv, Rename!Take
  PROVE  AskedFor(changes[1], known)
<1>1. PICK plan : changes \in Seq(plan) /\ \A c \in plan : AskedFor(c, known)
  BY DEF TextInv
<1>2. changes[1] \in plan
  BY <1>1 DEF Rename!Take
<1> QED
  BY <1>1, <1>2

\* A document of one empty line is clean, and so is none.
LEMMA BareDocs == <<<<>>>> \in Clean /\ <<>> \in Clean
<1>1. <<>> \in Clean
  BY EmptySeq DEF Clean
<1> QED
  BY <1>1, CleanIsDoc DEF Leaves

\* Text edits.
LEMMA ApplyEditsKeeps ==
  ASSUME TextInv, Rename!ApplyEdits
  PROVE  TextInv'
<1> DEFINE c == changes[1]
           doc == Rename!Applied(disk[c.path], c.edits)
<1>1. Rename!Take /\ c.kind = "edits"
  BY DEF Rename!ApplyEdits
<1>2. c.path \in Files /\ known[c.path] \in Leaves /\ c.edits \in Rename!EditLists(known[c.path])
  BY <1>1, FirstAsked DEF AskedFor
<1>3. disk \in [Files -> Clean] /\ disk[c.path] \in Clean
  BY <1>2 DEF TextInv
<1>4. doc \in Clean
  BY <1>2, <1>3, AppliedTypes
<1>5. \/ /\ doc # <<>> /\ disk' = [disk EXCEPT ![c.path] = doc]
         /\ last' = [before |-> disk[c.path], edits |-> c.edits, after |-> doc,
                     fits |-> disk[c.path] = known[c.path]]
      \/ disk' \in {disk, [disk EXCEPT ![c.path] = <<<<>>>>]} /\ last' = last
  BY DEF Rename!ApplyEdits, Rename!WriteFails
<1>6. disk' \in [Files -> Clean]
  <2> HIDE DEF doc, c
  <2>1. /\ [disk EXCEPT ![c.path] = doc] \in [Files -> Clean]
        /\ [disk EXCEPT ![c.path] = <<<<>>>>] \in [Files -> Clean]
    BY <1>3, <1>4, BareDocs, DiskStays
  <2> QED
    BY <1>3, <1>5, <2>1
<1>7. TextEditsMatch'
  <2>1. CASE last' = last
    BY <2>1 DEF TextInv, TextEditsMatch, Rename!TextEditsMatch
  <2>2. CASE /\ doc # <<>>
             /\ last' = [before |-> disk[c.path], edits |-> c.edits, after |-> doc,
                         fits |-> disk[c.path] = known[c.path]]
    <3> HIDE DEF c
    <3>1. SUFFICES ASSUME disk[c.path] = known[c.path]
                   PROVE  Rename!Flat(doc) = Rename!AtOnce(disk[c.path], c.edits)
      BY <2>2 DEF TextEditsMatch, Rename!TextEditsMatch
    <3>2. Agrees(disk[c.path], c.edits)
      BY <1>2, <3>1, ListsAgree
    <3> QED
      BY <2>2, <3>2 DEF Agrees
  <2> QED
    BY <1>5, <2>1, <2>2
<1> QED
  BY <1>1, <1>6, <1>7, TakeKeepsEdits

\* The other changes.
LEMMA OthersKeep ==
  ASSUME TextInv,
         \/ Rename!ApplyOutside \/ Rename!ApplyCreate \/ Rename!ApplyRename \/ Rename!ApplyDelete
  PROVE  TextInv'
<1>1. Rename!Take /\ last' = last
  BY DEF Rename!ApplyOutside, Rename!ApplyCreate, Rename!ApplyRename, Rename!ApplyDelete
<1>2. disk \in [Files -> Clean]
  BY DEF TextInv
<1> DEFINE old == changes[1].path
           new == changes[1].to
           copied == [disk EXCEPT ![new] = disk[old]]
<1>3. \A f : /\ [disk EXCEPT ![f] = <<<<>>>>] \in [Files -> Clean]
             /\ [disk EXCEPT ![f] = <<>>] \in [Files -> Clean]
  BY <1>2, BareDocs, DiskStays
<1>4. ASSUME Rename!ApplyOutside \/ Rename!ApplyCreate \/ Rename!ApplyDelete
      PROVE  disk' \in [Files -> Clean]
  <2>1. disk' \in {disk, [disk EXCEPT ![old] = <<<<>>>>], [disk EXCEPT ![old] = <<>>]}
    BY <1>4 DEF Rename!ApplyOutside, Rename!ApplyCreate, Rename!ApplyDelete
  <2> QED
    BY <1>2, <1>3, <2>1
<1>5. ASSUME Rename!ApplyRename
      PROVE  disk' \in [Files -> Clean]
  <2>1. old \in Files
    <3>1. changes[1].kind = "rename" /\ changes[1].path # Outside
      BY <1>5 DEF Rename!ApplyRename
    <3> QED
      BY <1>1, <3>1, FirstAsked DEF AskedFor
  <2>2. disk' \in {disk, copied, [copied EXCEPT ![old] = <<>>], [disk EXCEPT ![new] = <<<<>>>>]}
    BY <1>5 DEF Rename!ApplyRename, Rename!WriteFails
  <2>3. copied \in [Files -> Clean]
    BY <1>2, <2>1
  <2> HIDE DEF copied
  <2>4. [copied EXCEPT ![old] = <<>>] \in [Files -> Clean]
    BY <2>3, BareDocs
  <2> QED
    BY <1>2, <1>3, <2>2, <2>3, <2>4
<1>6. disk' \in [Files -> Clean]
  BY <1>4, <1>5
<1>7. TextEditsMatch'
  BY <1>1 DEF TextInv, TextEditsMatch, Rename!TextEditsMatch
<1> QED
  BY <1>1, <1>6, <1>7, TakeKeepsEdits

\* Every step keeps it.
LEMMA TextSteps ==
  ASSUME TextInv, [Rename!Next]_(Rename!vars)
  PROVE  TextInv'
<1>1. disk \in [Files -> Clean]
  BY DEF TextInv
<1>2. CASE Rename!Call
  <2>1. /\ disk' = disk /\ known' = known /\ changes' = changes /\ last' = Rename!NoEdits
        /\ phase = "idle" /\ phase' = "preparing"
    BY <1>2 DEF Rename!Call
  <2>2. TextEditsMatch'
    BY <2>1 DEF Rename!NoEdits, TextEditsMatch, Rename!TextEditsMatch
  <2>3. changes = <<>>
    BY <2>1 DEF TextInv
  <2> QED
    BY <2>1, <2>2, <2>3 DEF TextInv
<1>3. CASE Rename!Refuse \/ Rename!Prepared \/ Rename!Finish
  <2>1. /\ disk' = disk /\ UNCHANGED <<known, changes, last>>
        /\ phase # "applying" \/ changes = <<>>
    BY <1>3 DEF Rename!Refuse, Rename!Prepared, Rename!Finish
  <2> QED
    BY <1>1, <2>1, TextKept
<1>4. ASSUME NEW f \in Files, Rename!Elsewhere(f) PROVE TextInv'
  <2>1. /\ \E d \in Documents : disk' = [disk EXCEPT ![f] = d]
        /\ UNCHANGED <<known, changes, last>> /\ phase' = "applying"
    BY <1>4 DEF Rename!Elsewhere
  <2>2. Documents \subseteq Clean
    BY GivenDocuments DEF Leaves
  <2>3. disk' \in [Files -> Clean]
    BY <1>1, <2>1, <2>2, DiskStays
  <2> QED
    BY <2>1, <2>3, TextKept
<1>5. CASE UNCHANGED Rename!vars
  <2>1. UNCHANGED <<disk, phase, known, changes, last>>
    BY <1>5 DEF Rename!vars
  <2>2. phase' # "applying" => phase # "applying"
    BY <2>1
  <2> QED
    BY <1>1, <2>1, <2>2, TextKept
<1> QED
  BY <1>2, <1>3, <1>4, <1>5, AnsweredKeeps, ApplyEditsKeeps, OthersKeep DEF Rename!Next

\* One edit of a document or two, whichever way they are sent and whether or not
\* they share a line: applied one by one from the end of the file, they give what
\* applying them at once to the document the server knew would
\* (apply_text_edits_to_file).
THEOREM EditsMoveNoOther == Rename!Spec => []TextEditsMatch
<1>1. TextInv => TextEditsMatch
  BY DEF TextInv
<1> QED
  BY TextStarts, TextSteps, <1>1, PTL DEF Rename!Spec
=============================================================================
