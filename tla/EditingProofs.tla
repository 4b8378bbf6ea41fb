----------------------------- MODULE EditingProofs -----------------------------
(***************************************************************************)
(* The new content of a file is what the operations of a request say, for   *)
(* any file, texts, editors and number of calls.  The file is cut into      *)
(* places, three for a line; each operation takes a stretch of them, what   *)
(* is asked for is the sum of what the places get, and operations that do   *)
(* not overlap, applied from the end of the file, splice just that.         *)
(***************************************************************************)
EXTENDS MCRecords, TurnHistoryProofs, FiniteSetTheorems

-----------------------------------------------------------------------------
(* FlattenSeq.                                                             *)

\* Concatenation is associative, said by an operator so that it can be cited.
Bracketed(a, b, c) == (a \o b) \o c = a \o (b \o c)

\* It is.
LEMMA Brackets ==
  ASSUME NEW T, NEW a \in Seq(T), NEW b \in Seq(T), NEW c \in Seq(T)
  PROVE  Bracketed(a, b, c)
BY ConcatAssociative DEF Bracketed

\* The sums of the first blocks of B, from one to n.
IsSum(B, n, s) == s = [i \in 1..n |-> IF i = 1 THEN B[i] ELSE s[i - 1] \o B[i]]

\* There are such sums, for any blocks.
LEMMA SumsExist ==
  ASSUME NEW T, NEW m \in Nat, NEW B \in [1..m -> Seq(T)]
  PROVE  \E sum \in [1..m -> Seq(T)] : IsSum(B, m, sum)
<1> DEFINE W == {n \in 0..m : \E sum \in [1..n -> Seq(T)] : IsSum(B, n, sum)}
<1>1. 0 \in W
  <2> DEFINE none == [i \in 1..0 |-> <<>>]
  <2>1. \A i \in 1..0 : FALSE
    OBVIOUS
  <2>2. none \in [1..0 -> Seq(T)]
    BY <2>1
  <2>3. IsSum(B, 0, none)
    BY <2>1 DEF IsSum
  <2>4. 0 \in 0..m
    OBVIOUS
  <2> HIDE DEF none
  <2> QED
    BY <2>2, <2>3, <2>4
<1>2. ASSUME NEW n \in 0..m, n \in W, n < m PROVE n + 1 \in W
  <2>1. PICK sum \in [1..n -> Seq(T)] : IsSum(B, n, sum)
    BY <1>2
  <2> DEFINE longest == IF n = 0 THEN B[1] ELSE sum[n] \o B[n + 1]
             more == [i \in 1..(n + 1) |-> IF i = n + 1 THEN longest ELSE sum[i]]
  <2>2. n + 1 \in 1..m /\ n + 1 \in 0..m /\ n \in Nat
    BY <1>2
  <2>3. longest \in Seq(T)
    <3>1. CASE n = 0
      BY <2>2, <3>1
    <3>2. CASE n # 0
      <4>1. sum[n] \in Seq(T) /\ B[n + 1] \in Seq(T)
        BY <2>1, <2>2, <3>2
      <4>2. sum[n] \o B[n + 1] \in Seq(T)
        BY <4>1, ConcatProperties
      <4> QED
        BY <3>2, <4>2
    <3> QED
      BY <3>1, <3>2
  <2> HIDE DEF longest
  <2>4. more \in [1..(n + 1) -> Seq(T)]
    <3>1. \A i \in 1..(n + 1) : i # n + 1 => i \in 1..n
      BY <2>2
    <3> QED
      BY <2>1, <2>3, <3>1
  <2>5. ASSUME NEW i \in 1..(n + 1)
        PROVE  more[i] = IF i = 1 THEN B[i] ELSE more[i - 1] \o B[i]
    <3>1. CASE i <= n
      <4>1. i \in 1..n /\ more[i] = sum[i] /\ (i # 1 => i - 1 \in 1..n /\ more[i - 1] = sum[i - 1])
        BY <2>2, <3>1
      <4>2. sum[i] = IF i = 1 THEN B[i] ELSE sum[i - 1] \o B[i]
        BY <2>1, <4>1 DEF IsSum
      <4> QED
        BY <4>1, <4>2
    <3>2. CASE i = n + 1
      <4>1. more[i] = longest /\ (i # 1 => i - 1 \in 1..(n + 1) /\ more[i - 1] = sum[i - 1] /\ i - 1 = n)
        BY <2>2, <3>2
      <4>2. (i = 1 <=> n = 0)
        BY <2>2, <3>2
      <4> QED
        BY <3>2, <4>1, <4>2 DEF longest
    <3> QED
      BY <2>2, <3>1, <3>2
  <2>6. IsSum(B, n + 1, more)
    BY <2>4, <2>5 DEF IsSum
  <2> QED
    BY <2>2, <2>4, <2>6
<1>3. \A n \in 0..m : n \in W
  <2>1. \A n \in 0..m : n \in W /\ n < m => n + 1 \in W
    BY <1>2
  <2> HIDE DEF W
  <2> QED
    BY <1>1, <2>1, Climb
<1>4. m \in W
  <2> HIDE DEF W
  <2>1. m \in 0..m
    OBVIOUS
  <2> QED
    BY <1>3, <2>1
<1> QED
  BY <1>4

\* The sums of the first blocks, from none to all, the last being FlattenSeq's.
Totals(sum, T, m, B) ==
  /\ sum \in [0..m -> Seq(T)]
  /\ sum[0] = <<>> /\ \A j \in 1..m : sum[j] = sum[j - 1] \o B[j]
  /\ Edits!FlattenSeq(B) = sum[m]

\* What FlattenSeq computes: the sums of the first blocks, from none to all.
LEMMA SumsAre ==
  ASSUME NEW T, NEW m \in Nat, NEW B \in [1..m -> Seq(T)]
  PROVE  \E sum : Totals(sum, T, m, B)
<1> DEFINE flat == CHOOSE s : IsSum(B, m, s)
           sum == [j \in 0..m |-> IF j = 0 THEN <<>> ELSE flat[j]]
<1>1. IsSum(B, m, flat)
  <2>1. \E s : IsSum(B, m, s)
    BY SumsExist
  <2> QED
    BY <2>1
<1>2. B = [i \in 1..m |-> B[i]] /\ Len(B) = m
  <2>1. B \in Seq(Seq(T)) /\ DOMAIN B = 1..m
    OBVIOUS
  <2>2. Len(B) = m
    BY <2>1, LenProperties
  <2> QED
    BY <2>2
<1>3. Edits!FlattenSeq(B) = IF m = 0 THEN B ELSE flat[m]
  BY <1>2 DEF Edits!FlattenSeq, IsSum
<1>4. m = 0 => B = <<>>
  BY <1>2
<1> HIDE DEF flat
<1>5. \A i \in 1..m : flat[i] = IF i = 1 THEN B[i] ELSE flat[i - 1] \o B[i]
  BY <1>1 DEF IsSum
<1>6. \A j \in 0..m : j \in {k \in 0..m : k # 0 => flat[k] \in Seq(T)}
  <2> DEFINE W == {k \in 0..m : k # 0 => flat[k] \in Seq(T)}
  <2>1. 0 \in W
    OBVIOUS
  <2>2. ASSUME NEW n \in 0..m, n \in W, n < m PROVE n + 1 \in W
    <3>1. n + 1 \in 1..m /\ n + 1 \in 0..m /\ (n + 1) - 1 = n /\ (n + 1 = 1 <=> n = 0)
      BY <2>2
    <3>2. flat[n + 1] = IF n = 0 THEN B[n + 1] ELSE flat[n] \o B[n + 1]
      BY <1>5, <3>1
    <3>3. B[n + 1] \in Seq(T)
      BY <3>1
    <3>4. n # 0 => flat[n] \o B[n + 1] \in Seq(T)
      BY <2>2, <3>3, ConcatProperties
    <3>5. flat[n + 1] \in Seq(T)
      BY <3>2, <3>3, <3>4
    <3> QED
      BY <3>1, <3>5
  <2>3. \A n \in 0..m : n \in W /\ n < m => n + 1 \in W
    BY <2>2
  <2> HIDE DEF W
  <2>4. \A n \in 0..m : n \in W
    BY <2>1, <2>3, Climb
  <2> QED
    BY <2>4 DEF W
<1>7. sum \in [0..m -> Seq(T)] /\ sum[0] = <<>>
  BY <1>6
<1>8. ASSUME NEW j \in 1..m PROVE sum[j] = sum[j - 1] \o B[j]
  <2>1. sum[j] = flat[j] /\ j \in Nat
    OBVIOUS
  <2>2. CASE j = 1
    <3>1. sum[j - 1] = <<>> /\ flat[j] = B[j] /\ B[j] \in Seq(T)
      BY <1>5, <2>2
    <3> QED
      BY <2>1, <3>1, ConcatEmptySeq
  <2>3. CASE j # 1
    <3>1. j - 1 \in 0..m /\ j - 1 # 0
      BY <2>3
    <3>2. sum[j - 1] = flat[j - 1]
      BY <3>1
    <3> QED
      BY <1>5, <2>1, <2>3, <3>2
  <2> QED
    BY <2>2, <2>3
<1>9. Edits!FlattenSeq(B) = sum[m]
  <2>1. m = 0 => sum[m] = <<>>
    OBVIOUS
  <2>2. m # 0 => sum[m] = flat[m]
    OBVIOUS
  <2> QED
    BY <1>3, <1>4, <2>1, <2>2
<1> HIDE DEF sum
<1> QED
  BY <1>7, <1>8, <1>9 DEF Totals

-----------------------------------------------------------------------------
-----------------------------------------------------------------------------
(* The places of a file.                                                   *)

\* A place is a line, or what is in front of it or behind it: 3n - 2, 3n - 1
\* and 3n for line n.  An operation goes from one place to another.
From(op) == IF op.kind = "insert_before" THEN 3 * op.start.line - 2
            ELSE IF op.kind = "insert_after" THEN 3 * op.start.line
            ELSE 3 * op.start.line - 1
To(op) == IF Edits!Spans(op) THEN 3 * op.end.line - 1 ELSE From(op)

\* The lines up to a place.
Count(k) == (k + 1) \div 3

\* An operation on a file of N lines.
Placed(op, N) ==
  /\ op.kind \in Edits!Inserting \cup Edits!Spanning /\ Edits!Pieces(op.new) \in Seq(Texts)
  /\ op.start.line \in 1..N /\ op.end.line \in op.start.line..N
  /\ op.kind \in Edits!Inserting => op.end.line = op.start.line

\* The pieces of a replacement are texts.
LEMMA PiecesAre ==
  ASSUME NEW new \in Seq(Texts)
  PROVE  Edits!Pieces(new) \in Seq(Texts)
<1>1. CASE Len(new) > 1 /\ new[Len(new)] = Empty
  <2>1. Edits!Pieces(new) = SubSeq(new, 1, Len(new) - 1)
    BY <1>1 DEF Edits!Pieces, Edits!Front
  <2>2. Len(new) \in Nat /\ 1 \in 1..(Len(new) + 1) /\ Len(new) - 1 \in 0..Len(new)
    BY <1>1, LenProperties
  <2>3. SubSeq(new, 1, Len(new) - 1) \in Seq(Texts)
    BY <2>2, SubSeqProperties
  <2> QED
    BY <2>1, <2>3
<1>2. CASE ~(Len(new) > 1 /\ new[Len(new)] = Empty)
  BY <1>2 DEF Edits!Pieces
<1> QED
  BY <1>1, <1>2

\* One operation, or two.
Request(ops, N) ==
  /\ DOMAIN ops = 1..1 \/ DOMAIN ops = 1..2
  /\ \A i \in DOMAIN ops : Placed(ops[i], N)

\* An operation covers the place; what an operation brings at it.
Covered(ops, k) == \E i \in DOMAIN ops : From(ops[i]) <= k /\ k <= To(ops[i])
Given(ops, i, k) == IF i \in DOMAIN ops /\ From(ops[i]) = k THEN Edits!Pieces(ops[i].new) ELSE <<>>

\* The texts that a place gets.
Slot(t, ops, k) ==
  IF k = 3 * Count(k) - 1 /\ ~Covered(ops, k) THEN <<t[Count(k)]>>
  ELSE Given(ops, 1, k) \o Given(ops, 2, k)

\* The line of a place, from its number.
LEMMA CountIs ==
  ASSUME NEW n \in Nat, NEW k \in Nat, 3 * n <= k + 1, k + 1 < 3 * n + 3
  PROVE  Count(k) = n
BY DEF Count

\* The place is the line, or next to it.
LEMMA CountMeans ==
  ASSUME NEW k \in Nat
  PROVE  Count(k) \in Nat /\ 3 * Count(k) <= k + 1 /\ k + 1 < 3 * Count(k) + 3
BY DEF Count

\* Where an operation begins and ends, among the places of N lines.
LEMMA PlacesAre ==
  ASSUME NEW N \in Nat, NEW op, Placed(op, N)
  PROVE  /\ From(op) \in 1..(3 * N) /\ To(op) \in From(op)..(3 * N)
         /\ \A n \in 1..N :
              /\ From(op) = 3 * n - 2 <=> op.kind = "insert_before" /\ op.start.line = n
              /\ From(op) = 3 * n <=> op.kind = "insert_after" /\ op.start.line = n
              /\ From(op) = 3 * n - 1 <=> Edits!Spans(op) /\ op.start.line = n
              /\ From(op) <= 3 * n - 1 /\ 3 * n - 1 <= To(op) <=>
                   Edits!Spans(op) /\ n \in op.start.line..op.end.line
<1>1. PICK s \in 1..N : op.start.line = s
  BY DEF Placed
<1>2. PICK e \in s..N : op.end.line = e
  BY <1>1 DEF Placed
<1>3. CASE op.kind = "insert_before"
  <2>1. ~Edits!Spans(op) /\ From(op) = 3 * s - 2 /\ To(op) = 3 * s - 2
    BY <1>1, <1>3 DEF From, To, Edits!Spans, Edits!Spanning
  <2> QED
    BY <1>1, <1>2, <1>3, <2>1
<1>4. CASE op.kind = "insert_after"
  <2>1. ~Edits!Spans(op) /\ From(op) = 3 * s /\ To(op) = 3 * s
    BY <1>1, <1>4 DEF From, To, Edits!Spans, Edits!Spanning
  <2> QED
    BY <1>1, <1>2, <1>4, <2>1
<1>5. CASE op.kind \in Edits!Spanning
  <2>1. /\ Edits!Spans(op) /\ From(op) = 3 * s - 1 /\ To(op) = 3 * e - 1
        /\ op.kind # "insert_before" /\ op.kind # "insert_after"
    BY <1>1, <1>2, <1>5 DEF From, To, Edits!Spans, Edits!Spanning
  <2> QED
    BY <1>1, <1>2, <2>1
<1> QED
  BY <1>3, <1>4, <1>5 DEF Placed, Edits!Inserting

\* What a place is given are texts.
LEMMA GivenTypes ==
  ASSUME NEW N \in Nat, NEW ops, Request(ops, N), NEW i, NEW k
  PROVE  Given(ops, i, k) \in Seq(Texts)
<1>1. <<>> \in Seq(Texts)
  BY EmptySeq
<1>2. \A j \in DOMAIN ops : Edits!Pieces(ops[j].new) \in Seq(Texts)
  BY DEF Request, Placed
<1> QED
  BY <1>1, <1>2 DEF Given

\* FlattenSeq of one block and of two.
LEMMA FlattenFew ==
  ASSUME NEW T, NEW m \in {1, 2}, NEW B \in [1..m -> Seq(T)]
  PROVE  Edits!FlattenSeq(B) = IF m = 1 THEN B[1] ELSE B[1] \o B[2]
<1>1. m \in Nat
  OBVIOUS
<1>2. PICK sum : Totals(sum, T, m, B)
  BY <1>1, SumsAre
<1>3. /\ sum \in [0..m -> Seq(T)]
      /\ sum[0] = <<>> /\ \A j \in 1..m : sum[j] = sum[j - 1] \o B[j]
      /\ Edits!FlattenSeq(B) = sum[m]
  BY <1>2 DEF Totals
<1>4. sum[1] = B[1]
  <2>1. 1 \in 1..m /\ 1 - 1 = 0 /\ B[1] \in Seq(T)
    OBVIOUS
  <2>2. sum[1] = <<>> \o B[1]
    BY <1>3, <2>1
  <2> QED
    BY <2>1, <2>2, ConcatEmptySeq
<1>5. CASE m = 1
  BY <1>3, <1>4, <1>5
<1>6. CASE m = 2
  <2>1. 2 \in 1..m /\ 2 - 1 = 1
    BY <1>6
  <2>2. sum[2] = sum[1] \o B[2]
    BY <1>3, <2>1
  <2> QED
    BY <1>3, <1>4, <1>6, <2>2
<1> QED
  BY <1>5, <1>6

\* FlattenSeq of a block for every operation of a request.
LEMMA FlattenTwo ==
  ASSUME NEW N \in Nat, NEW ops, Request(ops, N), NEW k
  PROVE  Edits!FlattenSeq([i \in DOMAIN ops |-> Given(ops, i, k)]) =
           Given(ops, 1, k) \o Given(ops, 2, k)
<1> DEFINE B == [i \in DOMAIN ops |-> Given(ops, i, k)]
<1>1. \A i : Given(ops, i, k) \in Seq(Texts)
  BY GivenTypes
<1>2. PICK m \in {1, 2} : DOMAIN ops = 1..m
  BY DEF Request
<1>3. /\ B \in [1..m -> Seq(Texts)] /\ B[1] = Given(ops, 1, k)
      /\ m = 2 => B[2] = Given(ops, 2, k)
  BY <1>1, <1>2
<1>4. m = 1 => Given(ops, 2, k) = <<>> /\ Given(ops, 1, k) \o <<>> = Given(ops, 1, k)
  <2>1. m = 1 => Given(ops, 2, k) = <<>>
    BY <1>2 DEF Given
  <2> QED
    BY <1>1, <2>1, ConcatEmptySeq
<1> HIDE DEF B
<1>5. Edits!FlattenSeq(B) = IF m = 1 THEN B[1] ELSE B[1] \o B[2]
  BY <1>3, FlattenFew
<1>6. Edits!FlattenSeq(B) = Given(ops, 1, k) \o Given(ops, 2, k)
  BY <1>3, <1>4, <1>5
<1> QED
  BY <1>6 DEF B

-----------------------------------------------------------------------------
(* What is asked for.                                                      *)

\* The parts of Asked.
Inserted(ops, kind, n) ==
  Edits!FlattenSeq([i \in DOMAIN ops |->
    IF ops[i].kind = kind /\ ops[i].start.line = n THEN Edits!Pieces(ops[i].new) ELSE <<>>])
Over(ops, n) == {i \in DOMAIN ops : Edits!Spans(ops[i]) /\ n \in ops[i].start.line..ops[i].end.line}
Own(t, ops, n) ==
  IF Over(ops, n) = {} THEN <<t[n]>>
  ELSE Edits!FlattenSeq([i \in DOMAIN ops |->
         IF i \in Over(ops, n) /\ ops[i].start.line = n THEN Edits!Pieces(ops[i].new) ELSE <<>>])

\* The texts of lines.
TextsOf(ls) == [i \in DOMAIN ls |-> ls[i].text]

\* Asked, by its parts.
LEMMA AskedMeans ==
  ASSUME NEW f, NEW ops
  PROVE  Edits!Asked(f, ops) =
           Edits!FlattenSeq([n \in DOMAIN f |->
             Inserted(ops, "insert_before", n) \o Own(TextsOf(f), ops, n)
               \o Inserted(ops, "insert_after", n)])
<1>1. \A n \in DOMAIN f : Own(TextsOf(f), ops, n) =
        IF Over(ops, n) = {} THEN <<f[n].text>>
        ELSE Edits!FlattenSeq([i \in DOMAIN ops |->
               IF i \in Over(ops, n) /\ ops[i].start.line = n THEN Edits!Pieces(ops[i].new) ELSE <<>>])
  BY DEF Own, TextsOf
<1> QED
  BY <1>1 DEF Edits!Asked, Inserted, Over

\* The three slots of a line are what Asked says of it.
LEMMA SlotsOfLine ==
  ASSUME NEW N \in Nat, NEW ops, Request(ops, N), NEW t, NEW n \in 1..N
  PROVE  /\ Inserted(ops, "insert_before", n) = Slot(t, ops, 3 * n - 2)
         /\ Own(t, ops, n) = Slot(t, ops, 3 * n - 1)
         /\ Inserted(ops, "insert_after", n) = Slot(t, ops, 3 * n)
<1>1. \A i \in DOMAIN ops :
        /\ From(ops[i]) = 3 * n - 2 <=> ops[i].kind = "insert_before" /\ ops[i].start.line = n
        /\ From(ops[i]) = 3 * n <=> ops[i].kind = "insert_after" /\ ops[i].start.line = n
        /\ From(ops[i]) = 3 * n - 1 <=> Edits!Spans(ops[i]) /\ ops[i].start.line = n
        /\ From(ops[i]) <= 3 * n - 1 /\ 3 * n - 1 <= To(ops[i]) <=>
             Edits!Spans(ops[i]) /\ n \in ops[i].start.line..ops[i].end.line
        /\ From(ops[i]) \in Nat /\ To(ops[i]) \in Nat /\ From(ops[i]) <= To(ops[i])
  <2> TAKE i \in DOMAIN ops
  <2>1. Placed(ops[i], N)
    BY DEF Request
  <2>2. From(ops[i]) \in 1..(3 * N) /\ To(ops[i]) \in From(ops[i])..(3 * N)
    BY <2>1, PlacesAre
  <2> QED
    BY <2>1, <2>2, PlacesAre
<1>2. /\ 3 * n - 2 \in Nat /\ 3 * n - 1 \in Nat /\ 3 * n \in Nat
      /\ Count(3 * n - 2) = n - 1 /\ Count(3 * n - 1) = n /\ Count(3 * n) = n
  BY DEF Count
<1>3. Inserted(ops, "insert_before", n) = Given(ops, 1, 3 * n - 2) \o Given(ops, 2, 3 * n - 2)
  <2>1. [i \in DOMAIN ops |->
          IF ops[i].kind = "insert_before" /\ ops[i].start.line = n THEN Edits!Pieces(ops[i].new) ELSE <<>>] =
        [i \in DOMAIN ops |-> Given(ops, i, 3 * n - 2)]
    BY <1>1 DEF Given
  <2> QED
    BY <2>1, FlattenTwo DEF Inserted
<1>4. Inserted(ops, "insert_after", n) = Given(ops, 1, 3 * n) \o Given(ops, 2, 3 * n)
  <2>1. [i \in DOMAIN ops |->
          IF ops[i].kind = "insert_after" /\ ops[i].start.line = n THEN Edits!Pieces(ops[i].new) ELSE <<>>] =
        [i \in DOMAIN ops |-> Given(ops, i, 3 * n)]
    BY <1>1 DEF Given
  <2> QED
    BY <2>1, FlattenTwo DEF Inserted
<1>5. Over(ops, n) = {} <=> ~Covered(ops, 3 * n - 1)
  BY <1>1 DEF Over, Covered
<1>6. Edits!FlattenSeq([i \in DOMAIN ops |->
        IF i \in Over(ops, n) /\ ops[i].start.line = n THEN Edits!Pieces(ops[i].new) ELSE <<>>]) =
      Given(ops, 1, 3 * n - 1) \o Given(ops, 2, 3 * n - 1)
  <2>1. \A i \in DOMAIN ops :
          i \in Over(ops, n) /\ ops[i].start.line = n <=> From(ops[i]) = 3 * n - 1
    BY <1>1 DEF Over
  <2>2. [i \in DOMAIN ops |->
          IF i \in Over(ops, n) /\ ops[i].start.line = n THEN Edits!Pieces(ops[i].new) ELSE <<>>] =
        [i \in DOMAIN ops |-> Given(ops, i, 3 * n - 1)]
    BY <2>1 DEF Given
  <2> QED
    BY <2>2, FlattenTwo
<1>7. 3 * n - 2 # 3 * (n - 1) - 1 /\ 3 * n # 3 * n - 1
  OBVIOUS
<1> QED
  BY <1>2, <1>3, <1>4, <1>5, <1>6, <1>7 DEF Slot, Own

\* A slot is a sequence of texts.
LEMMA SlotTypes ==
  ASSUME NEW N \in Nat, NEW ops, Request(ops, N), NEW t \in [1..N -> Texts], NEW k \in 1..(3 * N)
  PROVE  Slot(t, ops, k) \in Seq(Texts)
<1>1. k = 3 * Count(k) - 1 => Count(k) \in 1..N
  <2>1. k \in Nat /\ k <= 3 * N /\ k >= 1
    OBVIOUS
  <2>2. Count(k) \in Nat
    BY <2>1, CountMeans
  <2> QED
    BY <2>1, <2>2
<1>2. k = 3 * Count(k) - 1 => <<t[Count(k)]>> \in Seq(Texts)
  <2>1. k = 3 * Count(k) - 1 => t[Count(k)] \in Texts
    BY <1>1
  <2> QED
    BY <2>1
<1>3. Given(ops, 1, k) \o Given(ops, 2, k) \in Seq(Texts)
  BY GivenTypes, ConcatProperties
<1> QED
  BY <1>2, <1>3 DEF Slot

\* The sums of the slots of t: sums[k] is what the places up to k get.
Sums(t, ops, N, sums) ==
  /\ sums \in [0..(3 * N) -> Seq(Texts)] /\ sums[0] = <<>>
  /\ \A k \in 1..(3 * N) : sums[k] = sums[k - 1] \o Slot(t, ops, k)

\* What is asked for is the sum of the slots.
LEMMA AskedIsSum ==
  ASSUME NEW N \in Nat, NEW ops, Request(ops, N), NEW f, DOMAIN f = 1..N,
         NEW t \in [1..N -> Texts], t = TextsOf(f)
  PROVE  \E sums : Sums(t, ops, N, sums) /\ Edits!Asked(f, ops) = sums[3 * N]
<1> DEFINE S(k) == Slot(t, ops, k)
           B == [n \in 1..N |-> (S(3 * n - 2) \o S(3 * n - 1)) \o S(3 * n)]
<1>1. \A k \in 1..(3 * N) : S(k) \in Seq(Texts)
  BY SlotTypes
<1>2. \A n \in 1..N : 3 * n - 2 \in 1..(3 * N) /\ 3 * n - 1 \in 1..(3 * N) /\ 3 * n \in 1..(3 * N)
  OBVIOUS
<1>3. Edits!Asked(f, ops) = Edits!FlattenSeq(B)
  <2>1. \A n \in DOMAIN f :
          Inserted(ops, "insert_before", n) \o Own(t, ops, n) \o Inserted(ops, "insert_after", n)
          = (S(3 * n - 2) \o S(3 * n - 1)) \o S(3 * n)
    <3> TAKE n \in DOMAIN f
    <3>1. n \in 1..N
      OBVIOUS
    <3>2. /\ Inserted(ops, "insert_before", n) = Slot(t, ops, 3 * n - 2)
          /\ Own(t, ops, n) = Slot(t, ops, 3 * n - 1)
          /\ Inserted(ops, "insert_after", n) = Slot(t, ops, 3 * n)
      BY <3>1, SlotsOfLine
    <3> QED
      BY <3>2
  <2>2. [n \in DOMAIN f |->
          Inserted(ops, "insert_before", n) \o Own(TextsOf(f), ops, n)
            \o Inserted(ops, "insert_after", n)] = B
    BY <2>1
  <2> QED
    <3> HIDE DEF B
    <3> QED
      BY <2>2, AskedMeans
<1> HIDE DEF S
<1>4. B \in [1..N -> Seq(Texts)]
  <2>1. ASSUME NEW n \in 1..N PROVE (S(3 * n - 2) \o S(3 * n - 1)) \o S(3 * n) \in Seq(Texts)
    <3>1. S(3 * n - 2) \o S(3 * n - 1) \in Seq(Texts)
      BY <1>1, <1>2, ConcatProperties
    <3> QED
      BY <1>1, <1>2, <3>1, ConcatProperties
  <2> QED
    BY <2>1
<1>5. \A n \in 1..N : B[n] = (S(3 * n - 2) \o S(3 * n - 1)) \o S(3 * n)
  OBVIOUS
<1> HIDE DEF B
<1>6. PICK by : Totals(by, Texts, N, B)
  BY <1>4, SumsAre
<1>7. /\ by \in [0..N -> Seq(Texts)]
      /\ by[0] = <<>> /\ \A j \in 1..N : by[j] = by[j - 1] \o B[j]
      /\ Edits!FlattenSeq(B) = by[N]
  BY <1>6 DEF Totals
<1> DEFINE C == [k \in 1..(3 * N) |-> S(k)]
<1>8. C \in [1..(3 * N) -> Seq(Texts)] /\ 3 * N \in Nat
  BY <1>1
<1>9. \A k \in 1..(3 * N) : C[k] = S(k)
  OBVIOUS
<1> HIDE DEF C
<1>10. PICK sums : Totals(sums, Texts, 3 * N, C)
  BY <1>8, SumsAre
<1>11. /\ sums \in [0..(3 * N) -> Seq(Texts)]
      /\ sums[0] = <<>> /\ \A j \in 1..(3 * N) : sums[j] = sums[j - 1] \o C[j]
      /\ Edits!FlattenSeq(C) = sums[3 * N]
  BY <1>10 DEF Totals
<1>12. Sums(t, ops, N, sums)
  BY <1>9, <1>11 DEF Sums, S
<1> DEFINE W == {n \in 0..N : sums[3 * n] = by[n]}
<1>13. 0 \in W
  BY <1>7, <1>11
<1>14. ASSUME NEW n \in 0..N, n \in W, n < N PROVE n + 1 \in W
  <2>1. n + 1 \in 1..N /\ (n + 1) - 1 = n
    BY <1>14
  <2>2. /\ 3 * n + 1 \in 1..(3 * N) /\ 3 * n + 2 \in 1..(3 * N) /\ 3 * n + 3 \in 1..(3 * N)
        /\ (3 * n + 1) - 1 = 3 * n /\ (3 * n + 2) - 1 = 3 * n + 1 /\ (3 * n + 3) - 1 = 3 * n + 2
        /\ 3 * (n + 1) = 3 * n + 3 /\ 3 * (n + 1) - 1 = 3 * n + 2 /\ 3 * (n + 1) - 2 = 3 * n + 1
    BY <1>14
  <2>3. /\ sums[3 * n + 1] = sums[3 * n] \o S(3 * n + 1)
        /\ sums[3 * n + 2] = sums[3 * n + 1] \o S(3 * n + 2)
        /\ sums[3 * n + 3] = sums[3 * n + 2] \o S(3 * n + 3)
    BY <1>9, <1>11, <2>2
  <2>4. by[n + 1] = by[n] \o ((S(3 * n + 1) \o S(3 * n + 2)) \o S(3 * n + 3))
    BY <1>5, <1>7, <2>1, <2>2
  <2>5. /\ by[n] \in Seq(Texts) /\ S(3 * n + 1) \in Seq(Texts) /\ S(3 * n + 2) \in Seq(Texts)
        /\ S(3 * n + 3) \in Seq(Texts)
    BY <1>1, <1>7, <2>2
  <2>6. sums[3 * n] = by[n]
    BY <1>14
  <2> DEFINE k1 == 3 * n + 1
             k2 == 3 * n + 2
             k3 == 3 * n + 3
  <2> HIDE DEF k1, k2, k3
  <2>7. sums[3 * n + 3] = by[n + 1]
    <3>1. sums[k1] = sums[3 * n] \o S(k1) /\ sums[k2] = sums[k1] \o S(k2) /\ sums[k3] = sums[k2] \o S(k3)
      BY <2>3 DEF k1, k2, k3
    <3>2. /\ by[n] \in Seq(Texts) /\ S(k1) \in Seq(Texts) /\ S(k2) \in Seq(Texts)
          /\ S(k3) \in Seq(Texts) /\ by[n + 1] = by[n] \o ((S(k1) \o S(k2)) \o S(k3))
      BY <2>4, <2>5 DEF k1, k2, k3
    <3>3. by[n] \o ((S(k1) \o S(k2)) \o S(k3)) = ((by[n] \o S(k1)) \o S(k2)) \o S(k3)
      <4> DEFINE s1 == S(k1)
                 s2 == S(k2)
                 s3 == S(k3)
                 s0 == by[n]
      <4>1. s0 \in Seq(Texts) /\ s1 \in Seq(Texts) /\ s2 \in Seq(Texts) /\ s3 \in Seq(Texts)
        BY <3>2
      <4> HIDE DEF s0, s1, s2, s3
      <4> DEFINE s12 == s1 \o s2
      <4>2. s12 \in Seq(Texts)
        BY <4>1, ConcatProperties
      <4>3. (s0 \o s1) \o s2 = s0 \o s12
        <5>1. Bracketed(s0, s1, s2)
          BY <4>1, Brackets
        <5> QED
          BY <5>1 DEF Bracketed
      <4> HIDE DEF s12
      <4>4. (s0 \o s12) \o s3 = s0 \o (s12 \o s3)
        <5>1. Bracketed(s0, s12, s3)
          BY <4>1, <4>2, Brackets
        <5> QED
          BY <5>1 DEF Bracketed
      <4> QED
        BY <4>3, <4>4 DEF s0, s1, s2, s3, s12
    <3>4. sums[k3] = by[n + 1]
      BY <2>6, <3>1, <3>2, <3>3
    <3> QED
      BY <3>4 DEF k3
  <2>8. sums[3 * (n + 1)] = by[n + 1] /\ n + 1 \in 0..N
    BY <2>1, <2>2, <2>7
  <2> QED
    BY <2>8
<1>15. N \in W
  <2>1. \A n \in 0..N : n \in W /\ n < N => n + 1 \in W
    BY <1>14
  <2>2. N \in 0..N
    OBVIOUS
  <2> HIDE DEF W
  <2> QED
    BY <1>13, <2>1, <2>2, Climb
<1>16. sums[3 * N] = by[N]
  BY <1>15
<1> QED
  BY <1>3, <1>7, <1>12, <1>16

\* One slot more.
LEMMA SumsStep ==
  ASSUME NEW N \in Nat, NEW ops, NEW t, NEW sums, Sums(t, ops, N, sums), NEW k \in 1..(3 * N)
  PROVE  sums[k - 1] \in Seq(Texts) /\ sums[k] = sums[k - 1] \o Slot(t, ops, k)
<1>1. k - 1 \in 0..(3 * N)
  OBVIOUS
<1> QED
  BY <1>1 DEF Sums

\* The texts of N lines.
HasLines(t, N) == t \in Seq(Texts) /\ Len(t) = N

\* A place that no operation covers gets what it has.
LEMMA PlainSlot ==
  ASSUME NEW N \in Nat, NEW ops, Request(ops, N), NEW t, HasLines(t, N),
         NEW k \in 1..(3 * N), ~Covered(ops, k)
  PROVE  /\ Count(k - 1) \in 0..N /\ Count(k) \in Count(k - 1)..N
         /\ Slot(t, ops, k) = SubSeq(t, Count(k - 1) + 1, Count(k))
<1>1. /\ k \in Nat /\ k - 1 \in Nat /\ k >= 1 /\ k <= 3 * N
      /\ Count(k) \in Nat /\ 3 * Count(k) <= k + 1 /\ k + 1 < 3 * Count(k) + 3
  BY CountMeans
<1>2. CASE k = 3 * Count(k) - 1
  <2>1. Count(k - 1) = Count(k) - 1
    <3>1. Count(k) - 1 \in Nat /\ 3 * (Count(k) - 1) <= (k - 1) + 1
          /\ (k - 1) + 1 < 3 * (Count(k) - 1) + 3
      BY <1>1, <1>2
    <3> QED
      BY <1>1, <3>1, CountIs
  <2>2. Count(k) \in 1..N
    BY <1>1, <1>2
  <2>3. Slot(t, ops, k) = <<t[Count(k)]>>
    BY <1>2 DEF Slot
  <2> DEFINE c == Count(k)
  <2>4. c \in 1..N
    BY <2>2
  <2> HIDE DEF c
  <2>5. SubSeq(t, c, c) = <<t[c]>>
    <3>1. t \in Seq(Texts) /\ t[c] \in Texts /\ c \in 1..Len(t)
      BY <2>4 DEF HasLines
    <3>2. SubSeq(t, c, c) = <<t[c]>> \o SubSeq(t, c + 1, c)
      <4>1. c \in c..Len(t)
        BY <3>1
      <4> QED
        BY <3>1, <4>1, SubSeqRecursiveFirst
    <3>3. SubSeq(t, c + 1, c) = <<>>
      BY <2>4, SubSeqEmpty
    <3>4. <<t[c]>> \in Seq(Texts)
      BY <3>1
    <3> QED
      BY <3>2, <3>3, <3>4, ConcatEmptySeq
  <2>6. (c - 1) + 1 = c
    BY <2>4
  <2>7. c - 1 \in 0..N /\ c \in (c - 1)..N
    BY <2>4
  <2> QED
    BY <2>1, <2>3, <2>5, <2>6, <2>7 DEF c
<1>3. CASE k # 3 * Count(k) - 1
  <2>1. Count(k - 1) = Count(k)
    <3>1. 3 * Count(k) <= (k - 1) + 1 /\ (k - 1) + 1 < 3 * Count(k) + 3
      BY <1>1, <1>3
    <3> QED
      BY <1>1, <3>1, CountIs
  <2>2. Count(k) \in 0..N
    BY <1>1
  <2>3. ASSUME NEW i PROVE Given(ops, i, k) = <<>>
    <3>1. ASSUME i \in DOMAIN ops, From(ops[i]) = k PROVE FALSE
      <4>1. Placed(ops[i], N)
        BY <3>1 DEF Request
      <4>2. From(ops[i]) \in 1..(3 * N) /\ To(ops[i]) \in From(ops[i])..(3 * N)
        BY <4>1, PlacesAre
      <4>3. From(ops[i]) <= k /\ k <= To(ops[i])
        BY <3>1, <4>2
      <4> QED
        BY <3>1, <4>3 DEF Covered
    <3> QED
      BY <3>1 DEF Given
  <2>4. Slot(t, ops, k) = <<>>
    <3>1. <<>> \o <<>> = <<>>
      OBVIOUS
    <3>2. Given(ops, 1, k) = <<>> /\ Given(ops, 2, k) = <<>>
      BY <2>3
    <3> QED
      BY <1>3, <3>1, <3>2 DEF Slot
  <2>5. SubSeq(t, Count(k) + 1, Count(k)) = <<>>
    BY <2>2, SubSeqEmpty
  <2> QED
    BY <2>1, <2>2, <2>4, <2>5
<1> QED
  BY <1>2, <1>3

\* Places in order are lines in order.
LEMMA CountGrows ==
  ASSUME NEW N \in Nat, NEW u \in 0..(3 * N), NEW v \in u..(3 * N)
  PROVE  Count(u) \in 0..N /\ Count(v) \in Count(u)..N
<1>1. /\ Count(u) \in Nat /\ 3 * Count(u) <= u + 1 /\ u + 1 < 3 * Count(u) + 3
      /\ Count(v) \in Nat /\ 3 * Count(v) <= v + 1 /\ v + 1 < 3 * Count(v) + 3
  <2>1. u \in Nat /\ v \in Nat
    OBVIOUS
  <2> QED
    BY <2>1, CountMeans
<1>2. u <= v /\ v <= 3 * N /\ u \in Nat /\ v \in Nat
  OBVIOUS
<1>3. Count(v) <= N
  BY <1>1, <1>2
<1>4. Count(u) <= Count(v)
  BY <1>1, <1>2
<1> QED
  BY <1>1, <1>3, <1>4

\* No operation covers a place behind u, as far as v.
Free(ops, u, v) == \A k \in (u + 1)..v : ~Covered(ops, k)

\* The lines behind u, as far as v.
Lines(t, u, v) == SubSeq(t, Count(u) + 1, Count(v))

\* Two places in order.
Between(N, u, v) == u \in 0..(3 * N) /\ v \in u..(3 * N)

\* Places that no operation covers keep their lines.
LEMMA Stretch ==
  ASSUME NEW N \in Nat, NEW ops, Request(ops, N), NEW t, HasLines(t, N),
         NEW sums, Sums(t, ops, N, sums), NEW u, NEW v, Between(N, u, v), Free(ops, u, v)
  PROVE  sums[v] = sums[u] \o Lines(t, u, v)
<1> DEFINE W == {d \in 0..(v - u) : sums[u + d] = sums[u] \o SubSeq(t, Count(u) + 1, Count(u + d))}
<1> USE DEF Between
<1>1. v - u \in Nat /\ sums[u] \in Seq(Texts)
  BY DEF Sums
<1>2. 0 \in W
  <2>1. Count(u) \in Nat /\ u + 0 = u
    <3>1. u \in Nat /\ u + 0 = u
      OBVIOUS
    <3>2. Count(u) \in Nat
      BY <3>1, CountMeans
    <3> QED
      BY <3>1, <3>2
  <2>2. SubSeq(t, Count(u) + 1, Count(u)) = <<>>
    BY <2>1, SubSeqEmpty
  <2>3. sums[u] \o <<>> = sums[u]
    BY <1>1, ConcatEmptySeq
  <2> QED
    BY <1>1, <2>1, <2>2, <2>3
<1>3. ASSUME NEW d \in 0..(v - u), d \in W, d < v - u PROVE d + 1 \in W
  <2> DEFINE k == u + (d + 1)
  <2>1. /\ k \in 1..(3 * N) /\ k \in (u + 1)..v /\ k - 1 = u + d /\ d + 1 \in 0..(v - u)
        /\ u + d \in u..(3 * N) /\ k \in (u + d)..(3 * N) /\ u + d \in 0..(3 * N)
    BY <1>3
  <2> HIDE DEF k
  <2>2. ~Covered(ops, k)
    BY <2>1 DEF Free
  <2>3. Slot(t, ops, k) = SubSeq(t, Count(u + d) + 1, Count(k))
    BY <2>1, <2>2, PlainSlot
  <2>4. sums[k] = sums[u + d] \o Slot(t, ops, k)
    BY <2>1, SumsStep
  <2>5. sums[u + d] = sums[u] \o SubSeq(t, Count(u) + 1, Count(u + d))
    BY <1>3
  <2>6. Count(u) \in 0..N /\ Count(u + d) \in Count(u)..N /\ Count(k) \in Count(u + d)..N
    BY <2>1, CountGrows
  <2> DEFINE a == SubSeq(t, Count(u) + 1, Count(u + d))
             b == SubSeq(t, Count(u + d) + 1, Count(k))
  <2>7. a \in Seq(Texts) /\ b \in Seq(Texts)
    BY <2>6 DEF HasLines
  <2>8. a \o b = SubSeq(t, Count(u) + 1, Count(k))
    <3> DEFINE m == Count(u) + 1
               j == Count(u + d)
               n == Count(k)
    <3>1. t \in Seq(Texts) /\ m \in 1..(Len(t) + 1) /\ j \in (m - 1)..Len(t) /\ n \in j..Len(t)
      BY <2>6 DEF HasLines
    <3> HIDE DEF m, j, n
    <3>2. SubSeq(t, m, j) \o SubSeq(t, j + 1, n) = SubSeq(t, m, n)
      BY <3>1, ConcatAdjacentSubSeq
    <3> QED
      BY <3>2 DEF m, j, n
  <2> DEFINE s == sums[u]
  <2>9. sums[k] = (s \o a) \o b
    BY <2>3, <2>4, <2>5
  <2>10. s \in Seq(Texts)
    BY <1>1
  <2> HIDE DEF a, b, s
  <2>11. (s \o a) \o b = s \o (a \o b)
    <3>1. Bracketed(s, a, b)
      BY <2>7, <2>10, Brackets
    <3> QED
      BY <3>1 DEF Bracketed
  <2>12. sums[k] = s \o SubSeq(t, Count(u) + 1, Count(k))
    BY <2>8, <2>9, <2>11
  <2> QED
    BY <2>1, <2>12 DEF k, s
<1>4. v - u \in W
  <2>1. \A d \in 0..(v - u) : d \in W /\ d < v - u => d + 1 \in W
    BY <1>3
  <2>2. v - u \in 0..(v - u)
    BY <1>1
  <2> HIDE DEF W
  <2> QED
    BY <1>1, <1>2, <2>1, <2>2, Climb
<1>5. u + (v - u) = v
  OBVIOUS
<1> QED
  BY <1>4, <1>5 DEF Lines

\* Places behind the first that an operation covers get nothing.
LEMMA Rest ==
  ASSUME NEW N \in Nat, NEW ops, Request(ops, N), NEW t,
         NEW sums, Sums(t, ops, N, sums), NEW u \in 0..(3 * N), NEW v \in u..(3 * N),
         \A k \in (u + 1)..v : Covered(ops, k) /\ \A i \in DOMAIN ops : From(ops[i]) # k
  PROVE  sums[v] = sums[u]
<1> DEFINE W == {d \in 0..(v - u) : sums[u + d] = sums[u]}
<1>1. v - u \in Nat /\ u + 0 = u
  OBVIOUS
<1>2. 0 \in W
  BY <1>1
<1>3. ASSUME NEW d \in 0..(v - u), d \in W, d < v - u PROVE d + 1 \in W
  <2> DEFINE k == u + (d + 1)
  <2>1. k \in 1..(3 * N) /\ k \in (u + 1)..v /\ k - 1 = u + d /\ d + 1 \in 0..(v - u)
    BY <1>3
  <2> HIDE DEF k
  <2>2. Slot(t, ops, k) = <<>>
    <3>1. Given(ops, 1, k) = <<>> /\ Given(ops, 2, k) = <<>> /\ Covered(ops, k)
      BY <2>1 DEF Given
    <3>2. <<>> \o <<>> = <<>>
      OBVIOUS
    <3> QED
      BY <3>1, <3>2 DEF Slot
  <2>3. sums[u + d] \in Seq(Texts) /\ sums[k] = sums[u + d] \o <<>>
    <3>1. sums[k - 1] \in Seq(Texts) /\ sums[k] = sums[k - 1] \o Slot(t, ops, k)
      BY <2>1, SumsStep
    <3> QED
      BY <2>1, <2>2, <3>1
  <2>4. sums[u + d] \o <<>> = sums[u + d]
    BY <2>3, ConcatEmptySeq
  <2>5. sums[k] = sums[u]
    BY <1>3, <2>3, <2>4
  <2> QED
    BY <2>1, <2>5 DEF k
<1>4. v - u \in W
  <2>1. \A d \in 0..(v - u) : d \in W /\ d < v - u => d + 1 \in W
    BY <1>3
  <2>2. v - u \in 0..(v - u)
    BY <1>1
  <2> HIDE DEF W
  <2> QED
    BY <1>1, <1>2, <2>1, <2>2, Climb
<1>5. u + (v - u) = v
  OBVIOUS
<1> QED
  BY <1>4, <1>5

\* The operations of a request lie in the file.
LEMMA RequestPlaces ==
  ASSUME NEW N \in Nat, NEW ops, Request(ops, N), NEW i \in DOMAIN ops
  PROVE  /\ From(ops[i]) \in 1..(3 * N) /\ To(ops[i]) \in From(ops[i])..(3 * N)
         /\ Edits!Pieces(ops[i].new) \in Seq(Texts) /\ i \in {1, 2}
<1>1. Placed(ops[i], N) /\ i \in {1, 2}
  BY DEF Request
<1>2. From(ops[i]) \in 1..(3 * N) /\ To(ops[i]) \in From(ops[i])..(3 * N)
  BY <1>1, PlacesAre
<1> QED
  BY <1>1, <1>2 DEF Placed

\* Of the places behind w as far as v, operation i covers all and no other any.
Alone(ops, i, w, v, new) ==
  /\ i \in DOMAIN ops /\ From(ops[i]) = w + 1 /\ To(ops[i]) = v /\ Edits!Pieces(ops[i].new) = new
  /\ \A j \in DOMAIN ops : j # i => From(ops[j]) \notin From(ops[i])..To(ops[i])

\* x is what the places behind w, as far as v, get.
Adds(sums, w, v, x) == sums[v] = sums[w] \o x

\* An operation alone in its places: what it brings, and nothing else.
LEMMA Through ==
  ASSUME NEW N \in Nat, NEW ops, Request(ops, N), NEW t,
         NEW sums, Sums(t, ops, N, sums), NEW i, NEW w, w \in Nat, NEW v,
         NEW new, Alone(ops, i, w, v, new)
  PROVE  Adds(sums, w, v, new)
<1>1. PICK u : u = w + 1
  OBVIOUS
<1>2. i \in DOMAIN ops /\ From(ops[i]) = u /\ To(ops[i]) = v
  BY <1>1 DEF Alone
<1>3. u \in 1..(3 * N) /\ v \in u..(3 * N) /\ Edits!Pieces(ops[i].new) \in Seq(Texts) /\ i \in {1, 2}
  BY <1>2, RequestPlaces
<1>4. \A j \in DOMAIN ops : j # i => From(ops[j]) \notin u..v
  BY <1>2 DEF Alone
<1>5. \A k \in u..v : Covered(ops, k)
  BY <1>2, <1>3 DEF Covered
<1>6. u \in u..v
  BY <1>3
<1>7. Slot(t, ops, u) = Edits!Pieces(ops[i].new)
  <2>1. Given(ops, i, u) = Edits!Pieces(ops[i].new) /\ \A j : j # i => Given(ops, j, u) = <<>>
    BY <1>2, <1>4, <1>6 DEF Given
  <2>2. Slot(t, ops, u) = Given(ops, 1, u) \o Given(ops, 2, u)
    BY <1>5, <1>6 DEF Slot
  <2>3. /\ Edits!Pieces(ops[i].new) \o <<>> = Edits!Pieces(ops[i].new)
        /\ <<>> \o Edits!Pieces(ops[i].new) = Edits!Pieces(ops[i].new)
    BY <1>3, ConcatEmptySeq
  <2>4. CASE i = 1
    <3>1. Given(ops, 1, u) = Edits!Pieces(ops[i].new) /\ Given(ops, 2, u) = <<>>
      BY <2>1, <2>4
    <3> QED
      BY <2>2, <2>3, <3>1
  <2>5. CASE i = 2
    <3>1. Given(ops, 2, u) = Edits!Pieces(ops[i].new) /\ Given(ops, 1, u) = <<>>
      BY <2>1, <2>5
    <3> QED
      BY <2>2, <2>3, <3>1
  <2> QED
    BY <1>3, <2>4, <2>5
<1>8. sums[u] = sums[w] \o Edits!Pieces(ops[i].new)
  <2>1. sums[u] = sums[u - 1] \o Slot(t, ops, u)
    BY <1>3, SumsStep
  <2>2. u - 1 = w
    BY <1>1
  <2> QED
    BY <1>7, <2>1, <2>2
<1>9. sums[v] = sums[u]
  <2>1. \A k \in (u + 1)..v : Covered(ops, k) /\ \A j \in DOMAIN ops : From(ops[j]) # k
    <3> TAKE k \in (u + 1)..v
    <3>1. k \in u..v /\ k # u
      BY <1>3
    <3>2. \A j \in DOMAIN ops : From(ops[j]) # k
      BY <1>2, <1>4, <3>1
    <3> QED
      BY <1>5, <3>1, <3>2
  <2>2. u \in 0..(3 * N)
    BY <1>3
  <2> QED
    BY <1>3, <2>1, <2>2, Rest
<1>10. Edits!Pieces(ops[i].new) = new
  BY DEF Alone
<1> QED
  BY <1>8, <1>9, <1>10 DEF Adds

\* In front of the first place there is no line, and up to the last all are.
LEMMA CountEnds ==
  ASSUME NEW N \in Nat
  PROVE  Count(0) = 0 /\ Count(3 * N) = N
<1>1. Count(0) = 0
  BY DEF Count
<1>2. Count(3 * N) = N
  BY DEF Count
<1> QED
  BY <1>1, <1>2

\* The first stretch.
LEMMA FirstStretch ==
  ASSUME NEW N \in Nat, NEW ops, Request(ops, N), NEW t, HasLines(t, N),
         NEW sums, Sums(t, ops, N, sums), NEW v \in 0..(3 * N), Free(ops, 0, v)
  PROVE  sums[v] = Lines(t, 0, v)
<1>1. 0 \in 0..(3 * N)
  OBVIOUS
<1>2. sums[v] = sums[0] \o Lines(t, 0, v)
  <2>1. Between(N, 0, v)
    BY <1>1 DEF Between
  <2> QED
    BY <2>1, Stretch
<1>3. Count(0) \in 0..N /\ Count(v) \in 0..N
  <2>1. Count(0) \in 0..N /\ Count(v) \in Count(0)..N
    BY <1>1, CountGrows
  <2> QED
    BY <2>1
<1>4. Lines(t, 0, v) \in Seq(Texts)
  BY <1>3 DEF Lines, HasLines
<1>5. <<>> \o Lines(t, 0, v) = Lines(t, 0, v)
  BY <1>4, ConcatEmptySeq
<1>6. sums[0] = <<>>
  BY DEF Sums
<1> QED
  BY <1>2, <1>5, <1>6

\* A stretch without the operations of a request is free.
LEMMA FreeMeans ==
  ASSUME NEW N \in Nat, NEW ops, Request(ops, N), NEW u \in Nat, NEW v \in Nat,
         \A i \in DOMAIN ops : To(ops[i]) <= u \/ v < From(ops[i])
  PROVE  Free(ops, u, v)
<1>1. \A i \in DOMAIN ops : From(ops[i]) \in Nat /\ To(ops[i]) \in Nat
  <2> TAKE i \in DOMAIN ops
  <2>1. From(ops[i]) \in 1..(3 * N) /\ To(ops[i]) \in From(ops[i])..(3 * N)
    BY RequestPlaces
  <2> QED
    BY <2>1
<1> QED
  BY <1>1 DEF Free, Covered

\* What is asked for by one operation.
LEMMA AskedOne ==
  ASSUME NEW N \in Nat, NEW ops, Request(ops, N), NEW t, HasLines(t, N),
         NEW sums, Sums(t, ops, N, sums), DOMAIN ops = 1..1
  PROVE  sums[3 * N] =
           (Lines(t, 0, From(ops[1]) - 1) \o Edits!Pieces(ops[1].new)) \o Lines(t, To(ops[1]), 3 * N)
<1> DEFINE u == From(ops[1])
           w == u - 1
           v == To(ops[1])
           z == 3 * N
           new == Edits!Pieces(ops[1].new)
<1>1. 1 \in DOMAIN ops
  OBVIOUS
<1>2. u \in 1..(3 * N) /\ v \in u..(3 * N)
  BY <1>1, RequestPlaces
<1>3. Alone(ops, 1, w, v, new) /\ w \in Nat
  BY <1>1, <1>2 DEF Alone
<1>4. Free(ops, 0, w) /\ Free(ops, v, z)
  <2>1. 0 \in Nat /\ w \in Nat /\ v \in Nat /\ z \in Nat
    BY <1>2
  <2>2. \A i \in DOMAIN ops : w < From(ops[i]) /\ To(ops[i]) <= v
    BY <1>2
  <2> HIDE DEF u, v, w, z
  <2> QED
    BY <2>1, <2>2, FreeMeans
<1>5. w \in 0..(3 * N) /\ Between(N, v, z)
  BY <1>2 DEF Between
<1> HIDE DEF u, v, w, z, new, Adds
<1>6. Adds(sums, w, v, new)
  BY <1>3, Through
<1>7. sums[w] = Lines(t, 0, w)
  BY <1>4, <1>5, FirstStretch
<1>8. sums[z] = sums[v] \o Lines(t, v, z)
  BY <1>4, <1>5, Stretch
<1> QED
  BY <1>6, <1>7, <1>8 DEF u, v, w, z, new, Adds

\* By two operations, q in front of p.
Apart(t, ops, p, q, N) ==
  (((Lines(t, 0, From(ops[q]) - 1) \o Edits!Pieces(ops[q].new)) \o Lines(t, To(ops[q]), From(ops[p]) - 1))
     \o Edits!Pieces(ops[p].new)) \o Lines(t, To(ops[p]), 3 * N)

\* What is asked for by two operations one behind the other.
LEMMA AskedApart ==
  ASSUME NEW N \in Nat, NEW ops, Request(ops, N), NEW t, HasLines(t, N),
         NEW sums, Sums(t, ops, N, sums), NEW p, NEW q, DOMAIN ops = {p, q},
         To(ops[q]) < From(ops[p])
  PROVE  sums[3 * N] = Apart(t, ops, p, q, N)
<1> DEFINE u == From(ops[q]) - 1
           v == To(ops[q])
           x == From(ops[p]) - 1
           y == To(ops[p])
           z == 3 * N
           first == Edits!Pieces(ops[q].new)
           second == Edits!Pieces(ops[p].new)
<1>1. p \in DOMAIN ops /\ q \in DOMAIN ops
  OBVIOUS
<1>2. /\ From(ops[q]) \in 1..(3 * N) /\ v \in From(ops[q])..(3 * N)
      /\ From(ops[p]) \in 1..(3 * N) /\ y \in From(ops[p])..(3 * N) /\ v < From(ops[p])
  BY <1>1, RequestPlaces
<1>3. Alone(ops, q, u, v, first) /\ Alone(ops, p, x, y, second) /\ u \in Nat /\ x \in Nat
  BY <1>1, <1>2 DEF Alone
<1>4. Free(ops, 0, u) /\ Free(ops, v, x) /\ Free(ops, y, z)
  <2>1. 0 \in Nat /\ u \in Nat /\ v \in Nat /\ x \in Nat /\ y \in Nat /\ z \in Nat
    BY <1>2
  <2>2. /\ \A i \in DOMAIN ops : u < From(ops[i])
        /\ \A i \in DOMAIN ops : To(ops[i]) <= v \/ x < From(ops[i])
        /\ \A i \in DOMAIN ops : To(ops[i]) <= y
    BY <1>2
  <2> HIDE DEF u, v, x, y, z
  <2> QED
    BY <2>1, <2>2, FreeMeans
<1>5. u \in 0..(3 * N) /\ Between(N, v, x) /\ Between(N, y, z)
  BY <1>2 DEF Between
<1> HIDE DEF u, v, x, y, z, first, second
<1>6. Adds(sums, u, v, first) /\ Adds(sums, x, y, second)
  BY <1>3, Through
<1>7. sums[u] = Lines(t, 0, u)
  BY <1>4, <1>5, FirstStretch
<1>8. sums[x] = sums[v] \o Lines(t, v, x) /\ sums[z] = sums[y] \o Lines(t, y, z)
  BY <1>4, <1>5, Stretch
<1> QED
  BY <1>6, <1>7, <1>8 DEF u, v, x, y, z, first, second, Adds, Apart

\* By two insertions at the same place.
Together(t, ops, u, N) ==
  (Lines(t, 0, u - 1) \o (Edits!Pieces(ops[1].new) \o Edits!Pieces(ops[2].new))) \o Lines(t, u, 3 * N)

\* What is asked for by two insertions at one place.
LEMMA AskedTogether ==
  ASSUME NEW N \in Nat, NEW ops, Request(ops, N), NEW t, HasLines(t, N),
         NEW sums, Sums(t, ops, N, sums), DOMAIN ops = 1..2,
         NEW u, \A i \in DOMAIN ops : From(ops[i]) = u /\ To(ops[i]) = u
  PROVE  sums[3 * N] = Together(t, ops, u, N)
<1> DEFINE w == u - 1
           z == 3 * N
<1>1. 1 \in DOMAIN ops /\ 2 \in DOMAIN ops /\ \A i \in DOMAIN ops : i = 1 \/ i = 2
  OBVIOUS
<1>2. u \in 1..(3 * N)
  BY <1>1, RequestPlaces
<1>3. sums[u] = sums[w] \o (Edits!Pieces(ops[1].new) \o Edits!Pieces(ops[2].new))
  <2>1. Given(ops, 1, u) = Edits!Pieces(ops[1].new) /\ Given(ops, 2, u) = Edits!Pieces(ops[2].new)
    BY <1>1 DEF Given
  <2>2. Covered(ops, u)
    BY <1>1, <1>2 DEF Covered
  <2>3. Slot(t, ops, u) = Edits!Pieces(ops[1].new) \o Edits!Pieces(ops[2].new)
    BY <2>1, <2>2 DEF Slot
  <2>4. sums[u] = sums[u - 1] \o Slot(t, ops, u)
    BY <1>2, SumsStep
  <2> QED
    BY <2>3, <2>4
<1>4. Free(ops, 0, w) /\ Free(ops, u, z)
  <2>1. 0 \in Nat /\ w \in Nat /\ u \in Nat /\ z \in Nat
    BY <1>2
  <2>2. \A i \in DOMAIN ops : w < From(ops[i]) /\ To(ops[i]) <= u
    BY <1>1, <1>2
  <2> HIDE DEF w, z
  <2> QED
    BY <2>1, <2>2, FreeMeans
<1>5. w \in 0..(3 * N) /\ Between(N, u, z)
  BY <1>2 DEF Between
<1> HIDE DEF w, z
<1>6. sums[w] = Lines(t, 0, w)
  BY <1>4, <1>5, FirstStretch
<1>7. sums[z] = sums[u] \o Lines(t, u, z)
  BY <1>4, <1>5, Stretch
<1> QED
  BY <1>3, <1>6, <1>7 DEF w, z, Together

-----------------------------------------------------------------------------
(* Splices.                                                                *)

\* t with x in the place of the elements from b + 1 to a.
Spliced(t, b, x, a) == (SubSeq(t, 1, b) \o x) \o SubSeq(t, a + 1, Len(t))

\* z is the result, element by element.
IsSpliced(z, S, t, b, x, a) ==
  /\ z \in Seq(S) /\ Len(z) = b + Len(x) + (Len(t) - a)
  /\ \A i \in 1..(b + Len(x) + (Len(t) - a)) :
       z[i] = IF i <= b THEN t[i] ELSE IF i <= b + Len(x) THEN x[i - b]
              ELSE t[(i - (b + Len(x))) + a]

\* The splice is that.
LEMMA SplicedIs ==
  ASSUME NEW S, NEW t \in Seq(S), NEW x \in Seq(S), NEW b \in 0..Len(t), NEW a \in b..Len(t)
  PROVE  IsSpliced(Spliced(t, b, x, a), S, t, b, x, a)
<1> DEFINE u == SubSeq(t, 1, b)
           v == SubSeq(t, a + 1, Len(t))
           w == u \o x
<1>1. Len(t) \in Nat /\ b \in Nat /\ a \in Nat /\ b <= a /\ a <= Len(t) /\ Len(x) \in Nat
  BY LenProperties
<1>2. u \in Seq(S) /\ Len(u) = b /\ \A i \in 1..b : u[i] = t[i]
  BY <1>1
<1>3. v \in Seq(S) /\ Len(v) = Len(t) - a /\ \A i \in 1..(Len(t) - a) : v[i] = t[i + a]
  BY <1>1
<1> HIDE DEF u, v
<1>4. /\ w \in Seq(S) /\ Len(w) = b + Len(x)
      /\ \A i \in 1..(b + Len(x)) : w[i] = IF i <= b THEN u[i] ELSE x[i - b]
  BY <1>1, <1>2, ConcatProperties
<1> HIDE DEF w
<1> DEFINE z == w \o v
<1>5. /\ z \in Seq(S) /\ Len(z) = (b + Len(x)) + (Len(t) - a)
      /\ \A i \in 1..((b + Len(x)) + (Len(t) - a)) :
           z[i] = IF i <= b + Len(x) THEN w[i] ELSE v[i - (b + Len(x))]
  <2>1. w \in Seq(S) /\ v \in Seq(S)
    BY <1>3, <1>4
  <2>2. /\ z \in Seq(S) /\ Len(z) = Len(w) + Len(v)
        /\ \A i \in 1..(Len(w) + Len(v)) : z[i] = IF i <= Len(w) THEN w[i] ELSE v[i - Len(w)]
    BY <2>1, ConcatProperties
  <2>3. Len(w) = b + Len(x) /\ Len(v) = Len(t) - a
    BY <1>3, <1>4
  <2> HIDE DEF z
  <2> QED
    BY <2>2, <2>3
<1>6. z = Spliced(t, b, x, a)
  BY DEF Spliced, u, v, w
<1> HIDE DEF z
<1>7. ASSUME NEW i \in 1..(b + Len(x) + (Len(t) - a))
      PROVE  z[i] = IF i <= b THEN t[i] ELSE IF i <= b + Len(x) THEN x[i - b]
                    ELSE t[(i - (b + Len(x))) + a]
  <2>1. i \in 1..((b + Len(x)) + (Len(t) - a)) /\ i \in Nat
    BY <1>1
  <2>2. CASE i <= b
    <3>1. i \in 1..b /\ i \in 1..(b + Len(x)) /\ i <= b + Len(x)
      BY <1>1, <2>1, <2>2
    <3> QED
      BY <1>2, <1>4, <1>5, <2>1, <2>2, <3>1
  <2>3. CASE i > b /\ i <= b + Len(x)
    <3>1. i \in 1..(b + Len(x)) /\ ~(i <= b)
      BY <1>1, <2>1, <2>3
    <3> QED
      BY <1>4, <1>5, <2>1, <2>3, <3>1
  <2>4. CASE i > b + Len(x)
    <3>1. /\ i - (b + Len(x)) \in 1..(Len(t) - a) /\ ~(i <= b) /\ ~(i <= b + Len(x))
      BY <1>1, <2>1, <2>4
    <3> QED
      BY <1>3, <1>5, <2>1, <3>1
  <2>5. i <= b \/ (i > b /\ i <= b + Len(x)) \/ i > b + Len(x)
    BY <1>1, <2>1
  <2> QED
    BY <2>2, <2>3, <2>4, <2>5
<1> QED
  BY <1>1, <1>5, <1>6, <1>7 DEF IsSpliced

\* How four sequences may be put together.
InOrder(a, b, c, d) == a \o ((b \o c) \o d) = ((a \o b) \o c) \o d

\* They may.
LEMMA FourInOrder ==
  ASSUME NEW T, NEW a \in Seq(T), NEW b \in Seq(T), NEW c \in Seq(T), NEW d \in Seq(T)
  PROVE  InOrder(a, b, c, d)
<1> DEFINE bc == b \o c
<1>1. bc \in Seq(T)
  BY ConcatProperties
<1>2. (a \o b) \o c = a \o bc
  <2>1. Bracketed(a, b, c)
    BY Brackets
  <2> QED
    BY <2>1 DEF Bracketed
<1> HIDE DEF bc
<1>3. (a \o bc) \o d = a \o (bc \o d)
  <2>1. Bracketed(a, bc, d)
    BY <1>1, Brackets
  <2> QED
    BY <2>1 DEF Bracketed
<1> QED
  BY <1>2, <1>3 DEF bc, InOrder

\* Two splices, the first one behind the second.
Twice(t, b, x, a, c, y, d) ==
  (((SubSeq(t, 1, b) \o x) \o SubSeq(t, a + 1, c)) \o y) \o SubSeq(t, d + 1, Len(t))

\* Splicing at the end first gives the same as both at once.
LEMMA TwoSplices ==
  ASSUME NEW S, NEW t \in Seq(S), NEW x \in Seq(S), NEW y \in Seq(S),
         NEW b \in 0..Len(t), NEW a \in b..Len(t), NEW c \in a..Len(t), NEW d \in c..Len(t)
  PROVE  Spliced(Spliced(t, c, y, d), b, x, a) = Twice(t, b, x, a, c, y, d)
<1> DEFINE u == Spliced(t, c, y, d)
           n == Len(y)
           N == Len(t)
<1>1. N \in Nat /\ n \in Nat /\ b \in Nat /\ a \in Nat /\ c \in Nat /\ d \in Nat
      /\ b <= a /\ a <= c /\ c <= d /\ d <= N
  BY LenProperties
<1>2. /\ u \in Seq(S) /\ Len(u) = c + n + (N - d)
      /\ \A i \in 1..(c + n + (N - d)) :
           u[i] = IF i <= c THEN t[i] ELSE IF i <= c + n THEN y[i - c] ELSE t[(i - (c + n)) + d]
  <2>1. c \in 0..Len(t)
    BY <1>1
  <2>2. IsSpliced(Spliced(t, c, y, d), S, t, c, y, d)
    BY <2>1, SplicedIs
  <2> QED
    BY <2>2 DEF IsSpliced
<1>3. t \in Seq(S) /\ Len(t) = N /\ Len(y) = n
  OBVIOUS
<1> HIDE DEF u, n, N
<1>4. SubSeq(u, 1, b) = SubSeq(t, 1, b)
  <2>1. /\ SubSeq(u, 1, b) \in Seq(S) /\ Len(SubSeq(u, 1, b)) = b
        /\ \A i \in 1..b : SubSeq(u, 1, b)[i] = u[i]
    BY <1>1, <1>2
  <2>2. /\ SubSeq(t, 1, b) \in Seq(S) /\ Len(SubSeq(t, 1, b)) = b
        /\ \A i \in 1..b : SubSeq(t, 1, b)[i] = t[i]
    BY <1>1, <1>3
  <2>3. \A i \in 1..b : u[i] = t[i]
    BY <1>1, <1>2
  <2> QED
    BY <2>1, <2>2, <2>3, SeqEqual
<1> DEFINE m == SubSeq(t, a + 1, c)
           e == SubSeq(t, d + 1, N)
           r == (m \o y) \o e
<1>5. m \in Seq(S) /\ Len(m) = c - a /\ \A i \in 1..(c - a) : m[i] = t[i + a]
  <2>1. m \in Seq(S) /\ Len(m) = c - a
    BY <1>1, <1>3
  <2>2. \A i \in 1..(c - a) : m[i] = t[i + a]
    BY <1>1, <1>3
  <2> QED
    BY <2>1, <2>2
<1>6. e \in Seq(S) /\ Len(e) = N - d /\ \A i \in 1..(N - d) : e[i] = t[i + d]
  BY <1>1, <1>3
<1>7. SubSeq(u, a + 1, Len(u)) = r
  <2> DEFINE k == (c - a) + n + (N - d)
             l == SubSeq(u, a + 1, Len(u))
             my == m \o y
  <2>1. k \in Nat /\ Len(u) \in Nat /\ Len(u) = a + k
    BY <1>1, <1>2
  <2>2. l \in Seq(S) /\ Len(l) = k /\ \A i \in 1..k : l[i] = u[i + a]
    <3> HIDE DEF k, m, e, r, my
    <3>1. u \in Seq(S) /\ a \in Nat /\ k \in Nat /\ Len(u) = a + k
      BY <1>1, <1>2, <2>1
    <3>2. l \in Seq(S) /\ Len(l) = k
      BY <3>1
    <3>3. ASSUME NEW i \in 1..k PROVE l[i] = u[i + a]
      <4>1. l[i] = u[(a + 1) + i - 1]
        BY <3>1
      <4>2. (a + 1) + i - 1 = i + a
        BY <3>1
      <4> HIDE DEF l
      <4> QED
        BY <4>1, <4>2
    <3> QED
      BY <3>2, <3>3
  <2> HIDE DEF m, e, r, k, l
  <2>3. /\ my \in Seq(S) /\ Len(my) = (c - a) + n
        /\ \A i \in 1..((c - a) + n) : my[i] = IF i <= c - a THEN m[i] ELSE y[i - (c - a)]
    <3>1. /\ my \in Seq(S) /\ Len(my) = Len(m) + Len(y)
          /\ \A i \in 1..(Len(m) + Len(y)) : my[i] = IF i <= Len(m) THEN m[i] ELSE y[i - Len(m)]
      BY <1>3, <1>5, ConcatProperties
    <3>2. Len(m) = c - a /\ Len(y) = n
      BY <1>3, <1>5
    <3> HIDE DEF my
    <3> QED
      BY <3>1, <3>2
  <2>4. r = my \o e
    BY DEF r
  <2> HIDE DEF my
  <2>5. /\ my \o e \in Seq(S) /\ Len(my \o e) = k
        /\ \A i \in 1..k : (my \o e)[i] = IF i <= (c - a) + n THEN my[i] ELSE e[i - ((c - a) + n)]
    <3>1. my \in Seq(S) /\ e \in Seq(S)
      BY <1>6, <2>3
    <3> DEFINE z == my \o e
    <3>2. /\ z \in Seq(S) /\ Len(z) = Len(my) + Len(e)
          /\ \A i \in 1..(Len(my) + Len(e)) : z[i] = IF i <= Len(my) THEN my[i] ELSE e[i - Len(my)]
      BY <3>1, ConcatProperties
    <3>3. Len(my) = (c - a) + n /\ Len(e) = N - d
      BY <1>6, <2>3
    <3> HIDE DEF z
    <3> QED
      BY <3>2, <3>3 DEF z, k
  <2> HIDE DEF k, r
  <2>6. ASSUME NEW i \in 1..k PROVE l[i] = r[i]
    <3>1. i \in Nat /\ i >= 1 /\ i <= (c - a) + n + (N - d) /\ l[i] = u[i + a]
      BY <1>1, <2>1, <2>2 DEF k
    <3>2. CASE i <= c - a
      <4>1. i + a \in 1..(c + n + (N - d)) /\ i + a <= c /\ i \in 1..(c - a) /\ i \in 1..((c - a) + n)
            /\ i <= (c - a) + n
        BY <1>1, <3>1, <3>2
      <4>2. u[i + a] = t[i + a] /\ m[i] = t[i + a] /\ my[i] = m[i]
        BY <1>2, <1>5, <2>3, <3>2, <4>1
      <4> QED
        BY <2>4, <2>5, <3>1, <4>1, <4>2
    <3>3. CASE i > c - a /\ i <= (c - a) + n
      <4>1. /\ i + a \in 1..(c + n + (N - d)) /\ ~(i + a <= c) /\ i + a <= c + n
            /\ ~(i <= c - a) /\ i \in 1..((c - a) + n) /\ (i + a) - c = i - (c - a)
        BY <1>1, <3>1, <3>3
      <4>2. u[i + a] = y[(i + a) - c] /\ my[i] = y[i - (c - a)]
        BY <1>2, <2>3, <4>1
      <4>3. y[(i + a) - c] = y[i - (c - a)]
        BY <4>1
      <4> QED
        BY <2>4, <2>5, <3>1, <3>3, <4>2, <4>3
    <3>4. CASE i > (c - a) + n
      <4>1. /\ i + a \in 1..(c + n + (N - d)) /\ ~(i + a <= c) /\ ~(i + a <= c + n)
            /\ ~(i <= (c - a) + n) /\ i - ((c - a) + n) \in 1..(N - d)
            /\ ((i + a) - (c + n)) + d = (i - ((c - a) + n)) + d
        <5>1. i + a \in 1..(c + n + (N - d))
          <6>1. {i, a, c, n, N, d} \subseteq Nat /\ d <= N
            BY <1>1, <3>1
          <6>2. i + a <= ((c - a) + n + (N - d)) + a /\ i + a >= 1
            BY <3>1, <6>1
          <6>3. ((c - a) + n + (N - d)) + a = c + n + (N - d)
            BY <6>1
          <6> QED
            BY <6>1, <6>2, <6>3
        <5>2. ~(i + a <= c) /\ ~(i + a <= c + n)
          BY <1>1, <3>1, <3>4
        <5>3. ~(i <= (c - a) + n) /\ i - ((c - a) + n) \in 1..(N - d)
          BY <1>1, <3>1, <3>4
        <5>4. ((i + a) - (c + n)) + d = (i - ((c - a) + n)) + d
          BY <1>1, <3>1
        <5> QED
          BY <5>1, <5>2, <5>3, <5>4
      <4>2. u[i + a] = t[((i + a) - (c + n)) + d] /\ e[i - ((c - a) + n)] = t[(i - ((c - a) + n)) + d]
        BY <1>2, <1>6, <4>1
      <4>3. t[((i + a) - (c + n)) + d] = t[(i - ((c - a) + n)) + d]
        BY <4>1
      <4> QED
        BY <2>4, <2>5, <3>1, <4>1, <4>2, <4>3
    <3>5. i <= c - a \/ (i > c - a /\ i <= (c - a) + n) \/ i > (c - a) + n
      BY <1>1, <3>1
    <3> QED
      BY <3>2, <3>3, <3>4, <3>5
  <2>7. l \in Seq(S) /\ r \in Seq(S) /\ Len(l) = Len(r) /\ \A i \in 1..Len(l) : l[i] = r[i]
    BY <2>2, <2>4, <2>5, <2>6
  <2>8. l = r
    BY <2>7, SeqEqual
  <2> QED
    BY <2>8 DEF l
<1> DEFINE f == SubSeq(t, 1, b) \o x
<1>8. f \in Seq(S)
  <2>1. SubSeq(t, 1, b) \in Seq(S)
    BY <1>1, <1>3
  <2> QED
    BY <2>1, ConcatProperties
<1>9. Spliced(u, b, x, a) = f \o r
  BY <1>4, <1>7 DEF Spliced
<1> HIDE DEF f, m, e
<1>10. f \o r = ((f \o m) \o y) \o e
  <2>1. InOrder(f, m, y, e)
    <3>1. m \in Seq(S) /\ e \in Seq(S)
      BY <1>5, <1>6
    <3> HIDE DEF r
    <3> QED
      BY <1>8, <3>1, FourInOrder
  <2> QED
    BY <2>1 DEF InOrder
<1> QED
  BY <1>9, <1>10 DEF u, f, m, e, N, Twice

-----------------------------------------------------------------------------
(* Lines.                                                                  *)

\* The lines of a file.
Line == [text : Texts, ending : {"lf", "crlf", "none"}, id : Nat]

\* One text for every line.
LEMMA TextsAre ==
  ASSUME NEW ls \in Seq(Line)
  PROVE  /\ TextsOf(ls) \in Seq(Texts) /\ Len(TextsOf(ls)) = Len(ls)
         /\ \A i \in 1..Len(ls) : TextsOf(ls)[i] = ls[i].text
<1>1. DOMAIN ls = 1..Len(ls) /\ Len(ls) \in Nat /\ \A i \in 1..Len(ls) : ls[i].text \in Texts
  <2>1. DOMAIN ls = 1..Len(ls) /\ Len(ls) \in Nat /\ \A i \in 1..Len(ls) : ls[i] \in Line
    BY LenProperties, ElementOfSeq
  <2> QED
    BY <2>1 DEF Line
<1> QED
  BY <1>1 DEF TextsOf

\* New lines have their texts, no break and no place in the initial file.
LEMMA FreshIs ==
  ASSUME NEW x \in Seq(Texts)
  PROVE  /\ Edits!Fresh(x) \in Seq(Line) /\ Len(Edits!Fresh(x)) = Len(x)
         /\ \A i \in 1..Len(x) :
              Edits!Fresh(x)[i] = [text |-> x[i], ending |-> "none", id |-> 0]
         /\ TextsOf(Edits!Fresh(x)) = x
<1>1. DOMAIN x = 1..Len(x) /\ Len(x) \in Nat /\ \A i \in 1..Len(x) : x[i] \in Texts
  BY LenProperties, ElementOfSeq
<1>2. /\ Edits!Fresh(x) \in Seq(Line) /\ Len(Edits!Fresh(x)) = Len(x)
      /\ \A i \in 1..Len(x) :
           Edits!Fresh(x)[i] = [text |-> x[i], ending |-> "none", id |-> 0]
  BY <1>1 DEF Edits!Fresh, Line
<1>3. /\ TextsOf(Edits!Fresh(x)) \in Seq(Texts) /\ Len(TextsOf(Edits!Fresh(x))) = Len(x)
      /\ \A i \in 1..Len(x) : TextsOf(Edits!Fresh(x))[i] = x[i]
  <2> DEFINE z == Edits!Fresh(x)
  <2>1. /\ z \in Seq(Line) /\ Len(z) = Len(x)
        /\ \A i \in 1..Len(x) : z[i] = [text |-> x[i], ending |-> "none", id |-> 0]
    BY <1>2
  <2> HIDE DEF z
  <2>2. z \in Seq(Line) /\ Len(z) = Len(x) /\ \A i \in 1..Len(x) : z[i].text = x[i]
    <3>1. ASSUME NEW i \in 1..Len(x) PROVE z[i].text = x[i]
      <4>1. z[i] = [text |-> x[i], ending |-> "none", id |-> 0]
        BY <2>1
      <4> QED
        BY <4>1
    <3> QED
      BY <2>1, <3>1
  <2>3. /\ TextsOf(z) \in Seq(Texts) /\ Len(TextsOf(z)) = Len(z)
        /\ \A i \in 1..Len(z) : TextsOf(z)[i] = z[i].text
    BY <2>2, TextsAre
  <2>4. /\ TextsOf(z) \in Seq(Texts) /\ Len(TextsOf(z)) = Len(x)
        /\ \A i \in 1..Len(x) : TextsOf(z)[i] = x[i]
    BY <2>2, <2>3
  <2> QED
    BY <2>4 DEF z
<1>4. TextsOf(Edits!Fresh(x)) = x
  BY <1>3, SeqEqual
<1> QED
  BY <1>2, <1>4

\* The texts of a splice are the splice of the texts.
LEMMA TextsOfSpliced ==
  ASSUME NEW ls \in Seq(Line), NEW x \in Seq(Line), NEW b \in 0..Len(ls), NEW a \in b..Len(ls)
  PROVE  TextsOf(Spliced(ls, b, x, a)) = Spliced(TextsOf(ls), b, TextsOf(x), a)
<1> DEFINE t == TextsOf(ls)
           y == TextsOf(x)
           u == Spliced(ls, b, x, a)
           v == Spliced(t, b, y, a)
           n == b + Len(x) + (Len(ls) - a)
<1>1. /\ t \in Seq(Texts) /\ Len(t) = Len(ls) /\ \A i \in 1..Len(ls) : t[i] = ls[i].text
      /\ y \in Seq(Texts) /\ Len(y) = Len(x) /\ \A i \in 1..Len(x) : y[i] = x[i].text
  BY TextsAre
<1>2. /\ u \in Seq(Line) /\ Len(u) = n
      /\ \A i \in 1..n :
           u[i] = IF i <= b THEN ls[i] ELSE IF i <= b + Len(x) THEN x[i - b]
                  ELSE ls[(i - (b + Len(x))) + a]
  BY SplicedIs DEF IsSpliced
<1>3. Len(ls) \in Nat /\ Len(x) \in Nat /\ b \in Nat /\ a \in Nat /\ b <= a /\ a <= Len(ls) /\ n \in Nat
  BY LenProperties
<1> HIDE DEF t, y, u
<1>4. /\ v \in Seq(Texts) /\ Len(v) = n
      /\ \A i \in 1..n :
           v[i] = IF i <= b THEN t[i] ELSE IF i <= b + Len(x) THEN y[i - b]
                  ELSE t[(i - (b + Len(x))) + a]
  <2>1. b \in 0..Len(t) /\ a \in b..Len(t)
    BY <1>1
  <2>2. IsSpliced(v, Texts, t, b, y, a)
    BY <1>1, <2>1, SplicedIs
  <2> HIDE DEF v
  <2> QED
    BY <1>1, <2>2 DEF IsSpliced
<1> HIDE DEF v
<1>5. ASSUME NEW i \in 1..n PROVE u[i].text = v[i]
  <2>1. CASE i <= b
    <3>1. i \in 1..Len(ls)
      BY <1>3, <2>1
    <3> QED
      BY <1>1, <1>2, <1>4, <2>1, <3>1
  <2>2. CASE i > b /\ i <= b + Len(x)
    <3>1. ~(i <= b) /\ i - b \in 1..Len(x)
      BY <1>3, <2>2
    <3> QED
      BY <1>1, <1>2, <1>4, <2>2, <3>1
  <2>3. CASE i > b + Len(x)
    <3>1. ~(i <= b) /\ ~(i <= b + Len(x)) /\ (i - (b + Len(x))) + a \in 1..Len(ls)
      BY <1>3, <2>3
    <3> QED
      BY <1>1, <1>2, <1>4, <3>1
  <2>4. i <= b \/ (i > b /\ i <= b + Len(x)) \/ i > b + Len(x)
    BY <1>3
  <2> QED
    BY <2>1, <2>2, <2>3, <2>4
<1>6. TextsOf(u) \in Seq(Texts) /\ Len(TextsOf(u)) = n /\ \A i \in 1..n : TextsOf(u)[i] = v[i]
  BY <1>2, <1>5, TextsAre
<1>7. TextsOf(u) = v
  BY <1>4, <1>6, SeqEqual
<1> QED
  BY <1>7 DEF u, v, t, y

\* The lines in front of an operation, and those as far as its end.
Before(op) == Count(From(op) - 1)
After(op) == Count(To(op))

\* An operation replaces the lines between its places.
LEMMA SpliceIs ==
  ASSUME NEW N \in Nat, NEW op, Placed(op, N), NEW ls
  PROVE  /\ Edits!Splice(ls, op) = Spliced(ls, Before(op), Edits!Fresh(Edits!Pieces(op.new)), After(op))
         /\ Before(op) \in 0..N /\ After(op) \in Before(op)..N
         /\ op.kind \in Edits!Inserting => After(op) = Before(op)
<1>1. PICK s \in 1..N : op.start.line = s
  BY DEF Placed
<1>2. PICK e \in s..N : op.end.line = e
  BY <1>1 DEF Placed
<1>3. s \in Nat /\ e \in Nat /\ s >= 1 /\ s <= e /\ e <= N
  OBVIOUS
<1>4. CASE op.kind = "insert_before"
  <2>1. From(op) = 3 * s - 2 /\ To(op) = 3 * s - 2 /\ op.kind \in Edits!Inserting
    BY <1>1, <1>4 DEF From, To, Edits!Spans, Edits!Spanning, Edits!Inserting
  <2>2. Before(op) = s - 1 /\ After(op) = s - 1
    BY <1>3, <2>1 DEF Count, Before, After
  <2>3. Edits!Splice(ls, op) = Spliced(ls, s - 1, Edits!Fresh(Edits!Pieces(op.new)), s - 1)
    BY <1>1, <1>4, <2>1 DEF Edits!Splice, Spliced
  <2> QED
    BY <1>3, <2>2, <2>3
<1>5. CASE op.kind = "insert_after"
  <2>1. From(op) = 3 * s /\ To(op) = 3 * s /\ op.kind \in Edits!Inserting
    BY <1>1, <1>5 DEF From, To, Edits!Spans, Edits!Spanning, Edits!Inserting
  <2>2. Before(op) = s /\ After(op) = s
    BY <1>3, <2>1 DEF Count, Before, After
  <2>3. Edits!Splice(ls, op) = Spliced(ls, s, Edits!Fresh(Edits!Pieces(op.new)), s)
    BY <1>1, <1>5, <2>1 DEF Edits!Splice, Spliced
  <2> QED
    BY <1>3, <2>2, <2>3
<1>6. CASE op.kind \in Edits!Spanning
  <2>1. /\ From(op) = 3 * s - 1 /\ To(op) = 3 * e - 1 /\ op.kind \notin Edits!Inserting
        /\ op.kind # "insert_after"
    BY <1>1, <1>2, <1>6 DEF From, To, Edits!Spans, Edits!Spanning, Edits!Inserting
  <2>2. Before(op) = s - 1 /\ After(op) = e
    BY <1>3, <2>1 DEF Count, Before, After
  <2>3. Edits!Splice(ls, op) = Spliced(ls, s - 1, Edits!Fresh(Edits!Pieces(op.new)), e)
    BY <1>1, <1>2, <2>1 DEF Edits!Splice, Spliced
  <2> QED
    BY <1>3, <2>1, <2>2, <2>3
<1> QED
  BY <1>4, <1>5, <1>6 DEF Placed, Edits!Inserting

\* Operations that do not overlap, sorted: the first one is behind, or both
\* are insertions at one place.
LEMMA PlacesInOrder ==
  ASSUME NEW N \in Nat, NEW ops, Request(ops, N), ~Edits!Overlap(ops),
         NEW p \in DOMAIN ops, NEW q \in DOMAIN ops, p # q, Edits!First(ops, p, q)
  PROVE  \/ To(ops[q]) < From(ops[p])
         \/ /\ p > q /\ ops[p].kind \in Edits!Inserting /\ ops[q].kind \in Edits!Inserting
            /\ From(ops[p]) = From(ops[q])
            /\ To(ops[p]) = From(ops[p]) /\ To(ops[q]) = From(ops[q])
<1> DEFINE a == ops[p]
           b == ops[q]
           Rank(op) == Edits!Precedence[op.kind]
<1>1. Placed(a, N) /\ Placed(b, N)
  BY DEF Request
<1>2. \/ a.start.line > b.start.line
      \/ a.start.line = b.start.line /\ (Rank(a) > Rank(b) \/ (Rank(a) = Rank(b) /\ p > q))
  BY DEF Edits!First
<1>3. /\ ~(/\ Edits!Spans(b) /\ a.start.line \in b.start.line..b.end.line
           /\ \/ Edits!Spans(a) \/ a.start.line > b.start.line
              \/ a.kind = "insert_after" /\ b.start.line < b.end.line)
      /\ ~(/\ Edits!Spans(a) /\ b.start.line \in a.start.line..a.end.line
           /\ \/ Edits!Spans(b) \/ b.start.line > a.start.line
              \/ b.kind = "insert_after" /\ a.start.line < a.end.line)
  BY DEF Edits!Overlap
<1>4. /\ a.kind \in {"insert_before", "insert_after", "replace", "delete"}
      /\ b.kind \in {"insert_before", "insert_after", "replace", "delete"}
      /\ a.start.line \in 1..N /\ a.end.line \in a.start.line..N
      /\ b.start.line \in 1..N /\ b.end.line \in b.start.line..N
  BY <1>1 DEF Placed, Edits!Inserting, Edits!Spanning
<1> HIDE DEF a, b
<1>5. \A op : /\ Edits!Spans(op) <=> op.kind \in {"replace", "delete"}
              /\ op.kind = "insert_before" => From(op) = 3 * op.start.line - 2 /\ To(op) = From(op)
              /\ op.kind = "insert_after" => From(op) = 3 * op.start.line /\ To(op) = From(op)
              /\ op.kind \in {"replace", "delete"} =>
                   From(op) = 3 * op.start.line - 1 /\ To(op) = 3 * op.end.line - 1
              /\ op.kind = "insert_after" => Rank(op) = 3
              /\ op.kind = "replace" => Rank(op) = 2
              /\ op.kind = "delete" => Rank(op) = 1
              /\ op.kind = "insert_before" => Rank(op) = 0
  BY DEF From, To, Edits!Spans, Edits!Spanning, Edits!Precedence
<1> HIDE DEF Rank
<1> DEFINE s == a.start.line
           e == a.end.line
           t == b.start.line
           f == b.end.line
<1>6. /\ s \in Nat /\ e \in Nat /\ t \in Nat /\ f \in Nat /\ s <= e /\ t <= f /\ s >= 1 /\ t >= 1
  BY <1>4
<1>7. \/ To(b) < From(a)
      \/ /\ p > q /\ From(a) = From(b) /\ To(a) = From(a) /\ To(b) = From(b)
         /\ a.kind \in {"insert_before", "insert_after"} /\ b.kind \in {"insert_before", "insert_after"}
  <2>1. CASE b.kind = "insert_before"
    BY <1>2, <1>3, <1>4, <1>5, <1>6, <2>1
  <2>2. CASE b.kind = "insert_after"
    BY <1>2, <1>3, <1>4, <1>5, <1>6, <2>2
  <2>3. CASE b.kind \in {"replace", "delete"}
    BY <1>2, <1>3, <1>4, <1>5, <1>6, <2>3
  <2> QED
    BY <1>4, <2>1, <2>2, <2>3
<1> QED
  BY <1>7 DEF a, b, Edits!Inserting

-----------------------------------------------------------------------------
(* What is asked for is what the splices make.                             *)

\* Lines in front of a place, and behind it.
LEMMA LinesAre ==
  ASSUME NEW N \in Nat, NEW t, HasLines(t, N)
  PROVE  /\ \A k : Lines(t, 0, k) = SubSeq(t, 1, Count(k))
         /\ \A k : Lines(t, k, 3 * N) = SubSeq(t, Count(k) + 1, Len(t))
<1>1. Count(0) = 0 /\ Count(3 * N) = N
  BY CountEnds
<1>2. Count(0) + 1 = 1
  BY <1>1
<1> QED
  BY <1>1, <1>2 DEF Lines, HasLines

\* One operation.
LEMMA OneSplice ==
  ASSUME NEW f \in Seq(Line), NEW ops, Request(ops, Len(f)), DOMAIN ops = 1..1
  PROVE  /\ Edits!Splice(f, ops[1]) \in Seq(Line)
         /\ TextsOf(Edits!Splice(f, ops[1])) = Edits!Asked(f, ops)
<1> DEFINE N == Len(f)
           t == TextsOf(f)
           op == ops[1]
           b == Before(op)
           a == After(op)
           x == Edits!Fresh(Edits!Pieces(op.new))
<1>1. N \in Nat /\ DOMAIN f = 1..N /\ t \in Seq(Texts) /\ Len(t) = N /\ t \in [1..N -> Texts]
  <2>1. t \in Seq(Texts) /\ Len(t) = N
    BY TextsAre
  <2> QED
    BY <2>1, LenProperties
<1>2. Placed(op, N)
  BY DEF Request
<1>3. Edits!Splice(f, op) = Spliced(f, b, x, a) /\ b \in 0..N /\ a \in b..N
  BY <1>1, <1>2, SpliceIs
<1>4. Edits!Pieces(op.new) \in Seq(Texts) /\ x \in Seq(Line) /\ TextsOf(x) = Edits!Pieces(op.new)
  <2>1. Edits!Pieces(op.new) \in Seq(Texts)
    BY <1>2 DEF Placed
  <2> QED
    BY <2>1, FreshIs
<1>5. HasLines(t, N) /\ t = TextsOf(f)
  BY <1>1 DEF HasLines
<1> HIDE DEF N, t, op, x
<1>6. PICK sums : Sums(t, ops, N, sums) /\ Edits!Asked(f, ops) = sums[3 * N]
  BY <1>1, <1>5, AskedIsSum DEF N
<1>7. sums[3 * N] = (Lines(t, 0, From(op) - 1) \o Edits!Pieces(op.new)) \o Lines(t, To(op), 3 * N)
  BY <1>1, <1>5, <1>6, AskedOne DEF op, N
<1>8. sums[3 * N] = Spliced(t, b, Edits!Pieces(op.new), a)
  <2>1. Lines(t, 0, From(op) - 1) = SubSeq(t, 1, b)
    BY <1>1, <1>5, LinesAre DEF Before
  <2>2. Lines(t, To(op), 3 * N) = SubSeq(t, a + 1, Len(t))
    BY <1>1, <1>5, LinesAre DEF After
  <2> QED
    BY <1>7, <2>1, <2>2 DEF Spliced
<1> HIDE DEF a, b
<1>9. TextsOf(Spliced(f, b, x, a)) = Spliced(t, b, TextsOf(x), a)
  <2>1. b \in 0..Len(f) /\ a \in b..Len(f)
    BY <1>3 DEF N
  <2> QED
    BY <1>4, <1>5, <2>1, TextsOfSpliced
<1>10. Spliced(f, b, x, a) \in Seq(Line)
  <2>1. b \in 0..Len(f) /\ a \in b..Len(f)
    BY <1>3 DEF N
  <2>2. IsSpliced(Spliced(f, b, x, a), Line, f, b, x, a)
    BY <1>4, <2>1, SplicedIs
  <2> QED
    BY <2>2 DEF IsSpliced
<1> QED
  BY <1>3, <1>4, <1>6, <1>8, <1>9, <1>10 DEF op

\* The lines of a file with one operation applied.
LEMMA SplicedLines ==
  ASSUME NEW f \in Seq(Line), NEW op, Edits!Pieces(op.new) \in Seq(Texts),
         NEW b \in 0..Len(f), NEW a \in b..Len(f)
  PROVE  /\ Spliced(f, b, Edits!Fresh(Edits!Pieces(op.new)), a) \in Seq(Line)
         /\ Len(Spliced(f, b, Edits!Fresh(Edits!Pieces(op.new)), a)) =
               b + Len(Edits!Pieces(op.new)) + (Len(f) - a)
         /\ TextsOf(Spliced(f, b, Edits!Fresh(Edits!Pieces(op.new)), a)) =
               Spliced(TextsOf(f), b, Edits!Pieces(op.new), a)
<1> DEFINE x == Edits!Fresh(Edits!Pieces(op.new))
<1>1. x \in Seq(Line) /\ TextsOf(x) = Edits!Pieces(op.new) /\ Len(x) = Len(Edits!Pieces(op.new))
  BY FreshIs
<1> HIDE DEF x
<1>2. IsSpliced(Spliced(f, b, x, a), Line, f, b, x, a)
  BY <1>1, SplicedIs
<1>3. TextsOf(Spliced(f, b, x, a)) = Spliced(TextsOf(f), b, TextsOf(x), a)
  BY <1>1, TextsOfSpliced
<1> QED
  BY <1>1, <1>2, <1>3 DEF x, IsSpliced

\* The places of the second operation are still where they were.
LEMMA SecondSplice ==
  ASSUME NEW f \in Seq(Line), NEW ops, Request(ops, Len(f)), ~Edits!Overlap(ops),
         NEW p, NEW q, p # q, DOMAIN ops = {p, q}, Edits!First(ops, p, q)
  PROVE  /\ Edits!Splice(Edits!Splice(f, ops[p]), ops[q]) \in Seq(Line)
         /\ TextsOf(Edits!Splice(Edits!Splice(f, ops[p]), ops[q])) =
              Spliced(Spliced(TextsOf(f), Before(ops[p]), Edits!Pieces(ops[p].new), After(ops[p])),
                      Before(ops[q]), Edits!Pieces(ops[q].new), After(ops[q]))
         /\ Before(ops[q]) \in 0..Len(f) /\ After(ops[q]) \in Before(ops[q])..Len(f)
         /\ Before(ops[p]) \in After(ops[q])..Len(f) /\ After(ops[p]) \in Before(ops[p])..Len(f)
         /\ \/ To(ops[q]) < From(ops[p])
            \/ /\ p > q /\ From(ops[p]) = From(ops[q])
               /\ To(ops[p]) = From(ops[p]) /\ To(ops[q]) = From(ops[q])
               /\ Before(ops[p]) = After(ops[q])
<1> DEFINE N == Len(f)
           b == Before(ops[q])
           a == After(ops[q])
           c == Before(ops[p])
           d == After(ops[p])
<1>1. N \in Nat /\ p \in DOMAIN ops /\ q \in DOMAIN ops
  BY LenProperties
<1>2. /\ Placed(ops[p], N) /\ Placed(ops[q], N)
      /\ Edits!Pieces(ops[p].new) \in Seq(Texts) /\ Edits!Pieces(ops[q].new) \in Seq(Texts)
  BY <1>1 DEF Request, Placed
<1>3. /\ \A ls : Edits!Splice(ls, ops[p]) = Spliced(ls, c, Edits!Fresh(Edits!Pieces(ops[p].new)), d)
      /\ c \in 0..N /\ d \in c..N
  BY <1>1, <1>2, SpliceIs
<1>4. /\ \A ls : Edits!Splice(ls, ops[q]) = Spliced(ls, b, Edits!Fresh(Edits!Pieces(ops[q].new)), a)
      /\ b \in 0..N /\ a \in b..N
  BY <1>1, <1>2, SpliceIs
<1>5. /\ \/ To(ops[q]) < From(ops[p])
         \/ /\ p > q /\ From(ops[p]) = From(ops[q])
            /\ To(ops[p]) = From(ops[p]) /\ To(ops[q]) = From(ops[q])
            /\ c = a
      /\ c \in a..N
  <2>1. \/ To(ops[q]) < From(ops[p])
        \/ /\ p > q /\ ops[p].kind \in Edits!Inserting /\ ops[q].kind \in Edits!Inserting
           /\ From(ops[p]) = From(ops[q])
           /\ To(ops[p]) = From(ops[p]) /\ To(ops[q]) = From(ops[q])
    BY <1>1, PlacesInOrder
  <2>2. CASE To(ops[q]) < From(ops[p])
    <3> DEFINE u == To(ops[q])
               v == From(ops[p]) - 1
    <3>1. u \in 0..(3 * N) /\ v \in u..(3 * N)
      <4>1. /\ From(ops[q]) \in 1..(3 * N) /\ To(ops[q]) \in From(ops[q])..(3 * N)
            /\ From(ops[p]) \in 1..(3 * N)
        BY <1>1, <1>2, PlacesAre
      <4> QED
        BY <2>2, <4>1
    <3> HIDE DEF u, v
    <3>2. Count(u) \in 0..N /\ Count(v) \in Count(u)..N
      BY <1>1, <3>1, CountGrows
    <3>3. a = Count(u) /\ c = Count(v)
      BY DEF Before, After, u, v
    <3> QED
      BY <2>2, <3>2, <3>3
  <2>3. CASE /\ p > q /\ ops[p].kind \in Edits!Inserting /\ ops[q].kind \in Edits!Inserting
             /\ From(ops[p]) = From(ops[q])
             /\ To(ops[p]) = From(ops[p]) /\ To(ops[q]) = From(ops[q])
    <3>1. a = b
      BY <1>1, <1>2, <2>3, SpliceIs
    <3>2. b = c
      BY <2>3 DEF Before
    <3> QED
      BY <1>3, <2>3, <3>1, <3>2
  <2> QED
    BY <2>1, <2>2, <2>3
<1> HIDE DEF a, b, c, d
<1> DEFINE u == Spliced(f, c, Edits!Fresh(Edits!Pieces(ops[p].new)), d)
<1>6. /\ u \in Seq(Line) /\ Len(u) = c + Len(Edits!Pieces(ops[p].new)) + (N - d)
      /\ TextsOf(u) = Spliced(TextsOf(f), c, Edits!Pieces(ops[p].new), d)
  BY <1>2, <1>3, SplicedLines
<1>7. b \in 0..Len(u) /\ a \in b..Len(u)
  <2>1. Len(Edits!Pieces(ops[p].new)) \in Nat
    BY <1>2, LenProperties
  <2> HIDE DEF u, N
  <2> QED
    BY <1>1, <1>3, <1>4, <1>5, <1>6, <2>1
<1> HIDE DEF u
<1>8. /\ Spliced(u, b, Edits!Fresh(Edits!Pieces(ops[q].new)), a) \in Seq(Line)
      /\ TextsOf(Spliced(u, b, Edits!Fresh(Edits!Pieces(ops[q].new)), a)) =
            Spliced(TextsOf(u), b, Edits!Pieces(ops[q].new), a)
  BY <1>2, <1>6, <1>7, SplicedLines
<1>9. /\ Edits!Splice(f, ops[p]) = u
      /\ Edits!Splice(u, ops[q]) = Spliced(u, b, Edits!Fresh(Edits!Pieces(ops[q].new)), a)
  BY <1>3, <1>4 DEF u
<1> QED
  BY <1>3, <1>4, <1>5, <1>6, <1>8, <1>9 DEF a, b, c, d

\* Two operations.
LEMMA TwoSplicesAsked ==
  ASSUME NEW f \in Seq(Line), NEW ops, Request(ops, Len(f)), ~Edits!Overlap(ops),
         DOMAIN ops = 1..2, NEW p, NEW q, p # q, DOMAIN ops = {p, q}, Edits!First(ops, p, q)
  PROVE  TextsOf(Edits!Splice(Edits!Splice(f, ops[p]), ops[q])) = Edits!Asked(f, ops)
<1> DEFINE N == Len(f)
           t == TextsOf(f)
           b == Before(ops[q])
           a == After(ops[q])
           c == Before(ops[p])
           d == After(ops[p])
           x == Edits!Pieces(ops[q].new)
           y == Edits!Pieces(ops[p].new)
           made == TextsOf(Edits!Splice(Edits!Splice(f, ops[p]), ops[q]))
<1>1. /\ made = Spliced(Spliced(t, c, y, d), b, x, a)
      /\ b \in 0..N /\ a \in b..N /\ c \in a..N /\ d \in c..N
      /\ \/ To(ops[q]) < From(ops[p])
         \/ p > q /\ From(ops[p]) = From(ops[q])
            /\ To(ops[p]) = From(ops[p]) /\ To(ops[q]) = From(ops[q]) /\ c = a
  BY SecondSplice
<1>2. N \in Nat /\ DOMAIN f = 1..N /\ t \in Seq(Texts) /\ Len(t) = N /\ t \in [1..N -> Texts]
  <2>1. t \in Seq(Texts) /\ Len(t) = N
    BY TextsAre
  <2> QED
    BY <2>1, LenProperties
<1>3. p \in DOMAIN ops /\ q \in DOMAIN ops
  OBVIOUS
<1>4. x \in Seq(Texts) /\ y \in Seq(Texts)
  BY <1>3 DEF Request, Placed
<1>5. HasLines(t, N) /\ t = TextsOf(f)
  BY <1>2 DEF HasLines
<1> HIDE DEF t, N
<1>6. PICK sums : Sums(t, ops, N, sums) /\ Edits!Asked(f, ops) = sums[3 * N]
  BY <1>2, <1>5, AskedIsSum DEF N
<1>7. \A k : Lines(t, 0, k) = SubSeq(t, 1, Count(k)) /\ Lines(t, k, 3 * N) = SubSeq(t, Count(k) + 1, Len(t))
  BY <1>2, <1>5, LinesAre
<1>8. /\ Lines(t, 0, From(ops[q]) - 1) = SubSeq(t, 1, b)
      /\ Lines(t, To(ops[q]), From(ops[p]) - 1) = SubSeq(t, a + 1, c)
      /\ Lines(t, To(ops[p]), 3 * N) = SubSeq(t, d + 1, Len(t))
  BY <1>7 DEF Lines, Before, After
<1> HIDE DEF a, b, c, d, x, y
<1>9. Spliced(Spliced(t, c, y, d), b, x, a) = Twice(t, b, x, a, c, y, d)
  <2>1. b \in 0..Len(t) /\ a \in b..Len(t) /\ c \in a..Len(t) /\ d \in c..Len(t)
    BY <1>1, <1>2
  <2> QED
    BY <1>2, <1>4, <2>1, TwoSplices
<1>10. CASE To(ops[q]) < From(ops[p])
  <2>1. sums[3 * N] = Apart(t, ops, p, q, N)
    BY <1>2, <1>5, <1>6, <1>10, AskedApart DEF N
  <2> QED
    BY <1>1, <1>6, <1>8, <1>9, <2>1 DEF x, y, Apart, Twice
<1>11. CASE /\ p > q /\ From(ops[p]) = From(ops[q])
            /\ To(ops[p]) = From(ops[p]) /\ To(ops[q]) = From(ops[q]) /\ c = a
  <2> DEFINE w == From(ops[1])
             head == SubSeq(t, 1, b)
  <2>1. p = 2 /\ q = 1
    BY <1>3, <1>11
  <2>2. \A i \in DOMAIN ops : From(ops[i]) = w /\ To(ops[i]) = w
    BY <1>11, <2>1
  <2>3. Lines(t, 0, w - 1) = head /\ Lines(t, w, 3 * N) = SubSeq(t, d + 1, Len(t))
    BY <1>8, <1>11, <2>1
  <2> HIDE DEF w, head
  <2>4. sums[3 * N] = Together(t, ops, w, N)
    BY <1>2, <1>5, <1>6, <2>2, AskedTogether DEF N
  <2>5. SubSeq(t, a + 1, c) = <<>>
    <3>1. a \in Int /\ c = a /\ c \in Int /\ c < a + 1
      BY <1>1, <1>2, <1>11
    <3> QED
      BY <3>1, SubSeqEmpty
  <2>6. head \in Seq(Texts)
    BY <1>1, <1>2 DEF head
  <2>7. (head \o x) \o <<>> = head \o x
    <3>1. head \o x \in Seq(Texts)
      BY <1>4, <2>6, ConcatProperties
    <3> QED
      BY <3>1, ConcatEmptySeq
  <2>8. (head \o x) \o y = head \o (x \o y)
    <3>1. Bracketed(head, x, y)
      BY <1>4, <2>6, Brackets
    <3> QED
      BY <3>1 DEF Bracketed
  <2> QED
    BY <1>1, <1>6, <1>9, <2>1, <2>3, <2>4, <2>5, <2>7, <2>8 DEF x, y, head, Together, Twice
<1> QED
  BY <1>1, <1>10, <1>11

-----------------------------------------------------------------------------
(* The order in which operations are applied.                              *)

\* What FoldLeft makes of the operations of a set, the greatest last.
Splices(it, f, ops, order) ==
  it = [s \in SUBSET (DOMAIN order) |->
          IF s = {} THEN f
          ELSE Edits!Splice(it[s \ {Edits!Max(s)}], ops[order[Edits!Max(s)]])]

\* What Rewritten makes of the lines, with the operations in the given order.
Folded(f, ops, order) == Edits!FoldLeft(LAMBDA ls, i : Edits!Splice(ls, ops[i]), f, order)

\* It is what Splices makes of all of them.
LEMMA FoldMakes ==
  ASSUME NEW f, NEW ops, NEW order
  PROVE  Folded(f, ops, order) = (CHOOSE it : Splices(it, f, ops, order))[DOMAIN order]
BY DEF Edits!FoldLeft, Edits!MapThenFoldSet, Splices, Folded

\* A function is known by its values.
LEMMA FunctionIs ==
  ASSUME NEW S, NEW T, NEW g \in [S -> T]
  PROVE  g = [s \in S |-> g[s]]
OBVIOUS

\* The sets of one and of two operations.
LEMMA SubsetsOfTwo ==
  /\ 1..1 = {1} /\ 1..2 = {1, 2}
  /\ \A s \in SUBSET {1} : s = {} \/ s = {1}
  /\ \A s \in SUBSET {1, 2} : s = {} \/ s = {1} \/ s = {2} \/ s = {1, 2}
<1>1. 1..1 = {1} /\ 1..2 = {1, 2}
  OBVIOUS
<1>2. ASSUME NEW s \in SUBSET {1} PROVE s = {} \/ s = {1}
  OBVIOUS
<1>3. ASSUME NEW s \in SUBSET {1, 2} PROVE s = {} \/ s = {1} \/ s = {2} \/ s = {1, 2}
  <2>1. CASE 1 \in s /\ 2 \in s
    BY <2>1
  <2>2. CASE 1 \in s /\ 2 \notin s
    BY <2>2
  <2>3. CASE 1 \notin s /\ 2 \in s
    BY <2>3
  <2>4. CASE 1 \notin s /\ 2 \notin s
    BY <2>4
  <2> QED
    BY <2>1, <2>2, <2>3, <2>4
<1> QED
  BY <1>1, <1>2, <1>3

\* And which of them comes last.
LEMMA GreatestIs ==
  Edits!Max({1}) = 1 /\ Edits!Max({2}) = 2 /\ Edits!Max({1, 2}) = 2
<1>1. ASSUME NEW n \in Nat PROVE Edits!Max({n}) = n
  BY DEF Edits!Max
<1>2. Edits!Max({1, 2}) = 2
  <2>1. \E x \in {1, 2} : \A y \in {1, 2} : x >= y
    OBVIOUS
  <2>2. Edits!Max({1, 2}) \in {1, 2} /\ \A y \in {1, 2} : Edits!Max({1, 2}) >= y
    BY <2>1 DEF Edits!Max
  <2> QED
    BY <2>2
<1> QED
  BY <1>1, <1>2

\* One operation is applied.
LEMMA FoldOne ==
  ASSUME NEW f, NEW ops, NEW order, DOMAIN order = 1..1
  PROVE  Folded(f, ops, order) = Edits!Splice(f, ops[order[1]])
<1> DEFINE it == CHOOSE g : Splices(g, f, ops, order)
           one == Edits!Splice(f, ops[order[1]])
           made == [s \in SUBSET (DOMAIN order) |-> IF s = {} THEN f ELSE one]
<1>1. 1..1 = {1} /\ \A s \in SUBSET (1..1) : s = {} \/ s = {1}
  BY SubsetsOfTwo
<1>2. Edits!Max({1}) = 1 /\ {1} \ {1} = {} /\ {} \in SUBSET (DOMAIN order)
  BY GreatestIs
<1>3. Splices(made, f, ops, order)
  <2>1. ASSUME NEW s \in SUBSET (DOMAIN order)
        PROVE  made[s] = IF s = {} THEN f
                         ELSE Edits!Splice(made[s \ {Edits!Max(s)}], ops[order[Edits!Max(s)]])
    <3>1. s = {} \/ s = {1}
      BY <1>1
    <3>2. made[{}] = f
      BY <1>2
    <3>3. CASE s = {}
      BY <3>2, <3>3
    <3>4. CASE s = {1}
      <4>1. made[s] = one /\ s \ {Edits!Max(s)} = {}
        BY <1>2, <3>4
      <4>2. order[Edits!Max(s)] = order[1] /\ s # {}
        BY <1>2, <3>4
      <4> HIDE DEF made
      <4> QED
        BY <3>2, <4>1, <4>2
    <3> QED
      BY <3>1, <3>3, <3>4
  <2>2. made \in [SUBSET (DOMAIN order) -> {f, one}]
    <3>1. \A s \in SUBSET (DOMAIN order) : (IF s = {} THEN f ELSE one) \in {f, one}
      OBVIOUS
    <3> HIDE DEF one
    <3> QED
      BY <3>1
  <2> HIDE DEF made
  <2>3. made = [s \in SUBSET (DOMAIN order) |-> made[s]]
    BY <2>2, FunctionIs
  <2>4. made = [s \in SUBSET (DOMAIN order) |->
                  IF s = {} THEN f
                  ELSE Edits!Splice(made[s \ {Edits!Max(s)}], ops[order[Edits!Max(s)]])]
    BY <2>1, <2>3
  <2> QED
    BY <2>4 DEF Splices
<1> HIDE DEF made
<1>4. Splices(it, f, ops, order)
  <2>1. \E g : Splices(g, f, ops, order)
    BY <1>3
  <2> QED
    BY <2>1
<1> HIDE DEF it
<1>5. \A s \in SUBSET (DOMAIN order) :
        it[s] = IF s = {} THEN f
                ELSE Edits!Splice(it[s \ {Edits!Max(s)}], ops[order[Edits!Max(s)]])
  BY <1>4 DEF Splices
<1>6. it[{}] = f
  BY <1>2, <1>5
<1>7. it[{1}] = one
  <2>1. {1} \in SUBSET (DOMAIN order) /\ {1} # {}
    BY <1>1
  <2>2. it[{1}] = Edits!Splice(it[{1} \ {Edits!Max({1})}], ops[order[Edits!Max({1})]])
    BY <1>5, <2>1
  <2>3. {1} \ {Edits!Max({1})} = {} /\ order[Edits!Max({1})] = order[1]
    BY <1>2
  <2> QED
    BY <1>6, <2>2, <2>3
<1>8. it[DOMAIN order] = one
  BY <1>1, <1>7
<1> QED
  BY <1>8, FoldMakes DEF it

\* The operations are applied one after the other.
LEMMA FoldTwo ==
  ASSUME NEW f, NEW ops, NEW order, DOMAIN order = 1..2
  PROVE  Folded(f, ops, order) = Edits!Splice(Edits!Splice(f, ops[order[1]]), ops[order[2]])
<1> DEFINE it == CHOOSE g : Splices(g, f, ops, order)
           one == Edits!Splice(f, ops[order[1]])
           two == Edits!Splice(f, ops[order[2]])
           both == Edits!Splice(one, ops[order[2]])
           made == [s \in SUBSET (DOMAIN order) |->
                      IF s = {} THEN f ELSE IF s = {1} THEN one ELSE IF s = {2} THEN two ELSE both]
<1>1. /\ DOMAIN order = {1, 2}
      /\ \A s \in SUBSET {1, 2} : s = {} \/ s = {1} \/ s = {2} \/ s = {1, 2}
  BY SubsetsOfTwo
<1>2. /\ Edits!Max({1}) = 1 /\ Edits!Max({2}) = 2 /\ Edits!Max({1, 2}) = 2
      /\ {1} \ {1} = {} /\ {2} \ {2} = {} /\ {1, 2} \ {2} = {1}
      /\ {} \in SUBSET (DOMAIN order) /\ {1} \in SUBSET (DOMAIN order)
      /\ {2} \in SUBSET (DOMAIN order) /\ {1, 2} \in SUBSET (DOMAIN order)
      /\ {1} # {} /\ {2} # {} /\ {2} # {1} /\ {1, 2} # {} /\ {1, 2} # {1} /\ {1, 2} # {2}
  BY GreatestIs
<1>3. made[{}] = f /\ made[{1}] = one /\ made[{2}] = two /\ made[{1, 2}] = both
  BY <1>2
<1>4. made \in [SUBSET (DOMAIN order) -> {f, one, two, both}]
  <2>1. \A s \in SUBSET (DOMAIN order) :
          (IF s = {} THEN f ELSE IF s = {1} THEN one ELSE IF s = {2} THEN two ELSE both)
            \in {f, one, two, both}
    OBVIOUS
  <2> HIDE DEF one, two, both
  <2> QED
    BY <2>1
<1> HIDE DEF made
<1>5. made = [s \in SUBSET (DOMAIN order) |-> made[s]]
  BY <1>4, FunctionIs
<1>6. Splices(made, f, ops, order)
  <2>1. ASSUME NEW s \in SUBSET (DOMAIN order)
        PROVE  made[s] = IF s = {} THEN f
                         ELSE Edits!Splice(made[s \ {Edits!Max(s)}], ops[order[Edits!Max(s)]])
    <3>1. s = {} \/ s = {1} \/ s = {2} \/ s = {1, 2}
      BY <1>1
    <3>2. CASE s = {}
      BY <1>3, <3>2
    <3>3. CASE s = {1}
      <4>1. s \ {Edits!Max(s)} = {} /\ order[Edits!Max(s)] = order[1] /\ s # {}
        BY <1>2, <3>3
      <4> QED
        BY <1>3, <3>3, <4>1
    <3>4. CASE s = {2}
      <4>1. s \ {Edits!Max(s)} = {} /\ order[Edits!Max(s)] = order[2] /\ s # {}
        BY <1>2, <3>4
      <4> QED
        BY <1>3, <3>4, <4>1
    <3>5. CASE s = {1, 2}
      <4>1. s \ {Edits!Max(s)} = {1} /\ order[Edits!Max(s)] = order[2] /\ s # {}
        BY <1>2, <3>5
      <4> QED
        BY <1>3, <3>5, <4>1
    <3> QED
      BY <3>1, <3>2, <3>3, <3>4, <3>5
  <2>2. made = [s \in SUBSET (DOMAIN order) |->
                  IF s = {} THEN f
                  ELSE Edits!Splice(made[s \ {Edits!Max(s)}], ops[order[Edits!Max(s)]])]
    BY <1>5, <2>1
  <2> QED
    BY <2>2 DEF Splices
<1>7. Splices(it, f, ops, order)
  <2>1. \E g : Splices(g, f, ops, order)
    BY <1>6
  <2> QED
    BY <2>1
<1> HIDE DEF it
<1>8. \A s \in SUBSET (DOMAIN order) :
        it[s] = IF s = {} THEN f
                ELSE Edits!Splice(it[s \ {Edits!Max(s)}], ops[order[Edits!Max(s)]])
  BY <1>7 DEF Splices
<1>9. it[{}] = f
  BY <1>2, <1>8
<1>10. it[{1}] = one
  <2>1. it[{1}] = Edits!Splice(it[{1} \ {Edits!Max({1})}], ops[order[Edits!Max({1})]])
    BY <1>2, <1>8
  <2>2. {1} \ {Edits!Max({1})} = {} /\ order[Edits!Max({1})] = order[1]
    BY <1>2
  <2> QED
    BY <1>9, <2>1, <2>2
<1>11. it[{1, 2}] = both
  <2>1. it[{1, 2}] = Edits!Splice(it[{1, 2} \ {Edits!Max({1, 2})}], ops[order[Edits!Max({1, 2})]])
    BY <1>2, <1>8
  <2>2. {1, 2} \ {Edits!Max({1, 2})} = {1} /\ order[Edits!Max({1, 2})] = order[2]
    BY <1>2
  <2> QED
    BY <1>10, <2>1, <2>2
<1>12. it[DOMAIN order] = both
  BY <1>1, <1>11
<1> QED
  BY <1>12, FoldMakes DEF it

\* One operation is sorted.
LEMMA SortedOne ==
  ASSUME NEW ops, DOMAIN ops = 1..1
  PROVE  DOMAIN Edits!Sorted(ops) = 1..1 /\ Edits!Sorted(ops)[1] = 1
<1> DEFINE Fine(order) == \A i, j \in DOMAIN ops : i < j => Edits!First(ops, order[i], order[j])
<1>1. \A order \in [DOMAIN ops -> DOMAIN ops] : Fine(order)
  <2>1. \A i, j \in DOMAIN ops : ~(i < j)
    OBVIOUS
  <2> QED
    BY <2>1
<1>2. \E order \in [DOMAIN ops -> DOMAIN ops] : Fine(order)
  <2>1. [i \in DOMAIN ops |-> i] \in [DOMAIN ops -> DOMAIN ops]
    OBVIOUS
  <2> QED
    BY <1>1, <2>1
<1>3. Edits!Sorted(ops) \in [DOMAIN ops -> DOMAIN ops]
  BY <1>2 DEF Edits!Sorted
<1> QED
  BY <1>3

\* Two operations are sorted by First.
LEMMA SortedTwo ==
  ASSUME NEW N \in Nat, NEW ops, Request(ops, N), DOMAIN ops = 1..2
  PROVE  /\ DOMAIN Edits!Sorted(ops) = 1..2
         /\ Edits!Sorted(ops)[1] \in 1..2 /\ Edits!Sorted(ops)[2] \in 1..2
         /\ Edits!Sorted(ops)[1] # Edits!Sorted(ops)[2]
         /\ Edits!First(ops, Edits!Sorted(ops)[1], Edits!Sorted(ops)[2])
<1> DEFINE Fine(order) == \A i, j \in DOMAIN ops : i < j => Edits!First(ops, order[i], order[j])
           Rank(i) == Edits!Precedence[ops[i].kind]
<1>1. \A i \in 1..2 : Rank(i) \in Nat /\ ops[i].start.line \in Nat
  <2> TAKE i \in 1..2
  <2>1. /\ ops[i].kind \in {"insert_before", "insert_after", "replace", "delete"}
        /\ ops[i].start.line \in 1..N
    BY DEF Request, Placed, Edits!Inserting, Edits!Spanning
  <2> QED
    BY <2>1 DEF Edits!Precedence
<1>2. \A i, j \in 1..2 : Edits!First(ops, i, j) <=>
        \/ ops[i].start.line > ops[j].start.line
        \/ ops[i].start.line = ops[j].start.line /\ (Rank(i) > Rank(j) \/ (Rank(i) = Rank(j) /\ i > j))
  BY DEF Edits!First
<1> HIDE DEF Rank
<1>3. (Edits!First(ops, 1, 2) \/ Edits!First(ops, 2, 1)) /\ \A i \in 1..2 : ~Edits!First(ops, i, i)
  BY <1>1, <1>2
<1>4. \E order \in [DOMAIN ops -> DOMAIN ops] : Fine(order)
  <2>1. \A i, j \in DOMAIN ops : i < j => i = 1 /\ j = 2
    OBVIOUS
  <2>2. CASE Edits!First(ops, 1, 2)
    <3> DEFINE order == [i \in DOMAIN ops |-> i]
    <3>1. order \in [DOMAIN ops -> DOMAIN ops] /\ order[1] = 1 /\ order[2] = 2
      OBVIOUS
    <3> HIDE DEF order
    <3>2. Fine(order)
      BY <2>1, <2>2, <3>1
    <3> QED
      BY <3>1, <3>2
  <2>3. CASE Edits!First(ops, 2, 1)
    <3> DEFINE order == [i \in DOMAIN ops |-> 3 - i]
    <3>1. order \in [DOMAIN ops -> DOMAIN ops] /\ order[1] = 2 /\ order[2] = 1
      OBVIOUS
    <3> HIDE DEF order
    <3>2. Fine(order)
      BY <2>1, <2>3, <3>1
    <3> QED
      BY <3>1, <3>2
  <2> QED
    BY <1>3, <2>2, <2>3
<1> DEFINE o == Edits!Sorted(ops)
<1>5. o \in [DOMAIN ops -> DOMAIN ops] /\ Fine(o)
  BY <1>4 DEF Edits!Sorted
<1> HIDE DEF o
<1>6. o[1] \in 1..2 /\ o[2] \in 1..2 /\ DOMAIN o = 1..2 /\ Edits!First(ops, o[1], o[2])
  BY <1>5
<1>7. o[1] # o[2]
  BY <1>3, <1>6
<1> QED
  BY <1>6, <1>7 DEF o

-----------------------------------------------------------------------------
(* The lines that an edit keeps.                                           *)

\* The lines of ls come from f, each at most once, or are new.
Drawn(ls, f) ==
  /\ ls \in Seq(Line)
  /\ \A i \in 1..Len(ls) : ls[i].id # 0 =>
       /\ \E n \in 1..Len(f) : ls[i] = f[n]
       /\ \A j \in 1..Len(ls) : ls[j].id = ls[i].id => j = i

\* All lines but the last have a break; no line of the initial file is there twice.
Divided(f) == \A i \in 1..Len(f) : i < Len(f) => f[i].ending # "none"
Single(f) == \A i, j \in 1..Len(f) : f[i].id = f[j].id /\ f[i].id # 0 => i = j

\* A file as the edits keep it: all its lines but the last have a break, and
\* no line of the initial file is in it twice.
Whole(f) == f \in Seq(Line) /\ Divided(f) /\ Single(f)

\* The lines of a file come from it.
LEMMA WholeIsDrawn == ASSUME NEW f, Whole(f) PROVE Drawn(f, f)
BY DEF Whole, Single, Drawn

\* A splice of new lines keeps that.
LEMMA SplicedKeepsLines ==
  ASSUME NEW f, NEW ls, Drawn(ls, f), NEW x \in Seq(Texts), NEW b \in 0..Len(ls), NEW a \in b..Len(ls)
  PROVE  Drawn(Spliced(ls, b, Edits!Fresh(x), a), f)
<1> DEFINE y == Edits!Fresh(x)
           z == Spliced(ls, b, y, a)
           n == b + Len(y) + (Len(ls) - a)
           Old(i) == IF i <= b THEN i ELSE (i - (b + Len(y))) + a
<1>1. ls \in Seq(Line) /\ Len(ls) \in Nat
  BY LenProperties DEF Drawn
<1>2. y \in Seq(Line) /\ Len(y) \in Nat /\ \A i \in 1..Len(y) : y[i].id = 0
  <2>1. /\ y \in Seq(Line) /\ Len(y) = Len(x)
        /\ \A i \in 1..Len(x) : y[i] = [text |-> x[i], ending |-> "none", id |-> 0]
    BY FreshIs
  <2> HIDE DEF y
  <2>2. ASSUME NEW i \in 1..Len(y) PROVE y[i].id = 0
    <3>1. y[i] = [text |-> x[i], ending |-> "none", id |-> 0]
      BY <2>1
    <3> QED
      BY <3>1
  <2> QED
    BY <2>1, <2>2, LenProperties
<1> HIDE DEF y
<1>3. b \in Nat /\ a \in Nat /\ b <= a /\ a <= Len(ls) /\ n \in Nat
  BY <1>1, <1>2
<1>4. IsSpliced(z, Line, ls, b, y, a)
  BY <1>1, <1>2, SplicedIs
<1> HIDE DEF z
<1>5. /\ z \in Seq(Line) /\ Len(z) = n
      /\ \A i \in 1..n : z[i] = IF i <= b THEN ls[i] ELSE IF i <= b + Len(y) THEN y[i - b]
                                ELSE ls[(i - (b + Len(y))) + a]
  BY <1>4 DEF IsSpliced
<1>6. ASSUME NEW i \in 1..n, z[i].id # 0
      PROVE  /\ Old(i) \in 1..Len(ls) /\ z[i] = ls[Old(i)]
             /\ i <= b \/ i > b + Len(y)
  <2>1. CASE i <= b
    <3>1. Old(i) = i /\ i \in 1..Len(ls)
      BY <1>1, <1>3, <2>1
    <3> QED
      BY <1>5, <2>1, <3>1
  <2>2. CASE ~(i <= b) /\ i <= b + Len(y)
    <3>1. i - b \in 1..Len(y)
      BY <1>2, <1>3, <2>2
    <3>2. z[i] = y[i - b]
      BY <1>5, <2>2
    <3> QED
      BY <1>2, <1>6, <3>1, <3>2
  <2>3. CASE ~(i <= b) /\ ~(i <= b + Len(y))
    <3>1. Old(i) = (i - (b + Len(y))) + a /\ Old(i) \in 1..Len(ls) /\ i > b + Len(y)
      BY <1>1, <1>2, <1>3, <2>3
    <3> QED
      BY <1>5, <2>3, <3>1
  <2> QED
    BY <2>1, <2>2, <2>3
<1>7. ASSUME NEW i \in 1..n, NEW j \in 1..n, i <= b \/ i > b + Len(y), j <= b \/ j > b + Len(y),
             Old(i) = Old(j)
      PROVE  j = i
  BY <1>1, <1>2, <1>3, <1>7
<1>8. ASSUME NEW i \in 1..n, z[i].id # 0
      PROVE  /\ \E m \in 1..Len(f) : z[i] = f[m]
             /\ \A j \in 1..n : z[j].id = z[i].id => j = i
  <2>1. Old(i) \in 1..Len(ls) /\ z[i] = ls[Old(i)] /\ (i <= b \/ i > b + Len(y))
    BY <1>6, <1>8
  <2>2. ASSUME NEW j \in 1..n, z[j].id = z[i].id PROVE j = i
    <3>1. Old(j) \in 1..Len(ls) /\ z[j] = ls[Old(j)] /\ (j <= b \/ j > b + Len(y))
      BY <1>6, <1>8, <2>2
    <3> HIDE DEF Old
    <3>2. Old(j) = Old(i)
      BY <1>8, <2>1, <2>2, <3>1 DEF Drawn
    <3> QED
      BY <1>7, <2>1, <3>1, <3>2
  <2> HIDE DEF Old
  <2>3. \E m \in 1..Len(f) : ls[Old(i)] = f[m]
    BY <1>8, <2>1 DEF Drawn
  <2> QED
    BY <2>1, <2>2, <2>3
<1>9. Drawn(z, f)
  BY <1>5, <1>8 DEF Drawn
<1> QED
  BY <1>9 DEF z, y

\* apply_line_fidelity changes no text, no line that comes from the file with its
\* break, and ends as the file did.
LEMMA FaithfulIs ==
  ASSUME NEW f, Whole(f), NEW ls, Drawn(ls, f)
  PROVE  /\ Whole(Edits!Faithful(ls, f))
         /\ TextsOf(Edits!Faithful(ls, f)) = TextsOf(ls)
         /\ Edits!Faithful(ls, f) # <<>> =>
              Edits!EndsInBreak(Edits!Faithful(ls, f)) = Edits!EndsInBreak(f)
         /\ \A i \in DOMAIN Edits!Faithful(ls, f), n \in DOMAIN f :
              /\ Edits!Faithful(ls, f)[i].id = f[n].id /\ Edits!Faithful(ls, f)[i].id # 0
              /\ i < Len(Edits!Faithful(ls, f)) /\ n < Len(f)
              => Edits!Faithful(ls, f)[i] = f[n]
<1> DEFINE new == Edits!Faithful(ls, f)
           ends == Edits!EndsInBreak(f)
           broken(l) == IF l.ending = "none" THEN [l EXCEPT !.ending = Edits!Preferred(f)] ELSE l
<1>1. /\ ls \in Seq(Line) /\ Len(ls) \in Nat /\ DOMAIN ls = 1..Len(ls)
      /\ \A i \in 1..Len(ls) : ls[i] \in Line
  BY LenProperties, ElementOfSeq DEF Drawn
<1>2. /\ f \in Seq(Line) /\ Len(f) \in Nat /\ DOMAIN f = 1..Len(f)
      /\ \A i \in 1..Len(f) : f[i] \in Line
  BY LenProperties, ElementOfSeq DEF Whole
<1>3. Edits!Preferred(f) \in {"crlf", "lf"}
  BY DEF Edits!Preferred
<1>4. new = [i \in 1..Len(ls) |-> IF i < Len(ls) \/ ends THEN broken(ls[i])
                                  ELSE [ls[i] EXCEPT !.ending = "none"]]
  BY <1>1 DEF Edits!Faithful
<1> HIDE DEF new, ends
<1>5. ASSUME NEW l \in Line
      PROVE  /\ broken(l) \in Line /\ broken(l).text = l.text /\ broken(l).id = l.id
             /\ broken(l).ending # "none" /\ (l.ending # "none" => broken(l) = l)
  BY <1>3 DEF Line
<1>6. ASSUME NEW l \in Line
      PROVE  /\ [l EXCEPT !.ending = "none"] \in Line /\ [l EXCEPT !.ending = "none"].text = l.text
             /\ [l EXCEPT !.ending = "none"].id = l.id /\ [l EXCEPT !.ending = "none"].ending = "none"
  BY DEF Line
<1> HIDE DEF broken
<1>7. /\ new \in Seq(Line) /\ Len(new) = Len(ls) /\ DOMAIN new = 1..Len(ls)
      /\ \A i \in 1..Len(ls) :
           /\ new[i].text = ls[i].text /\ new[i].id = ls[i].id
           /\ i < Len(ls) \/ ends => new[i].ending # "none" /\ (ls[i].ending # "none" => new[i] = ls[i])
           /\ ~(i < Len(ls) \/ ends) => new[i].ending = "none"
  <2>1. ASSUME NEW i \in 1..Len(ls)
        PROVE  /\ new[i] \in Line /\ new[i].text = ls[i].text /\ new[i].id = ls[i].id
               /\ i < Len(ls) \/ ends => new[i].ending # "none" /\ (ls[i].ending # "none" => new[i] = ls[i])
               /\ ~(i < Len(ls) \/ ends) => new[i].ending = "none"
    <3>1. ls[i] \in Line
      BY <1>1
    <3>2. CASE i < Len(ls) \/ ends
      <4>1. new[i] = broken(ls[i])
        BY <1>4, <3>2
      <4> QED
        BY <1>5, <3>1, <3>2, <4>1
    <3>3. CASE ~(i < Len(ls) \/ ends)
      <4>1. new[i] = [ls[i] EXCEPT !.ending = "none"]
        BY <1>4, <3>3
      <4> QED
        BY <1>6, <3>1, <3>3, <4>1
    <3> QED
      BY <3>2, <3>3
  <2>2. new \in [1..Len(ls) -> Line]
    BY <1>4, <2>1
  <2>3. new \in Seq(Line) /\ Len(new) = Len(ls)
    BY <1>1, <2>2
  <2> QED
    BY <1>4, <2>1, <2>3
<1>8. TextsOf(new) = TextsOf(ls)
  BY <1>1, <1>7 DEF TextsOf
<1>9. Whole(new)
  <2>1. Divided(new)
    BY <1>7 DEF Divided
  <2>2. Single(new)
    BY <1>7 DEF Single, Drawn
  <2> QED
    BY <1>7, <2>1, <2>2 DEF Whole
<1>10. new # <<>> => Edits!EndsInBreak(new) = ends
  <2> SUFFICES ASSUME new # <<>> PROVE Edits!EndsInBreak(new) = ends
    OBVIOUS
  <2>1. Len(ls) \in 1..Len(ls)
    BY <1>1, <1>7, EmptySeq
  <2>2. ends \in BOOLEAN
    BY DEF ends, Edits!EndsInBreak
  <2>3. ~(Len(ls) < Len(ls))
    BY <1>1
  <2>4. (new[Len(ls)].ending # "none") = ends
    BY <1>7, <2>1, <2>2, <2>3
  <2> QED
    BY <1>7, <2>4 DEF Edits!EndsInBreak
<1>11. ASSUME NEW i \in 1..Len(ls), NEW n \in 1..Len(f), new[i].id = f[n].id, new[i].id # 0,
              i < Len(ls), n < Len(f)
       PROVE  new[i] = f[n]
  <2>1. PICK m \in 1..Len(f) : ls[i] = f[m]
    BY <1>7, <1>11 DEF Drawn
  <2>2. m = n
    BY <1>7, <1>11, <2>1 DEF Whole, Single
  <2>3. ls[i].ending # "none"
    BY <1>11, <2>1, <2>2 DEF Whole, Divided
  <2> QED
    BY <1>7, <1>11, <2>1, <2>2, <2>3
<1>12. \A i \in DOMAIN new, n \in DOMAIN f :
         new[i].id = f[n].id /\ new[i].id # 0 /\ i < Len(new) /\ n < Len(f) => new[i] = f[n]
  BY <1>2, <1>7, <1>11
<1> QED
  BY <1>8, <1>9, <1>10, <1>12 DEF new, ends

\* The last line is empty and has no break.
Hanging(g) == g # <<>> /\ g[Len(g)].text = Empty /\ ~Edits!EndsInBreak(g)

\* The content of a file is all its lines, or all but a hanging one; then it
\* ends in the break in front of that line.
LEMMA ContentIs ==
  ASSUME NEW g, Whole(g)
  PROVE  /\ Whole(Edits!Content(g)) /\ Len(Edits!Content(g)) <= Len(g)
         /\ \A i \in DOMAIN Edits!Content(g) : i \in DOMAIN g /\ Edits!Content(g)[i] = g[i]
         /\ TextsOf(Edits!Content(g)) =
              IF Hanging(g) THEN Edits!Front(TextsOf(g)) ELSE TextsOf(g)
         /\ Edits!Content(g) # <<>> =>
              Edits!EndsInBreak(Edits!Content(g)) = (Edits!EndsInBreak(g) \/ Hanging(g))
<1>1. g \in Seq(Line) /\ Len(g) \in Nat /\ DOMAIN g = 1..Len(g) /\ Divided(g) /\ Single(g)
  BY LenProperties DEF Whole
<1>2. CASE ~Hanging(g)
  <2>1. Edits!Content(g) = g
    BY <1>2 DEF Edits!Content, Hanging
  <2>2. Edits!EndsInBreak(g) \in BOOLEAN
    BY DEF Edits!EndsInBreak
  <2> QED
    BY <1>1, <1>2, <2>1, <2>2
<1>3. CASE Hanging(g)
  <2> DEFINE n == Len(g) - 1
             c == SubSeq(g, 1, n)
  <2>1. Edits!Content(g) = c
    BY <1>3 DEF Edits!Content, Edits!Front, Hanging
  <2>2. g # <<>>
    BY <1>3 DEF Hanging
  <2>3. n \in Nat /\ n + 1 = Len(g)
    BY <1>1, <2>2, EmptySeq
  <2>4. c \in Seq(Line) /\ Len(c) = n /\ DOMAIN c = 1..n /\ \A i \in 1..n : c[i] = g[i]
    <3>1. 1 \in 1..(Len(g) + 1) /\ n \in 0..Len(g)
      BY <2>3
    <3> QED
      BY <1>1, <2>3, <3>1, SubSeqProperties
  <2> HIDE DEF c, n
  <2>5. Whole(c)
    <3>1. Divided(c)
      BY <1>1, <2>3, <2>4 DEF Divided
    <3>2. Single(c)
      BY <1>1, <2>3, <2>4 DEF Single
    <3> QED
      BY <2>4, <3>1, <3>2 DEF Whole
  <2>6. TextsOf(c) = Edits!Front(TextsOf(g))
    <3> DEFINE t == TextsOf(g)
    <3>1. t \in Seq(Texts) /\ Len(t) = Len(g) /\ \A i \in 1..Len(g) : t[i] = g[i].text
      BY <1>1, TextsAre
    <3>2. /\ TextsOf(c) \in Seq(Texts) /\ Len(TextsOf(c)) = n
          /\ \A i \in 1..n : TextsOf(c)[i] = c[i].text
      BY <2>4, TextsAre
    <3> HIDE DEF t
    <3>3. Edits!Front(t) = SubSeq(t, 1, n)
      BY <3>1 DEF Edits!Front, n
    <3>4. /\ SubSeq(t, 1, n) \in Seq(Texts) /\ Len(SubSeq(t, 1, n)) = n
          /\ \A i \in 1..n : SubSeq(t, 1, n)[i] = t[i]
      <4>1. 1 \in 1..(Len(t) + 1) /\ n \in 0..Len(t)
        BY <2>3, <3>1
      <4> QED
        BY <2>3, <3>1, <4>1, SubSeqProperties
    <3>5. \A i \in 1..n : TextsOf(c)[i] = SubSeq(t, 1, n)[i]
      BY <2>3, <2>4, <3>1, <3>2, <3>4
    <3>6. TextsOf(c) = SubSeq(t, 1, n)
      BY <3>2, <3>4, <3>5, SeqEqual
    <3> QED
      BY <3>3, <3>6 DEF t
  <2>7. c # <<>> => Edits!EndsInBreak(c)
    <3> SUFFICES ASSUME c # <<>> PROVE Edits!EndsInBreak(c)
      OBVIOUS
    <3>1. n # 0
      BY <2>4, EmptySeq
    <3>2. n \in 1..n /\ n \in 1..Len(g) /\ n < Len(g)
      BY <2>3, <3>1
    <3>3. c[n].ending # "none"
      BY <1>1, <2>4, <3>2 DEF Divided
    <3> QED
      BY <2>4, <3>3 DEF Edits!EndsInBreak
  <2>8. Len(c) <= Len(g) /\ \A i \in DOMAIN c : i \in DOMAIN g /\ c[i] = g[i]
    BY <1>1, <2>3, <2>4
  <2> QED
    BY <1>3, <2>1, <2>5, <2>6, <2>7, <2>8 DEF Edits!EndsInBreak
<1> QED
  BY <1>2, <1>3

\* The last line that is asked for is none: it is empty, and the file ends
\* without a break.
None(edit) ==
  LET asked == Edits!Asked(edit.from, edit.ops)
  IN  ~Edits!EndsInBreak(edit.from) /\ asked # <<>> /\ asked[Len(asked)] = Empty

\* What EditsMatchRequest says of an edit.
Matches(edit) ==
  /\ TextsOf(edit.new) = IF None(edit) THEN Edits!Front(Edits!Asked(edit.from, edit.ops))
                         ELSE Edits!Asked(edit.from, edit.ops)
  /\ edit.new # <<>> =>
       Edits!EndsInBreak(edit.new) = (Edits!EndsInBreak(edit.from) \/ None(edit))
  /\ \A i \in DOMAIN edit.new, n \in DOMAIN edit.from :
       /\ edit.new[i].id = edit.from[n].id /\ edit.new[i].id # 0
       /\ i < Len(edit.new) /\ n < Len(edit.from)
       => edit.new[i] = edit.from[n]

\* An operation keeps that the lines come from the file.
LEMMA SpliceKeepsLines ==
  ASSUME NEW f, NEW ls, Drawn(ls, f), NEW N \in Nat, NEW op, Placed(op, N),
         After(op) <= Len(ls)
  PROVE  Drawn(Edits!Splice(ls, op), f)
<1>1. Edits!Pieces(op.new) \in Seq(Texts) /\ Len(ls) \in Nat
  BY LenProperties DEF Placed, Drawn
<1>2. /\ Edits!Splice(ls, op) = Spliced(ls, Before(op), Edits!Fresh(Edits!Pieces(op.new)), After(op))
      /\ Before(op) \in 0..N /\ After(op) \in Before(op)..N
  BY SpliceIs
<1> DEFINE b == Before(op)
           a == After(op)
           x == Edits!Pieces(op.new)
<1>3. b \in 0..Len(ls) /\ a \in b..Len(ls) /\ x \in Seq(Texts)
  BY <1>1, <1>2
<1> HIDE DEF a, b, x
<1>4. Drawn(Spliced(ls, b, Edits!Fresh(x), a), f)
  BY <1>3, SplicedKeepsLines
<1> QED
  BY <1>2, <1>4 DEF a, b, x

\* What one operation makes of a file, before its breaks are restored.
LEMMA OneRewritten ==
  ASSUME NEW f, Whole(f), NEW ops, Request(ops, Len(f)), DOMAIN ops = 1..1
  PROVE  \E ls : /\ Drawn(ls, f) /\ TextsOf(ls) = Edits!Asked(f, ops)
                 /\ Edits!Rewritten(f, ops) = Edits!Content(Edits!Faithful(ls, f))
<1> DEFINE ls == Edits!Splice(f, ops[1])
<1>1. f \in Seq(Line) /\ Len(f) \in Nat /\ Placed(ops[1], Len(f)) /\ Drawn(f, f)
  BY LenProperties, WholeIsDrawn DEF Whole, Request
<1>2. TextsOf(ls) = Edits!Asked(f, ops)
  BY <1>1, OneSplice
<1>3. Drawn(ls, f)
  <2>1. After(ops[1]) <= Len(f)
    BY <1>1, SpliceIs
  <2> QED
    BY <1>1, <2>1, SpliceKeepsLines
<1>4. Edits!Rewritten(f, ops) = Edits!Content(Edits!Faithful(Folded(f, ops, Edits!Sorted(ops)), f))
  BY DEF Edits!Rewritten, Folded
<1>5. Folded(f, ops, Edits!Sorted(ops)) = ls
  <2>1. DOMAIN Edits!Sorted(ops) = 1..1 /\ Edits!Sorted(ops)[1] = 1
    BY SortedOne
  <2> QED
    BY <2>1, FoldOne
<1> QED
  BY <1>2, <1>3, <1>4, <1>5

\* What two make.
LEMMA TwoRewritten ==
  ASSUME NEW f, Whole(f), NEW ops, Request(ops, Len(f)), ~Edits!Overlap(ops), DOMAIN ops = 1..2
  PROVE  \E ls : /\ Drawn(ls, f) /\ TextsOf(ls) = Edits!Asked(f, ops)
                 /\ Edits!Rewritten(f, ops) = Edits!Content(Edits!Faithful(ls, f))
<1> DEFINE p == Edits!Sorted(ops)[1]
           q == Edits!Sorted(ops)[2]
           one == Edits!Splice(f, ops[p])
           ls == Edits!Splice(one, ops[q])
           N == Len(f)
<1>1. f \in Seq(Line) /\ N \in Nat /\ Drawn(f, f) /\ \A i \in DOMAIN ops : Placed(ops[i], N)
  BY LenProperties, WholeIsDrawn DEF Whole, Request
<1>2. /\ DOMAIN Edits!Sorted(ops) = 1..2 /\ p \in 1..2 /\ q \in 1..2 /\ p # q
      /\ Edits!First(ops, p, q)
  BY <1>1, SortedTwo
<1>3. Edits!Rewritten(f, ops) = Edits!Content(Edits!Faithful(Folded(f, ops, Edits!Sorted(ops)), f))
  BY DEF Edits!Rewritten, Folded
<1>4. Folded(f, ops, Edits!Sorted(ops)) = ls
  BY <1>2, FoldTwo
<1> HIDE DEF p, q
<1>5. DOMAIN ops = {p, q} /\ p \in DOMAIN ops /\ q \in DOMAIN ops
  BY <1>2
<1>6. TextsOf(ls) = Edits!Asked(f, ops)
  BY <1>1, <1>2, <1>5, TwoSplicesAsked
<1>7. Drawn(one, f) /\ After(ops[q]) <= Len(one)
  <2>1. Placed(ops[p], N) /\ Placed(ops[q], N)
    BY <1>1, <1>5
  <2>2. /\ one = Spliced(f, Before(ops[p]), Edits!Fresh(Edits!Pieces(ops[p].new)), After(ops[p]))
        /\ Before(ops[p]) \in 0..N /\ After(ops[p]) \in Before(ops[p])..N
    BY <1>1, <2>1, SpliceIs
  <2>3. Drawn(one, f)
    BY <1>1, <2>1, <2>2, SpliceKeepsLines
  <2>4. After(ops[q]) \in Nat /\ After(ops[q]) <= Before(ops[p])
    <3>1. /\ Before(ops[q]) \in 0..N /\ After(ops[q]) \in Before(ops[q])..N
          /\ Before(ops[p]) \in After(ops[q])..N
      BY <1>1, <1>2, <1>5, SecondSplice
    <3> QED
      BY <1>1, <3>1
  <2>5. /\ Len(one) = Before(ops[p]) + Len(Edits!Pieces(ops[p].new)) + (N - After(ops[p]))
        /\ Len(Edits!Pieces(ops[p].new)) \in Nat
    <3> DEFINE c == Before(ops[p])
               d == After(ops[p])
               op == ops[p]
    <3>1. c \in 0..Len(f) /\ d \in c..Len(f) /\ Edits!Pieces(op.new) \in Seq(Texts)
      BY <2>1, <2>2 DEF Placed
    <3> HIDE DEF c, d, op
    <3>2. Len(Spliced(f, c, Edits!Fresh(Edits!Pieces(op.new)), d)) = c + Len(Edits!Pieces(op.new)) + (Len(f) - d)
      BY <1>1, <3>1, SplicedLines
    <3>3. Len(Edits!Pieces(op.new)) \in Nat
      BY <3>1, LenProperties
    <3> QED
      BY <2>2, <3>2, <3>3 DEF c, d, op
  <2>6. After(ops[q]) <= Len(one)
    BY <1>1, <2>2, <2>4, <2>5
  <2> QED
    BY <2>3, <2>6
<1>8. Drawn(ls, f)
  <2>1. Placed(ops[q], N)
    BY <1>1, <1>5
  <2> HIDE DEF one
  <2> QED
    BY <1>1, <1>7, <2>1, SpliceKeepsLines
<1> QED
  BY <1>3, <1>4, <1>6, <1>8

\* Any request of one or two operations that do not overlap, for any file: the
\* new content is what they say, an empty last line without a break being none,
\* and it is whole as the file was (apply_resolved_operation, apply_line_fidelity,
\* replacement_to_lines, text_to_fidelity_lines).
THEOREM RewrittenMatches ==
  ASSUME NEW f, Whole(f), NEW ops, Request(ops, Len(f)), ~Edits!Overlap(ops)
  PROVE  /\ Whole(Edits!Rewritten(f, ops))
         /\ Matches(Edits!Edit(f, ops, Edits!Rewritten(f, ops)))
<1>1. PICK ls : /\ Drawn(ls, f) /\ TextsOf(ls) = Edits!Asked(f, ops)
                /\ Edits!Rewritten(f, ops) = Edits!Content(Edits!Faithful(ls, f))
  BY OneRewritten, TwoRewritten DEF Request
<1> DEFINE g == Edits!Faithful(ls, f)
           new == Edits!Rewritten(f, ops)
           edit == Edits!Edit(f, ops, new)
           asked == Edits!Asked(f, ops)
<1>2. edit.from = f /\ edit.ops = ops /\ edit.new = new /\ new = Edits!Content(g)
  BY <1>1 DEF Edits!Edit
<1>3. /\ Whole(g) /\ TextsOf(g) = asked
      /\ g # <<>> => Edits!EndsInBreak(g) = Edits!EndsInBreak(f)
      /\ \A i \in DOMAIN g, n \in DOMAIN f :
           g[i].id = f[n].id /\ g[i].id # 0 /\ i < Len(g) /\ n < Len(f) => g[i] = f[n]
  BY <1>1, FaithfulIs
<1> HIDE DEF new, edit, g, asked
<1>4. /\ Whole(new) /\ Len(new) <= Len(g)
      /\ \A i \in DOMAIN new : i \in DOMAIN g /\ new[i] = g[i]
      /\ TextsOf(new) = IF Hanging(g) THEN Edits!Front(TextsOf(g)) ELSE TextsOf(g)
      /\ new # <<>> => Edits!EndsInBreak(new) = (Edits!EndsInBreak(g) \/ Hanging(g))
  BY <1>2, <1>3, ContentIs
<1>5. /\ g \in Seq(Line) /\ Len(g) \in Nat /\ DOMAIN g = 1..Len(g)
      /\ asked \in Seq(Texts) /\ Len(asked) = Len(g) /\ \A i \in 1..Len(g) : asked[i] = g[i].text
  BY <1>3, TextsAre, LenProperties DEF Whole
<1>6. g = <<>> <=> asked = <<>>
  BY <1>5, EmptySeq
<1>7. None(edit) = Hanging(g)
  <2>1. None(edit) = (~Edits!EndsInBreak(f) /\ asked # <<>> /\ asked[Len(asked)] = Empty)
    BY <1>2 DEF None, asked
  <2>2. CASE g = <<>>
    BY <1>6, <2>1, <2>2 DEF Hanging
  <2>3. CASE g # <<>>
    <3>1. Len(g) \in 1..Len(g)
      BY <1>5, <2>3, EmptySeq
    <3>2. asked[Len(asked)] = g[Len(g)].text
      BY <1>5, <3>1
    <3> QED
      BY <1>3, <1>6, <2>1, <2>3, <3>2 DEF Hanging
  <2> QED
    BY <2>2, <2>3
<1>8. TextsOf(new) = IF None(edit) THEN Edits!Front(asked) ELSE asked
  BY <1>3, <1>4, <1>7
<1>9. new # <<>> => Edits!EndsInBreak(new) = (Edits!EndsInBreak(f) \/ None(edit))
  <2>1. new # <<>> => g # <<>>
    <3> SUFFICES ASSUME g = <<>> PROVE new = <<>>
      OBVIOUS
    <3>1. new \in Seq(Line) /\ Len(g) = 0 /\ Len(new) \in Nat
      BY <1>4, EmptySeq, LenProperties DEF Whole
    <3>2. Len(new) = 0
      BY <1>4, <3>1
    <3> QED
      BY <3>1, <3>2, EmptySeq
  <2> QED
    BY <1>3, <1>4, <1>7, <2>1
<1>10. ASSUME NEW i \in DOMAIN new, NEW n \in DOMAIN f, new[i].id = f[n].id, new[i].id # 0,
              i < Len(new), n < Len(f)
       PROVE  new[i] = f[n]
  <2>1. i \in DOMAIN g /\ new[i] = g[i]
    BY <1>4
  <2>2. i < Len(g)
    <3>1. i \in Nat /\ Len(new) \in Nat
      BY <1>4, <1>5, <2>1, LenProperties DEF Whole
    <3> QED
      BY <1>4, <1>5, <1>10, <3>1
  <2> QED
    BY <1>3, <1>10, <2>1, <2>2
<1>11. Matches(edit)
  BY <1>2, <1>8, <1>9, <1>10 DEF Matches, asked
<1> QED
  BY <1>4, <1>11 DEF edit, new

\* A request that has no failure for the file lies in it.
LEMMA NoFailureMeans ==
  ASSUME NEW f \in Seq(Line), NEW g \in Seq(Line), NEW ops,
         DOMAIN ops = 1..1 \/ DOMAIN ops = 1..2,
         \A i \in DOMAIN ops : ops[i] \in Edits!Operations(g) /\ Edits!Valid(ops[i]),
         Edits!Failures(f, ops) = {}
  PROVE  Request(ops, Len(f)) /\ ~Edits!Overlap(ops)
<1> DEFINE bad == {i \in DOMAIN ops : Edits!OpFailures(f, ops[i]) # {}}
<1>1. bad = {}
  <2> SUFFICES ASSUME bad # {} PROVE FALSE
    OBVIOUS
  <2>1. bad \subseteq Nat
    OBVIOUS
  <2>2. \E i \in bad : \A j \in bad : i <= j
    <3> HIDE DEF bad
    <3> QED
      BY <2>1, Smallest
  <2> DEFINE least == CHOOSE i \in bad : \A j \in bad : i <= j
  <2>3. least \in bad
    BY <2>2
  <2>4. Edits!Failures(f, ops) = Edits!OpFailures(f, ops[least])
    BY DEF Edits!Failures
  <2> QED
    BY <2>3, <2>4
<1>2. ~Edits!Overlap(ops)
  BY <1>1 DEF Edits!Failures
<1>3. ASSUME NEW i \in DOMAIN ops PROVE Placed(ops[i], Len(f))
  <2> DEFINE op == ops[i]
  <2>1. op \in Edits!Operations(g) /\ Edits!Valid(op) /\ Edits!OpFailures(f, op) = {}
    BY <1>1
  <2> HIDE DEF op
  <2>2. PICK n \in DOMAIN g, m \in DOMAIN g :
          op.start = Edits!Anchored(g, n) /\ op.end = Edits!Anchored(g, m)
    BY <2>1 DEF Edits!Operations
  <2>3. op.start.line = n /\ op.end.line = m /\ n \in Nat /\ m \in Nat
    <3>1. DOMAIN g = 1..Len(g)
      BY LenProperties
    <3> QED
      BY <2>2, <3>1 DEF Edits!Anchored
  <2>4. Edits!Fits(f, op.start) /\ Edits!Fits(f, op.end) /\ ~(op.end.line < op.start.line)
    BY <2>1 DEF Edits!OpFailures
  <2>5. op.start.line \in 1..Len(f) /\ op.end.line \in op.start.line..Len(f)
    <3>1. DOMAIN f = 1..Len(f) /\ Len(f) \in Nat
      BY LenProperties
    <3>2. n \in 1..Len(f) /\ m \in 1..Len(f) /\ ~(m < n)
      BY <2>3, <2>4, <3>1 DEF Edits!Fits
    <3> QED
      BY <2>3, <3>1, <3>2
  <2>6. op.kind \in Edits!Inserting \cup Edits!Spanning /\ Edits!Pieces(op.new) \in Seq(Texts)
    <3>1. /\ op.kind \in Edits!Inserting \cup Edits!Spanning
          /\ op.new \in UNION {[1..k -> Texts] : k \in 0..MaxNew}
      BY <2>1 DEF Edits!Operations
    <3>2. PICK k \in 0..MaxNew : op.new \in [1..k -> Texts]
      BY <3>1
    <3>3. k \in Nat
      BY RecordsAssumption
    <3>4. op.new \in Seq(Texts)
      BY <3>2, <3>3
    <3> QED
      BY <3>1, <3>4, PiecesAre
  <2>7. op.kind \in Edits!Inserting => op.end.line = op.start.line
    BY <2>1 DEF Edits!Valid
  <2>8. Placed(op, Len(f))
    BY <2>5, <2>6, <2>7 DEF Placed
  <2> QED
    BY <2>8 DEF op
<1> QED
  BY <1>2, <1>3 DEF Request

-----------------------------------------------------------------------------
(* The invariant.                                                          *)

\* Every file that is there, that was looked at or that is going to be written is
\* whole, and what a request made matches it.
EditInv ==
  /\ Edits!TypeOK /\ Whole(file) /\ seen \in [Editors -> Seq(Line)] /\ DOMAIN work = Editors
  /\ \A e \in Editors : doing[e] = "writing" =>
       Whole(work[e].new) /\ (work[e].ops # <<>> => Matches(work[e]))

\* The lines have their types.
LEMMA WholeTypes ==
  ASSUME NEW f, Whole(f)
  PROVE  \A i \in DOMAIN f : f[i].text \in Texts /\ f[i].ending \in {"lf", "crlf", "none"}
<1>1. \A i \in DOMAIN f : f[i] \in Line
  BY ElementOfSeq, LenProperties DEF Whole
<1> QED
  BY <1>1 DEF Line

\* The files of n lines that there may be at first.
Endings(n) == {e \in [1..n -> {"lf", "crlf", "none"}] : \A i \in 1..(n - 1) : e[i] # "none"}
Initial(n) ==
  {[i \in 1..n |-> [text |-> t[i], ending |-> b[i], id |-> i]] :
     t \in [1..n -> Texts], b \in Endings(n)}

\* The initial file is whole.
LEMMA ContentsAreWhole == \A f \in Edits!Contents : Whole(f)
<1> TAKE f \in Edits!Contents
<1>1. Edits!Contents = UNION {Initial(n) : n \in 0..MaxLines}
  BY DEF Edits!Contents, Initial, Endings
<1>2. PICK n \in 0..MaxLines : f \in Initial(n)
  BY <1>1
<1>3. PICK t \in [1..n -> Texts], b \in Endings(n) :
        f = [i \in 1..n |-> [text |-> t[i], ending |-> b[i], id |-> i]]
  BY <1>2 DEF Initial
<1>4. /\ n \in Nat /\ b \in [1..n -> {"lf", "crlf", "none"}]
      /\ \A i \in 1..(n - 1) : b[i] # "none"
  BY RecordsAssumption DEF Endings
<1>5. ASSUME NEW i \in 1..n
      PROVE  f[i] \in Line /\ f[i].ending = b[i] /\ f[i].id = i
  BY <1>3, <1>4 DEF Line
<1>6. f \in Seq(Line) /\ Len(f) = n
  BY <1>3, <1>4, <1>5
<1>7. Divided(f)
  <2>1. \A i \in 1..n : i < n => i \in 1..(n - 1)
    BY <1>4
  <2> QED
    BY <1>4, <1>5, <1>6, <2>1 DEF Divided
<1>8. Single(f)
  BY <1>5, <1>6 DEF Single
<1> QED
  BY <1>6, <1>7, <1>8 DEF Whole

\* At first nothing is written.
LEMMA EditStarts == Edits!Init => EditInv
<1> SUFFICES ASSUME Edits!Init PROVE EditInv
  OBVIOUS
<1>1. Whole(file)
  <2>1. PICK ls \in Edits!Contents : file = Edits!Content(ls)
    BY DEF Edits!Init
  <2> QED
    BY <2>1, ContentsAreWhole, ContentIs
<1>2. seen \in [Editors -> Seq(Line)]
  BY EmptySeq DEF Edits!Init
<1>3. Edits!TypeOK
  BY <1>1, WholeTypes, RecordsAssumption DEF Edits!Init, Edits!TypeOK
<1>4. \A e \in Editors : doing[e] # "writing"
  BY DEF Edits!Init
<1>5. DOMAIN work = Editors
  BY DEF Edits!Init
<1> QED
  BY <1>1, <1>2, <1>3, <1>4, <1>5 DEF EditInv

\* A call is begun with an edit that is right, or it is refused.
LEMMA HashlineBegins ==
  ASSUME EditInv, NEW e \in Editors, Edits!Hashline(e)
  PROVE  \/ \E kind : Edits!Refuse(e, kind)
         \/ \E edit : Edits!Begin(e, edit) /\ Whole(edit.new) /\ Matches(edit)
<1>1. PICK ops \in Edits!Requests(e) :
        IF Edits!Failures(file, ops) # {}
        THEN \E kind \in Edits!Failures(file, ops) : Edits!Refuse(e, kind)
        ELSE LET new == Edits!Rewritten(file, ops)
             IN  IF Edits!Canonical(new) = Edits!Canonical(file) THEN Edits!Refuse(e, "no_op")
                 ELSE Edits!Begin(e, Edits!Edit(file, ops, new))
  BY DEF Edits!Hashline
<1>2. /\ DOMAIN ops = 1..1 \/ DOMAIN ops = 1..2
      /\ \A i \in DOMAIN ops : ops[i] \in Edits!Operations(seen[e]) /\ Edits!Valid(ops[i])
  <2> DEFINE one == {op \in Edits!Operations(seen[e]) : Edits!Valid(op)}
  <2>1. ops \in {<<op>> : op \in one} \cup (one \X one)
    BY <1>1 DEF Edits!Requests
  <2>2. \A op \in one : op \in Edits!Operations(seen[e]) /\ Edits!Valid(op)
    OBVIOUS
  <2> HIDE DEF one
  <2>3. CASE ops \in {<<op>> : op \in one}
    <3>1. PICK op \in one : ops = <<op>>
      BY <2>3
    <3>2. DOMAIN ops = 1..1 /\ ops[1] = op
      BY <3>1
    <3> QED
      BY <2>2, <3>2
  <2>4. CASE ops \in one \X one
    <3>1. PICK op \in one, another \in one : ops = <<op, another>>
      BY <2>4
    <3>2. DOMAIN ops = 1..2 /\ ops[1] = op /\ ops[2] = another
      BY <3>1
    <3> QED
      BY <2>2, <3>2
  <2> QED
    BY <2>1, <2>3, <2>4
<1>3. CASE Edits!Failures(file, ops) # {}
  BY <1>1, <1>3
<1>4. CASE Edits!Failures(file, ops) = {}
  <2> DEFINE new == Edits!Rewritten(file, ops)
  <2>1. Edits!Refuse(e, "no_op") \/ Edits!Begin(e, Edits!Edit(file, ops, new))
    BY <1>1, <1>4
  <2>2. file \in Seq(Line) /\ Whole(file) /\ seen[e] \in Seq(Line)
    BY DEF EditInv, Whole
  <2>3. Request(ops, Len(file)) /\ ~Edits!Overlap(ops)
    BY <1>2, <1>4, <2>2, NoFailureMeans
  <2>4. Whole(new) /\ Matches(Edits!Edit(file, ops, new))
    BY <2>2, <2>3, RewrittenMatches
  <2>5. Edits!Edit(file, ops, new).new = new
    BY DEF Edits!Edit
  <2> QED
    BY <2>1, <2>4, <2>5
<1> QED
  BY <1>3, <1>4

\* A patch begins with a whole file, or it is refused.
LEMMA PatchBegins ==
  ASSUME EditInv, NEW e \in Editors, Edits!Patch(e)
  PROVE  \/ \E kind : Edits!Refuse(e, kind)
         \/ \E edit : Edits!Begin(e, edit) /\ Whole(edit.new) /\ edit.ops = <<>>
<1>1. PICK t \in Texts, u \in Texts :
        LET lines == {n \in DOMAIN file : file[n].text = t}
        IN  IF t = Empty THEN Edits!Refuse(e, "invalid_request")
            ELSE IF lines = {} THEN Edits!Refuse(e, "stale_reference")
            ELSE IF Edits!Cardinality(lines) > 1 THEN Edits!Refuse(e, "ambiguous_anchor")
            ELSE \E n \in lines :
                   Edits!Begin(e, Edits!Edit(file, <<>>,
                     Edits!Content([file EXCEPT ![n] = [@ EXCEPT !.text = u]])))
  BY DEF Edits!Patch
<1> SUFFICES ASSUME NEW n \in DOMAIN file,
                    Edits!Begin(e, Edits!Edit(file, <<>>,
                      Edits!Content([file EXCEPT ![n] = [@ EXCEPT !.text = u]])))
             PROVE  \E edit : Edits!Begin(e, edit) /\ Whole(edit.new) /\ edit.ops = <<>>
  BY <1>1
<1> DEFINE new == [file EXCEPT ![n] = [@ EXCEPT !.text = u]]
<1>2. /\ file \in Seq(Line) /\ Len(file) \in Nat /\ DOMAIN file = 1..Len(file)
      /\ \A i \in 1..Len(file) : file[i] \in Line
  BY LenProperties, ElementOfSeq DEF EditInv, Whole
<1>3. ASSUME NEW l \in Line
      PROVE  /\ [l EXCEPT !.text = u] \in Line
             /\ [l EXCEPT !.text = u].ending = l.ending /\ [l EXCEPT !.text = u].id = l.id
  BY DEF Line
<1>4. ASSUME NEW i \in 1..Len(file)
      PROVE  new[i] \in Line /\ new[i].ending = file[i].ending /\ new[i].id = file[i].id
  <2>1. CASE i = n
    BY <1>2, <1>3, <2>1
  <2>2. CASE i # n
    BY <1>2, <2>2
  <2> QED
    BY <2>1, <2>2
<1>5. DOMAIN new = 1..Len(file)
  BY <1>2
<1>6. new \in [1..Len(file) -> Line]
  <2>1. new = [i \in 1..Len(file) |-> new[i]]
    BY <1>2
  <2> HIDE DEF new
  <2> QED
    BY <1>4, <2>1
<1> HIDE DEF new
<1>7. new \in Seq(Line) /\ Len(new) = Len(file)
  BY <1>2, <1>6
<1>8. Whole(new)
  BY <1>4, <1>7 DEF EditInv, Whole, Divided, Single
<1> DEFINE content == Edits!Content(new)
<1>9. /\ Edits!Begin(e, Edits!Edit(file, <<>>, content))
      /\ Edits!Edit(file, <<>>, content).new = content
      /\ Edits!Edit(file, <<>>, content).ops = <<>>
  BY DEF new, Edits!Edit
<1>10. Whole(content)
  BY <1>8, ContentIs
<1> QED
  BY <1>9, <1>10

\* The types, from those of what changes.
LEMMA EditTypesKept ==
  ASSUME Edits!TypeOK, doing' \in [Editors -> {"idle", "writing"}], Whole(file'),
         editApplied' \in [Editors -> BOOLEAN], temps' \subseteq Editors, edited' \in 0..MaxEdits
  PROVE  Edits!TypeOK'
<1>1. \A i \in DOMAIN file' : file'[i].text \in Texts /\ file'[i].ending \in {"lf", "crlf", "none"}
  BY WholeTypes
<1> QED
  BY <1>1 DEF Edits!TypeOK

\* A call that begins or is refused keeps the invariant.
LEMMA CallKeeps ==
  ASSUME EditInv, NEW e \in Editors, edited < MaxEdits, edited' = edited + 1,
         UNCHANGED <<file, seen, temps>>,
         \/ \E kind : Edits!Refuse(e, kind)
         \/ \E edit : /\ Edits!Begin(e, edit) /\ Whole(edit.new)
                      /\ edit.ops # <<>> => Matches(edit)
  PROVE  EditInv'
<1>1. /\ Edits!TypeOK /\ Whole(file) /\ seen \in [Editors -> Seq(Line)] /\ DOMAIN work = Editors
      /\ \A d \in Editors : doing[d] = "writing" =>
           Whole(work[d].new) /\ (work[d].ops # <<>> => Matches(work[d]))
  BY DEF EditInv
<1>2. Whole(file') /\ seen' \in [Editors -> Seq(Line)] /\ temps' \subseteq Editors /\ edited' \in 0..MaxEdits
  <2>1. edited \in 0..MaxEdits /\ temps \subseteq Editors /\ MaxEdits \in Nat
    BY <1>1, RecordsAssumption DEF Edits!TypeOK
  <2>2. edited' \in 0..MaxEdits
    BY <2>1
  <2> QED
    BY <1>1, <2>1, <2>2
<1>3. CASE \E kind : Edits!Refuse(e, kind)
  <2>1. doing' = doing /\ work' = work /\ editApplied' \in [Editors -> BOOLEAN]
    BY <1>1, <1>3 DEF Edits!Refuse, Edits!TypeOK
  <2>2. Edits!TypeOK'
    BY <1>1, <1>2, <2>1, EditTypesKept DEF Edits!TypeOK
  <2> QED
    BY <1>1, <1>2, <2>1, <2>2 DEF EditInv
<1>4. ASSUME NEW edit, Edits!Begin(e, edit), Whole(edit.new), edit.ops # <<>> => Matches(edit)
      PROVE  EditInv'
  <2>1. /\ doing' = [doing EXCEPT ![e] = "writing"] /\ work' = [work EXCEPT ![e] = edit]
        /\ editApplied' = editApplied
    BY <1>4 DEF Edits!Begin
  <2>2. Edits!TypeOK'
    <3>1. doing' \in [Editors -> {"idle", "writing"}] /\ editApplied' \in [Editors -> BOOLEAN]
      BY <1>1, <2>1 DEF Edits!TypeOK
    <3> QED
      BY <1>1, <1>2, <3>1, EditTypesKept
  <2>3. DOMAIN work' = Editors /\ \A d \in Editors : work'[d] = IF d = e THEN edit ELSE work[d]
    BY <1>1, <2>1
  <2>4. \A d \in Editors : d # e => doing'[d] = doing[d]
    BY <1>1, <2>1 DEF Edits!TypeOK
  <2>5. ASSUME NEW d \in Editors, doing'[d] = "writing"
        PROVE  Whole(work'[d].new) /\ (work'[d].ops # <<>> => Matches(work'[d]))
    <3>1. CASE d = e
      BY <1>4, <2>3, <3>1
    <3>2. CASE d # e
      BY <1>1, <2>3, <2>4, <2>5, <3>2
    <3> QED
      BY <3>1, <3>2
  <2> QED
    BY <1>2, <2>2, <2>3, <2>5 DEF EditInv
<1> QED
  BY <1>3, <1>4

\* Every step keeps the invariant.
LEMMA EditSteps ==
  ASSUME EditInv, [Edits!Next]_(Edits!vars)
  PROVE  EditInv'
<1>1. /\ Edits!TypeOK /\ Whole(file) /\ seen \in [Editors -> Seq(Line)] /\ DOMAIN work = Editors
      /\ \A d \in Editors : doing[d] = "writing" =>
           Whole(work[d].new) /\ (work[d].ops # <<>> => Matches(work[d]))
  BY DEF EditInv
<1>2. ASSUME NEW e \in Editors, Edits!Look(e) PROVE EditInv'
  <2>1. seen' \in [Editors -> Seq(Line)]
    BY <1>1, <1>2 DEF Edits!Look, Whole
  <2>2. UNCHANGED <<file, doing, work, editApplied, temps, edited>>
    BY <1>2 DEF Edits!Look
  <2>3. Edits!TypeOK'
    BY <1>1, <2>2 DEF Edits!TypeOK
  <2> QED
    BY <1>1, <2>1, <2>2, <2>3 DEF EditInv
<1>3. ASSUME NEW e \in Editors, Edits!Hashline(e) PROVE EditInv'
  <2>1. edited < MaxEdits /\ edited' = edited + 1 /\ UNCHANGED <<file, seen, temps>>
    BY <1>3 DEF Edits!Hashline
  <2> QED
    BY <1>3, <2>1, HashlineBegins, CallKeeps
<1>4. ASSUME NEW e \in Editors, Edits!Patch(e) PROVE EditInv'
  <2>1. edited < MaxEdits /\ edited' = edited + 1 /\ UNCHANGED <<file, seen, temps>>
    BY <1>4 DEF Edits!Patch
  <2> QED
    BY <1>4, <2>1, PatchBegins, CallKeeps
<1>5. ASSUME NEW e \in Editors, Edits!Replace(e) \/ Edits!ReplaceFails(e) PROVE EditInv'
  <2>1. /\ doing[e] = "writing" /\ doing' = [doing EXCEPT ![e] = "idle"]
        /\ work' = [work EXCEPT ![e] = Edits!NoEdit] /\ seen' = seen /\ edited' = edited
        /\ file' = work[e].new \/ file' = file
    BY <1>5 DEF Edits!Replace, Edits!ReplaceFails
  <2>2. Whole(file')
    BY <1>1, <2>1
  <2>3. temps' \subseteq Editors /\ editApplied' \in [Editors -> BOOLEAN]
    BY <1>1, <1>5 DEF Edits!Replace, Edits!ReplaceFails, Edits!TypeOK
  <2>4. doing' \in [Editors -> {"idle", "writing"}] /\ edited' \in 0..MaxEdits
    BY <1>1, <2>1 DEF Edits!TypeOK
  <2>5. Edits!TypeOK'
    BY <1>1, <2>2, <2>3, <2>4, EditTypesKept
  <2>6. DOMAIN work' = Editors /\ \A d \in Editors : d # e => work'[d] = work[d]
    BY <1>1, <2>1
  <2>7. doing'[e] = "idle" /\ \A d \in Editors : d # e => doing'[d] = doing[d]
    BY <1>1, <2>1 DEF Edits!TypeOK
  <2>8. ASSUME NEW d \in Editors, doing'[d] = "writing"
        PROVE  Whole(work'[d].new) /\ (work'[d].ops # <<>> => Matches(work'[d]))
    BY <1>1, <2>6, <2>7, <2>8
  <2> QED
    BY <1>1, <2>1, <2>2, <2>5, <2>6, <2>8 DEF EditInv
<1>6. CASE UNCHANGED Edits!vars
  BY <1>1, <1>6 DEF EditInv, Edits!vars, Edits!TypeOK
<1> QED
  BY <1>2, <1>3, <1>4, <1>5, <1>6 DEF Edits!Next

\* The invariant says what the property says.
LEMMA EditInvMeans == EditInv => EditsMatchRequest
<1> SUFFICES ASSUME EditInv, NEW e \in Editors, doing[e] = "writing", work[e].ops # <<>>
             PROVE  Matches(work[e])
  BY DEF EditsMatchRequest, Edits!EditsMatchRequest, Matches, None, TextsOf
<1> QED
  BY DEF EditInv

\* Whatever order the operations of a request come in and however they lie to each
\* other: the file that an editor is going to write has the lines they say, no line
\* but the last changes its break, and the end of the file is as before, except
\* that a last line which they leave empty is none where the file ended without a
\* break.  A request has one operation or two (HashlineEditEngine::apply,
\* replacement_to_lines, apply_line_fidelity).
THEOREM EditsDoWhatTheyAsk == Edits!Spec => []EditsMatchRequest
<1>1. Edits!Init => EditInv
  BY EditStarts
<1>2. EditInv /\ [Edits!Next]_(Edits!vars) => EditInv'
  BY EditSteps
<1>3. EditInv => EditsMatchRequest
  BY EditInvMeans
<1> QED
  BY <1>1, <1>2, <1>3, PTL DEF Edits!Spec
==============================================================================
