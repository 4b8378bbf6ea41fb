------------------------- MODULE TaskLifecycleProofs -------------------------
(***************************************************************************)
(* Lemmas about the rewrites of one task row: each keeps the row's type    *)
(* and RowOK, never drops an attempt, and leaves a completed task as it    *)
(* is.  TaskSchedulerProofs cites them action by action.                   *)
(***************************************************************************)
EXTENDS TaskLifecycle, SequenceTheorems, TLAPS

\* A row with its type and at least one attempt.
Sound(r) == r \in Row /\ r.tries # <<>>

\* q is a rewrite of r: sound, with no attempt lost, no superseded attempt
\* moved and completion kept.
Rewrites(r, q) ==
  /\ Sound(q)
  /\ Len(r.tries) <= Len(q.tries)
  /\ \A i \in DOMAIN r.tries :
       i < Len(r.tries) => q.tries[i].state = r.tries[i].state
  /\ r.state = "completed" => q.state = "completed"

\* The newest attempt exists.
LEMMA LatestType ==
  ASSUME NEW r, Sound(r)
  PROVE  /\ Len(r.tries) \in Nat \ {0}
         /\ Len(r.tries) \in DOMAIN r.tries
         /\ DOMAIN r.tries = 1..Len(r.tries)
         /\ Latest(r) = r.tries[Len(r.tries)]
         /\ Latest(r) \in Attempt
         /\ Latest(r).state \in States
         /\ r.state \in States
         /\ \A i \in DOMAIN r.tries : r.tries[i] \in Attempt
<1>1. r.state \in States /\ r.tries \in Seq(Attempt) /\ r.tries # <<>>
  BY DEF Sound, Row
<1>2. Len(r.tries) \in Nat \ {0} /\ DOMAIN r.tries = 1..Len(r.tries)
  BY <1>1, EmptySeq, LenProperties
<1>3. \A i \in DOMAIN r.tries : r.tries[i] \in Attempt
  BY <1>1, <1>2, ElementOfSeq
<1>4. Len(r.tries) \in DOMAIN r.tries
  BY <1>2
<1>5. Latest(r) = r.tries[Len(r.tries)]
  BY DEF Latest
<1>6. \A a \in Attempt : a.state \in States
  BY DEF Attempt
<1> QED
  BY <1>1, <1>2, <1>3, <1>4, <1>5, <1>6

\* Only the newest attempt is ready or running.
LEMMA ReadyIsNewest ==
  ASSUME NEW r, Sound(r), OldTriesDone(r), NEW i \in DOMAIN r.tries,
         r.tries[i].state \in {"ready", "running"}
  PROVE  i = Len(r.tries) /\ Latest(r) = r.tries[i]
<1>1. DOMAIN r.tries = 1..Len(r.tries) /\ Latest(r) = r.tries[Len(r.tries)]
      /\ Len(r.tries) \in Nat
  BY LatestType
<1>2. ~(i < Len(r.tries))
  BY DEF OldTriesDone
<1> QED
  BY <1>1, <1>2

\* Writing the task's state leaves the attempts alone.
LEMMA SetTaskFacts ==
  ASSUME NEW r, Sound(r), NEW to \in States
  PROVE  /\ Sound(SetTask(r, to))
         /\ SetTask(r, to).state = to
         /\ SetTask(r, to).tries = r.tries
         /\ Latest(SetTask(r, to)) = Latest(r)
BY DEF Sound, Row, SetTask, Latest

\* Writing one attempt leaves the task, the others and their number alone.
LEMMA PutAttemptFacts ==
  ASSUME NEW r, Sound(r), NEW i \in DOMAIN r.tries, NEW a \in Attempt
  PROVE  /\ Sound(PutAttempt(r, i, a))
         /\ PutAttempt(r, i, a).state = r.state
         /\ Len(PutAttempt(r, i, a).tries) = Len(r.tries)
         /\ DOMAIN PutAttempt(r, i, a).tries = DOMAIN r.tries
         /\ \A j \in DOMAIN r.tries :
              PutAttempt(r, i, a).tries[j] = IF j = i THEN a ELSE r.tries[j]
<1> DEFINE seq == [r.tries EXCEPT ![i] = a]
<1>1. r.tries \in Seq(Attempt) /\ r.state \in States /\ r.tries # <<>>
  BY DEF Sound, Row
<1>2. DOMAIN r.tries = 1..Len(r.tries) /\ Len(r.tries) \in Nat \ {0}
  BY LatestType
<1>3. /\ seq \in Seq(Attempt)
      /\ Len(seq) = Len(r.tries)
      /\ \A j \in 1..Len(r.tries) : seq[j] = IF j = i THEN a ELSE r.tries[j]
  BY <1>1, <1>2, ExceptSeq
<1>4. seq # <<>>
  BY <1>2, <1>3, EmptySeq
<1>5. DOMAIN seq = DOMAIN r.tries
  BY <1>2, <1>3, LenProperties
<1>6. PutAttempt(r, i, a) = [state |-> r.state, tries |-> seq]
  BY DEF PutAttempt
<1> HIDE DEF seq
<1> QED
  BY <1>1, <1>2, <1>3, <1>4, <1>5, <1>6 DEF Sound, Row

\* Writing one attempt's state leaves its lease and the rest of the row alone.
LEMMA SetAttemptFacts ==
  ASSUME NEW r, Sound(r), NEW i \in DOMAIN r.tries, NEW to \in States
  PROVE  /\ Sound(SetAttempt(r, i, to))
         /\ SetAttempt(r, i, to).state = r.state
         /\ Len(SetAttempt(r, i, to).tries) = Len(r.tries)
         /\ DOMAIN SetAttempt(r, i, to).tries = DOMAIN r.tries
         /\ \A j \in DOMAIN r.tries :
              SetAttempt(r, i, to).tries[j].state =
                IF j = i THEN to ELSE r.tries[j].state
<1> DEFINE a == [state |-> to, lease |-> r.tries[i].lease]
<1>1. a \in Attempt
  BY LatestType DEF Attempt
<1>2. a.state = to
  OBVIOUS
<1>3. SetAttempt(r, i, to) = PutAttempt(r, i, a)
  BY DEF SetAttempt
<1> HIDE DEF a
<1> QED
  BY <1>1, <1>2, <1>3, PutAttemptFacts

\* Writing the newest attempt.
LEMMA SetLatestFacts ==
  ASSUME NEW r, Sound(r), NEW to \in States
  PROVE  /\ Sound(SetLatest(r, to))
         /\ SetLatest(r, to).state = r.state
         /\ Len(SetLatest(r, to).tries) = Len(r.tries)
         /\ DOMAIN SetLatest(r, to).tries = DOMAIN r.tries
         /\ Latest(SetLatest(r, to)).state = to
         /\ \A j \in DOMAIN r.tries : j # Len(r.tries) =>
              SetLatest(r, to).tries[j].state = r.tries[j].state
<1>1. Len(r.tries) \in DOMAIN r.tries
  BY LatestType
<1>2. SetLatest(r, to) = SetAttempt(r, Len(r.tries), to)
  BY DEF SetLatest
<1> QED
  BY <1>1, <1>2, SetAttemptFacts DEF Latest
-----------------------------------------------------------------------------
(* The four kinds of write, and what they keep.                            *)

\* A task write is a rewrite unless it moves a completed task.
LEMMA SetTaskKeeps ==
  ASSUME NEW r, Sound(r), OldTriesDone(r), NEW to \in States,
         r.state = "completed" => to = "completed"
  PROVE  Rewrites(r, SetTask(r, to)) /\ OldTriesDone(SetTask(r, to))
BY SetTaskFacts, LatestType DEF OldTriesDone, Rewrites

\* So is a write to the newest attempt.
LEMMA SetLatestKeeps ==
  ASSUME NEW r, Sound(r), OldTriesDone(r), NEW to \in States
  PROVE  Rewrites(r, SetLatest(r, to)) /\ OldTriesDone(SetLatest(r, to))
<1> DEFINE q == SetLatest(r, to)
<1>1. Len(r.tries) \in Nat /\ DOMAIN r.tries = 1..Len(r.tries)
  BY LatestType
<1>2. /\ Sound(q) /\ q.state = r.state /\ Len(q.tries) = Len(r.tries)
      /\ DOMAIN q.tries = DOMAIN r.tries
      /\ \A j \in DOMAIN r.tries : j # Len(r.tries) => q.tries[j].state = r.tries[j].state
  BY SetLatestFacts
<1> HIDE DEF q
<1>3. Rewrites(r, q)
  BY <1>1, <1>2 DEF Rewrites
<1>4. OldTriesDone(q)
  BY <1>1, <1>2 DEF OldTriesDone
<1> QED
  BY <1>3, <1>4 DEF q

\* A rewrite of a rewrite is one.
LEMMA RewritesTransitive ==
  ASSUME NEW p, NEW q, NEW r, Sound(p), Rewrites(p, q), Rewrites(q, r)
  PROVE  Rewrites(p, r)
<1>1. Len(p.tries) \in Nat /\ Len(q.tries) \in Nat /\ Len(r.tries) \in Nat
  BY LatestType DEF Rewrites
<1> QED
  BY <1>1 DEF Rewrites

\* Both writes of a transition, the task first.
LEMMA SetBothKeeps ==
  ASSUME NEW r, Sound(r), OldTriesDone(r), NEW task \in States, NEW last \in States,
         r.state = "completed" => task = "completed"
  PROVE  LET q == SetLatest(SetTask(r, task), last) IN
         /\ Rewrites(r, q) /\ OldTriesDone(q)
         /\ q.state = task /\ Latest(q).state = last
         /\ Len(q.tries) = Len(r.tries)
<1> DEFINE q == SetLatest(SetTask(r, task), last)
<1>1. Rewrites(r, SetTask(r, task)) /\ OldTriesDone(SetTask(r, task))
  BY SetTaskKeeps
<1>2. Rewrites(SetTask(r, task), q) /\ OldTriesDone(q)
  BY <1>1, SetLatestKeeps DEF Rewrites
<1>3. Rewrites(r, q)
  BY <1>1, <1>2, RewritesTransitive
<1>4. /\ q.state = task /\ Latest(q).state = last
      /\ Len(q.tries) = Len(r.tries)
  <2>1. /\ Sound(SetTask(r, task)) /\ SetTask(r, task).state = task
        /\ SetTask(r, task).tries = r.tries
    BY SetTaskFacts
  <2>2. /\ q.state = SetTask(r, task).state
        /\ Latest(q).state = last
        /\ Len(q.tries) = Len(SetTask(r, task).tries)
    BY <2>1, SetLatestFacts
  <2> QED
    BY <2>1, <2>2
<1> QED
  BY <1>2, <1>3, <1>4

-----------------------------------------------------------------------------
(* Cancellation.                                                           *)

\* cancel_single_task, finished or cut short, keeps a row in order and under its loop.
LEMMA CancelKeeps ==
  ASSUME NEW r, Sound(r), NEW d \in BOOLEAN, RowOK(r, d),
         NEW q \in {CancelRow(r), CancelHalf(r)}
  PROVE  /\ Rewrites(r, q) /\ RowOK(q, d)
         /\ Len(q.tries) = Len(r.tries)
         /\ WorkedOn(r, d) => WorkedOn(q, d)
<1> DEFINE to == CancelTarget(r)
<1>1. to \in {"cancel_requested", "cancelled"} /\ to \in States
  BY DEF CancelTarget, States
<1>2. r.state \in States /\ Latest(r).state \in States
  BY LatestType
<1>3. CASE q = r
  BY <1>3, LatestType DEF Rewrites
<1>4. CASE /\ q = SetTask(r, to)
           /\ ~CancelIgnored(r) /\ CancelTaskAllowed(r)
  <2>1. r.state \notin {"completed", "failed"} 
    BY <1>4 DEF CancelIgnored, Terminal
  <2>2. Rewrites(r, q) /\ OldTriesDone(q)
    BY <1>1, <1>4, <2>1, SetTaskKeeps DEF RowOK
  <2>3. q.state = to /\ Latest(q) = Latest(r) /\ q.tries = r.tries
    BY <1>1, <1>4, SetTaskFacts
  <2>4. Fits(to, Latest(r).state, d)
    BY <1>1, <1>2, <1>4 DEF Fits, RowOK, CancelTarget, CancelTaskAllowed, CanMove
  <2> QED
    BY <1>1, <2>2, <2>3, <2>4 DEF RowOK, WorkedOn
<1>5. CASE /\ q = SetLatest(SetTask(r, to), to)
           /\ ~CancelIgnored(r) /\ CancelTaskAllowed(r) /\ CancelAttemptAllowed(r)
  <2>1. r.state \notin {"completed", "failed"} 
    BY <1>5 DEF CancelIgnored, Terminal
  <2>2. /\ Rewrites(r, q) /\ OldTriesDone(q)
        /\ q.state = to /\ Latest(q).state = to
        /\ Len(q.tries) = Len(r.tries)
    BY <1>1, <1>5, <2>1, SetBothKeeps DEF RowOK
  <2>3. Fits(to, to, d)
    BY <1>1 DEF Fits
  <2>4. WorkedOn(r, d) => to = "cancel_requested"
    BY <1>5 DEF WorkedOn, CancelTarget, CancelAttemptAllowed, CanMoveAttempt, CanMove
  <2> QED
    BY <1>1, <2>2, <2>3, <2>4 DEF RowOK, WorkedOn
<1> QED
  BY <1>3, <1>4, <1>5 DEF CancelRow, CancelHalf
-----------------------------------------------------------------------------
(* A task as it is first stored, and a task that starts over.              *)

\* Appending an attempt to a row whose newest one is out of the way.
LEMMA AppendKeeps ==
  ASSUME NEW r, Sound(r), OldTriesDone(r), NEW a \in Attempt,
         Latest(r).state \notin {"ready", "running"}
  PROVE  LET q == [state |-> r.state, tries |-> Append(r.tries, a)] IN
         Rewrites(r, q) /\ OldTriesDone(q) /\ q.state = r.state /\ Latest(q) = a
<1> DEFINE seq == Append(r.tries, a)
           q == [state |-> r.state, tries |-> seq]
           n == Len(r.tries)
<1>1. /\ n \in Nat \ {0} /\ DOMAIN r.tries = 1..n /\ Latest(r) = r.tries[n]
      /\ r.tries \in Seq(Attempt) /\ r.state \in States
  BY LatestType DEF Sound, Row
<1>2. /\ seq \in Seq(Attempt) /\ seq # <<>> /\ Len(seq) = n + 1
      /\ \A i \in 1..n : seq[i] = r.tries[i]
      /\ seq[n + 1] = a
  BY <1>1, AppendProperties
<1>3. DOMAIN seq = 1..(n + 1)
  BY <1>1, <1>2, LenProperties
<1> HIDE DEF seq
<1>4. Sound(q) /\ q.state = r.state /\ q.tries = seq
  BY <1>1, <1>2 DEF Sound, Row
<1>5. Latest(q) = a
  BY <1>2, <1>4 DEF Latest
<1>6. Rewrites(r, q)
  BY <1>1, <1>2, <1>4 DEF Rewrites
<1>7. OldTriesDone(q)
  <2> SUFFICES ASSUME NEW i \in 1..(n + 1), i < n + 1
               PROVE  seq[i].state \notin {"ready", "running"}
    BY <1>2, <1>3, <1>4 DEF OldTriesDone
  <2>1. i \in 1..n /\ seq[i] = r.tries[i]
    BY <1>1, <1>2
  <2>2. CASE i < n
    BY <1>1, <2>1, <2>2 DEF OldTriesDone
  <2>3. CASE i = n
    BY <1>1, <2>1, <2>3
  <2> QED
    BY <1>1, <2>1, <2>2, <2>3
<1> QED
  BY <1>4, <1>5, <1>6, <1>7 DEF seq

\* A task just created is in order, whether or not its bootstrap failed.
LEMMA NewRowOK ==
  ASSUME NEW d \in BOOLEAN, NEW r \in {NewRow, InterruptRow(NewRow, 1)}
  PROVE  Sound(r) /\ RowOK(r, d)
<1> DEFINE a == QueuedAttempt("none")
<1>1. a \in Attempt /\ a.state = "queued" /\ "interrupted" \in States
  BY DEF QueuedAttempt, Attempt, States, Leases
<1>2. <<a>> \in Seq(Attempt) /\ Len(<<a>>) = 1 /\ <<a>> # <<>> /\ <<a>>[1] = a
  BY <1>1
<1>3. NewRow = [state |-> "queued", tries |-> <<a>>]
  BY DEF NewRow
<1>4. Sound(NewRow)
  BY <1>2, <1>3 DEF Sound, Row, States
<1>5. /\ NewRow.state = "queued" /\ Len(NewRow.tries) = 1 /\ NewRow.tries[1] = a
      /\ Latest(NewRow) = a
  BY <1>2, <1>3 DEF Latest
<1>6. OldTriesDone(NewRow) /\ RowOK(NewRow, d)
  BY <1>1, <1>4, <1>5, LatestType DEF RowOK, OldTriesDone, Fits
<1>7. InterruptRow(NewRow, 1) = SetTask(SetLatest(NewRow, "interrupted"), "interrupted")
  <2>1. InterruptHalf(NewRow, 1) = SetLatest(NewRow, "interrupted")
    BY <1>1, <1>5 DEF InterruptHalf, SetLatest, Stoppable
  <2>2. SetLatest(NewRow, "interrupted").state = "queued"
    BY <1>1, <1>4, <1>5, SetLatestFacts
  <2> QED
    BY <2>1, <2>2 DEF InterruptRow, Stoppable
<1>8. Sound(InterruptRow(NewRow, 1)) /\ RowOK(InterruptRow(NewRow, 1), d)
  <2> DEFINE h == SetLatest(NewRow, "interrupted")
  <2>1. /\ Sound(h) /\ OldTriesDone(h) /\ Latest(h).state = "interrupted"
        /\ h.state = "queued"
    BY <1>1, <1>4, <1>5, <1>6, SetLatestFacts, SetLatestKeeps
  <2> HIDE DEF h
  <2>2. /\ Sound(SetTask(h, "interrupted")) /\ OldTriesDone(SetTask(h, "interrupted"))
        /\ SetTask(h, "interrupted").state = "interrupted"
        /\ Latest(SetTask(h, "interrupted")) = Latest(h)
    BY <1>1, <2>1, SetTaskFacts, SetTaskKeeps
  <2> QED
    BY <1>7, <2>1, <2>2 DEF RowOK, Fits, h
<1> QED
  BY <1>4, <1>6, <1>8

\* A retry, resume or recovery, whole or cut short after any of its writes.
LEMMA FreshKeeps ==
  ASSUME NEW r, Sound(r), NEW d \in BOOLEAN, RowOK(r, d),
         NEW source \in {"failed", "interrupted"}, NEW carry \in BOOLEAN,
         NEW n \in 1..4, r.state \in {source, "retryable"}
  PROVE  LET q == FreshStage(r, source, carry, n) IN
         /\ Rewrites(r, q) /\ RowOK(q, d)
         /\ n = 4 => Latest(q).state = "queued"
<1> DEFINE r1 == IF r.state = source THEN SetTask(r, "retryable") ELSE r
           r2 == IF Latest(r).state \in {"failed", "interrupted"}
                 THEN SetLatest(r1, "retryable") ELSE r1
           lease == IF carry THEN Latest(r).lease ELSE "none"
           r3 == [state |-> r2.state, tries |-> Append(r2.tries, QueuedAttempt(lease))]
           r4 == SetTask(r3, "queued")
<1>1. "retryable" \in States /\ "queued" \in States
  BY DEF States
<1>2. Latest(r).state \in {"failed", "interrupted", "retryable", "queued"}
  BY DEF RowOK, Fits
<1>3. /\ Rewrites(r, r1) /\ OldTriesDone(r1) /\ r1.state = "retryable"
      /\ Latest(r1) = Latest(r)
  <2>1. CASE r.state = source
    BY <1>1, <2>1, SetTaskFacts, SetTaskKeeps DEF RowOK
  <2>2. CASE r.state # source
    BY <2>2, LatestType DEF RowOK, Rewrites
  <2> QED
    BY <2>1, <2>2
<1> HIDE DEF r1
<1>4. /\ Rewrites(r, r2) /\ OldTriesDone(r2) /\ r2.state = "retryable"
      /\ Latest(r2).state \in {"retryable", "queued"}
  <2>1. CASE Latest(r).state \in {"failed", "interrupted"}
    <3>1. Rewrites(r1, r2) /\ OldTriesDone(r2)
      BY <1>1, <1>3, <2>1, SetLatestKeeps DEF Rewrites
    <3>2. r2.state = "retryable" /\ Latest(r2).state = "retryable"
      BY <1>1, <1>3, <2>1, SetLatestFacts DEF Rewrites
    <3> QED
      BY <1>3, <3>1, <3>2, RewritesTransitive
  <2>2. CASE Latest(r).state \notin {"failed", "interrupted"}
    BY <1>2, <1>3, <2>2
  <2> QED
    BY <2>1, <2>2
<1> HIDE DEF r2
<1>5. QueuedAttempt(lease) \in Attempt /\ QueuedAttempt(lease).state = "queued"
  BY <1>1, LatestType DEF QueuedAttempt, Attempt, Leases
<1>6. /\ Rewrites(r, r3) /\ OldTriesDone(r3) /\ r3.state = "retryable"
      /\ Latest(r3).state = "queued"
  <2>1. Sound(r2)
    BY <1>4 DEF Rewrites
  <2>2. /\ Rewrites(r2, r3) /\ OldTriesDone(r3) /\ r3.state = r2.state
        /\ Latest(r3) = QueuedAttempt(lease)
    BY <1>4, <1>5, <2>1, AppendKeeps
  <2> HIDE DEF r3, lease
  <2> QED
    BY <1>4, <1>5, <2>2, RewritesTransitive
<1> HIDE DEF r3, lease
<1>7. Rewrites(r, r4) /\ OldTriesDone(r4) /\ r4.state = "queued" /\ Latest(r4).state = "queued"
  <2>1. Sound(r3)
    BY <1>6 DEF Rewrites
  <2>2. Rewrites(r3, r4) /\ OldTriesDone(r4)
    BY <1>1, <1>6, <2>1, SetTaskKeeps
  <2>3. r4.state = "queued" /\ Latest(r4) = Latest(r3)
    BY <1>1, <2>1, SetTaskFacts
  <2> QED
    BY <1>6, <2>2, <2>3, RewritesTransitive
<1> HIDE DEF r4
<1>8. RowOK(r1, d) /\ RowOK(r2, d) /\ RowOK(r3, d) /\ RowOK(r4, d)
  BY <1>2, <1>3, <1>4, <1>6, <1>7 DEF RowOK, Fits
<1>9. FreshStage(r, source, carry, n) =
        CASE n = 1 -> r1 [] n = 2 -> r2 [] n = 3 -> r3 [] OTHER -> r4
  BY DEF FreshStage, r1, r2, r3, r4, lease
<1> QED
  BY <1>3, <1>4, <1>6, <1>7, <1>8, <1>9
-----------------------------------------------------------------------------
(* The candidate scan and the claim.                                       *)

\* The candidate scan keeps a row in order and under its loop.
LEMMA VisitKeeps ==
  ASSUME NEW r, Sound(r), NEW d \in BOOLEAN, RowOK(r, d),
         NEW q \in {VisitHalf(r, d), VisitRow(r, d)}
  PROVE  /\ Rewrites(r, q) /\ RowOK(q, d)
         /\ Len(q.tries) = Len(r.tries)
         /\ WorkedOn(r, d) => WorkedOn(q, d)
<1> DEFINE to == IF d THEN "ready" ELSE "blocked"
           from == IF d THEN {"queued", "blocked", "retryable"} ELSE {"ready", "running"}
           half == VisitHalf(r, d)
<1>1. to \in States /\ Len(r.tries) \in Nat
  BY LatestType DEF States
<1>2. r.state \in States /\ Latest(r).state \in States
  BY LatestType
<1>3. /\ Rewrites(r, half) /\ OldTriesDone(half) /\ Len(half.tries) = Len(r.tries)
      /\ Latest(half) = Latest(r)
      /\ half.state = IF ~Skipped(r) /\ r.state \in from THEN to ELSE r.state
  <2>1. CASE ~Skipped(r) /\ r.state \in from
    <3>1. half = SetTask(r, to)
      BY <2>1 DEF VisitHalf
    <3>2. r.state # "completed"
      BY <2>1 DEF Skipped, Terminal
    <3> QED
      BY <1>1, <2>1, <3>1, <3>2, SetTaskFacts, SetTaskKeeps DEF RowOK
  <2>2. CASE ~(~Skipped(r) /\ r.state \in from)
    <3>1. half = r
      BY <2>2 DEF VisitHalf
    <3> QED
      BY <1>1, <2>2, <3>1 DEF RowOK, Rewrites
  <2> QED
    BY <2>1, <2>2
<1> HIDE DEF half
<1>4. RowOK(half, d) /\ (WorkedOn(r, d) => WorkedOn(half, d))
  BY <1>2, <1>3 DEF RowOK, Fits, WorkedOn, Skipped, Terminal
<1>5. CASE q = half
  BY <1>3, <1>4, <1>5
<1>6. CASE q = VisitRow(r, d) /\ q # half
  <2>1. /\ ~Skipped(r) /\ Latest(r).state \in from
        /\ q = SetLatest(half, to)
    BY <1>6 DEF VisitRow, half
  <2>2. Sound(half)
    BY <1>3 DEF Rewrites
  <2>3. Rewrites(half, q) /\ OldTriesDone(q)
    BY <1>1, <1>3, <2>1, <2>2, SetLatestKeeps
  <2>4. /\ q.state = half.state /\ Latest(q).state = to
        /\ Len(q.tries) = Len(half.tries)
    BY <1>1, <2>1, <2>2, SetLatestFacts
  <2>5. Rewrites(r, q)
    BY <1>3, <2>3, RewritesTransitive
  <2>6. RowOK(q, d)
    <3>1. half.state \in {"queued", "ready", "blocked"}
      BY <1>2, <1>3, <2>1 DEF RowOK, Fits, Skipped, Terminal, States
    <3>2. d => half.state = "ready"
      BY <1>2, <1>3, <2>1 DEF RowOK, Fits, Skipped, Terminal, States
    <3> QED
      BY <2>3, <2>4, <3>1, <3>2 DEF RowOK, Fits
  <2>7. ~WorkedOn(r, d)
    BY <2>1 DEF WorkedOn
  <2> QED
    BY <1>3, <2>4, <2>5, <2>6, <2>7
<1> QED
  BY <1>5, <1>6 DEF half

\* One attempt rewritten in place, with the state it may come to have.
LEMMA PutKeeps ==
  ASSUME NEW r, Sound(r), NEW d \in BOOLEAN, RowOK(r, d),
         NEW i \in DOMAIN r.tries, NEW a \in Attempt,
         i = Len(r.tries) => Fits(r.state, a.state, d),
         i # Len(r.tries) => a.state = r.tries[i].state
  PROVE  LET q == PutAttempt(r, i, a) IN
         /\ Rewrites(r, q) /\ RowOK(q, d)
         /\ Len(q.tries) = Len(r.tries)
         /\ q.state = r.state
         /\ Latest(q) = IF i = Len(r.tries) THEN a ELSE Latest(r)
<1> DEFINE q == PutAttempt(r, i, a)
           n == Len(r.tries)
<1>1. /\ n \in Nat \ {0} /\ n \in DOMAIN r.tries /\ DOMAIN r.tries = 1..n
      /\ Latest(r) = r.tries[n]
  BY LatestType
<1>2. /\ Sound(q) /\ q.state = r.state /\ Len(q.tries) = n /\ DOMAIN q.tries = DOMAIN r.tries
      /\ \A j \in DOMAIN r.tries : q.tries[j] = IF j = i THEN a ELSE r.tries[j]
  BY PutAttemptFacts
<1> HIDE DEF q
<1>3. Rewrites(r, q)
  BY <1>1, <1>2 DEF Rewrites
<1>4. Latest(q) = IF i = n THEN a ELSE Latest(r)
  BY <1>1, <1>2 DEF Latest
<1>5. OldTriesDone(q)
  BY <1>1, <1>2 DEF RowOK, OldTriesDone
<1>6. Fits(q.state, Latest(q).state, d)
  BY <1>2, <1>4 DEF RowOK
<1> QED
  BY <1>2, <1>3, <1>4, <1>5, <1>6 DEF RowOK, q

\* The passing of a lease's time.
LEMMA RunOutKeeps ==
  ASSUME NEW r, Sound(r), NEW d \in BOOLEAN, RowOK(r, d), NEW i \in DOMAIN r.tries
  PROVE  LET q == PutAttempt(r, i, [state |-> r.tries[i].state, lease |-> "due"]) IN
         /\ Rewrites(r, q) /\ RowOK(q, d)
         /\ Len(q.tries) = Len(r.tries)
         /\ WorkedOn(r, d) => WorkedOn(q, d)
<1> DEFINE a == [state |-> r.tries[i].state, lease |-> "due"]
<1>1. a \in Attempt /\ a.state = r.tries[i].state
  BY LatestType DEF Attempt, Leases
<1>2. /\ Latest(r) = r.tries[Len(r.tries)]
      /\ Len(r.tries) \in Nat /\ DOMAIN r.tries = 1..Len(r.tries)
  BY LatestType
<1>3. i = Len(r.tries) => Fits(r.state, a.state, d)
  BY <1>1, <1>2 DEF RowOK
<1> HIDE DEF a
<1>5. LET q == PutAttempt(r, i, a) IN
        /\ Rewrites(r, q) /\ RowOK(q, d) /\ Len(q.tries) = Len(r.tries)
        /\ q.state = r.state /\ Latest(q).state = Latest(r).state
  BY <1>1, <1>2, <1>3, PutKeeps
<1> QED
  BY <1>5 DEF WorkedOn, a

\* A claim wins only on the newest attempt of a row no loop works on.
LEMMA ClaimKeeps ==
  ASSUME NEW r, Sound(r), NEW d \in BOOLEAN, RowOK(r, d), NEW i \in DOMAIN r.tries
  PROVE  /\ Rewrites(r, ClaimRow(r, i)) /\ RowOK(ClaimRow(r, i), d)
         /\ Len(ClaimRow(r, i).tries) = Len(r.tries)
         /\ WorkedOn(r, d) => WorkedOn(ClaimRow(r, i), d)
         /\ ClaimWins(r, i) =>
              i = Len(r.tries) /\ ~WorkedOn(r, d) /\ WorkedOn(ClaimRow(r, i), d)
<1> DEFINE n == Len(r.tries)
           won == [state |-> "running", lease |-> "live"]
           lost == [state |-> "interrupted", lease |-> r.tries[i].lease]
<1>1. /\ n \in Nat /\ DOMAIN r.tries = 1..n /\ Latest(r) = r.tries[n]
      /\ r.state \in States /\ r.tries[i] \in Attempt
  BY LatestType
<1>2. /\ won \in Attempt /\ won.state = "running"
      /\ lost \in Attempt /\ lost.state = "interrupted"
  BY <1>1 DEF Attempt, States, Leases
<1>3. CASE ClaimWins(r, i)
  <2>1. i = n /\ Latest(r).state = "ready"
    BY <1>1, <1>3 DEF ClaimWins, RowOK, OldTriesDone
  <2>2. r.state \in {"ready", "cancelled"} /\ d
    BY <2>1 DEF RowOK, Fits
  <2>3. Fits(r.state, "running", d)
    BY <2>2 DEF Fits
  <2>4. ClaimRow(r, i) = PutAttempt(r, i, won)
    BY <1>3 DEF ClaimRow
  <2> HIDE DEF won
  <2>5. /\ Rewrites(r, ClaimRow(r, i)) /\ RowOK(ClaimRow(r, i), d)
        /\ Len(ClaimRow(r, i).tries) = n
        /\ ClaimRow(r, i).state = r.state /\ Latest(ClaimRow(r, i)) = won
    BY <1>2, <2>1, <2>3, <2>4, PutKeeps
  <2> QED
    BY <1>2, <2>1, <2>2, <2>5 DEF WorkedOn
<1>4. CASE ~ClaimWins(r, i) /\ ClaimRow(r, i) # r
  <2>1. r.tries[i].state = "running" /\ ClaimRow(r, i) = PutAttempt(r, i, lost)
    BY <1>4 DEF ClaimRow, ExpireAttempt, SetAttempt
  <2>2. i = n /\ Latest(r).state = "running"
    BY <1>1, <2>1 DEF RowOK, OldTriesDone
  <2>3. Fits(r.state, "interrupted", d)
    BY <1>1, <2>2 DEF RowOK, Fits
  <2> HIDE DEF lost
  <2>4. /\ Rewrites(r, ClaimRow(r, i)) /\ RowOK(ClaimRow(r, i), d)
        /\ Len(ClaimRow(r, i).tries) = n
        /\ ClaimRow(r, i).state = r.state /\ Latest(ClaimRow(r, i)) = lost
    BY <1>2, <2>1, <2>2, <2>3, PutKeeps
  <2> QED
    BY <1>2, <1>4, <2>4 DEF WorkedOn
<1>5. CASE ~ClaimWins(r, i) /\ ClaimRow(r, i) = r
  BY <1>1, <1>5 DEF Rewrites
<1> QED
  BY <1>3, <1>4, <1>5
-----------------------------------------------------------------------------
(* What a loop writes to the row it works on.                              *)

\* The task is set to running, by the loop or by the bootstrap.
LEMMA StartKeeps ==
  ASSUME NEW r, Sound(r), NEW d \in BOOLEAN, RowOK(r, d), WorkedOn(r, d),
         r.state = "ready"
  PROVE  LET q == SetTask(r, "running") IN
         Rewrites(r, q) /\ RowOK(q, d) /\ WorkedOn(q, d) /\ Len(q.tries) = Len(r.tries)
<1>1. "running" \in States
  BY DEF States
<1>2. LET q == SetTask(r, "running") IN
        /\ Rewrites(r, q) /\ OldTriesDone(q)
        /\ q.state = "running" /\ q.tries = r.tries /\ Latest(q) = Latest(r)
  BY <1>1, SetTaskFacts, SetTaskKeeps DEF RowOK
<1> QED
  BY <1>2 DEF RowOK, Fits, WorkedOn

\* So does the task's following of its running attempt.
LEMMA EnsureKeeps ==
  ASSUME NEW r, Sound(r), NEW d \in BOOLEAN, RowOK(r, d), WorkedOn(r, d),
         NEW i \in DOMAIN r.tries
  PROVE  LET q == EnsureRow(r, i) IN
         Rewrites(r, q) /\ RowOK(q, d) /\ WorkedOn(q, d) /\ Len(q.tries) = Len(r.tries)
<1>1. CASE EnsureRow(r, i) = r
  BY <1>1, LatestType DEF Rewrites
<1>2. CASE EnsureRow(r, i) # r
  <2>1. EnsureRow(r, i) = SetTask(r, "running") /\ CanMove(r.state, "running")
    BY <1>2 DEF EnsureRow, EnsureNeeded, EnsureRefused
  <2>2. r.state = "ready"
    BY <2>1 DEF WorkedOn, CanMove
  <2> QED
    BY <2>1, <2>2, StartKeeps
<1> QED
  BY <1>1, <1>2

\* The newest attempt's state is set to how the work on it stopped.
LEMMA StopAttempt ==
  ASSUME NEW r, Sound(r), NEW d \in BOOLEAN, RowOK(r, d), WorkedOn(r, d),
         NEW end \in {"completed", "failed", "interrupted"}
  PROVE  LET q == SetAttempt(r, Len(r.tries), end) IN
         /\ Rewrites(r, q) /\ RowOK(q, d) /\ Len(q.tries) = Len(r.tries)
         /\ q.state = r.state /\ Latest(q).state = end
<1> DEFINE n == Len(r.tries)
           a == [state |-> end, lease |-> r.tries[n].lease]
<1>1. n \in DOMAIN r.tries /\ r.tries[n] \in Attempt
  BY LatestType
<1>2. a \in Attempt /\ a.state = end
  BY <1>1 DEF Attempt, States
<1>3. Fits(r.state, end, d)
  BY DEF RowOK, Fits, WorkedOn
<1>4. SetAttempt(r, n, end) = PutAttempt(r, n, a)
  BY DEF SetAttempt
<1> HIDE DEF a
<1> QED
  BY <1>1, <1>2, <1>3, <1>4, PutKeeps

\* ... and the task follows.
LEMMA StopTask ==
  ASSUME NEW r, Sound(r), NEW d \in BOOLEAN, RowOK(r, d),
         NEW end \in {"completed", "failed", "interrupted"},
         Latest(r).state = end, r.state # "completed"
  PROVE  LET q == SetTask(r, end) IN
         Rewrites(r, q) /\ RowOK(q, d) /\ Len(q.tries) = Len(r.tries)
<1>1. end \in States
  BY DEF States
<1>2. LET q == SetTask(r, end) IN
        /\ Rewrites(r, q) /\ OldTriesDone(q)
        /\ q.state = end /\ q.tries = r.tries /\ Latest(q) = Latest(r)
  BY <1>1, SetTaskFacts, SetTaskKeeps DEF RowOK
<1> QED
  BY <1>2 DEF RowOK, Fits

\* A failed bootstrap, finished or cut short, keeps its row in order.
LEMMA InterruptKeeps ==
  ASSUME NEW r, Sound(r), NEW d \in BOOLEAN, RowOK(r, d), WorkedOn(r, d),
         NEW q \in {InterruptHalf(r, Len(r.tries)), InterruptRow(r, Len(r.tries))}
  PROVE  Rewrites(r, q) /\ RowOK(q, d) /\ Len(q.tries) = Len(r.tries)
<1> DEFINE n == Len(r.tries)
           half == InterruptHalf(r, n)
<1>1. /\ Rewrites(r, half) /\ RowOK(half, d) /\ Len(half.tries) = n
      /\ half.state = r.state /\ Latest(half).state = "interrupted"
  <2>1. n \in Nat /\ Latest(r) = r.tries[n]
    BY LatestType
  <2>2. CASE Latest(r).state = "interrupted"
    BY <2>1, <2>2 DEF InterruptHalf, Stoppable, Rewrites
  <2>3. CASE Latest(r).state \in {"running", "cancel_requested"}
    <3>1. half = SetAttempt(r, n, "interrupted")
      BY <2>1, <2>3 DEF InterruptHalf, Stoppable
    <3> QED
      BY <3>1, StopAttempt
  <2> QED
    BY <2>2, <2>3 DEF WorkedOn
<1> HIDE DEF half
<1>2. CASE q = half
  BY <1>1, <1>2
<1>3. CASE q = SetTask(half, "interrupted")
  <2>1. half.state # "completed" /\ Sound(half)
    BY <1>1 DEF WorkedOn, Rewrites
  <2>2. /\ Rewrites(half, SetTask(half, "interrupted"))
        /\ RowOK(SetTask(half, "interrupted"), d)
        /\ Len(SetTask(half, "interrupted").tries) = Len(half.tries)
    BY <1>1, <2>1, StopTask
  <2> QED
    BY <1>1, <1>3, <2>2, RewritesTransitive
<1> QED
  BY <1>2, <1>3 DEF InterruptRow, half

\* So does the record of a turn's end: cut short, it leaves the task behind its
\* attempt and never ahead.
LEMMA RecordKeeps ==
  ASSUME NEW r, Sound(r), NEW d \in BOOLEAN, RowOK(r, d), WorkedOn(r, d),
         NEW end \in {"completed", "failed", "interrupted"},
         NEW q \in {RecordHalf(r, Len(r.tries), end), RecordRow(r, Len(r.tries), end)}
  PROVE  Rewrites(r, q) /\ RowOK(q, d) /\ Len(q.tries) = Len(r.tries)
<1> DEFINE n == Len(r.tries)
           half == RecordHalf(r, n, end)
<1>1. CASE half = r
  <2>1. Rewrites(r, half) /\ RowOK(half, d) /\ Len(half.tries) = n
    BY <1>1, LatestType DEF Rewrites
  <2>2. CASE q = half
    BY <2>1, <2>2
  <2>3. CASE q # half
    <3>1. q = SetTask(r, end) /\ RecordAttemptAllowed(r, n, end)
      BY <1>1, <2>3 DEF RecordRow, RecordFails
    <3>2. Latest(r).state = end
      BY <1>1, <3>1, SetAttemptFacts, LatestType DEF RecordHalf, States
    <3> QED
      BY <3>1, <3>2, StopTask DEF WorkedOn
  <2> QED
    BY <2>2, <2>3
<1>2. CASE half = SetAttempt(r, n, end)
  <2>1. /\ Rewrites(r, half) /\ RowOK(half, d) /\ Len(half.tries) = n
        /\ half.state = r.state /\ Latest(half).state = end
    BY <1>2, StopAttempt
  <2>2. CASE q = half
    BY <2>1, <2>2
  <2>3. CASE q # half
    <3>1. q = SetTask(half, end)
      BY <2>3 DEF RecordRow
    <3> HIDE DEF half
    <3>2. Sound(half) /\ half.state # "completed"
      BY <2>1 DEF Rewrites, WorkedOn
    <3>3. Rewrites(half, q) /\ RowOK(q, d) /\ Len(q.tries) = Len(half.tries)
      BY <2>1, <3>1, <3>2, StopTask
    <3> QED
      BY <2>1, <3>3, RewritesTransitive
  <2> QED
    BY <2>2, <2>3
<1> QED
  BY <1>1, <1>2 DEF RecordHalf
-----------------------------------------------------------------------------
(* The startup sweep on one row.                                           *)

\* An expired newest attempt: nothing but its state changes.
LEMMA ExpireKeeps ==
  ASSUME NEW r, Sound(r), NEW d \in BOOLEAN, RowOK(r, d)
  PROVE  LET q == ExpireAttempt(r, Len(r.tries)) IN
         /\ Rewrites(r, q) /\ RowOK(q, d) /\ q.state = r.state
         /\ q # r => Latest(r).state = "running" /\ Latest(q).state = "interrupted"
<1> DEFINE n == Len(r.tries)
           a == [state |-> "interrupted", lease |-> r.tries[n].lease]
           q == ExpireAttempt(r, n)
<1>1. n \in DOMAIN r.tries /\ r.tries[n] \in Attempt /\ Latest(r) = r.tries[n] /\ n \in Nat
  BY LatestType
<1>2. CASE q = r
  BY <1>1, <1>2 DEF Rewrites
<1>3. CASE q # r
  <2>1. r.tries[n].state = "running" /\ q = PutAttempt(r, n, a)
    BY <1>3 DEF ExpireAttempt, SetAttempt
  <2>2. a \in Attempt /\ a.state = "interrupted"
    BY <1>1 DEF Attempt, States
  <2>3. Fits(r.state, "interrupted", d)
    BY <1>1, <2>1 DEF RowOK, Fits
  <2> HIDE DEF a, q
  <2>4. /\ Rewrites(r, q) /\ RowOK(q, d) /\ q.state = r.state /\ Latest(q) = a
    BY <1>1, <2>1, <2>2, <2>3, PutKeeps
  <2> QED
    BY <1>1, <2>1, <2>2, <2>4 DEF q
<1> QED
  BY <1>2, <1>3

\* The task follows an interrupted attempt.
LEMMA FollowInterrupted ==
  ASSUME NEW r, Sound(r), NEW d \in BOOLEAN, RowOK(r, d),
         Latest(r).state = "interrupted", r.state # "completed"
  PROVE  LET q == SetTask(r, "interrupted") IN Rewrites(r, q) /\ RowOK(q, d)
BY StopTask

\* The rows that startup recovery of one row goes through.
LEMMA RecoverIsOf ==
  ASSUME NEW r, NEW q \in {RecoverRow(r)} \cup RecoverStages(r)
  PROVE  LET r1 == Expired(r)
             r2 == Settled(r1)
         IN  \/ q \in {r, ExpireAttempt(r, Len(r.tries)), r1, r2}
             \/ /\ Restartable(r2)
                /\ \E n \in 1..4 : q = FreshStage(r2, "interrupted", TRUE, n)
<1> DEFINE r0 == ExpireAttempt(r, Len(r.tries))
           r1 == Expired(r)
           r2 == Settled(r1)
<1>1. CASE q = RecoverRow(r)
  <2>1. \/ q \in {r, r1, r2}
        \/ Restartable(r2) /\ q = FreshStage(r2, "interrupted", TRUE, 4)
    BY <1>1 DEF RecoverRow, FreshRow
  <2>2. 4 \in 1..4
    OBVIOUS
  <2> HIDE DEF r1, r2
  <2> QED
    BY <2>1, <2>2 DEF r1, r2
<1>2. CASE q \in RecoverStages(r)
  <2> DEFINE fresh == IF Restartable(r2)
                      THEN {FreshStage(r2, "interrupted", TRUE, n) : n \in 1..3} ELSE {}
  <2>1. q \in {r, r0, r1, r2} \cup fresh
    BY <1>2 DEF RecoverStages
  <2> HIDE DEF r0, r1, r2
  <2>2. ASSUME q \in fresh
        PROVE  Restartable(r2) /\ \E n \in 1..3 : q = FreshStage(r2, "interrupted", TRUE, n)
    BY <2>2
  <2>3. \A n \in 1..3 : n \in 1..4
    OBVIOUS
  <2> HIDE DEF fresh
  <2> QED
    BY <2>1, <2>2, <2>3 DEF r0, r1, r2
<1> QED
  BY <1>1, <1>2

\* Startup recovery of one row keeps it in order at every stage.
LEMMA RecoverKeeps ==
  ASSUME NEW r, Sound(r), NEW d \in BOOLEAN, RowOK(r, d),
         NEW q \in {RecoverRow(r)} \cup RecoverStages(r)
  PROVE  Rewrites(r, q) /\ RowOK(q, d)
<1> DEFINE r0 == ExpireAttempt(r, Len(r.tries))
           r1 == Expired(r)
           r2 == Settled(r1)
<1>1. Rewrites(r, r) /\ RowOK(r, d)
  BY LatestType DEF Rewrites
<1>2. Rewrites(r, r0) /\ RowOK(r0, d)
  BY ExpireKeeps
<1>3. Rewrites(r, r1) /\ RowOK(r1, d)
  <2>1. CASE r1 = r0
    BY <1>2, <2>1
  <2>2. CASE r1 # r0
    <3>1. r1 = SetTask(r0, "interrupted") /\ r0 # r /\ r0.state = "running"
      BY <2>2 DEF Expired
    <3>2. Latest(r0).state = "interrupted" /\ Sound(r0)
      BY <1>2, <3>1, ExpireKeeps DEF Rewrites
    <3>3. Rewrites(r0, r1) /\ RowOK(r1, d)
      BY <1>2, <3>1, <3>2, FollowInterrupted
    <3> QED
      BY <1>2, <3>3, RewritesTransitive
  <2> QED
    BY <2>1, <2>2
<1> HIDE DEF r0, r1
<1>4. Rewrites(r, r2) /\ RowOK(r2, d)
  <2>1. CASE r2 = r1
    BY <1>3, <2>1
  <2>2. CASE r2 # r1
    <3>1. /\ r2 = SetTask(r1, "interrupted") /\ Latest(r1).state = "interrupted"
          /\ r1.state # "completed"
      BY <2>2 DEF Settled
    <3>2. Rewrites(r1, r2) /\ RowOK(r2, d)
      BY <1>3, <3>1, FollowInterrupted DEF Rewrites
    <3> QED
      BY <1>3, <3>2, RewritesTransitive
  <2> QED
    BY <2>1, <2>2
<1> HIDE DEF r2
<1>5. ASSUME Restartable(r2), NEW n \in 1..4
      PROVE  /\ Rewrites(r, FreshStage(r2, "interrupted", TRUE, n))
             /\ RowOK(FreshStage(r2, "interrupted", TRUE, n), d)
  <2>1. Sound(r2) /\ r2.state \in {"interrupted", "retryable"}
    BY <1>4, <1>5 DEF Rewrites, Restartable
  <2>2. /\ Rewrites(r2, FreshStage(r2, "interrupted", TRUE, n))
        /\ RowOK(FreshStage(r2, "interrupted", TRUE, n), d)
    BY <1>4, <2>1, FreshKeeps
  <2> QED
    BY <1>4, <2>2, RewritesTransitive
<1>6. \/ q \in {r, r0, r1, r2}
      \/ Restartable(r2) /\ \E n \in 1..4 : q = FreshStage(r2, "interrupted", TRUE, n)
  BY RecoverIsOf DEF r0, r1, r2
<1> QED
  BY <1>1, <1>2, <1>3, <1>4, <1>5, <1>6
-----------------------------------------------------------------------------
(* What exactly becomes of the task and its newest attempt.                *)

\* cancel_single_task writes both, the task only, or nothing.
LEMMA CancelShape ==
  ASSUME NEW r, Sound(r), NEW q \in {CancelRow(r), CancelHalf(r)}
  PROVE  \/ q = r
         \/ /\ ~CancelIgnored(r) /\ CancelTaskAllowed(r)
            /\ q.state = CancelTarget(r) /\ q.tries = r.tries
            /\ q = CancelRow(r) => ~CancelAttemptAllowed(r)
         \/ /\ ~CancelIgnored(r) /\ CancelTaskAllowed(r) /\ CancelAttemptAllowed(r)
            /\ q = CancelRow(r)
            /\ q.state = CancelTarget(r) /\ Latest(q).state = CancelTarget(r)
            /\ Len(q.tries) = Len(r.tries)
<1> DEFINE to == CancelTarget(r)
<1>1. to \in States
  BY DEF CancelTarget, States
<1>2. CASE q = r
  BY <1>2
<1>3. CASE /\ q = SetTask(r, to) /\ ~CancelIgnored(r) /\ CancelTaskAllowed(r)
           /\ (q = CancelRow(r) => ~CancelAttemptAllowed(r))
  BY <1>1, <1>3, SetTaskFacts
<1>4. CASE /\ q = SetLatest(SetTask(r, to), to) /\ q = CancelRow(r)
           /\ ~CancelIgnored(r) /\ CancelTaskAllowed(r) /\ CancelAttemptAllowed(r)
  <2> DEFINE mid == SetTask(r, to)
  <2>1. Sound(mid) /\ mid.state = to /\ mid.tries = r.tries
    BY <1>1, SetTaskFacts
  <2>2. q = SetLatest(mid, to)
    BY <1>4
  <2> HIDE DEF mid, to
  <2>3. /\ SetLatest(mid, to).state = mid.state /\ Latest(SetLatest(mid, to)).state = to
        /\ Len(SetLatest(mid, to).tries) = Len(mid.tries)
    BY <1>1, <2>1, SetLatestFacts
  <2> QED
    BY <1>4, <2>1, <2>2, <2>3 DEF to
<1>5. CASE /\ q = CancelHalf(r) /\ q # CancelRow(r)
           /\ ~CancelIgnored(r) /\ CancelTaskAllowed(r)
  <2>1. q = SetTask(r, to)
    BY <1>5 DEF CancelHalf
  <2> QED
    BY <1>1, <1>5, <2>1, SetTaskFacts
<1> QED
  BY <1>2, <1>3, <1>4, <1>5 DEF CancelRow, CancelHalf

\* The scan moves the task, and the newest attempt, each from the states that
\* call for it.
LEMMA VisitShape ==
  ASSUME NEW r, Sound(r), NEW d \in BOOLEAN, NEW q \in {VisitHalf(r, d), VisitRow(r, d)}
  PROVE  LET from == IF d THEN {"queued", "blocked", "retryable"} ELSE {"ready", "running"}
             to   == IF d THEN "ready" ELSE "blocked"
         IN  /\ q.state = IF ~Skipped(r) /\ r.state \in from THEN to ELSE r.state
             /\ Len(q.tries) = Len(r.tries)
             /\ IF q = VisitRow(r, d) /\ ~Skipped(r) /\ Latest(r).state \in from
                THEN Latest(q).state = to ELSE q.tries = r.tries
<1> DEFINE from == IF d THEN {"queued", "blocked", "retryable"} ELSE {"ready", "running"}
           to == IF d THEN "ready" ELSE "blocked"
           half == VisitHalf(r, d)
<1>1. to \in States
  BY DEF States
<1>2. /\ Sound(half) /\ half.tries = r.tries
      /\ half.state = IF ~Skipped(r) /\ r.state \in from THEN to ELSE r.state
  BY <1>1, SetTaskFacts DEF VisitHalf
<1>3. CASE ~Skipped(r) /\ Latest(r).state \in from
  <2>1. VisitRow(r, d) = SetLatest(half, to)
    BY <1>3 DEF VisitRow
  <2> HIDE DEF half
  <2>2. /\ SetLatest(half, to).state = half.state /\ Latest(SetLatest(half, to)).state = to
        /\ Len(SetLatest(half, to).tries) = Len(half.tries)
    BY <1>1, <1>2, SetLatestFacts
  <2>3. CASE q = VisitRow(r, d)
    BY <1>2, <1>3, <2>1, <2>2, <2>3
  <2>4. CASE q # VisitRow(r, d)
    BY <1>2, <1>3, <2>4 DEF half
  <2> QED
    BY <2>3, <2>4
<1>4. CASE ~(~Skipped(r) /\ Latest(r).state \in from)
  <2>1. VisitRow(r, d) = half
    BY <1>4 DEF VisitRow
  <2> QED
    BY <1>2, <1>4, <2>1
<1> QED
  BY <1>3, <1>4

\* A claim moves the newest attempt only: a ready one is taken, a running one
\* whose lease ran out interrupted.
LEMMA ClaimShape ==
  ASSUME NEW r, Sound(r), OldTriesDone(r), NEW i \in DOMAIN r.tries
  PROVE  LET q == ClaimRow(r, i) IN
         /\ q.state = r.state /\ Len(q.tries) = Len(r.tries)
         /\ \/ q = r
            \/ Latest(r).state = "ready" /\ Latest(q) = [state |-> "running", lease |-> "live"]
            \/ /\ Latest(r).state = "running" /\ Latest(r).lease = "due"
               /\ Latest(q).state = "interrupted"
<1> DEFINE q == ClaimRow(r, i)
           won == [state |-> "running", lease |-> "live"]
<1>1. Len(r.tries) \in Nat /\ DOMAIN r.tries = 1..Len(r.tries) /\ Latest(r) = r.tries[Len(r.tries)]
  BY LatestType
<1>2. "interrupted" \in States /\ won \in Attempt
  BY DEF States, Attempt, Leases
<1>3. CASE ClaimWins(r, i)
  <2>1. i = Len(r.tries) /\ q = PutAttempt(r, i, won)
    BY <1>1, <1>3 DEF ClaimWins, ClaimRow, OldTriesDone
  <2> HIDE DEF won
  <2> QED
    BY <1>1, <1>2, <1>3, <2>1, PutAttemptFacts DEF ClaimWins, Latest, won
<1>4. CASE ~ClaimWins(r, i) /\ q # r
  <2>1. /\ r.tries[i].state = "running" /\ r.tries[i].lease = "due"
        /\ q = SetAttempt(r, i, "interrupted")
    BY <1>4 DEF ClaimRow, ExpireAttempt
  <2>2. i = Len(r.tries)
    BY <1>1, <2>1 DEF OldTriesDone
  <2> QED
    BY <1>1, <1>2, <2>1, <2>2, SetAttemptFacts DEF Latest
<1>5. CASE q = r
  BY <1>5
<1> QED
  BY <1>3, <1>4, <1>5

\* A lease that runs out changes no state.
LEMMA RunOutShape ==
  ASSUME NEW r, Sound(r), NEW i \in DOMAIN r.tries
  PROVE  LET q == PutAttempt(r, i, [state |-> r.tries[i].state, lease |-> "due"]) IN
         /\ q.state = r.state /\ Len(q.tries) = Len(r.tries)
         /\ \A j \in DOMAIN r.tries : q.tries[j].state = r.tries[j].state
         /\ Latest(q).state = Latest(r).state
         /\ i # Len(r.tries) => Latest(q) = Latest(r)
<1> DEFINE a == [state |-> r.tries[i].state, lease |-> "due"]
<1>1. a \in Attempt /\ a.state = r.tries[i].state
  BY LatestType DEF Attempt, Leases
<1>2. Len(r.tries) \in DOMAIN r.tries
  BY LatestType
<1> DEFINE q == PutAttempt(r, i, a)
<1> HIDE DEF a
<1>3. /\ q.state = r.state /\ Len(q.tries) = Len(r.tries)
      /\ \A j \in DOMAIN r.tries : q.tries[j] = IF j = i THEN a ELSE r.tries[j]
  BY <1>1, PutAttemptFacts
<1> HIDE DEF q
<1> QED
  BY <1>1, <1>2, <1>3 DEF q, a, Latest

\* While a task starts over it is retryable, then queued.
LEMMA FreshShape ==
  ASSUME NEW r, Sound(r), NEW source \in {"failed", "interrupted"}, NEW carry \in BOOLEAN,
         NEW n \in 1..4, r.state \in {source, "retryable"}
  PROVE  FreshStage(r, source, carry, n).state \in {"retryable", "queued"}
<1> DEFINE r1 == IF r.state = source THEN SetTask(r, "retryable") ELSE r
           r2 == IF Latest(r).state \in {"failed", "interrupted"}
                 THEN SetLatest(r1, "retryable") ELSE r1
           lease == IF carry THEN Latest(r).lease ELSE "none"
           r3 == [state |-> r2.state, tries |-> Append(r2.tries, QueuedAttempt(lease))]
<1>1. r1.state = "retryable" /\ r2.state = "retryable" /\ r3.state = "retryable"
  BY DEF SetTask, SetLatest, SetAttempt, PutAttempt
<1>2. FreshStage(r, source, carry, n) =
        CASE n = 1 -> r1 [] n = 2 -> r2 [] n = 3 -> r3 [] OTHER -> SetTask(r3, "queued")
  BY DEF FreshStage
<1> HIDE DEF r1, r2, r3
<1> QED
  BY <1>1, <1>2 DEF SetTask
-----------------------------------------------------------------------------
(* Work that nobody but its loop may end, and work that nobody may repeat. *)

\* A newest attempt that holds its lease, or is asked to stop.
Protected(r) ==
  Latest(r) = [state |-> "running", lease |-> "live"] \/ Latest(r).state = "cancel_requested"

\* Startup recovery leaves such a row alone.
LEMMA RecoverLeaves ==
  ASSUME NEW r, Sound(r), Protected(r), NEW q \in {RecoverRow(r)} \cup RecoverStages(r)
  PROVE  q = r
<1>1. ExpireAttempt(r, Len(r.tries)) = r
  BY LatestType DEF ExpireAttempt, Protected
<1>2. Expired(r) = r
  BY <1>1 DEF Expired
<1>3. Settled(r) = r /\ ~Restartable(r)
  BY DEF Settled, Restartable, Protected
<1> QED
  BY <1>1, <1>2, <1>3 DEF RecoverRow, RecoverStages

\* Nobody but its loop moves a running attempt with a live lease, except to
\* cancel it.
LEMMA LiveIsProtected ==
  ASSUME NEW r, Sound(r), NEW d \in BOOLEAN, RowOK(r, d),
         Latest(r) = [state |-> "running", lease |-> "live"],
         NEW q,
         \/ q \in {r, CancelRow(r), CancelHalf(r), VisitRow(r, d), VisitHalf(r, d)}
         \/ \E i \in DOMAIN r.tries : q = ClaimRow(r, i)
         \/ \E row \in {r, CancelRow(r), CancelHalf(r)} :
              q \in {row, RecoverRow(row)} \cup RecoverStages(row)
  PROVE  Protected(q) /\ Len(q.tries) = Len(r.tries)
<1>1. Latest(r).state = "running" /\ Latest(r).lease = "live" /\ d
  BY DEF RowOK, Fits
<1>2. Protected(r)
  BY DEF Protected
<1>3. ASSUME NEW row \in {CancelRow(r), CancelHalf(r)}
      PROVE  Protected(row) /\ Len(row.tries) = Len(r.tries) /\ Sound(row)
  <2>1. Sound(row)
    BY CancelKeeps DEF Rewrites
  <2>2. CancelTarget(r) = "cancel_requested"
    BY <1>1 DEF CancelTarget
  <2> QED
    BY <1>2, <2>1, <2>2, CancelShape DEF Protected, Latest
<1>4. ASSUME NEW row \in {VisitRow(r, d), VisitHalf(r, d)}
      PROVE  Protected(row) /\ Len(row.tries) = Len(r.tries)
  <2>1. row.tries = r.tries
    BY <1>1, VisitShape
  <2> QED
    BY <1>2, <2>1 DEF Protected, Latest
<1>5. ASSUME NEW i \in DOMAIN r.tries PROVE ClaimRow(r, i) = r
  BY <1>1, ClaimShape DEF RowOK
<1>6. ASSUME NEW row \in {r, CancelRow(r), CancelHalf(r)},
             q \in {row, RecoverRow(row)} \cup RecoverStages(row)
      PROVE  q = row
  BY <1>2, <1>3, <1>6, RecoverLeaves
<1> QED
  BY <1>2, <1>3, <1>4, <1>5, <1>6

\* A task whose child turn completed: whatever was recorded of that, nothing
\* but a recovery or a control call could make it ready again, and it is in
\* no state that a control call accepts.
Parked(r, d) ==
  /\ d
  /\ Latest(r).state \in {"running", "cancel_requested", "interrupted", "completed"}
  /\ r.state \in {"ready", "running", "cancel_requested", "cancelled", "completed"}

\* Cancellations, scans and claims keep it that way.
LEMMA ParkedStays ==
  ASSUME NEW r, Sound(r), NEW d \in BOOLEAN, RowOK(r, d), Parked(r, d), NEW q,
         \/ q \in {r, CancelRow(r), VisitRow(r, d)}
         \/ \E i \in DOMAIN r.tries :
              \/ q = ClaimRow(r, i)
              \/ q = PutAttempt(r, i, [state |-> r.tries[i].state, lease |-> "due"])
  PROVE  Parked(q, d)
<1>1. CASE q = CancelRow(r)
  <2>1. CancelAttemptAllowed(r) => CancelTarget(r) = "cancel_requested"
    BY DEF CancelAttemptAllowed, CancelTarget, CanMoveAttempt, CanMove, Parked
  <2>2. CancelTarget(r) \in {"cancel_requested", "cancelled"}
    BY DEF CancelTarget
  <2> QED
    BY <1>1, <2>1, <2>2, CancelShape DEF Parked, Latest
<1>2. CASE q = VisitRow(r, d)
  <2>1. q.state = r.state /\ q.tries = r.tries
    BY <1>2, VisitShape DEF Parked
  <2> QED
    BY <2>1 DEF Parked, Latest
<1>3. ASSUME NEW i \in DOMAIN r.tries, q = ClaimRow(r, i) PROVE Parked(q, d)
  BY <1>3, ClaimShape DEF Parked, RowOK
<1>4. ASSUME NEW i \in DOMAIN r.tries,
             q = PutAttempt(r, i, [state |-> r.tries[i].state, lease |-> "due"])
      PROVE  Parked(q, d)
  BY <1>4, RunOutShape DEF Parked
<1> QED
  BY <1>1, <1>2, <1>3, <1>4

\* So does the record of the turn's completion.
LEMMA ParkedRecord ==
  ASSUME NEW r, Sound(r), NEW d \in BOOLEAN, Parked(r, d)
  PROVE  Parked(RecordRow(r, Len(r.tries), "completed"), d)
<1> DEFINE n == Len(r.tries)
           half == RecordHalf(r, n, "completed")
<1>1. n \in DOMAIN r.tries /\ Latest(r) = r.tries[n] /\ "completed" \in States
  BY LatestType DEF States
<1>2. /\ half.state = r.state
      /\ Latest(half).state \in {Latest(r).state, "completed"}
  BY <1>1, SetAttemptFacts DEF RecordHalf, Latest
<1> HIDE DEF half
<1>3. Parked(half, d) /\ Parked(SetTask(half, "completed"), d)
  BY <1>2 DEF Parked, SetTask, Latest
<1> QED
  BY <1>3 DEF RecordRow, half

\* The newest attempt of a row that is worked on is not ready, whatever its
\* loop writes.
LEMMA OwnNeverReady ==
  ASSUME NEW r, Sound(r), NEW d \in BOOLEAN, RowOK(r, d), WorkedOn(r, d),
         NEW end \in {"completed", "failed", "interrupted"}, NEW q,
         LET n == Len(r.tries) IN
           q \in {r, SetTask(r, "running"), EnsureRow(r, n),
                  InterruptHalf(EnsureRow(r, n), n), InterruptRow(EnsureRow(r, n), n),
                  RecordHalf(r, n, end), RecordRow(r, n, end)}
  PROVE  Latest(q).state # "ready"
<1> DEFINE n == Len(r.tries)
           e == EnsureRow(r, n)
           Stopped(x) == Latest(x).state # "ready"
<1>1. n \in DOMAIN r.tries /\ Latest(r) = r.tries[n] /\ Stopped(r)
  BY LatestType DEF WorkedOn
<1>2. \A x, to : Latest(SetTask(x, to)) = Latest(x)
  BY DEF SetTask, Latest
<1>3. Sound(e) /\ Len(e.tries) = n /\ n \in DOMAIN e.tries /\ Stopped(e)
  <2>1. Sound(e) /\ Len(e.tries) = n /\ WorkedOn(e, d)
    BY <1>1, EnsureKeeps DEF Rewrites
  <2> QED
    BY <2>1, LatestType DEF WorkedOn
<1> HIDE DEF e
<1>4. ASSUME NEW x, Sound(x), Len(x.tries) = n, NEW to \in {"completed", "failed", "interrupted"}
      PROVE  Stopped(SetAttempt(x, n, to))
  <2>1. n \in DOMAIN x.tries /\ to \in States
    BY <1>4, LatestType DEF States
  <2> QED
    BY <1>4, <2>1, SetAttemptFacts DEF Latest
<1>5. Stopped(InterruptHalf(e, n)) /\ Stopped(RecordHalf(r, n, end))
  BY <1>1, <1>3, <1>4 DEF InterruptHalf, RecordHalf
<1>6. Stopped(InterruptRow(e, n)) /\ Stopped(RecordRow(r, n, end))
  BY <1>2, <1>5 DEF InterruptRow, RecordRow
<1>7. q \in {r, SetTask(r, "running"), e, InterruptHalf(e, n), InterruptRow(e, n),
             RecordHalf(r, n, end), RecordRow(r, n, end)}
  BY DEF e
<1> HIDE DEF n
<1> QED
  BY <1>1, <1>2, <1>3, <1>5, <1>6, <1>7

\* A cancellation of a row that is worked on never ends in "cancelled", unless
\* its attempt was interrupted before the task was set to running.
LEMMA CancelUnderWork ==
  ASSUME NEW r, Sound(r), NEW q \in {CancelRow(r), CancelHalf(r)},
         \/ r.state \in {"running", "cancel_requested"}
         \/ Latest(r).state \in {"running", "cancel_requested"}
  PROVE  q = r \/ q.state = "cancel_requested"
BY CancelShape DEF CancelTarget

\* A scan leaves a row that is worked on alone.
LEMMA VisitUnderWork ==
  ASSUME NEW r, Sound(r), NEW d \in BOOLEAN, WorkedOn(r, d)
  PROVE  VisitRow(r, d).state = r.state /\ VisitRow(r, d).tries = r.tries
BY VisitShape DEF WorkedOn

\* A scan that leaves an attempt ready leaves its task ready, unless the task
\* was left behind by a cancellation cut short.
LEMMA VisitReady ==
  ASSUME NEW r, Sound(r), NEW d \in BOOLEAN, RowOK(r, d),
         Latest(VisitRow(r, d)).state = "ready",
         ~Skipped(r) \/ (Latest(r).state = "ready" => r.state = "ready")
  PROVE  VisitRow(r, d).state = "ready"
<1> DEFINE q == VisitRow(r, d)
<1>1. q.state \in {"ready", "cancelled"}
  BY VisitKeeps DEF RowOK, Fits
<1>2. CASE q.state = "cancelled"
  <2>1. Skipped(r) /\ r.state = "cancelled"
    BY <1>2, VisitShape DEF Skipped, Terminal
  <2>2. Latest(r).state = "ready"
    BY <2>1, VisitShape DEF Latest
  <2> QED
    BY <2>1, <2>2
<1> QED
  BY <1>1, <1>2

\* A cancellation that is carried out leaves no ready attempt under a task
\* that was ready with it.
LEMMA CancelReady ==
  ASSUME NEW r, Sound(r), Latest(CancelRow(r)).state = "ready",
         Latest(r).state = "ready" => r.state = "ready"
  PROVE  CancelRow(r).state = "ready"
<1> DEFINE q == CancelRow(r)
<1>1. CancelTarget(r) # "ready"
  BY DEF CancelTarget
<1>2. CASE q = r
  BY <1>2
<1>3. CASE q.tries = r.tries /\ ~CancelAttemptAllowed(r)
  <2>1. Latest(r).state = "ready" /\ r.state = "ready"
    BY <1>3 DEF Latest
  <2> QED
    BY <1>3, <2>1 DEF CancelAttemptAllowed, CancelTarget, CanMoveAttempt, CanMove
<1> QED
  BY <1>1, <1>2, <1>3, CancelShape

\* Startup recovery moves a task, if at all, between the states of one that
\* is still to be done.
LEMMA RecoverShape ==
  ASSUME NEW r, NEW q \in {RecoverRow(r)} \cup RecoverStages(r),
         Sound(r), NEW d \in BOOLEAN, RowOK(r, d)
  PROVE  \/ q.state = r.state
         \/ /\ r.state \in {"queued", "ready", "running", "blocked", "interrupted", "retryable"}
            /\ q.state \in {"interrupted", "retryable", "queued"}
<1> DEFINE r0 == ExpireAttempt(r, Len(r.tries))
           r1 == Expired(r)
           r2 == Settled(r1)
           Open == {"queued", "ready", "running", "blocked", "interrupted", "retryable"}
           Fine(x) == \/ x.state = r.state
                      \/ r.state \in Open /\ x.state \in {"interrupted", "retryable", "queued"}
<1>1. r0.state = r.state
  BY ExpireKeeps
<1>2. Sound(r2)
  <2>1. Sound(r0)
    BY ExpireKeeps DEF Rewrites
  <2>2. "interrupted" \in States
    BY DEF States
  <2>3. Sound(r1)
    BY <2>1, <2>2, SetTaskFacts DEF Expired
  <2> QED
    BY <2>2, <2>3, SetTaskFacts DEF Settled
<1>3. Fine(r1) /\ (r1.state = r.state \/ (r1.state = "interrupted" /\ r.state = "running"))
  BY <1>1 DEF Expired, SetTask
<1> HIDE DEF r0, r1
<1>4. Fine(r2)
  BY <1>3 DEF Settled, SetTask
<1> HIDE DEF r2
<1>5. ASSUME Restartable(r2), NEW n \in 1..4
      PROVE  Fine(FreshStage(r2, "interrupted", TRUE, n))
  <2>1. r2.state \in {"interrupted", "retryable"}
    BY <1>5 DEF Restartable
  <2>2. FreshStage(r2, "interrupted", TRUE, n).state \in {"retryable", "queued"}
    BY <1>2, <2>1, FreshShape
  <2> QED
    BY <1>4, <2>1, <2>2
<1>6. \/ q \in {r, r0, r1, r2}
      \/ Restartable(r2) /\ \E n \in 1..4 : q = FreshStage(r2, "interrupted", TRUE, n)
  BY RecoverIsOf DEF r0, r1, r2
<1> QED
  BY <1>1, <1>3, <1>4, <1>5, <1>6
-----------------------------------------------------------------------------
(* Doing it again.                                                         *)

\* A row that recovery has nothing to do with.
LEMMA RecoveredStays ==
  ASSUME NEW x, Sound(x), ~(Latest(x).state = "running" /\ Latest(x).lease = "due"),
         \/ Terminal(x.state)
         \/ "cancel_requested" \in {x.state, Latest(x).state}
         \/ Latest(x).state # "interrupted"
  PROVE  RecoverRow(x) = x
<1>1. ExpireAttempt(x, Len(x.tries)) = x
  BY LatestType DEF ExpireAttempt
<1>2. Expired(x) = x
  BY <1>1 DEF Expired
<1>3. CASE Terminal(x.state)
  BY <1>3 DEF RecoverRow
<1>4. CASE "cancel_requested" \in {x.state, Latest(x).state}
  BY <1>2, <1>4 DEF RecoverRow
<1>5. CASE Latest(x).state # "interrupted"
  <2>1. Settled(x) = x
    BY <1>5 DEF Settled
  <2>2. ~Restartable(x)
    BY <1>5 DEF Restartable
  <2> QED
    BY <1>2, <2>1, <2>2 DEF RecoverRow
<1> QED
  BY <1>3, <1>4, <1>5

\* An expired attempt is not running on a lease that is due.
LEMMA ExpiredIsNotDue ==
  ASSUME NEW r, Sound(r)
  PROVE  LET q == Expired(r) IN ~(Latest(q).state = "running" /\ Latest(q).lease = "due")
<1> DEFINE r0 == ExpireAttempt(r, Len(r.tries))
<1>1. ~(Latest(r0).state = "running" /\ Latest(r0).lease = "due") /\ Sound(r0)
  <2>1. CASE Latest(r).state = "running" /\ Latest(r).lease = "due"
    <3>1. r0 = SetLatest(r, "interrupted") /\ "interrupted" \in States
      BY <2>1, LatestType DEF ExpireAttempt, SetLatest, States
    <3> QED
      BY <3>1, SetLatestFacts
  <2>2. CASE ~(Latest(r).state = "running" /\ Latest(r).lease = "due")
    <3>1. r0 = r
      BY <2>2, LatestType DEF ExpireAttempt
    <3> QED
      BY <2>2, <3>1
  <2> QED
    BY <2>1, <2>2
<1>2. Latest(Expired(r)) = Latest(r0)
  <2>1. "interrupted" \in States
    BY DEF States
  <2>2. Latest(SetTask(r0, "interrupted")) = Latest(r0)
    BY <1>1, <2>1, SetTaskFacts
  <2> QED
    BY <2>2 DEF Expired
<1> QED
  BY <1>1, <1>2

\* A recovered row is recovered.
LEMMA RecoverTwice ==
  ASSUME NEW r, Sound(r), NEW d \in BOOLEAN, RowOK(r, d)
  PROVE  RecoverRow(RecoverRow(r)) = RecoverRow(r)
<1> DEFINE r1 == Expired(r)
           r2 == Settled(r1)
           q == RecoverRow(r)
<1>1. CASE Terminal(r.state)
  BY <1>1 DEF RecoverRow
<1>2. ASSUME ~Terminal(r.state) PROVE RecoverRow(q) = q
  <2>1. Sound(r1) /\ ~(Latest(r1).state = "running" /\ Latest(r1).lease = "due")
    <3>1. r1 \in RecoverStages(r)
      BY <1>2 DEF RecoverStages
    <3> QED
      BY <3>1, RecoverKeeps, ExpiredIsNotDue DEF Rewrites
  <2>2. CASE "cancel_requested" \in {r1.state, Latest(r1).state}
    <3>1. q = r1
      BY <1>2, <2>2 DEF RecoverRow
    <3> QED
      BY <2>1, <2>2, <3>1, RecoveredStays
  <2>3. CASE ~("cancel_requested" \in {r1.state, Latest(r1).state})
    <3>1. Sound(r2) /\ Latest(r2) = Latest(r1)
      <4>1. "interrupted" \in States
        BY DEF States
      <4> QED
        BY <2>1, <4>1, SetTaskFacts DEF Settled
    <3>2. CASE Restartable(r2)
      <4>1. q = FreshRow(r2, "interrupted", TRUE) /\ Sound(q)
        BY <1>2, <2>3, <3>2, RecoverKeeps DEF RecoverRow, Rewrites
      <4>2. Sound(r2) /\ RowOK(r2, d) /\ r2.state \in {"interrupted", "retryable"}
        <5>1. r2 \in RecoverStages(r)
          BY <1>2, <2>3 DEF RecoverStages
        <5> QED
          BY <3>1, <3>2, <5>1, RecoverKeeps DEF Restartable
      <4>3. Latest(FreshStage(r2, "interrupted", TRUE, 4)).state = "queued"
        <5>1. 4 \in 1..4 /\ "interrupted" \in {"failed", "interrupted"} /\ TRUE \in BOOLEAN
          OBVIOUS
        <5> HIDE DEF r2
        <5> QED
          BY <4>2, <5>1, FreshKeeps
      <4>4. Latest(q).state = "queued"
        BY <4>1, <4>3 DEF FreshRow
      <4> QED
        BY <4>1, <4>4, RecoveredStays
    <3>3. CASE ~Restartable(r2)
      <4>1. q = r2
        BY <1>2, <2>3, <3>3 DEF RecoverRow
      <4>2. Latest(r2).state # "interrupted" \/ Terminal(r2.state)
        BY <2>1, <2>3, <3>1, <3>3, LatestType DEF Settled, Restartable, SetTask, Terminal, States
      <4> QED
        BY <2>1, <3>1, <4>1, <4>2, RecoveredStays
    <3> QED
      BY <3>2, <3>3
  <2> QED
    BY <2>2, <2>3
<1> QED
  BY <1>1, <1>2

\* Writing both states once more changes nothing.
LEMMA SetSame ==
  ASSUME NEW q, Sound(q), NEW to, q.state = to, Latest(q).state = to
  PROVE  SetLatest(SetTask(q, to), to) = q
<1> DEFINE n == Len(q.tries)
<1>1. /\ n \in DOMAIN q.tries /\ Latest(q) = q.tries[n] /\ q.tries[n] \in Attempt
      /\ q.tries \in Seq(Attempt) /\ q \in Row
  BY LatestType DEF Sound, Row
<1>2. [state |-> to, lease |-> q.tries[n].lease] = q.tries[n]
  BY <1>1 DEF Attempt
<1>3. [q.tries EXCEPT ![n] = q.tries[n]] = q.tries
  BY <1>1
<1>4. SetLatest(SetTask(q, to), to) = [state |-> to, tries |-> q.tries]
  BY <1>2, <1>3 DEF SetLatest, SetAttempt, PutAttempt, SetTask
<1> QED
  BY <1>1, <1>4 DEF Row

\* A row that was cancelled and then recovered is not cancelled again.
LEMMA CancelTwice ==
  ASSUME NEW r, Sound(r), NEW d \in BOOLEAN, RowOK(r, d), ~CancelFails(r)
  PROVE  CancelRow(RecoverRow(CancelRow(r))) = RecoverRow(CancelRow(r))
<1> DEFINE c == CancelRow(r)
<1>1. CASE CancelIgnored(r)
  <2>1. c = r
    BY <1>1 DEF CancelRow, CancelHalf
  <2>2. RecoverRow(r) = r
    <3>1. CASE Terminal(r.state)
      BY <3>1 DEF RecoverRow
    <3>2. CASE Terminal(Latest(r).state)
      BY <3>2, RecoveredStays DEF Terminal
    <3> QED
      BY <1>1, <3>1, <3>2 DEF CancelIgnored
  <2> QED
    BY <2>1, <2>2
<1>2. CASE ~CancelIgnored(r)
  <2> DEFINE to == CancelTarget(r)
  <2>1. c = SetLatest(SetTask(r, to), to)
    BY <1>2 DEF CancelFails, CancelRow
  <2>2. to \in States /\ to \in {"cancel_requested", "cancelled"} /\ r.state # "completed"
    BY <1>2 DEF CancelTarget, States, CancelIgnored, Terminal
  <2>3. Sound(c) /\ c.state = to /\ Latest(c).state = to
    BY <2>1, <2>2, SetBothKeeps DEF RowOK, Rewrites
  <2>4. RecoverRow(c) = c
    BY <2>2, <2>3, RecoveredStays DEF Terminal
  <2>5. CASE to = "cancelled"
    <3>1. CancelIgnored(c)
      BY <2>3, <2>5 DEF CancelIgnored, Terminal
    <3> QED
      BY <2>4, <3>1 DEF CancelRow, CancelHalf
  <2>6. CASE to = "cancel_requested"
    <3>1. CancelTarget(c) = to /\ CancelTaskAllowed(c) /\ CancelAttemptAllowed(c)
          /\ ~CancelIgnored(c)
      BY <2>3, <2>6 DEF CancelTarget, CancelTaskAllowed, CancelAttemptAllowed,
         CancelIgnored, Terminal
    <3>2. CancelRow(c) = SetLatest(SetTask(c, to), to)
      BY <3>1 DEF CancelRow
    <3> QED
      BY <2>3, <2>4, <3>2, SetSame
  <2> QED
    BY <2>2, <2>5, <2>6
<1> QED
  BY <1>1, <1>2

\* Recovery never makes a request to cancel.
LEMMA RecoverAsksNothing ==
  ASSUME NEW r, Sound(r), NEW d \in BOOLEAN, RowOK(r, d),
         RecoverRow(r).state = "cancel_requested"
  PROVE  r.state = "cancel_requested"
<1> DEFINE q == RecoverRow(r)
<1>1. q \in {RecoverRow(r)} \cup RecoverStages(r) /\ q.state = "cancel_requested"
  OBVIOUS
<1> HIDE DEF q
<1> QED
  BY <1>1, RecoverShape
=============================================================================
