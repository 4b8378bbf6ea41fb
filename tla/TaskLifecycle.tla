---------------------------- MODULE TaskLifecycle ----------------------------
(***************************************************************************)
(* The durable record of one delegated task, as the store keeps it, and    *)
(* every rewrite of it that the program performs under the store mutex.    *)
(*                                                                         *)
(* A Row is a task's current state (the newest "task.state.transition"     *)
(* event) and the sequence of its attempts in creation order.  The store   *)
(* opens no transaction around these rewrites, so a process that dies in   *)
(* one leaves a prefix of its writes behind: an operator named ...Half or  *)
(* ...Stage is such a prefix.  A transition the state machine refuses      *)
(* makes the Rust call return an error after the writes already done.      *)
(***************************************************************************)
EXTENDS Naturals, Sequences

States == {"queued", "ready", "running", "blocked", "cancel_requested",
           "cancelled", "failed", "completed", "interrupted", "retryable"}

\* A lease is written by a claim; "due" once its expiry time has passed.
Leases == {"none", "live", "due"}

Attempt == [state : States, lease : Leases]

Row == [state : States, tries : Seq(Attempt)]

-----------------------------------------------------------------------------
(* The two transition tables.                                              *)

CanMove(from, to) ==
  \/ from = "queued"  /\ to \in {"ready", "running", "cancel_requested",
                                 "cancelled", "interrupted"}
  \/ from = "ready"   /\ to \in {"running", "blocked", "cancel_requested",
                                 "cancelled", "interrupted"}
  \/ from = "running" /\ to \in {"blocked", "cancel_requested", "completed",
                                 "failed", "interrupted", "retryable"}
  \/ from = "blocked" /\ to \in {"ready", "running", "cancel_requested",
                                 "cancelled", "interrupted"}
  \/ from = "cancel_requested" /\ to \in {"cancelled", "interrupted"}
  \/ from \in {"failed", "interrupted"} /\ to = "retryable"
  \/ from = "retryable" /\ to \in {"queued", "ready"}

\* The attempt table has one edge more than the task table.
CanMoveAttempt(from, to) ==
  CanMove(from, to) \/ (from = "retryable" /\ to = "running")

Terminal(state) == state \in {"completed", "failed", "cancelled"}

-----------------------------------------------------------------------------
(* Reading and rewriting one row.                                          *)

Latest(r) == r.tries[Len(r.tries)]

SetTask(r, to) == [state |-> to, tries |-> r.tries]

PutAttempt(r, i, a) ==
  [state |-> r.state, tries |-> [r.tries EXCEPT ![i] = a]]

SetAttempt(r, i, to) ==
  PutAttempt(r, i, [state |-> to, lease |-> r.tries[i].lease])

\* Wrong variant: the oldest attempt is taken for the newest.
SetOldest(r, to) == SetAttempt(r, 1, to)

SetLatest(r, to) == SetAttempt(r, Len(r.tries), to)

\* A task as it is first stored: queued, with one queued attempt.
QueuedAttempt(lease) == [state |-> "queued", lease |-> lease]

NewRow == [state |-> "queued", tries |-> <<QueuedAttempt("none")>>]

-----------------------------------------------------------------------------
(* cancel_single_task: the task is written first, then its latest attempt. *)

\* Wrong variant: looks at the task's state only.
CancelTargetOfTask(r) ==
  IF r.state \in {"running", "cancel_requested"} THEN "cancel_requested" ELSE "cancelled"

CancelTarget(r) ==
  IF {"running", "cancel_requested"} \cap {r.state, Latest(r).state} # {}
  THEN "cancel_requested" ELSE "cancelled"

CancelIgnored(r) == Terminal(r.state) \/ Terminal(Latest(r).state)

CancelTaskAllowed(r) ==
  r.state = CancelTarget(r) \/ CanMove(r.state, CancelTarget(r))

CancelAttemptAllowed(r) ==
  \/ Latest(r).state = CancelTarget(r)
  \/ CanMoveAttempt(Latest(r).state, CancelTarget(r))

CancelFails(r) ==
  /\ ~CancelIgnored(r)
  /\ ~(CancelTaskAllowed(r) /\ CancelAttemptAllowed(r))

CancelHalf(r) ==
  IF CancelIgnored(r) \/ ~CancelTaskAllowed(r)
  THEN r ELSE SetTask(r, CancelTarget(r))

CancelRow(r) ==
  IF CancelIgnored(r) \/ ~CancelTaskAllowed(r) \/ ~CancelAttemptAllowed(r)
  THEN CancelHalf(r)
  ELSE SetLatest(SetTask(r, CancelTarget(r)), CancelTarget(r))

-----------------------------------------------------------------------------
(* create_fresh_attempt_for_control: retire the latest attempt, append a   *)
(* queued one (its checkpoint, lease included, carried over on request),   *)
(* queue the task.  Stage n is the row after the first n writes.           *)

FreshStage(r, source, carry, n) ==
  LET r1 == IF r.state = source THEN SetTask(r, "retryable") ELSE r
      r2 == IF Latest(r).state \in {"failed", "interrupted"}
            THEN SetLatest(r1, "retryable") ELSE r1
      lease == IF carry THEN Latest(r).lease ELSE "none"
      r3 == [state |-> r2.state, tries |-> Append(r2.tries, QueuedAttempt(lease))]
  IN  CASE n = 1 -> r1 [] n = 2 -> r2 [] n = 3 -> r3
        [] OTHER -> SetTask(r3, "queued")

FreshRow(r, source, carry) == FreshStage(r, source, carry, 4)

-----------------------------------------------------------------------------
(* One row as the scheduler's candidate scan leaves it.                    *)

Skipped(r) == Terminal(r.state) \/ r.state = "cancel_requested"

\* The task-level write of the scan; depsDone says every dependency is
\* completed.
VisitHalf(r, depsDone) ==
  LET from == IF depsDone THEN {"queued", "blocked", "retryable"}
                          ELSE {"ready", "running"}
  IN  IF ~Skipped(r) /\ r.state \in from
      THEN SetTask(r, IF depsDone THEN "ready" ELSE "blocked") ELSE r

VisitRow(r, depsDone) ==
  LET half == VisitHalf(r, depsDone)
      from == IF depsDone THEN {"queued", "blocked", "retryable"}
                          ELSE {"ready", "running"}
  IN  IF ~Skipped(r) /\ Latest(r).state \in from
      THEN SetLatest(half, IF depsDone THEN "ready" ELSE "blocked") ELSE half

\* The scan stops at the first task that ends up with a ready attempt.
Runnable(r, depsDone) ==
  ~Skipped(r) /\ depsDone /\ Latest(VisitRow(r, depsDone)).state = "ready"

-----------------------------------------------------------------------------
(* claim_runnable_with_lease on attempt i: a compare-and-set from ready to *)
(* running that writes a lease; a running attempt whose lease is due is    *)
(* marked interrupted instead, and nobody wins the claim.                  *)

\* Wrong variants: no compare before the set; a lease that an earlier attempt
\* carried over counts as taken.
ClaimWinsNoCompare(r, i) == r.tries[i].state \in {"ready", "running"}

ClaimWinsUnleased(r, i) == r.tries[i].state = "ready" /\ r.tries[i].lease = "none"

ClaimWins(r, i) == r.tries[i].state = "ready"

\* Wrong variant: the expiry time is not looked at.
ExpireAttemptAlways(r, i) ==
  IF r.tries[i].state = "running" THEN SetAttempt(r, i, "interrupted") ELSE r

ExpireAttempt(r, i) ==
  IF r.tries[i].state = "running" /\ r.tries[i].lease = "due"
  THEN SetAttempt(r, i, "interrupted") ELSE r

ClaimRow(r, i) ==
  IF ClaimWins(r, i)
  THEN PutAttempt(r, i, [state |-> "running", lease |-> "live"])
  ELSE ExpireAttempt(r, i)

-----------------------------------------------------------------------------
(* ensure_task_attempt_running: the task follows a running attempt.        *)

EnsureNeeded(r, i) == r.tries[i].state = "running" /\ r.state # "running"

EnsureRefused(r, i) == EnsureNeeded(r, i) /\ ~CanMove(r.state, "running")

EnsureRow(r, i) ==
  IF EnsureNeeded(r, i) /\ ~EnsureRefused(r, i) THEN SetTask(r, "running") ELSE r

-----------------------------------------------------------------------------
(* mark_bootstrap_interrupted_retryable, attempt first.                    *)

Stoppable == {"queued", "ready", "running", "blocked", "cancel_requested"}

InterruptHalf(r, i) ==
  IF r.tries[i].state \in Stoppable THEN SetAttempt(r, i, "interrupted") ELSE r

InterruptRow(r, i) ==
  LET half == InterruptHalf(r, i)
  IN  IF half.state \in Stoppable THEN SetTask(half, "interrupted") ELSE half

-----------------------------------------------------------------------------
(* Recording how a child turn ended, attempt first.                        *)

RecordAttemptAllowed(r, i, end) ==
  r.tries[i].state = end \/ CanMoveAttempt(r.tries[i].state, end)

RecordTaskAllowed(r, end) == r.state = end \/ CanMove(r.state, end)

\* Wrong variant: refused transitions are not errors.
RecordFailsNever(r, i, end) == FALSE

RecordFails(r, i, end) ==
  ~(RecordAttemptAllowed(r, i, end) /\ RecordTaskAllowed(r, end))

\* Wrong variant: the task is written before the attempt.
RecordHalfTaskFirst(r, i, end) ==
  IF RecordTaskAllowed(r, end) THEN SetTask(r, end) ELSE r

RecordHalf(r, i, end) ==
  IF RecordAttemptAllowed(r, i, end) THEN SetAttempt(r, i, end) ELSE r

RecordRow(r, i, end) ==
  IF RecordFails(r, i, end)
  THEN RecordHalf(r, i, end)
  ELSE SetTask(RecordHalf(r, i, end), end)

-----------------------------------------------------------------------------
(* One task's share of the startup sweep over non-terminal attempts, in    *)
(* its three phases: expire, settle the task, start over.                  *)

Expired(r) ==
  LET r1 == ExpireAttempt(r, Len(r.tries))
  IN  IF r1 # r /\ r1.state = "running" THEN SetTask(r1, "interrupted") ELSE r1

Settled(r) ==
  IF /\ Latest(r).state = "interrupted"
     /\ r.state \in {"queued", "ready", "running", "blocked"}
  THEN SetTask(r, "interrupted") ELSE r

Restartable(r) ==
  Latest(r).state = "interrupted" /\ r.state \in {"interrupted", "retryable"}

\* Wrong variant: interrupted attempts are handled before leases expire.
RecoverRowLateExpiry(r) ==
  LET r1 == Settled(r)
      r2 == IF Restartable(r1) THEN FreshRow(r1, "interrupted", TRUE) ELSE r1
  IN  IF Terminal(r.state) \/ "cancel_requested" \in {r.state, Latest(r).state}
      THEN r ELSE Expired(r2)

RecoverRow(r) ==
  LET r1 == Expired(r)
      r2 == Settled(r1)
  IN  IF Terminal(r.state) THEN r
      ELSE IF "cancel_requested" \in {r1.state, Latest(r1).state} THEN r1
      ELSE IF Restartable(r2) THEN FreshRow(r2, "interrupted", TRUE) ELSE r2

\* The rows a process death inside RecoverRow can leave behind.
RecoverStages(r) ==
  LET r1 == Expired(r)
      r2 == Settled(r1)
      fresh == IF Restartable(r2)
               THEN {FreshStage(r2, "interrupted", TRUE, n) : n \in 1..3} ELSE {}
  IN  IF Terminal(r.state) THEN {r}
      ELSE {r, ExpireAttempt(r, Len(r.tries)), r1} \cup
           IF "cancel_requested" \in {r1.state, Latest(r1).state} THEN {}
           ELSE {r2} \cup fresh

-----------------------------------------------------------------------------
(* What every rewrite keeps of a row whose dependencies are done or not:   *)
(* only the newest attempt is ever ready or running, the task's own state  *)
(* bounds what that attempt can be, and ready or running work has its      *)
(* dependencies done.                                                      *)

OldTriesDone(r) ==
  \A i \in DOMAIN r.tries :
    i < Len(r.tries) => r.tries[i].state \notin {"ready", "running"}

Fits(task, last, depsDone) ==
  /\ task \in {"completed", "failed", "interrupted"} => last = task
  /\ task = "retryable" => last \in {"failed", "interrupted", "retryable", "queued"}
  /\ task = "running" =>
       last \in {"running", "cancel_requested", "interrupted", "completed", "failed"}
  /\ last = "ready" => task \in {"ready", "cancelled"}
  /\ task = "running" \/ last \in {"ready", "running"} => depsDone

RowOK(r, depsDone) == OldTriesDone(r) /\ Fits(r.state, Latest(r).state, depsDone)

\* A row that a scheduler loop works on.
WorkedOn(r, depsDone) ==
  /\ Latest(r).state \in {"running", "cancel_requested", "interrupted"}
  /\ r.state \in {"ready", "running", "cancel_requested", "cancelled"}
  /\ depsDone
=============================================================================
