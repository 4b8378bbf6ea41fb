---------------------------- MODULE TaskScheduler ----------------------------
(***************************************************************************)
(* Delegated tasks of one owner session: the scheduler loops that run them *)
(* in child sessions, the control calls of the user, and the process that  *)
(* hosts both, which may die at any time and restart over the same store.  *)
(*                                                                         *)
(* Every critical section of the store mutex is one action; between two of *)
(* them anything else may happen.  Actions named ...Torn are a process     *)
(* death inside such a section.                                            *)
(***************************************************************************)
EXTENDS TaskLifecycle, FiniteSets

CONSTANTS
  Tasks,          \* tasks, numbered in the order of their creation
  Id,             \* task -> rank of its id among the task ids
  Seeded,         \* tasks present from the start
  Parent,         \* delegated task -> the task it is delegated from
  Deps,           \* task -> the tasks it depends on (task_edges)
  Cascading,      \* tasks whose parent_close_policy cancels descendants
  Prompted,       \* tasks whose child session the user may prompt directly
  Stalls,         \* may a loop stall for as long as a lease lasts?
  Priorities,     \* priorities a task may be given
  MaxConcurrency, \* non-terminal children a task may have when it delegates
  Runners,        \* scheduler loops that may be alive at once
  NoTask,
  MaxCrashes,     \* bound: process deaths
  MaxControls,    \* bound: accepted retry and resume calls
  MaxRequests     \* bound: cancel requests validated but not yet carried out

Delegated == Tasks \ Seeded

ASSUME SchedulerAssumption ==
  /\ Tasks \subseteq Nat
  /\ IsFiniteSet(Tasks)
  /\ Id \in [Tasks -> Nat]
  /\ \A t, u \in Tasks : Id[t] = Id[u] => t = u
  /\ Seeded \subseteq Tasks
  /\ Parent \in [Delegated -> Tasks]
  /\ Deps \in [Tasks -> SUBSET Tasks]
  /\ \A t \in Tasks : \A d \in Deps[t] : d < t
  /\ \A t \in Delegated : Deps[t] = {Parent[t]}
  /\ \A t \in Seeded : Deps[t] \subseteq Seeded
  /\ Cascading \subseteq Tasks /\ Prompted \subseteq Tasks
  /\ Stalls \in BOOLEAN
  /\ Priorities \subseteq Nat
  /\ MaxConcurrency \in Nat
  /\ NoTask \notin Tasks
  /\ MaxCrashes \in Nat /\ MaxControls \in Nat /\ MaxRequests \in Nat

VARIABLES
  \* durable
  created,      \* tasks that exist
  priority,     \* task -> priority
  store,        \* task -> its row
  \* of the process
  phase,        \* "down", "recovering" (startup) or "serving"
  pc,           \* scheduler loop -> what it does next
  held,         \* scheduler loop -> its candidate task
  heldTry,      \* scheduler loop -> its candidate attempt
  cancelAsked,  \* cancel requests that passed validation
  kickOwed,     \* a prompt that delegated is still running
  \* bounds and history
  crashes, controls,
  answered      \* tasks with a completed child turn since the last start

durable == <<created, priority, store>>
loops   == <<pc, held, heldTry>>
bounds  == <<crashes, controls>>
vars == <<durable, phase, loops, cancelAsked, kickOwed, bounds, answered>>

\* What a loop does next, from the claim of its candidate to the record of
\* how the child turn ended.
TurnEnds  == {"completed", "failed", "interrupted"}
Claimed   == {"starting", "booting", "launching", "turn"} \cup TurnEnds
PCs       == {"idle", "selecting", "claiming"} \cup Claimed

-----------------------------------------------------------------------------
(* Graph and order.                                                        *)

\* collect_descendant_task_ids: the least set with root that is closed
\* under "depends on".
Descendants ==
  [root \in Tasks |->
    {t \in Tasks : \A S \in SUBSET Tasks :
       (root \in S /\ \A u \in Tasks : Deps[u] \cap S # {} => u \in S) => t \in S}]

\* Wrong variant: a dependency that ended, however it ended, is enough.
DepsEnded(t) == \A d \in Deps[t] : Terminal(store[d].state)

DepsDone(t) == \A d \in Deps[t] : store[d].state = "completed"

\* Tasks are scanned by descending priority, then by id.
Before(a, b) ==
  priority[a] > priority[b] \/ (priority[a] = priority[b] /\ Id[a] < Id[b])

-----------------------------------------------------------------------------
Init ==
  /\ created = Seeded
  /\ priority \in [Tasks -> Priorities]
  /\ store = [t \in Tasks |-> NewRow]
  /\ phase = "serving"
  /\ pc = [s \in Runners |-> "idle"]
  /\ held = [s \in Runners |-> NoTask]
  /\ heldTry = [s \in Runners |-> 0]
  /\ cancelAsked = {}
  /\ kickOwed = FALSE
  /\ crashes = 0 /\ controls = 0
  /\ answered = {}

-----------------------------------------------------------------------------
(* Life of the process.                                                    *)

\* The process is gone: loops, requests and the running prompt with it.
Die ==
  /\ crashes < MaxCrashes
  /\ crashes' = crashes + 1
  /\ phase' = "down"
  /\ pc' = [s \in Runners |-> "idle"]
  /\ held' = [s \in Runners |-> NoTask]
  /\ heldTry' = [s \in Runners |-> 0]
  /\ cancelAsked' = {}
  /\ kickOwed' = FALSE
  /\ answered' = {}
  /\ UNCHANGED <<created, priority, controls>>

Crash == phase # "down" /\ Die /\ UNCHANGED store

\* Time passes for a lease, whether or not a process is up.  A loop awaits
\* nothing from the selection of a task to the set-up of its child session,
\* and a lease lasts a minute: unless loops stall, it does not run out then.
LeaseRunsOut(t, i) ==
  /\ t \in created /\ i \in DOMAIN store[t].tries
  /\ store[t].tries[i].lease = "live"
  /\ Stalls \/ \A s \in Runners :
       pc[s] \in {"claiming", "starting", "booting"} => <<held[s], heldTry[s]>> # <<t, i>>
  /\ store' = [store EXCEPT ![t] =
       PutAttempt(store[t], i, [state |-> store[t].tries[i].state, lease |-> "due"])]
  /\ UNCHANGED <<created, priority, phase, loops, cancelAsked, kickOwed, bounds,
                 answered>>

\* A loop leaves its candidate and goes to "selecting" or, on an error or
\* with nothing to run, to "idle".
Release(s, next) ==
  /\ pc' = [pc EXCEPT ![s] = next]
  /\ held' = [held EXCEPT ![s] = NoTask]
  /\ heldTry' = [heldTry EXCEPT ![s] = 0]

\* An error ends the loop; in the loop that startup awaits it ends the
\* process, which counts as one of its deaths.
Abort(s) ==
  \/ /\ phase = "serving"
     /\ Release(s, "idle")
     /\ UNCHANGED <<created, priority, phase, cancelAsked, kickOwed, bounds,
                    answered>>
  \/ phase = "recovering" /\ Die

\* The loop goes on; store' is left to the action.
Proceed(s, next) ==
  /\ pc' = [pc EXCEPT ![s] = next]
  /\ UNCHANGED <<created, priority, phase, held, heldTry, cancelAsked, kickOwed,
                 bounds, answered>>

\* Wrong variant: a loop handles one task and ends.
NextCandidateNone(s) ==
  /\ Release(s, "idle")
  /\ UNCHANGED <<created, priority, phase, cancelAsked, kickOwed, bounds, answered>>

NextCandidate(s) ==
  /\ Release(s, "selecting")
  /\ UNCHANGED <<created, priority, phase, cancelAsked, kickOwed, bounds, answered>>

-----------------------------------------------------------------------------
(* Startup: reconcile_nonterminal_attempts, then a scheduler loop.         *)

\* Tasks that the sweep cancels when it reaches t: t is itself waiting for
\* its cancellation and passes that on.
ClosedBy(t) ==
  IF t \in created \cap Cascading /\ store[t].state = "cancel_requested"
  THEN (Descendants[t] \cap created) \ {t} ELSE {}

SweepFailures(t) == {d \in ClosedBy(t) : CancelFails(store[d])}

SweepFails == \E t \in created : SweepFailures(t) # {}

\* The store once the sweep has handled every task before stop and, of the
\* cascade of stop, the tasks in done.
SweepUpTo(stop, done) ==
  [x \in Tasks |->
    LET closed == x \in done \/ \E t \in created : t < stop /\ x \in ClosedBy(t)
        row == IF closed THEN CancelRow(store[x]) ELSE store[x]
    IN  IF x \in created /\ x < stop THEN RecoverRow(row) ELSE row]

\* The part of a cascade up to x, in the order of ids.
UpTo(cascade, x) == {y \in cascade : Id[y] <= Id[x]}

Swept ==
  [x \in Tasks |->
    LET row == IF \E t \in created : x \in ClosedBy(t)
               THEN CancelRow(store[x]) ELSE store[x]
    IN  IF x \in created THEN RecoverRow(row) ELSE row]

Restart(s) ==
  /\ phase = "down"
  /\ ~SweepFails
  /\ store' = Swept
  /\ phase' = "recovering"
  /\ pc' = [pc EXCEPT ![s] = "selecting"]
  /\ UNCHANGED <<created, priority, held, heldTry, cancelAsked, kickOwed,
                 bounds, answered>>

\* The first refused cancellation ends the sweep, and with it the startup.
RestartRefused(stop, x) ==
  /\ phase = "down"
  /\ x \in SweepFailures(stop)
  /\ \A t \in created : SweepFailures(t) # {} => stop <= t
  /\ \A y \in SweepFailures(stop) : Id[x] <= Id[y]
  /\ store' = SweepUpTo(stop, UpTo(ClosedBy(stop), x))
  /\ UNCHANGED <<created, priority, phase, loops, cancelAsked, kickOwed,
                 bounds, answered>>

\* Death inside the sweep: in the cascade of stop, or rewriting stop's row.
RestartTorn(stop) ==
  /\ phase = "down"
  /\ \A t \in created : t < stop => SweepFailures(t) = {}
  /\ \/ \E x \in ClosedBy(stop) :
          /\ UpTo(SweepFailures(stop), x) = {}
          /\ \E row \in {CancelHalf(store[x]), CancelRow(store[x])} :
               store' = [SweepUpTo(stop, UpTo(ClosedBy(stop), x)) EXCEPT ![x] = row]
     \/ /\ SweepFailures(stop) = {}
        /\ \E row \in RecoverStages(SweepUpTo(stop, ClosedBy(stop))[stop]) :
             store' = [SweepUpTo(stop, ClosedBy(stop)) EXCEPT ![stop] = row]
  /\ Die

-----------------------------------------------------------------------------
(* One scheduler loop: execute_scheduler_ready_graph_nodes.                *)

\* The end of a prompt in the owner session starts a loop; it may be the
\* prompt that delegated.
Kick(s, delegated) ==
  /\ phase = "serving"
  /\ pc[s] = "idle"
  /\ kickOwed \/ ~delegated
  /\ pc' = [pc EXCEPT ![s] = "selecting"]
  /\ kickOwed' = (kickOwed /\ ~delegated)
  /\ UNCHANGED <<durable, phase, held, heldTry, cancelAsked, bounds, answered>>

Candidates == {t \in created : Runnable(store[t], DepsDone(t))}

\* The tasks a scan visits: those up to the first candidate.
Visited == {t \in created : \A c \in Candidates : ~Before(c, t)}

Select(s) ==
  /\ pc[s] = "selecting"
  /\ store' = [t \in Tasks |->
       IF t \in Visited THEN VisitRow(store[t], DepsDone(t)) ELSE store[t]]
  /\ pc' = [pc EXCEPT ![s] = "claiming"]
  /\ \E first \in Candidates \cap Visited :
       /\ held' = [held EXCEPT ![s] = first]
       /\ heldTry' = [heldTry EXCEPT ![s] = Len(store[first].tries)]
  /\ UNCHANGED <<created, priority, phase, cancelAsked, kickOwed, bounds, answered>>

\* Nothing to run: the loop ends, and startup is over if it was its loop.
SelectNone(s) ==
  /\ pc[s] = "selecting"
  /\ Candidates = {}
  /\ store' = [t \in Tasks |->
       IF t \in created THEN VisitRow(store[t], DepsDone(t)) ELSE store[t]]
  /\ Release(s, "idle")
  /\ phase' = "serving"
  /\ UNCHANGED <<created, priority, cancelAsked, kickOwed, bounds, answered>>

\* Death inside the scan, at task t.
SelectTorn(s, t) ==
  /\ pc[s] = "selecting"
  /\ t \in Visited
  /\ \E row \in {VisitHalf(store[t], DepsDone(t)), VisitRow(store[t], DepsDone(t))} :
       store' = [u \in Tasks |->
         IF u = t THEN row
         ELSE IF u \in Visited /\ Before(u, t) THEN VisitRow(store[u], DepsDone(u))
         ELSE store[u]]
  /\ Die

SetRow(s, row) == store' = [store EXCEPT ![held[s]] = row]

Claim(s) ==
  /\ pc[s] = "claiming"
  /\ SetRow(s, ClaimRow(store[held[s]], heldTry[s]))
  /\ IF ClaimWins(store[held[s]], heldTry[s])
     THEN Proceed(s, "starting") ELSE NextCandidate(s)

\* The task follows its attempt, unless something moved it meanwhile.
Start(s) ==
  /\ pc[s] = "starting"
  /\ SetRow(s, IF store[held[s]].state = "ready"
               THEN SetTask(store[held[s]], "running") ELSE store[held[s]])
  /\ Proceed(s, "booting")

\* The child session is created, or linked again after an interruption; a
\* task that may not follow its running attempt is an error.
Boot(s) ==
  /\ pc[s] = "booting"
  /\ SetRow(s, EnsureRow(store[held[s]], heldTry[s]))
  /\ IF EnsureRefused(store[held[s]], heldTry[s])
     THEN Abort(s) ELSE Proceed(s, "launching")

\* The child session could not be set up.
BootInterrupted(s) ==
  /\ pc[s] = "booting"
  /\ ~EnsureRefused(store[held[s]], heldTry[s])
  /\ SetRow(s, InterruptRow(EnsureRow(store[held[s]], heldTry[s]), heldTry[s]))
  /\ NextCandidate(s)

BootTorn(s) ==
  /\ pc[s] = "booting"
  /\ ~EnsureRefused(store[held[s]], heldTry[s])
  /\ \E row \in {EnsureRow(store[held[s]], heldTry[s]),
                 InterruptHalf(EnsureRow(store[held[s]], heldTry[s]), heldTry[s])} :
       SetRow(s, row)
  /\ Die

Launch(s) ==
  /\ pc[s] = "launching"
  /\ UNCHANGED store
  /\ Proceed(s, "turn")

\* The child session is busy with a prompt of its own.
LaunchRefused(s) ==
  /\ pc[s] = "launching"
  /\ held[s] \in Prompted
  /\ UNCHANGED store
  /\ Abort(s)

TurnEnd(s, end) ==
  /\ pc[s] = "turn"
  /\ pc' = [pc EXCEPT ![s] = end]
  /\ answered' = IF end = "completed" THEN answered \cup {held[s]} ELSE answered
  /\ UNCHANGED <<durable, phase, held, heldTry, cancelAsked, kickOwed, bounds>>

Record(s) ==
  /\ pc[s] \in TurnEnds
  /\ SetRow(s, RecordRow(store[held[s]], heldTry[s], pc[s]))
  /\ IF RecordFails(store[held[s]], heldTry[s], pc[s])
     THEN Abort(s) ELSE NextCandidate(s)

RecordTorn(s) ==
  /\ pc[s] \in TurnEnds
  /\ SetRow(s, RecordHalf(store[held[s]], heldTry[s], pc[s]))
  /\ Die

-----------------------------------------------------------------------------
(* The delegate_task tool, in a turn of the owner session.                 *)

ActiveChildren(p) ==
  {t \in created \cap Delegated : Parent[t] = p /\ ~Terminal(store[t].state)}

\* One transaction: the task, its edge, its first attempt and the bootstrap
\* of its child session, which may fail without undoing the rest.
Delegate(t, row) ==
  /\ phase = "serving"
  /\ t \in Delegated \ created
  /\ \A u \in Delegated : u < t => u \in created
  /\ Parent[t] \in created
  /\ Cardinality(ActiveChildren(Parent[t])) < MaxConcurrency
  /\ created' = created \cup {t}
  /\ store' = [store EXCEPT ![t] = row]
  /\ kickOwed' = TRUE
  /\ UNCHANGED <<priority, phase, loops, cancelAsked, bounds, answered>>

-----------------------------------------------------------------------------
(* Control calls over the web API.                                         *)

\* A cancel call is validated in one critical section ...
AskCancel(t) ==
  /\ phase = "serving"
  /\ t \in created \ cancelAsked
  /\ store[t].state \notin {"completed", "cancelled", "cancel_requested", "failed"}
  /\ Cardinality(cancelAsked) < MaxRequests
  /\ cancelAsked' = cancelAsked \cup {t}
  /\ UNCHANGED <<durable, phase, loops, kickOwed, bounds, answered>>

\* ... and carried out in another: the task and everything that depends on
\* it, in the order of ids, up to the first refusal.
Cascade(root) == Descendants[root] \cap created

CancelReaches(root) ==
  {x \in Cascade(root) :
    \A y \in Cascade(root) : CancelFails(store[y]) => Id[x] <= Id[y]}

CancelGraph(root) ==
  /\ phase = "serving"
  /\ root \in cancelAsked
  /\ cancelAsked' = cancelAsked \ {root}
  /\ store' = [x \in Tasks |->
       IF x \in CancelReaches(root) THEN CancelRow(store[x]) ELSE store[x]]
  /\ UNCHANGED <<created, priority, phase, loops, kickOwed, bounds, answered>>

CancelTorn(root, at) ==
  /\ phase = "serving"
  /\ root \in cancelAsked
  /\ at \in CancelReaches(root)
  /\ \E row \in {CancelHalf(store[at]), CancelRow(store[at])} :
       store' = [x \in Tasks |->
         IF x = at THEN row
         ELSE IF x \in CancelReaches(root) /\ Id[x] < Id[at] THEN CancelRow(store[x])
         ELSE store[x]]
  /\ Die

\* What a call asks for: the states it accepts, the one it moves from, and
\* whether the new attempt continues in the old child session.
Controls ==
  {[source |-> "failed",      carry |-> FALSE],    \* retry_task
   [source |-> "interrupted", carry |-> TRUE]}     \* resume_task

\* Wrong variant: a call is accepted in whatever state the task is.
AcceptsAny(c, t) == t \in created /\ c \in Controls

Accepts(c, t) == t \in created /\ store[t].state \in {c.source, "retryable"}

StartOver(c, t) ==
  /\ phase = "serving"
  /\ Accepts(c, t)
  /\ controls < MaxControls
  /\ controls' = controls + 1
  /\ store' = [store EXCEPT ![t] = FreshRow(store[t], c.source, c.carry)]
  /\ UNCHANGED <<created, priority, phase, loops, cancelAsked, kickOwed, crashes,
                 answered>>

StartOverTorn(c, t, n) ==
  /\ phase = "serving"
  /\ Accepts(c, t)
  /\ store' = [store EXCEPT ![t] = FreshStage(store[t], c.source, c.carry, n)]
  /\ Die

Reprioritize(t, p) ==
  /\ phase = "serving"
  /\ t \in created
  /\ store[t].state \in {"queued", "ready"}
  /\ priority' = [priority EXCEPT ![t] = p]
  /\ UNCHANGED <<created, store, phase, loops, cancelAsked, kickOwed, bounds,
                 answered>>

-----------------------------------------------------------------------------
LoopStep(s) ==
  \/ Select(s) \/ SelectNone(s)
  \/ Claim(s) \/ Start(s)
  \/ Boot(s) \/ BootInterrupted(s)
  \/ Launch(s) \/ LaunchRefused(s)
  \/ \E end \in TurnEnds : TurnEnd(s, end)
  \/ Record(s)

Control ==
  \/ \E t \in Tasks : AskCancel(t) \/ CancelGraph(t)
  \/ \E c \in Controls, t \in Tasks : StartOver(c, t)
  \/ \E t \in Tasks, p \in Priorities : Reprioritize(t, p)

Spawn ==
  \E t \in Tasks : Delegate(t, NewRow) \/ Delegate(t, InterruptRow(NewRow, 1))

Startup ==
  \/ \E s \in Runners : Restart(s)
  \/ \E t \in created, x \in created : RestartRefused(t, x)

Torn ==
  \/ Crash
  \/ \E t \in created : RestartTorn(t)
  \/ \E s \in Runners, t \in created : SelectTorn(s, t)
  \/ \E s \in Runners : BootTorn(s) \/ RecordTorn(s)
  \/ \E t, u \in created : CancelTorn(t, u)
  \/ \E c \in Controls, t \in created, n \in 1..3 : StartOverTorn(c, t, n)

Next ==
  \/ \E s \in Runners : LoopStep(s)
  \/ \E s \in Runners, delegated \in BOOLEAN : Kick(s, delegated)
  \/ \E t \in created : \E i \in DOMAIN store[t].tries : LeaseRunsOut(t, i)
  \/ Spawn \/ Control \/ Startup \/ Torn

Spec == Init /\ [][Next]_vars

\* Loops make progress, child turns included, and the prompt that delegated
\* ends.  Nothing is assumed of the user, of leases or of crashes.
Fairness ==
  /\ \A s \in Runners : WF_vars(LoopStep(s))
  /\ WF_vars(\E s \in Runners : Kick(s, TRUE))

FairSpec == Spec /\ Fairness

\* The owner session keeps being prompted and leases run out in time.
BusyFairness ==
  /\ Fairness
  /\ WF_vars(\E s \in Runners : Kick(s, FALSE))
  /\ WF_vars(Startup)
  /\ \A t \in Tasks : WF_vars(\E i \in DOMAIN store[t].tries : LeaseRunsOut(t, i))

BusySpec == Spec /\ BusyFairness

-----------------------------------------------------------------------------
(* Properties.                                                             *)

\* Every variable keeps its type; a task never loses its last attempt.
TypeOK ==
  /\ created \subseteq Tasks
  /\ priority \in [Tasks -> Priorities]
  /\ store \in [Tasks -> Row]
  /\ \A t \in Tasks : store[t].tries # <<>>
  /\ phase \in {"down", "recovering", "serving"}
  /\ pc \in [Runners -> PCs]
  /\ held \in [Runners -> created \cup {NoTask}]
  /\ heldTry \in [Runners -> Nat]
  /\ \A s \in Runners :
       IF pc[s] \in {"idle", "selecting"} THEN held[s] = NoTask
       ELSE held[s] \in created /\ heldTry[s] \in DOMAIN store[held[s]].tries
  /\ phase = "down" => \A s \in Runners : pc[s] = "idle"
  /\ cancelAsked \subseteq created
  /\ kickOwed \in BOOLEAN
  /\ crashes \in 0..MaxCrashes /\ controls \in 0..MaxControls
  /\ answered \subseteq created

Working(s) == pc[s] \in Claimed

\* No two loops ever run the same task, whatever the control calls, restarts
\* and expired leases between their steps (select and claim are two critical
\* sections of execute_scheduler_ready_graph_nodes).
OneRunnerPerTask ==
  \A s1, s2 \in Runners :
    s1 # s2 /\ Working(s1) /\ Working(s2) => held[s1] # held[s2]

\* The attempt a loop will record its turn on is still the newest one: no
\* retry, resume or recovery replaces an attempt under a loop.
RunnerHoldsNewestAttempt ==
  \A s \in Runners : Working(s) => heldTry[s] = Len(store[held[s]].tries)

\* A loop works on a task only while everything it depends on is completed,
\* although the dependencies were looked at before the claim.
DependenciesFirst ==
  \A s \in Runners : Working(s) =>
    \A d \in Deps[held[s]] : store[d].state = "completed"

\* The task and its newest attempt are written one after the other, and still
\* no interleaving or death makes the task claim more than its attempt did.
TaskNeverAheadOfAttempt ==
  \A t \in created : store[t].state \in {"completed", "failed"} =>
    Latest(store[t]).state = store[t].state

\* The parts of the inductive invariant: each row by itself, and each loop at
\* work with the row it works on.
RowInv(t) == RowOK(store[t], DepsDone(t))

WorkInv(s) ==
  Working(s) =>
    /\ heldTry[s] = Len(store[held[s]].tries)
    /\ WorkedOn(store[held[s]], DepsDone(held[s]))

\* A task that is not created yet has nothing in its row.
Untouched == \A t \in Tasks \ created : store[t] = NewRow

\* Together with the types this is inductive: what the loop found when it
\* selected its task is still so after the claim, because only a ready
\* newest attempt can be claimed and nothing but its loop moves a claimed one
\* to a state from which a control call could start the task over.
IInv ==
  /\ TypeOK
  /\ \A t \in Tasks : RowInv(t)
  /\ \A s \in Runners : WorkInv(s)
  /\ OneRunnerPerTask
  /\ Untouched

\* A task reported as cancelled has no loop on it, not even one between the
\* claim of the attempt and the write to the task.
CancelledIsQuiet ==
  \A s \in Runners : Working(s) => store[held[s]].state # "cancelled"

\* Until the process restarts, a task whose child turn completed is never
\* started again, even when the result could not be recorded.
NoRerunOfFinishedTask ==
  \A s \in Runners :
    pc[s] \in {"starting", "booting", "launching", "turn"} => held[s] \notin answered

\* An attempt that a newer one replaced is history: nothing moves it again.
SupersededAttemptsStay ==
  [][\A t \in Tasks : \A i \in DOMAIN store[t].tries :
       i < Len(store[t].tries) => store'[t].tries[i].state = store[t].tries[i].state]_vars

\* The steps in which a loop writes to the row it works on, cut short by a
\* death or not.
OwnWrite(s) ==
  Start(s) \/ Boot(s) \/ BootInterrupted(s) \/ BootTorn(s) \/ Record(s) \/ RecordTorn(s)

\* A running attempt whose lease has not run out is moved by nobody but the
\* loop that works on it, in a step of that loop: another loop's claim or scan, a
\* control call or a recovery leaves it running or asks it to stop.  (The store
\* looks at the expiry time in claim_runnable_with_lease and in the sweep only.)
LiveLeaseIsRespected ==
  [][\A t \in Tasks : \A i \in DOMAIN store[t].tries :
       /\ store[t].tries[i] = [state |-> "running", lease |-> "live"]
       /\ store'[t].tries[i].state \notin {"running", "cancel_requested"}
       => \E s \in Runners : /\ Working(s) /\ held[s] = t /\ heldTry[s] = i
                            /\ OwnWrite(s)]_vars

\* A second recovery right after the first changes nothing (tests/runtime.rs:
\* "recovery should be idempotent once nonterminal attempts are reconciled").
RecoveryIsIdempotent ==
  [][phase = "down" /\ phase' = "recovering" => Swept' = store']_vars

\* A created task whose dependencies are done ends up settled by itself, with
\* no further prompt of the owner.  (No crash, cancel call or busy child.)
Settles(t) ==
  t \in created \cap Delegated /\ DepsDone(t)
    ~> store[t].state \in {"completed", "failed", "interrupted"}

DelegatedWorkSettles == \A t \in Tasks : Settles(t)

Waiting(t) ==
  /\ t \in created /\ DepsDone(t)
  /\ {store[t].state, Latest(store[t]).state}
       \subseteq {"queued", "ready", "blocked", "retryable"}

\* While the owner session keeps being prompted, work that could run is picked
\* up eventually, whatever other loops failed on.
ReadyWorkIsPickedUp == \A t \in Tasks : Waiting(t) ~> ~Waiting(t)

Orphan(t) ==
  /\ phase = "serving" /\ t \in created
  /\ store[t].state = "running"
  /\ \A s \in Runners : Working(s) => held[s] # t

\* Claim of tests/runtime.rs, "restart_recovery_resumes_nonterminal_tasks_
\* automatically": no task stays running without a loop once the process
\* serves again.
RestartResumesTasks == \A t \in Tasks : Orphan(t) ~> ~Orphan(t)

\* Claim of tests/runtime.rs, "parent_close_requests_descendant_cancellation_
\* before_recovery": the cascade of a closing task goes through at startup.
RecoveryIsNeverRefused == phase = "down" => ~SweepFails

-----------------------------------------------------------------------------
(* The scheduler implements the board.                                     *)

BoardStatus ==
  [t \in Tasks |->
    IF t \notin created THEN "absent"
    ELSE CASE store[t].state = "completed" -> "done"
           [] store[t].state = "cancel_requested" -> "closing"
           [] store[t].state \in {"failed", "cancelled"} -> store[t].state
           [] OTHER -> "open"]

InTurn(s) == pc[s] \in {"turn"} \cup TurnEnds

BoardRun ==
  [t \in Tasks |->
    IF \E s \in Runners : InTurn(s) /\ held[s] = t
    THEN pc[CHOOSE s \in Runners : InTurn(s) /\ held[s] = t] ELSE "idle"]

Board == INSTANCE TaskBoard WITH status <- BoardStatus, run <- BoardRun

\* Every behaviour of the scheduler is one of the board.
BoardSpec == Board!Spec
=============================================================================
