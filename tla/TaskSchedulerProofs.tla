------------------------- MODULE TaskSchedulerProofs -------------------------
(***************************************************************************)
(* IInv is inductive, for any tasks, dependencies, loops and bounds; the   *)
(* safety properties of the scheduler follow from it.                      *)
(*                                                                         *)
(* Every action rewrites rows in the ways TaskLifecycleProofs is about, so *)
(* the proof is about loops: a loop at work keeps its row because nobody   *)
(* else may claim it (its newest attempt is not ready) or start it over    *)
(* (its task is in none of the states a control call accepts).             *)
(***************************************************************************)
EXTENDS TaskScheduler, TaskLifecycleProofs

StoreOK ==
  /\ store \in [Tasks -> Row]
  /\ \A t \in Tasks : store[t].tries # <<>>
  /\ \A t \in Tasks : RowInv(t)

LoopOK(s) ==
  IF pc[s] \in {"idle", "selecting"} THEN held[s] = NoTask
  ELSE held[s] \in created /\ heldTry[s] \in DOMAIN store[held[s]].tries

LoopsOK ==
  /\ pc \in [Runners -> PCs]
  /\ held \in [Runners -> created \cup {NoTask}]
  /\ heldTry \in [Runners -> Nat]
  /\ \A s \in Runners : LoopOK(s)
  /\ phase = "down" => \A s \in Runners : pc[s] = "idle"
  /\ \A s \in Runners : WorkInv(s)
  /\ OneRunnerPerTask

RestOK ==
  /\ created \subseteq Tasks
  /\ priority \in [Tasks -> Priorities]
  /\ phase \in {"down", "recovering", "serving"}
  /\ cancelAsked \subseteq created
  /\ kickOwed \in BOOLEAN
  /\ crashes \in 0..MaxCrashes /\ controls \in 0..MaxControls
  /\ answered \subseteq created

\* All of IInv but Untouched, which only the creation of a task needs.
Kernel ==
  /\ TypeOK
  /\ \A t \in Tasks : RowInv(t)
  /\ \A s \in Runners : WorkInv(s)
  /\ OneRunnerPerTask

\* The kernel, sorted by what an action changes.
LEMMA Parts == Kernel <=> StoreOK /\ LoopsOK /\ RestOK
BY DEF Kernel, TypeOK, StoreOK, LoopsOK, RestOK, LoopOK

\* The same of the next state.
LEMMA PartsNext ==
  ASSUME StoreOK', LoopsOK', RestOK'
  PROVE  Kernel'
BY Parts, PTL

\* What the initial states need of the constants.
LEMMA Bounds ==
  ASSUME SchedulerAssumption
  PROVE  Seeded \subseteq Tasks /\ MaxCrashes \in Nat /\ MaxControls \in Nat
BY DEF SchedulerAssumption

-----------------------------------------------------------------------------
(* The store.                                                              *)

\* Every row is a rewrite of the one before, judged by the dependencies as
\* they were.
RowsKept ==
  /\ store' = [t \in Tasks |-> store'[t]]
  /\ \A t \in Tasks : Rewrites(store[t], store'[t]) /\ RowOK(store'[t], DepsDone(t))

\* A stored row satisfies what the row lemmas ask for.
LEMMA SoundRows ==
  ASSUME StoreOK, NEW t \in Tasks
  PROVE  Sound(store[t]) /\ RowOK(store[t], DepsDone(t)) /\ DepsDone(t) \in BOOLEAN
BY DEF StoreOK, Sound, RowInv, DepsDone

\* Dependencies once done stay done.
LEMMA DepsStayDone ==
  ASSUME SchedulerAssumption, RowsKept, NEW t \in Tasks, DepsDone(t)
  PROVE  DepsDone(t)'
BY DEF SchedulerAssumption, RowsKept, Rewrites, DepsDone

\* A row that is in order stays so when more dependencies are done.
LEMMA MoreDeps ==
  ASSUME NEW r, NEW d \in BOOLEAN, NEW e \in BOOLEAN, d => e
  PROVE  /\ RowOK(r, d) => RowOK(r, e)
         /\ WorkedOn(r, d) => WorkedOn(r, e)
BY DEF RowOK, Fits, WorkedOn

\* If every row is rewritten in order, the store stays in order.
LEMMA StoreStep ==
  ASSUME SchedulerAssumption, StoreOK, RowsKept
  PROVE  StoreOK'
<1>1. store' \in [Tasks -> Row] /\ \A t \in Tasks : store'[t].tries # <<>>
  BY DEF RowsKept, Rewrites, Sound
<1>2. ASSUME NEW t \in Tasks PROVE RowInv(t)'
  <2>1. DepsDone(t) \in BOOLEAN /\ DepsDone(t)' \in BOOLEAN
    BY DEF DepsDone
  <2>2. DepsDone(t) => DepsDone(t)'
    BY DepsStayDone
  <2>3. RowOK(store'[t], DepsDone(t)')
    BY <2>1, <2>2, MoreDeps DEF RowsKept
  <2> QED
    BY <2>3 DEF RowInv
<1> QED
  BY <1>1, <1>2 DEF StoreOK

\* A row that stays as it is.
LEMMA SameRow ==
  ASSUME NEW r, Sound(r)
  PROVE  Rewrites(r, r)
BY LatestType DEF Rewrites

\* Leaving the store alone rewrites every row in order.
LEMMA SameStore ==
  ASSUME StoreOK, UNCHANGED store
  PROVE  RowsKept
<1>1. store' = [t \in Tasks |-> store'[t]]
  BY DEF StoreOK
<1> QED
  BY <1>1, SoundRows, SameRow DEF RowsKept

\* One row rewritten.
LEMMA OneRow ==
  ASSUME StoreOK, NEW t \in Tasks, NEW q, store' = [store EXCEPT ![t] = q],
         Rewrites(store[t], q), RowOK(q, DepsDone(t))
  PROVE  /\ RowsKept /\ store'[t] = q
         /\ \A u \in Tasks : u # t => store'[u] = store[u]
<1>1. store' = [u \in Tasks |-> IF u = t THEN q ELSE store[u]]
  BY DEF StoreOK
<1>2. store' = [u \in Tasks |-> store'[u]]
  BY <1>1
<1>3. store'[t] = q /\ \A u \in Tasks : u # t => store'[u] = store[u]
  BY <1>1
<1>4. \A u \in Tasks : Rewrites(store[u], store'[u]) /\ RowOK(store'[u], DepsDone(u))
  BY <1>3, SoundRows, SameRow
<1> QED
  BY <1>2, <1>3, <1>4 DEF RowsKept
-----------------------------------------------------------------------------
(* The loops.                                                              *)

\* The row that loop u works on, if any, is still one to work on.
Undisturbed(u) ==
  Working(u) =>
    LET t == held[u] IN
    /\ Len(store'[t].tries) = Len(store[t].tries)
    /\ WorkedOn(store[t], DepsDone(t)) => WorkedOn(store'[t], DepsDone(t))

\* A row that a loop works on belongs to a created task.
LEMMA WorksOnTask ==
  ASSUME Kernel, NEW s \in Runners, pc[s] \notin {"idle", "selecting"}
  PROVE  /\ held[s] \in created /\ held[s] \in Tasks
         /\ heldTry[s] \in DOMAIN store[held[s]].tries
         /\ Sound(store[held[s]])
         /\ RowOK(store[held[s]], DepsDone(held[s]))
         /\ Working(s) => /\ heldTry[s] = Len(store[held[s]].tries)
                          /\ WorkedOn(store[held[s]], DepsDone(held[s]))
<1>1. held[s] \in created /\ held[s] \in Tasks
      /\ heldTry[s] \in DOMAIN store[held[s]].tries
  BY Parts DEF LoopsOK, LoopOK, RestOK
<1>2. Sound(store[held[s]]) /\ RowOK(store[held[s]], DepsDone(held[s]))
  BY <1>1, Parts, SoundRows
<1> QED
  BY <1>1, <1>2 DEF Kernel, WorkInv

\* A loop that does not move and is not disturbed.
LEMMA StillLoop ==
  ASSUME SchedulerAssumption, Kernel, RowsKept, created \subseteq created',
         NEW u \in Runners, Undisturbed(u),
         pc'[u] = pc[u], held'[u] = held[u], heldTry'[u] = heldTry[u]
  PROVE  LoopOK(u)' /\ WorkInv(u)'
<1>1. LoopOK(u) /\ WorkInv(u)
  BY Parts DEF LoopsOK
<1>2. CASE pc[u] \in {"idle", "selecting"}
  BY <1>1, <1>2 DEF LoopOK, WorkInv, Working, Claimed, TurnEnds
<1>3. CASE pc[u] \notin {"idle", "selecting"}
  <2> DEFINE t == held[u]
  <2>1. t \in created /\ t \in Tasks /\ heldTry[u] \in DOMAIN store[t].tries
    BY <1>3, WorksOnTask
  <2>2. Rewrites(store[t], store'[t])
    BY <2>1 DEF RowsKept
  <2>3. heldTry[u] \in DOMAIN store'[t].tries
    BY <2>1, <2>2 DEF Rewrites
  <2>4. LoopOK(u)'
    BY <1>3, <2>1, <2>3 DEF LoopOK
  <2>5. ASSUME Working(u)
        PROVE  heldTry[u] = Len(store'[t].tries) /\ WorkedOn(store'[t], DepsDone(t)')
    <3>1. heldTry[u] = Len(store'[t].tries) /\ WorkedOn(store'[t], DepsDone(t))
      BY <1>1, <2>5 DEF WorkInv, Undisturbed
    <3>2. DepsDone(t) => DepsDone(t)'
      BY <2>1, DepsStayDone
    <3>3. DepsDone(t) \in BOOLEAN /\ DepsDone(t)' \in BOOLEAN
      BY DEF DepsDone
    <3> QED
      BY <3>1, <3>2, <3>3, MoreDeps
  <2>6. WorkInv(u)'
    BY <2>5 DEF WorkInv, Working
  <2> QED
    BY <2>4, <2>6
<1> QED
  BY <1>2, <1>3

\* No loop moves.
LEMMA LoopsStay ==
  ASSUME SchedulerAssumption, Kernel, RowsKept, created \subseteq created',
         UNCHANGED loops, \A u \in Runners : Undisturbed(u),
         phase' = "down" => phase = "down"
  PROVE  LoopsOK'
<1>1. pc' = pc /\ held' = held /\ heldTry' = heldTry
  BY DEF loops
<1>2. \A u \in Runners : LoopOK(u)' /\ WorkInv(u)'
  BY <1>1, StillLoop
<1>3. pc \in [Runners -> PCs] /\ held \in [Runners -> created' \cup {NoTask}]
      /\ heldTry \in [Runners -> Nat]
  BY Parts DEF LoopsOK
<1>4. phase' = "down" => \A s \in Runners : pc'[s] = "idle"
  BY <1>1, Parts DEF LoopsOK
<1>5. OneRunnerPerTask'
  BY <1>1 DEF Kernel, OneRunnerPerTask, Working
<1> QED
  BY <1>1, <1>2, <1>3, <1>4, <1>5 DEF LoopsOK

\* Loop s moves, and the others keep to theirs.
LEMMA LoopMoves ==
  ASSUME SchedulerAssumption, Kernel, RowsKept, created \subseteq created',
         NEW s \in Runners, NEW next \in PCs,
         NEW h \in created' \cup {NoTask}, NEW n \in Nat,
         pc' = [pc EXCEPT ![s] = next],
         held' = [held EXCEPT ![s] = h],
         heldTry' = [heldTry EXCEPT ![s] = n],
         phase' # "down",
         \A u \in Runners \ {s} : Undisturbed(u),
         IF next \in {"idle", "selecting"} THEN h = NoTask
         ELSE h \in created' /\ n \in DOMAIN store'[h].tries,
         next \in Claimed =>
           /\ n = Len(store'[h].tries) /\ WorkedOn(store'[h], DepsDone(h)')
           /\ \A u \in Runners \ {s} : Working(u) => held[u] # h
  PROVE  LoopsOK'
<1>1. pc \in [Runners -> PCs] /\ held \in [Runners -> created \cup {NoTask}]
      /\ heldTry \in [Runners -> Nat]
  BY Parts DEF LoopsOK
<1>2. pc' \in [Runners -> PCs] /\ held' \in [Runners -> created' \cup {NoTask}]
      /\ heldTry' \in [Runners -> Nat]
  BY <1>1
<1>3. pc'[s] = next /\ held'[s] = h /\ heldTry'[s] = n
  BY <1>1
<1>4. \A u \in Runners \ {s} :
        pc'[u] = pc[u] /\ held'[u] = held[u] /\ heldTry'[u] = heldTry[u]
  BY <1>1
<1>5. \A u \in Runners \ {s} : LoopOK(u)' /\ WorkInv(u)'
  BY <1>4, StillLoop
<1>6. LoopOK(s)' /\ WorkInv(s)'
  BY <1>3 DEF LoopOK, WorkInv, Working
<1>7. OneRunnerPerTask'
  <2>1. ASSUME NEW a \in Runners, NEW b \in Runners, a # b, Working(a)', Working(b)'
        PROVE  held'[a] # held'[b]
    <3>1. CASE a = s
      BY <3>1, <2>1, <1>3, <1>4 DEF Working
    <3>2. CASE b = s
      BY <3>2, <2>1, <1>3, <1>4 DEF Working
    <3>3. CASE a # s /\ b # s
      BY <3>3, <2>1, <1>4 DEF Working, Kernel, OneRunnerPerTask
    <3> QED
      BY <3>1, <3>2, <3>3
  <2> QED
    BY <2>1 DEF OneRunnerPerTask
<1> QED
  BY <1>2, <1>5, <1>6, <1>7 DEF LoopsOK

\* The process is gone.
LEMMA Dies ==
  ASSUME SchedulerAssumption, Kernel, Die
  PROVE  LoopsOK' /\ RestOK'
<1>1. pc' \in [Runners -> PCs] /\ held' \in [Runners -> created' \cup {NoTask}]
      /\ heldTry' \in [Runners -> Nat]
  BY DEF Die, PCs
<1>2. \A s \in Runners : pc'[s] = "idle" /\ held'[s] = NoTask
  BY DEF Die
<1>3. \A s \in Runners : LoopOK(s)' /\ ~Working(s)'
  BY <1>2 DEF LoopOK, Working, Claimed, TurnEnds
<1>4. LoopsOK'
  BY <1>1, <1>2, <1>3 DEF LoopsOK, WorkInv, OneRunnerPerTask
<1>5. RestOK /\ MaxCrashes \in Nat
  BY Parts DEF SchedulerAssumption
<1>6. crashes' \in 0..MaxCrashes
  BY <1>5 DEF Die, RestOK
<1>7. RestOK'
  BY <1>5, <1>6 DEF Die, RestOK
<1> QED
  BY <1>4, <1>7

\* Nothing of a row that stays as it is disturbs anyone.
LEMMA SameRowUndisturbed ==
  ASSUME NEW u \in Runners, store'[held[u]] = store[held[u]]
  PROVE  Undisturbed(u)
BY DEF Undisturbed

\* A loop leaves its candidate.
LEMMA Releases ==
  ASSUME SchedulerAssumption, Kernel, RowsKept, UNCHANGED created, phase' # "down",
         NEW s \in Runners, NEW next \in {"idle", "selecting"}, Release(s, next),
         \A u \in Runners \ {s} : Undisturbed(u)
  PROVE  LoopsOK'
BY LoopMoves DEF Release, PCs, Claimed, TurnEnds
-----------------------------------------------------------------------------
(* The initial states.                                                     *)

\* The initial states are in the kernel.
LEMMA InitOK == SchedulerAssumption /\ Init => Kernel
<1> SUFFICES ASSUME SchedulerAssumption, Init PROVE Kernel
  OBVIOUS
<1>1. \A d \in BOOLEAN : Sound(NewRow) /\ RowOK(NewRow, d)
  BY NewRowOK
<1>2. \A t \in Tasks : DepsDone(t) \in BOOLEAN /\ store[t] = NewRow
  BY DEF DepsDone, Init
<1>3. StoreOK
  BY <1>1, <1>2 DEF Init, StoreOK, RowInv, Sound
<1>4. \A s \in Runners : pc[s] = "idle" /\ held[s] = NoTask
  BY DEF Init
<1>5. \A s \in Runners : LoopOK(s) /\ ~Working(s)
  BY <1>4 DEF LoopOK, Working, Claimed, TurnEnds
<1>6. pc \in [Runners -> PCs] /\ held \in [Runners -> created \cup {NoTask}]
      /\ heldTry \in [Runners -> Nat] /\ phase = "serving"
  BY DEF Init, PCs
<1>7. LoopsOK
  BY <1>5, <1>6 DEF LoopsOK, WorkInv, OneRunnerPerTask
<1>8. crashes \in 0..MaxCrashes /\ controls \in 0..MaxControls
  BY Bounds DEF Init
<1>9. RestOK
  BY <1>8, Bounds DEF Init, RestOK
<1> QED
  BY <1>3, <1>7, <1>9, Parts

-----------------------------------------------------------------------------
(* Process deaths: whatever prefix of its writes an action leaves behind,  *)
(* it is enough that every row is a rewrite.                               *)

\* A death needs nothing but rows in order.
LEMMA DeathKeeps ==
  ASSUME SchedulerAssumption, Kernel, RowsKept, Die
  PROVE  Kernel' /\ RowsKept
<1>1. StoreOK'
  BY Parts, StoreStep
<1>2. LoopsOK' /\ RestOK'
  BY Dies
<1> QED
  BY <1>1, <1>2, PartsNext

\* A death between two critical sections.
LEMMA CrashKeeps ==
  ASSUME SchedulerAssumption, Kernel, Crash
  PROVE  Kernel' /\ RowsKept
BY Parts, SameStore, DeathKeeps DEF Crash

\* A loop's own row rewritten.
LEMMA OwnRow ==
  ASSUME Kernel, NEW s \in Runners, pc[s] \notin {"idle", "selecting"}, NEW q,
         SetRow(s, q), Rewrites(store[held[s]], q), RowOK(q, DepsDone(held[s]))
  PROVE  /\ RowsKept /\ store'[held[s]] = q
         /\ Working(s) => \A u \in Runners \ {s} : Undisturbed(u)
<1>1. held[s] \in Tasks /\ StoreOK
  BY WorksOnTask, Parts
<1>2. /\ RowsKept /\ store'[held[s]] = q
      /\ \A t \in Tasks : t # held[s] => store'[t] = store[t]
  BY <1>1, OneRow DEF SetRow
<1>3. ASSUME Working(s), NEW u \in Runners \ {s}
      PROVE  Undisturbed(u)
  <2>1. CASE Working(u)
    <3>1. held[u] # held[s] /\ held[u] \in Tasks
      BY <1>3, <2>1, WorksOnTask DEF Kernel, OneRunnerPerTask, Working, Claimed, TurnEnds
    <3> QED
      BY <3>1, <1>2, SameRowUndisturbed
  <2>2. CASE ~Working(u)
    BY <2>2 DEF Undisturbed
  <2> QED
    BY <2>1, <2>2
<1> QED
  BY <1>2, <1>3

\* A death between the attempt's and the task's write of a record.
LEMMA RecordTornKeeps ==
  ASSUME SchedulerAssumption, Kernel, NEW s \in Runners, RecordTorn(s)
  PROVE  Kernel' /\ RowsKept
<1> DEFINE q == RecordHalf(store[held[s]], heldTry[s], pc[s])
<1>1. pc[s] \in {"completed", "failed", "interrupted"} /\ Working(s)
      /\ pc[s] \notin {"idle", "selecting"} /\ SetRow(s, q) /\ Die
  BY DEF RecordTorn, Working, Claimed, TurnEnds
<1>2. Rewrites(store[held[s]], q) /\ RowOK(q, DepsDone(held[s]))
  BY <1>1, WorksOnTask, RecordKeeps DEF DepsDone
<1> QED
  BY <1>1, <1>2, OwnRow, DeathKeeps

\* A death inside the bootstrap of a child session.
LEMMA BootTornKeeps ==
  ASSUME SchedulerAssumption, Kernel, NEW s \in Runners, BootTorn(s)
  PROVE  Kernel' /\ RowsKept
<1> DEFINE t == held[s]
           i == heldTry[s]
           q1 == EnsureRow(store[t], i)
           q2 == InterruptHalf(q1, i)
<1>1. pc[s] = "booting" /\ Working(s) /\ pc[s] \notin {"idle", "selecting"} /\ Die
      /\ (SetRow(s, q1) \/ SetRow(s, q2))
  BY DEF BootTorn, Working, Claimed, TurnEnds
<1>2. /\ Sound(store[t]) /\ RowOK(store[t], DepsDone(t)) /\ WorkedOn(store[t], DepsDone(t))
      /\ i \in DOMAIN store[t].tries /\ i = Len(store[t].tries)
      /\ DepsDone(t) \in BOOLEAN
  BY <1>1, WorksOnTask DEF DepsDone
<1>3. /\ Rewrites(store[t], q1) /\ RowOK(q1, DepsDone(t)) /\ WorkedOn(q1, DepsDone(t))
      /\ Len(q1.tries) = i
  BY <1>2, EnsureKeeps
<1>4. Sound(q1)
  BY <1>3 DEF Rewrites
<1> HIDE DEF q1
<1>5. Rewrites(q1, q2) /\ RowOK(q2, DepsDone(t))
  BY <1>2, <1>3, <1>4, InterruptKeeps
<1>6. Rewrites(store[t], q2)
  BY <1>2, <1>3, <1>5, RewritesTransitive
<1> HIDE DEF q2
<1> QED
  BY <1>1, <1>3, <1>5, <1>6, OwnRow, DeathKeeps

\* The two control calls that start a task over.
LEMMA ControlKinds ==
  ASSUME NEW c \in Controls
  PROVE  c.source \in {"failed", "interrupted"} /\ c.carry \in BOOLEAN
<1>1. \/ c = [source |-> "failed", carry |-> FALSE]
      \/ c = [source |-> "interrupted", carry |-> TRUE]
  BY DEF Controls
<1>2. CASE c = [source |-> "failed", carry |-> FALSE]
  BY <1>2
<1>3. CASE c = [source |-> "interrupted", carry |-> TRUE]
  BY <1>3
<1> QED
  BY <1>1, <1>2, <1>3

\* A death inside retry_task or resume_task.
LEMMA StartOverTornKeeps ==
  ASSUME SchedulerAssumption, Kernel, NEW c \in Controls, NEW t \in created,
         NEW n \in 1..3, StartOverTorn(c, t, n)
  PROVE  Kernel' /\ RowsKept
<1> DEFINE q == FreshStage(store[t], c.source, c.carry, n)
<1>1. t \in Tasks /\ Sound(store[t]) /\ RowOK(store[t], DepsDone(t))
      /\ DepsDone(t) \in BOOLEAN /\ StoreOK
  BY Parts, SoundRows DEF RestOK
<1>2. c.source \in {"failed", "interrupted"} /\ c.carry \in BOOLEAN
  BY ControlKinds
<1>3. store[t].state \in {c.source, "retryable"} /\ Die /\ n \in 1..4
      /\ store' = [store EXCEPT ![t] = q]
  BY DEF StartOverTorn, Accepts
<1>4. Rewrites(store[t], q) /\ RowOK(q, DepsDone(t))
  BY <1>1, <1>2, <1>3, FreshKeeps
<1> HIDE DEF q
<1> QED
  BY <1>1, <1>3, <1>4, OneRow, DeathKeeps
-----------------------------------------------------------------------------
(* Startup.                                                                *)

\* Anything that the sweep makes of one row, cut short or not.
LEMMA SweepKeeps ==
  ASSUME NEW r, Sound(r), NEW d \in BOOLEAN, RowOK(r, d),
         NEW row \in {r, CancelRow(r), CancelHalf(r)},
         NEW q \in {row, RecoverRow(row)} \cup RecoverStages(row)
  PROVE  Rewrites(r, q) /\ RowOK(q, d)
<1>1. Rewrites(r, row) /\ RowOK(row, d)
  BY SameRow, CancelKeeps
<1>2. Sound(row)
  BY <1>1 DEF Rewrites
<1>3. Rewrites(row, q) /\ RowOK(q, d)
  BY <1>1, <1>2, SameRow, RecoverKeeps
<1> QED
  BY <1>1, <1>3, RewritesTransitive

\* No loop is at work while the process is down.
LEMMA DownIsQuiet ==
  ASSUME Kernel, phase = "down"
  PROVE  \A u \in Runners : pc[u] = "idle" /\ Undisturbed(u)
BY Parts DEF LoopsOK, Undisturbed, Working, Claimed, TurnEnds

\* An idle loop starts.
LEMMA Wakes ==
  ASSUME SchedulerAssumption, Kernel, RowsKept, UNCHANGED <<created, held, heldTry>>,
         phase' # "down", NEW s \in Runners, pc[s] = "idle",
         pc' = [pc EXCEPT ![s] = "selecting"], \A u \in Runners : Undisturbed(u)
  PROVE  LoopsOK'
<1>1. held \in [Runners -> created \cup {NoTask}] /\ heldTry \in [Runners -> Nat]
      /\ held[s] = NoTask
  BY Parts DEF LoopsOK, LoopOK
<1>2. held' = [held EXCEPT ![s] = NoTask]
  BY <1>1
<1>3. PICK n \in Nat : heldTry' = [heldTry EXCEPT ![s] = n]
  BY <1>1
<1>4. "selecting" \in PCs /\ "selecting" \notin Claimed
  BY DEF PCs, Claimed, TurnEnds
<1>5. created \subseteq created' /\ NoTask \in created' \cup {NoTask}
  OBVIOUS
<1> QED
  BY <1>2, <1>3, <1>4, <1>5, LoopMoves

\* The store in the middle of a sweep.
LEMMA SweepUpToRow ==
  ASSUME StoreOK, NEW stop, NEW done, NEW x \in Tasks
  PROVE  LET q == SweepUpTo(stop, done)[x] IN
         /\ Rewrites(store[x], q) /\ RowOK(q, DepsDone(x))
         /\ ~(x \in created /\ x < stop) => q \in {store[x], CancelRow(store[x])}
<1> DEFINE closed == x \in done \/ \E t \in created : t < stop /\ x \in ClosedBy(t)
           row == IF closed THEN CancelRow(store[x]) ELSE store[x]
           q == IF x \in created /\ x < stop THEN RecoverRow(row) ELSE row
<1>1. SweepUpTo(stop, done)[x] = q
  BY DEF SweepUpTo
<1>2. row \in {store[x], CancelRow(store[x])}
  OBVIOUS
<1> HIDE DEF row
<1>3. Rewrites(store[x], q) /\ RowOK(q, DepsDone(x))
  BY <1>2, SoundRows, SweepKeeps
<1> QED
  BY <1>1, <1>2, <1>3

\* So is the whole store.
LEMMA SweepUpToKeeps ==
  ASSUME StoreOK, NEW stop, NEW done, store' = SweepUpTo(stop, done)
  PROVE  RowsKept
<1>1. store' = [x \in Tasks |-> store'[x]]
  BY DEF SweepUpTo
<1> QED
  BY <1>1, SweepUpToRow DEF RowsKept

\* A restart recovers every row and starts one loop.
LEMMA RestartKeeps ==
  ASSUME SchedulerAssumption, Kernel, NEW s \in Runners, Restart(s)
  PROVE  Kernel' /\ RowsKept
<1>1. phase = "down" /\ phase' = "recovering" /\ created' = created
      /\ held' = held /\ heldTry' = heldTry /\ pc' = [pc EXCEPT ![s] = "selecting"]
  BY DEF Restart
<1>2. StoreOK /\ LoopsOK /\ RestOK
  BY Parts
<1>3. store' = [x \in Tasks |-> store'[x]]
  BY DEF Restart, Swept
<1>4. ASSUME NEW x \in Tasks
      PROVE  Rewrites(store[x], store'[x]) /\ RowOK(store'[x], DepsDone(x))
  <2> DEFINE row == IF \E t \in created : x \in ClosedBy(t)
                    THEN CancelRow(store[x]) ELSE store[x]
  <2>1. store'[x] = IF x \in created THEN RecoverRow(row) ELSE row
    BY DEF Restart, Swept
  <2>2. row \in {store[x], CancelRow(store[x])}
    OBVIOUS
  <2> HIDE DEF row
  <2> QED
    BY <1>2, <2>1, <2>2, SoundRows, SweepKeeps
<1>5. RowsKept
  BY <1>3, <1>4 DEF RowsKept
<1>6. LoopsOK'
  BY <1>1, <1>5, DownIsQuiet, Wakes
<1>7. StoreOK' /\ RestOK'
  BY <1>2, <1>5, StoreStep DEF Restart, RestOK, bounds
<1> QED
  BY <1>5, <1>6, <1>7, PartsNext

\* A refused startup leaves a sweep half done.
LEMMA RestartRefusedKeeps ==
  ASSUME SchedulerAssumption, Kernel, NEW stop \in created, NEW x \in created,
         RestartRefused(stop, x)
  PROVE  Kernel' /\ RowsKept
<1>1. StoreOK /\ RestOK
  BY Parts
<1>2. phase = "down" /\ phase' = phase /\ created' = created /\ UNCHANGED loops
  BY DEF RestartRefused
<1>3. RowsKept
  BY <1>1, SweepUpToKeeps DEF RestartRefused
<1>4. LoopsOK'
  BY <1>2, <1>3, DownIsQuiet, LoopsStay
<1>5. StoreOK' /\ RestOK'
  BY <1>1, <1>3, StoreStep DEF RestartRefused, RestOK, bounds
<1> QED
  BY <1>3, <1>4, <1>5, PartsNext

\* One row of a store that the sweep left replaced.
LEMMA SweepAndOne ==
  ASSUME StoreOK, NEW stop, NEW done, NEW x \in Tasks, NEW row,
         store' = [SweepUpTo(stop, done) EXCEPT ![x] = row],
         Rewrites(store[x], row), RowOK(row, DepsDone(x))
  PROVE  RowsKept
<1>1. SweepUpTo(stop, done) = [y \in Tasks |-> SweepUpTo(stop, done)[y]]
  BY DEF SweepUpTo
<1>2. store' = [y \in Tasks |-> IF y = x THEN row ELSE SweepUpTo(stop, done)[y]]
  BY <1>1
<1>3. store' = [y \in Tasks |-> store'[y]]
  BY <1>2
<1>4. \A y \in Tasks : Rewrites(store[y], store'[y]) /\ RowOK(store'[y], DepsDone(y))
  BY <1>2, SweepUpToRow
<1> QED
  BY <1>3, <1>4 DEF RowsKept

\* A death inside the sweep.
LEMMA RestartTornKeeps ==
  ASSUME SchedulerAssumption, Kernel, NEW stop \in created, RestartTorn(stop)
  PROVE  Kernel' /\ RowsKept
<1>1. StoreOK /\ RestOK /\ Die /\ stop \in Tasks
  BY Parts DEF RestartTorn, RestOK
<1>2. CASE \E x \in ClosedBy(stop) :
             \E row \in {CancelHalf(store[x]), CancelRow(store[x])} :
               store' = [SweepUpTo(stop, UpTo(ClosedBy(stop), x)) EXCEPT ![x] = row]
  <2>1. PICK x \in ClosedBy(stop) :
          \E row \in {CancelHalf(store[x]), CancelRow(store[x])} :
            store' = [SweepUpTo(stop, UpTo(ClosedBy(stop), x)) EXCEPT ![x] = row]
    BY <1>2
  <2>2. PICK row \in {CancelHalf(store[x]), CancelRow(store[x])} :
          store' = [SweepUpTo(stop, UpTo(ClosedBy(stop), x)) EXCEPT ![x] = row]
    BY <2>1
  <2>3. x \in Tasks
    BY <1>1 DEF ClosedBy, RestOK
  <2>4. Rewrites(store[x], row) /\ RowOK(row, DepsDone(x))
    BY <1>1, <2>3, SoundRows, SweepKeeps
  <2> QED
    BY <1>1, <2>2, <2>3, <2>4, SweepAndOne, DeathKeeps
<1>3. CASE \E row \in RecoverStages(SweepUpTo(stop, ClosedBy(stop))[stop]) :
             store' = [SweepUpTo(stop, ClosedBy(stop)) EXCEPT ![stop] = row]
  <2> DEFINE base == SweepUpTo(stop, ClosedBy(stop))[stop]
  <2>1. PICK row \in RecoverStages(base) :
               store' = [SweepUpTo(stop, ClosedBy(stop)) EXCEPT ![stop] = row]
    BY <1>3
  <2>2. ~(stop < stop)
    BY <1>1 DEF SchedulerAssumption
  <2>3. base \in {store[stop], CancelRow(store[stop])}
    BY <1>1, <2>2, SweepUpToRow
  <2> HIDE DEF base
  <2>4. Rewrites(store[stop], row) /\ RowOK(row, DepsDone(stop))
    BY <1>1, <2>1, <2>3, SoundRows, SweepKeeps
  <2> QED
    BY <1>1, <2>1, <2>4, SweepAndOne, DeathKeeps
<1> QED
  BY <1>2, <1>3 DEF RestartTorn
-----------------------------------------------------------------------------
(* Steps of a loop.                                                        *)

\* What an action needs besides its effect on the loops.
LEMMA Steps ==
  ASSUME SchedulerAssumption, Kernel, RowsKept, LoopsOK', RestOK'
  PROVE  Kernel' /\ RowsKept
BY Parts, StoreStep, PartsNext

\* Most steps of a loop change nothing but loops and rows.
LEMMA RestStays ==
  ASSUME Kernel, UNCHANGED <<created, priority, phase, cancelAsked, kickOwed, bounds, answered>>
  PROVE  RestOK'
<1>1. RestOK
  BY Parts
<1>2. /\ created' = created /\ priority' = priority /\ phase' = phase
      /\ cancelAsked' = cancelAsked /\ kickOwed' = kickOwed /\ answered' = answered
      /\ crashes' = crashes /\ controls' = controls
  BY DEF bounds
<1> QED
  BY <1>1, <1>2 DEF RestOK

\* A loop that is not idle belongs to a process that is not down.
LEMMA BusyIsUp ==
  ASSUME Kernel, NEW s \in Runners, pc[s] # "idle"
  PROVE  phase # "down"
BY Parts DEF LoopsOK

\* The two ways a loop leaves its candidate.
LEMMA AbortKeeps ==
  ASSUME SchedulerAssumption, Kernel, RowsKept, NEW s \in Runners, Abort(s),
         \A u \in Runners \ {s} : Undisturbed(u)
  PROVE  Kernel' /\ RowsKept
<1>1. CASE Die
  BY <1>1, DeathKeeps
<1>2. CASE /\ phase = "serving" /\ Release(s, "idle")
           /\ UNCHANGED <<created, priority, phase, cancelAsked, kickOwed, bounds, answered>>
  <2>1. LoopsOK'
    BY <1>2, Releases
  <2> QED
    BY <1>2, <2>1, RestStays, Steps
<1> QED
  BY <1>1, <1>2 DEF Abort

\* The other way: on to the next candidate.
LEMMA NextCandidateKeeps ==
  ASSUME SchedulerAssumption, Kernel, RowsKept, NEW s \in Runners, pc[s] # "idle",
         NextCandidate(s), \A u \in Runners \ {s} : Undisturbed(u)
  PROVE  Kernel' /\ RowsKept
<1>1. Release(s, "selecting") /\ UNCHANGED created /\ phase' # "down" /\ RestOK'
  BY BusyIsUp, RestStays DEF NextCandidate
<1>2. LoopsOK'
  BY <1>1, Releases
<1> QED
  BY <1>1, <1>2, Steps

\* A loop goes on with its candidate.
LEMMA GoesOn ==
  ASSUME SchedulerAssumption, Kernel, RowsKept, NEW s \in Runners, NEW next \in Claimed,
         pc[s] \notin {"idle", "selecting"},
         pc' = [pc EXCEPT ![s] = next], UNCHANGED <<created, phase, held, heldTry>>,
         \A u \in Runners \ {s} : Undisturbed(u),
         heldTry[s] = Len(store[held[s]].tries),
         Len(store'[held[s]].tries) = Len(store[held[s]].tries),
         WorkedOn(store'[held[s]], DepsDone(held[s])),
         \A u \in Runners \ {s} : Working(u) => held[u] # held[s]
  PROVE  LoopsOK'
<1>1. held[s] \in created /\ held[s] \in Tasks
      /\ heldTry[s] \in DOMAIN store[held[s]].tries
      /\ held \in [Runners -> created \cup {NoTask}] /\ heldTry \in [Runners -> Nat]
  BY WorksOnTask, Parts DEF LoopsOK
<1>2. PICK h \in Tasks, n \in Nat : h = held[s] /\ n = heldTry[s]
  BY <1>1
<1>3. /\ held' = [held EXCEPT ![s] = h] /\ heldTry' = [heldTry EXCEPT ![s] = n]
      /\ phase' # "down" /\ created' = created
  BY <1>1, <1>2, BusyIsUp
<1>4. n \in DOMAIN store'[h].tries
  BY <1>1, <1>2 DEF RowsKept, Rewrites
<1>5. WorkedOn(store'[h], DepsDone(h)')
  <2>1. DepsDone(h) => DepsDone(h)'
    BY DepsStayDone
  <2>2. DepsDone(h) \in BOOLEAN /\ DepsDone(h)' \in BOOLEAN
    BY DEF DepsDone
  <2> QED
    BY <1>2, <2>1, <2>2, MoreDeps
<1>6. next \in PCs /\ next \notin {"idle", "selecting"}
  BY DEF PCs, Claimed, TurnEnds
<1>7. /\ h \in created' \cup {NoTask} /\ h \in created' /\ created \subseteq created'
      /\ n = Len(store'[h].tries)
      /\ \A u \in Runners \ {s} : Working(u) => held[u] # h
  BY <1>1, <1>2, <1>3
<1>8. IF next \in {"idle", "selecting"} THEN h = NoTask
      ELSE h \in created' /\ n \in DOMAIN store'[h].tries
  BY <1>4, <1>6, <1>7
<1>9. next \in Claimed =>
        /\ n = Len(store'[h].tries) /\ WorkedOn(store'[h], DepsDone(h)')
        /\ \A u \in Runners \ {s} : Working(u) => held[u] # h
  BY <1>5, <1>7
<1> QED
  BY <1>3, <1>6, <1>7, <1>8, <1>9, LoopMoves, ZenonT(60)

\* The same with everything else unchanged.
LEMMA ProceedKeeps ==
  ASSUME SchedulerAssumption, Kernel, RowsKept, NEW s \in Runners, NEW next \in Claimed,
         pc[s] \notin {"idle", "selecting"}, Proceed(s, next),
         \A u \in Runners \ {s} : Undisturbed(u),
         heldTry[s] = Len(store[held[s]].tries),
         Len(store'[held[s]].tries) = Len(store[held[s]].tries),
         WorkedOn(store'[held[s]], DepsDone(held[s])),
         \A u \in Runners \ {s} : Working(u) => held[u] # held[s]
  PROVE  Kernel' /\ RowsKept
<1>1. /\ pc' = [pc EXCEPT ![s] = next] /\ UNCHANGED <<created, phase, held, heldTry>>
      /\ RestOK'
  BY RestStays DEF Proceed
<1>2. LoopsOK'
  BY <1>1, GoesOn
<1> QED
  BY <1>1, <1>2, Steps

\* A loop at work with its row rewritten goes on or leaves it.
LEMMA WorksAlone ==
  ASSUME Kernel, NEW s \in Runners, NEW u \in Runners \ {s}, Working(s), Working(u)
  PROVE  held[u] # held[s]
BY DEF Kernel, OneRunnerPerTask

\* The write to the task after a won claim.
LEMMA StartStep ==
  ASSUME SchedulerAssumption, Kernel, NEW s \in Runners, Start(s)
  PROVE  Kernel' /\ RowsKept
<1> DEFINE t == held[s]
           q == IF store[t].state = "ready" THEN SetTask(store[t], "running") ELSE store[t]
<1>1. pc[s] \notin {"idle", "selecting"} /\ Working(s) /\ SetRow(s, q)
      /\ Proceed(s, "booting") /\ "booting" \in Claimed
  BY DEF Start, Working, Claimed, TurnEnds
<1>2. /\ Sound(store[t]) /\ RowOK(store[t], DepsDone(t)) /\ WorkedOn(store[t], DepsDone(t))
      /\ heldTry[s] = Len(store[t].tries) /\ DepsDone(t) \in BOOLEAN
  BY <1>1, WorksOnTask DEF DepsDone
<1>3. /\ Rewrites(store[t], q) /\ RowOK(q, DepsDone(t)) /\ WorkedOn(q, DepsDone(t))
      /\ Len(q.tries) = Len(store[t].tries)
  BY <1>2, StartKeeps, SameRow
<1> HIDE DEF q
<1>4. RowsKept /\ store'[t] = q /\ \A u \in Runners \ {s} : Undisturbed(u)
  BY <1>1, <1>3, OwnRow
<1> QED
  BY <1>1, <1>2, <1>3, <1>4, WorksAlone, ProceedKeeps

\* The bootstrap of the child session.
LEMMA BootStep ==
  ASSUME SchedulerAssumption, Kernel, NEW s \in Runners, Boot(s)
  PROVE  Kernel' /\ RowsKept
<1> DEFINE t == held[s]
           q == EnsureRow(store[t], heldTry[s])
<1>1. pc[s] \notin {"idle", "selecting"} /\ Working(s) /\ SetRow(s, q)
      /\ (Abort(s) \/ Proceed(s, "launching"))
      /\ "launching" \in Claimed
  BY DEF Boot, Working, Claimed, TurnEnds
<1>2. /\ Sound(store[t]) /\ RowOK(store[t], DepsDone(t)) /\ WorkedOn(store[t], DepsDone(t))
      /\ heldTry[s] \in DOMAIN store[t].tries
      /\ heldTry[s] = Len(store[t].tries) /\ DepsDone(t) \in BOOLEAN
  BY <1>1, WorksOnTask DEF DepsDone
<1>3. /\ Rewrites(store[t], q) /\ RowOK(q, DepsDone(t)) /\ WorkedOn(q, DepsDone(t))
      /\ Len(q.tries) = Len(store[t].tries)
  BY <1>2, EnsureKeeps
<1> HIDE DEF q
<1>4. RowsKept /\ store'[t] = q /\ \A u \in Runners \ {s} : Undisturbed(u)
  BY <1>1, <1>3, OwnRow
<1>5. CASE Abort(s)
  BY <1>4, <1>5, AbortKeeps
<1>6. CASE Proceed(s, "launching")
  BY <1>1, <1>2, <1>3, <1>4, <1>6, WorksAlone, ProceedKeeps
<1> QED
  BY <1>1, <1>5, <1>6

\* The start of the child turn.
LEMMA LaunchStep ==
  ASSUME SchedulerAssumption, Kernel, NEW s \in Runners, Launch(s)
  PROVE  Kernel' /\ RowsKept
<1>1. pc[s] \notin {"idle", "selecting"} /\ Working(s) /\ store' = store
      /\ Proceed(s, "turn") /\ "turn" \in Claimed
  BY DEF Launch, Working, Claimed, TurnEnds
<1>2. heldTry[s] = Len(store[held[s]].tries) /\ WorkedOn(store[held[s]], DepsDone(held[s]))
  BY <1>1, WorksOnTask
<1>3. RowsKept /\ \A u \in Runners : Undisturbed(u)
  BY <1>1, Parts, SameStore, SameRowUndisturbed
<1> QED
  BY <1>1, <1>2, <1>3, WorksAlone, ProceedKeeps

\* A loop that fails before its turn.
LEMMA RefusedStep ==
  ASSUME SchedulerAssumption, Kernel, NEW s \in Runners, LaunchRefused(s)
  PROVE  Kernel' /\ RowsKept
<1>1. store' = store /\ Abort(s)
  BY DEF LaunchRefused
<1>2. RowsKept /\ \A u \in Runners : Undisturbed(u)
  BY <1>1, Parts, SameStore, SameRowUndisturbed
<1> QED
  BY <1>1, <1>2, AbortKeeps

\* A bootstrap that fails.
LEMMA BootInterruptedStep ==
  ASSUME SchedulerAssumption, Kernel, NEW s \in Runners, BootInterrupted(s)
  PROVE  Kernel' /\ RowsKept
<1> DEFINE t == held[s]
           i == heldTry[s]
           q1 == EnsureRow(store[t], i)
           q2 == InterruptRow(q1, i)
<1>1. pc[s] \notin {"idle", "selecting"} /\ Working(s) /\ SetRow(s, q2) /\ NextCandidate(s)
  BY DEF BootInterrupted, Working, Claimed, TurnEnds
<1>2. /\ Sound(store[t]) /\ RowOK(store[t], DepsDone(t)) /\ WorkedOn(store[t], DepsDone(t))
      /\ i \in DOMAIN store[t].tries /\ i = Len(store[t].tries)
      /\ DepsDone(t) \in BOOLEAN
  BY <1>1, WorksOnTask DEF DepsDone
<1>3. /\ Rewrites(store[t], q1) /\ RowOK(q1, DepsDone(t)) /\ WorkedOn(q1, DepsDone(t))
      /\ Len(q1.tries) = i
  BY <1>2, EnsureKeeps
<1>4. Sound(q1)
  BY <1>3 DEF Rewrites
<1> HIDE DEF q1
<1>5. Rewrites(q1, q2) /\ RowOK(q2, DepsDone(t))
  BY <1>2, <1>3, <1>4, InterruptKeeps
<1>6. Rewrites(store[t], q2)
  BY <1>2, <1>3, <1>5, RewritesTransitive
<1> HIDE DEF q2
<1>7. RowsKept /\ \A u \in Runners \ {s} : Undisturbed(u)
  BY <1>1, <1>5, <1>6, OwnRow
<1> QED
  BY <1>1, <1>7, NextCandidateKeeps

\* The record of how the turn ended.
LEMMA RecordStep ==
  ASSUME SchedulerAssumption, Kernel, NEW s \in Runners, Record(s)
  PROVE  Kernel' /\ RowsKept
<1> DEFINE t == held[s]
           q == RecordRow(store[t], heldTry[s], pc[s])
<1>1. pc[s] \in {"completed", "failed", "interrupted"} /\ Working(s)
      /\ pc[s] \notin {"idle", "selecting"} /\ SetRow(s, q)
      /\ (Abort(s) \/ NextCandidate(s))
  BY DEF Record, Working, Claimed, TurnEnds
<1>2. Rewrites(store[t], q) /\ RowOK(q, DepsDone(t))
  <2>1. /\ Sound(store[t]) /\ RowOK(store[t], DepsDone(t)) /\ DepsDone(t) \in BOOLEAN
        /\ heldTry[s] \in DOMAIN store[t].tries /\ WorkedOn(store[t], DepsDone(t))
        /\ heldTry[s] = Len(store[t].tries)
    BY <1>1, WorksOnTask DEF DepsDone
  <2> QED
    BY <1>1, <2>1, RecordKeeps
<1> HIDE DEF q
<1>3. RowsKept /\ \A u \in Runners \ {s} : Undisturbed(u)
  BY <1>1, <1>2, OwnRow
<1> QED
  BY <1>1, <1>3, AbortKeeps, NextCandidateKeeps
\* The end of a turn moves nothing but its loop.
LEMMA TurnEndStep ==
  ASSUME SchedulerAssumption, Kernel, NEW s \in Runners, NEW end \in TurnEnds, TurnEnd(s, end)
  PROVE  Kernel' /\ RowsKept
<1>1. pc[s] \notin {"idle", "selecting"} /\ Working(s) /\ end \in Claimed
  BY DEF TurnEnd, Working, Claimed, TurnEnds
<1>2. /\ pc' = [pc EXCEPT ![s] = end] /\ UNCHANGED <<created, phase, held, heldTry>>
      /\ store' = store
  BY DEF TurnEnd, durable
<1>3. /\ held[s] \in created /\ heldTry[s] = Len(store[held[s]].tries)
      /\ WorkedOn(store[held[s]], DepsDone(held[s]))
  BY <1>1, WorksOnTask
<1>4. RowsKept /\ \A u \in Runners : Undisturbed(u)
  BY <1>2, Parts, SameStore, SameRowUndisturbed
<1>5. LoopsOK'
  BY <1>1, <1>2, <1>3, <1>4, WorksAlone, GoesOn
<1>6. RestOK'
  BY <1>3, Parts DEF TurnEnd, durable, bounds, RestOK
<1> QED
  BY <1>4, <1>5, <1>6, Steps

-----------------------------------------------------------------------------
(* Steps that rewrite rows whoever works on them.                          *)

\* One row.
LEMMA AnyRow ==
  ASSUME Kernel, NEW t \in Tasks, NEW q, store' = [store EXCEPT ![t] = q],
         Rewrites(store[t], q), RowOK(q, DepsDone(t)),
         Len(q.tries) = Len(store[t].tries),
         WorkedOn(store[t], DepsDone(t)) => WorkedOn(q, DepsDone(t))
  PROVE  RowsKept /\ store'[t] = q /\ \A u \in Runners : Undisturbed(u)
<1>1. /\ RowsKept /\ store'[t] = q
      /\ \A u \in Tasks : u # t => store'[u] = store[u]
  BY Parts, OneRow
<1>2. ASSUME NEW u \in Runners, Working(u) PROVE Undisturbed(u)
  <2>1. held[u] \in Tasks
    BY <1>2, WorksOnTask DEF Working, Claimed, TurnEnds
  <2>2. CASE held[u] = t
    BY <1>1, <2>2 DEF Undisturbed
  <2>3. CASE held[u] # t
    BY <1>1, <2>1, <2>3, SameRowUndisturbed
  <2> QED
    BY <2>2, <2>3
<1> QED
  BY <1>1, <1>2 DEF Undisturbed

\* Any number of rows.
LEMMA AnyRows ==
  ASSUME Kernel, store' = [t \in Tasks |-> store'[t]],
         \A t \in Tasks :
           /\ Rewrites(store[t], store'[t]) /\ RowOK(store'[t], DepsDone(t))
           /\ Len(store'[t].tries) = Len(store[t].tries)
           /\ WorkedOn(store[t], DepsDone(t)) => WorkedOn(store'[t], DepsDone(t))
  PROVE  RowsKept /\ \A u \in Runners : Undisturbed(u)
<1>1. RowsKept
  BY DEF RowsKept
<1>2. ASSUME NEW u \in Runners, Working(u) PROVE Undisturbed(u)
  <2>1. held[u] \in Tasks
    BY <1>2, WorksOnTask DEF Working, Claimed, TurnEnds
  <2> QED
    BY <2>1 DEF Undisturbed
<1> QED
  BY <1>1, <1>2 DEF Undisturbed

\* A claim is won only on a row that no loop works on.
LEMMA ClaimStep ==
  ASSUME SchedulerAssumption, Kernel, NEW s \in Runners, Claim(s)
  PROVE  Kernel' /\ RowsKept
<1> DEFINE t == held[s]
           q == ClaimRow(store[t], heldTry[s])
<1>1. pc[s] \notin {"idle", "selecting"} /\ ~Working(s) /\ SetRow(s, q)
      /\ "starting" \in Claimed /\ pc[s] # "idle"
  BY DEF Claim, Working, Claimed, TurnEnds
<1>2. /\ t \in Tasks /\ Sound(store[t]) /\ RowOK(store[t], DepsDone(t))
      /\ heldTry[s] \in DOMAIN store[t].tries /\ DepsDone(t) \in BOOLEAN
  BY <1>1, WorksOnTask DEF DepsDone
<1>3. /\ Rewrites(store[t], q) /\ RowOK(q, DepsDone(t))
      /\ Len(q.tries) = Len(store[t].tries)
      /\ WorkedOn(store[t], DepsDone(t)) => WorkedOn(q, DepsDone(t))
      /\ ClaimWins(store[t], heldTry[s]) =>
           /\ heldTry[s] = Len(store[t].tries)
           /\ ~WorkedOn(store[t], DepsDone(t)) /\ WorkedOn(q, DepsDone(t))
  BY <1>2, ClaimKeeps
<1> HIDE DEF q
<1>4. RowsKept /\ store'[t] = q /\ \A u \in Runners : Undisturbed(u)
  BY <1>1, <1>2, <1>3, AnyRow DEF SetRow
<1>5. CASE ClaimWins(store[t], heldTry[s])
  <2>1. Proceed(s, "starting")
    BY <1>5 DEF Claim
  <2>2. ASSUME NEW u \in Runners \ {s}, Working(u) PROVE held[u] # t
    <3>1. WorkedOn(store[held[u]], DepsDone(held[u]))
      BY <2>2, WorksOnTask DEF Working, Claimed, TurnEnds
    <3> QED
      BY <1>3, <1>5, <3>1
  <2> QED
    BY <1>1, <1>3, <1>4, <1>5, <2>1, <2>2, ProceedKeeps
<1>6. CASE ~ClaimWins(store[t], heldTry[s])
  <2>1. NextCandidate(s)
    BY <1>6 DEF Claim
  <2> QED
    BY <1>1, <1>4, <2>1, NextCandidateKeeps
<1> QED
  BY <1>5, <1>6

\* A lease runs out.
LEMMA LeaseStep ==
  ASSUME SchedulerAssumption, Kernel, NEW t \in created, NEW i \in DOMAIN store[t].tries,
         LeaseRunsOut(t, i)
  PROVE  Kernel' /\ RowsKept
<1> DEFINE q == PutAttempt(store[t], i, [state |-> store[t].tries[i].state, lease |-> "due"])
<1>1. t \in Tasks /\ Sound(store[t]) /\ RowOK(store[t], DepsDone(t))
      /\ DepsDone(t) \in BOOLEAN
  BY Parts, SoundRows DEF RestOK
<1>2. store' = [store EXCEPT ![t] = q] /\ UNCHANGED loops /\ RestOK' /\ phase' = phase
      /\ created' = created
  BY RestStays DEF LeaseRunsOut
<1>3. /\ Rewrites(store[t], q) /\ RowOK(q, DepsDone(t))
      /\ Len(q.tries) = Len(store[t].tries)
      /\ WorkedOn(store[t], DepsDone(t)) => WorkedOn(q, DepsDone(t))
  BY <1>1, RunOutKeeps
<1> HIDE DEF q
<1>4. RowsKept /\ \A u \in Runners : Undisturbed(u)
  BY <1>1, <1>2, <1>3, AnyRow
<1>5. LoopsOK'
  BY <1>2, <1>4, LoopsStay
<1> QED
  BY <1>2, <1>4, <1>5, Steps

\* The scan of a loop that selects.
LEMMA ScanKeeps ==
  ASSUME Kernel, NEW V \in SUBSET Tasks,
         store' = [t \in Tasks |-> IF t \in V THEN VisitRow(store[t], DepsDone(t)) ELSE store[t]]
  PROVE  /\ RowsKept /\ \A u \in Runners : Undisturbed(u)
         /\ \A t \in Tasks : Len(store'[t].tries) = Len(store[t].tries)
<1>1. store' = [t \in Tasks |-> store'[t]]
  OBVIOUS
<1>2. ASSUME NEW t \in Tasks
      PROVE  /\ Rewrites(store[t], store'[t]) /\ RowOK(store'[t], DepsDone(t))
             /\ Len(store'[t].tries) = Len(store[t].tries)
             /\ WorkedOn(store[t], DepsDone(t)) => WorkedOn(store'[t], DepsDone(t))
  <2>1. Sound(store[t]) /\ RowOK(store[t], DepsDone(t)) /\ DepsDone(t) \in BOOLEAN
    BY Parts, SoundRows
  <2>2. CASE t \in V
    <3>1. store'[t] = VisitRow(store[t], DepsDone(t))
      BY <2>2
    <3> QED
      BY <2>1, <3>1, VisitKeeps
  <2>3. CASE t \notin V
    <3>1. store'[t] = store[t]
      BY <2>3
    <3> QED
      BY <2>1, <3>1, SameRow
  <2> QED
    BY <2>2, <2>3
<1> QED
  BY <1>1, <1>2, AnyRows

\* A loop selects its candidate.
LEMMA SelectStep ==
  ASSUME SchedulerAssumption, Kernel, NEW s \in Runners, Select(s)
  PROVE  Kernel' /\ RowsKept
<1>1. Visited \in SUBSET Tasks /\ pc[s] # "idle" /\ created \subseteq Tasks
      /\ heldTry \in [Runners -> Nat]
  BY Parts DEF Visited, Select, RestOK, LoopsOK
<1>2. /\ RowsKept /\ \A u \in Runners : Undisturbed(u)
      /\ \A t \in Tasks : Len(store'[t].tries) = Len(store[t].tries)
  BY <1>1, ScanKeeps DEF Select
<1>3. RestOK' /\ phase' # "down" /\ created' = created
  BY <1>1, RestStays, BusyIsUp DEF Select
<1>4. PICK first \in created :
        /\ held' = [held EXCEPT ![s] = first]
        /\ heldTry' = [heldTry EXCEPT ![s] = Len(store[first].tries)]
  BY DEF Select, Visited
<1>5. first \in Tasks /\ Sound(store'[first])
  BY <1>1, <1>2 DEF RowsKept, Rewrites
<1>6. PICK n \in Nat : n = Len(store[first].tries)
  BY <1>1, <1>2, <1>5, LatestType
<1>7. n \in DOMAIN store'[first].tries
  BY <1>2, <1>5, <1>6, LatestType
<1>8. "claiming" \in PCs /\ "claiming" \notin Claimed /\ pc' = [pc EXCEPT ![s] = "claiming"]
  BY DEF PCs, Claimed, TurnEnds, Select
<1>9. heldTry' = [heldTry EXCEPT ![s] = n] /\ first \in created' \cup {NoTask}
      /\ first \in created' /\ created \subseteq created'
  BY <1>3, <1>4, <1>6
<1>10. LoopsOK'
  BY <1>2, <1>3, <1>4, <1>7, <1>8, <1>9, LoopMoves
<1> QED
  BY <1>2, <1>3, <1>10, Steps

\* A loop finds none.
LEMMA SelectNoneStep ==
  ASSUME SchedulerAssumption, Kernel, NEW s \in Runners, SelectNone(s)
  PROVE  Kernel' /\ RowsKept
<1>1. created \in SUBSET Tasks
  BY Parts DEF RestOK
<1>2. RowsKept /\ \A u \in Runners : Undisturbed(u)
  BY <1>1, ScanKeeps DEF SelectNone
<1>3. LoopsOK'
  BY <1>2, Releases DEF SelectNone
<1>4. RestOK'
  BY Parts DEF SelectNone, RestOK, bounds
<1> QED
  BY <1>2, <1>3, <1>4, Steps

\* A death inside the scan.
LEMMA SelectTornStep ==
  ASSUME SchedulerAssumption, Kernel, NEW s \in Runners, NEW t \in created, SelectTorn(s, t)
  PROVE  Kernel' /\ RowsKept
<1>1. t \in Tasks
  BY Parts DEF RestOK
<1>2. PICK row \in {VisitHalf(store[t], DepsDone(t)), VisitRow(store[t], DepsDone(t))} :
        store' = [u \in Tasks |->
          IF u = t THEN row
          ELSE IF u \in Visited /\ Before(u, t) THEN VisitRow(store[u], DepsDone(u))
          ELSE store[u]]
  BY DEF SelectTorn
<1>3. ASSUME NEW u \in Tasks
      PROVE  Rewrites(store[u], store'[u]) /\ RowOK(store'[u], DepsDone(u))
  <2>1. Sound(store[u]) /\ RowOK(store[u], DepsDone(u)) /\ DepsDone(u) \in BOOLEAN
    BY Parts, SoundRows
  <2>2. store'[u] \in {store[u], VisitHalf(store[u], DepsDone(u)), VisitRow(store[u], DepsDone(u))}
    BY <1>2
  <2> QED
    BY <2>1, <2>2, SameRow, VisitKeeps
<1>4. store' = [u \in Tasks |-> store'[u]]
  BY <1>2
<1>5. RowsKept /\ Die
  BY <1>3, <1>4 DEF RowsKept, SelectTorn
<1> QED
  BY <1>5, DeathKeeps

\* The end of a prompt starts a loop.
LEMMA KickStep ==
  ASSUME SchedulerAssumption, Kernel, NEW s \in Runners, NEW delegated \in BOOLEAN,
         Kick(s, delegated)
  PROVE  Kernel' /\ RowsKept
<1>1. /\ store' = store /\ UNCHANGED <<created, held, heldTry>> /\ phase' # "down"
      /\ pc[s] = "idle" /\ pc' = [pc EXCEPT ![s] = "selecting"]
  BY DEF Kick, durable
<1>2. RowsKept /\ \A u \in Runners : Undisturbed(u)
  BY <1>1, Parts, SameStore, SameRowUndisturbed
<1>3. LoopsOK'
  BY <1>1, <1>2, Wakes
<1>4. RestOK'
  BY Parts DEF Kick, RestOK, durable, bounds
<1> QED
  BY <1>2, <1>3, <1>4, Steps
-----------------------------------------------------------------------------
(* Control calls, and the creation of a task.                              *)

\* The cancellation of any set of tasks, the writes to one of them perhaps
\* cut short.
LEMMA CancelKeepsRows ==
  ASSUME Kernel, store' = [x \in Tasks |-> store'[x]],
         \A x \in Tasks : store'[x] \in {store[x], CancelRow(store[x]), CancelHalf(store[x])}
  PROVE  RowsKept /\ \A u \in Runners : Undisturbed(u)
<1>1. ASSUME NEW x \in Tasks
      PROVE  /\ Rewrites(store[x], store'[x]) /\ RowOK(store'[x], DepsDone(x))
             /\ Len(store'[x].tries) = Len(store[x].tries)
             /\ WorkedOn(store[x], DepsDone(x)) => WorkedOn(store'[x], DepsDone(x))
  <2>1. Sound(store[x]) /\ RowOK(store[x], DepsDone(x)) /\ DepsDone(x) \in BOOLEAN
    BY Parts, SoundRows
  <2>2. CASE store'[x] = store[x]
    BY <2>1, <2>2, SameRow
  <2>3. CASE store'[x] \in {CancelRow(store[x]), CancelHalf(store[x])}
    BY <2>1, <2>3, CancelKeeps
  <2> QED
    BY <2>2, <2>3
<1> QED
  BY <1>1, AnyRows

\* A cascade of cancellations.
LEMMA CancelGraphStep ==
  ASSUME SchedulerAssumption, Kernel, NEW t \in Tasks, CancelGraph(t)
  PROVE  Kernel' /\ RowsKept
<1>1. store' = [x \in Tasks |->
        IF x \in CancelReaches(t) THEN CancelRow(store[x]) ELSE store[x]]
  BY DEF CancelGraph
<1>2. RowsKept /\ \A u \in Runners : Undisturbed(u)
  BY <1>1, CancelKeepsRows
<1>3. UNCHANGED loops /\ phase' = phase /\ created' = created
  BY DEF CancelGraph
<1>4. LoopsOK'
  BY <1>2, <1>3, LoopsStay
<1>5. RestOK'
  BY Parts DEF CancelGraph, RestOK, bounds
<1> QED
  BY <1>2, <1>4, <1>5, Steps

\* A death inside it.
LEMMA CancelTornStep ==
  ASSUME SchedulerAssumption, Kernel, NEW t \in created, NEW at \in created,
         CancelTorn(t, at)
  PROVE  Kernel' /\ RowsKept
<1>1. PICK row \in {CancelHalf(store[at]), CancelRow(store[at])} :
        store' = [x \in Tasks |->
          IF x = at THEN row
          ELSE IF x \in CancelReaches(t) /\ Id[x] < Id[at] THEN CancelRow(store[x])
          ELSE store[x]]
  BY DEF CancelTorn
<1>2. RowsKept
  BY <1>1, CancelKeepsRows
<1> QED
  BY <1>2, DeathKeeps DEF CancelTorn

\* A cancel call is validated.
LEMMA AskCancelStep ==
  ASSUME SchedulerAssumption, Kernel, NEW t \in Tasks, AskCancel(t)
  PROVE  Kernel' /\ RowsKept
<1>1. store' = store /\ UNCHANGED loops /\ phase' = phase /\ created' = created
  BY DEF AskCancel, durable
<1>2. RowsKept /\ \A u \in Runners : Undisturbed(u)
  BY <1>1, Parts, SameStore, SameRowUndisturbed
<1>3. LoopsOK'
  BY <1>1, <1>2, LoopsStay
<1>4. RestOK'
  BY Parts DEF AskCancel, RestOK, durable, bounds
<1> QED
  BY <1>2, <1>3, <1>4, Steps

\* A task gets another priority.
LEMMA ReprioritizeStep ==
  ASSUME SchedulerAssumption, Kernel, NEW t \in Tasks, NEW p \in Priorities,
         Reprioritize(t, p)
  PROVE  Kernel' /\ RowsKept
<1>1. store' = store /\ UNCHANGED loops /\ phase' = phase /\ created' = created
  BY DEF Reprioritize
<1>2. RowsKept /\ \A u \in Runners : Undisturbed(u)
  BY <1>1, Parts, SameStore, SameRowUndisturbed
<1>3. LoopsOK'
  BY <1>1, <1>2, LoopsStay
<1>4. RestOK'
  BY Parts DEF Reprioritize, RestOK, bounds
<1> QED
  BY <1>2, <1>3, <1>4, Steps

\* A task that is started over has no loop on it: none of the states a
\* control call accepts is one a loop works in.
LEMMA StartOverStep ==
  ASSUME SchedulerAssumption, Kernel, NEW c \in Controls, NEW t \in Tasks, StartOver(c, t)
  PROVE  Kernel' /\ RowsKept
<1> DEFINE q == FreshRow(store[t], c.source, c.carry)
<1>1. c.source \in {"failed", "interrupted"} /\ c.carry \in BOOLEAN
  BY ControlKinds
<1>2. /\ store[t].state \in {c.source, "retryable"} /\ t \in created
      /\ store' = [store EXCEPT ![t] = q]
      /\ UNCHANGED loops /\ phase' = phase /\ created' = created
  BY DEF StartOver, Accepts
<1>3. /\ StoreOK /\ Sound(store[t]) /\ RowOK(store[t], DepsDone(t))
      /\ DepsDone(t) \in BOOLEAN
  BY Parts, SoundRows
<1>4. Rewrites(store[t], q) /\ RowOK(q, DepsDone(t))
  BY <1>1, <1>2, <1>3, FreshKeeps DEF FreshRow
<1> HIDE DEF q
<1>5. RowsKept /\ \A u \in Tasks : u # t => store'[u] = store[u]
  BY <1>2, <1>3, <1>4, OneRow
<1>6. ASSUME NEW u \in Runners, Working(u) PROVE Undisturbed(u)
  <2>1. held[u] \in Tasks /\ WorkedOn(store[held[u]], DepsDone(held[u]))
    BY <1>6, WorksOnTask DEF Working, Claimed, TurnEnds
  <2>2. held[u] # t
    BY <1>1, <1>2, <2>1 DEF WorkedOn
  <2> QED
    BY <1>5, <2>1, <2>2, SameRowUndisturbed
<1>7. LoopsOK'
  BY <1>2, <1>5, <1>6, LoopsStay DEF Undisturbed
<1>8. controls' \in 0..MaxControls
  BY Bounds, Parts DEF StartOver, RestOK
<1>9. RestOK'
  BY <1>8, Parts DEF StartOver, RestOK
<1> QED
  BY <1>5, <1>7, <1>9, Steps

\* No loop holds a task that is only now created.
LEMMA DelegateStep ==
  ASSUME SchedulerAssumption, Kernel, Untouched, NEW t \in Tasks,
         NEW row \in {NewRow, InterruptRow(NewRow, 1)}, Delegate(t, row)
  PROVE  Kernel' /\ RowsKept
<1>1. /\ t \notin created /\ created' = created \cup {t}
      /\ store' = [store EXCEPT ![t] = row] /\ UNCHANGED loops /\ phase' = phase
  BY DEF Delegate
<1>2. store[t] = NewRow /\ StoreOK /\ DepsDone(t) \in BOOLEAN
  BY <1>1, Parts DEF Untouched, DepsDone
<1>3. Sound(row) /\ RowOK(row, DepsDone(t))
  BY <1>2, NewRowOK
<1>4. Len(NewRow.tries) <= Len(row.tries) /\ NewRow.state # "completed"
  BY <1>3, LatestType DEF NewRow
<1>5. Rewrites(store[t], row)
  <2>1. \A i \in DOMAIN NewRow.tries : ~(i < Len(NewRow.tries))
    BY DEF NewRow
  <2> QED
    BY <1>2, <1>3, <1>4, <2>1 DEF Rewrites
<1>6. RowsKept /\ \A u \in Tasks : u # t => store'[u] = store[u]
  BY <1>1, <1>2, <1>3, <1>5, OneRow
<1>7. ASSUME NEW u \in Runners, Working(u) PROVE Undisturbed(u)
  <2>1. held[u] \in Tasks /\ held[u] # t
    BY <1>1, <1>7, WorksOnTask DEF Working, Claimed, TurnEnds
  <2> QED
    BY <1>6, <2>1, SameRowUndisturbed
<1>8. LoopsOK'
  BY <1>1, <1>6, <1>7, LoopsStay DEF Undisturbed
<1>9. RestOK'
  BY <1>1, Parts DEF Delegate, RestOK, bounds
<1> QED
  BY <1>6, <1>8, <1>9, Steps
-----------------------------------------------------------------------------
(* Rows of tasks that do not exist.                                        *)

\* It is enough that the rows of tasks that still do not exist stay.
LEMMA StillUntouched ==
  ASSUME Untouched, created \subseteq created',
         \A t \in Tasks \ created' : store'[t] = store[t]
  PROVE  Untouched'
BY DEF Untouched

\* A row of a created task is written.
LEMMA TouchOne ==
  ASSUME Kernel, Untouched, UNCHANGED created, NEW t \in created, NEW q,
         store' = [store EXCEPT ![t] = q]
  PROVE  Untouched'
BY Parts, StillUntouched DEF StoreOK

\* So it is when a loop writes.
LEMMA TouchOwn ==
  ASSUME Kernel, Untouched, UNCHANGED created,
         NEW s \in Runners, pc[s] \notin {"idle", "selecting"}, NEW q, SetRow(s, q)
  PROVE  Untouched'
BY WorksOnTask, TouchOne DEF SetRow

\* A death creates nothing.
LEMMA DieUntouched == Die => UNCHANGED created
BY DEF Die

\* Nor does a loop that gives up.
LEMMA AbortUntouched ==
  ASSUME NEW s \in Runners, Abort(s)
  PROVE  UNCHANGED created
BY DieUntouched DEF Abort

\* Loops write to created tasks only.
LEMMA LoopUntouched ==
  ASSUME Kernel, Untouched, NEW s \in Runners, LoopStep(s)
  PROVE  Untouched'
<1>1. CASE Select(s)
  <2>1. created' = created /\ \A t \in Tasks \ created : store'[t] = store[t]
    BY <1>1 DEF Select, Visited
  <2> QED
    BY <2>1, StillUntouched
<1>2. CASE SelectNone(s)
  BY <1>2, StillUntouched DEF SelectNone
<1>3. CASE Claim(s)
  <2>1. pc[s] \notin {"idle", "selecting"} /\ created' = created
    BY <1>3 DEF Claim, Proceed, NextCandidate
  <2> QED
    BY <1>3, <2>1, TouchOwn DEF Claim
<1>4. CASE Start(s)
  <2>1. pc[s] \notin {"idle", "selecting"} /\ created' = created
    BY <1>4 DEF Start, Proceed
  <2> QED
    BY <1>4, <2>1, TouchOwn DEF Start
<1>5. CASE Boot(s)
  <2>1. pc[s] \notin {"idle", "selecting"} /\ created' = created
    BY <1>5, AbortUntouched DEF Boot, Proceed
  <2> QED
    BY <1>5, <2>1, TouchOwn DEF Boot
<1>6. CASE BootInterrupted(s)
  <2>1. pc[s] \notin {"idle", "selecting"} /\ created' = created
    BY <1>6 DEF BootInterrupted, NextCandidate
  <2> QED
    BY <1>6, <2>1, TouchOwn DEF BootInterrupted
<1>7. CASE LaunchRefused(s)
  BY <1>7, AbortUntouched, StillUntouched DEF LaunchRefused
<1>8. CASE Launch(s)
  BY <1>8, StillUntouched DEF Launch, Proceed
<1>9. CASE \E end \in TurnEnds : TurnEnd(s, end)
  BY <1>9, StillUntouched DEF TurnEnd, durable
<1>10. CASE Record(s)
  <2>1. pc[s] \notin {"idle", "selecting"} /\ created' = created
    BY <1>10, AbortUntouched DEF Record, NextCandidate, TurnEnds
  <2> QED
    BY <1>10, <2>1, TouchOwn DEF Record
<1> QED
  BY <1>1, <1>2, <1>3, <1>4, <1>5, <1>6, <1>7, <1>8, <1>9, <1>10 DEF LoopStep

\* So do control calls, and the tool that creates one.
LEMMA ControlUntouched ==
  ASSUME Kernel, Untouched, Control \/ Spawn
  PROVE  Untouched'
<1>1. ASSUME NEW t \in Tasks, AskCancel(t) PROVE Untouched'
  BY <1>1, StillUntouched DEF AskCancel, durable
<1>2. ASSUME NEW t \in Tasks, CancelGraph(t) PROVE Untouched'
  BY <1>2, StillUntouched DEF CancelGraph, CancelReaches, Cascade
<1>3. ASSUME NEW c \in Controls, NEW t \in Tasks, StartOver(c, t) PROVE Untouched'
  <2>1. t \in created /\ UNCHANGED created
        /\ store' = [store EXCEPT ![t] = FreshRow(store[t], c.source, c.carry)]
    BY <1>3 DEF StartOver, Accepts
  <2> QED
    BY <2>1, TouchOne
<1>4. ASSUME NEW t \in Tasks, NEW p \in Priorities, Reprioritize(t, p) PROVE Untouched'
  BY <1>4, StillUntouched DEF Reprioritize
<1>5. ASSUME NEW t \in Tasks, NEW row, Delegate(t, row) PROVE Untouched'
  <2>1. created' = created \cup {t} /\ store' = [store EXCEPT ![t] = row]
    BY <1>5 DEF Delegate
  <2>2. \A u \in Tasks \ created' : store'[u] = store[u]
    BY <2>1, Parts DEF StoreOK
  <2> QED
    BY <2>1, <2>2, StillUntouched
<1> QED
  BY <1>1, <1>2, <1>3, <1>4, <1>5 DEF Control, Spawn

\* So does the startup sweep.
LEMMA StartupUntouched ==
  ASSUME Kernel, Untouched, Startup
  PROVE  Untouched'
<1>1. ASSUME NEW s \in Runners, Restart(s) PROVE Untouched'
  <2>1. created' = created
    BY <1>1 DEF Restart
  <2>2. \A x \in Tasks \ created : \A t \in created : x \notin ClosedBy(t)
    BY DEF ClosedBy
  <2>3. \A x \in Tasks \ created : store'[x] = store[x]
    BY <1>1, <2>2 DEF Restart, Swept
  <2> QED
    BY <2>1, <2>3, StillUntouched
<1>2. ASSUME NEW t \in created, NEW x \in created, RestartRefused(t, x) PROVE Untouched'
  <2>1. created' = created /\ store' = SweepUpTo(t, UpTo(ClosedBy(t), x))
    BY <1>2 DEF RestartRefused
  <2>2. \A y \in Tasks \ created :
          y \notin UpTo(ClosedBy(t), x) /\ \A u \in created : y \notin ClosedBy(u)
    BY DEF ClosedBy, UpTo
  <2>3. \A y \in Tasks \ created : store'[y] = store[y]
    BY <2>1, <2>2 DEF SweepUpTo
  <2> QED
    BY <2>1, <2>3, StillUntouched
<1> QED
  BY <1>1, <1>2 DEF Startup

\* So does anything that dies halfway.
LEMMA TornUntouched ==
  ASSUME Kernel, Untouched, Torn
  PROVE  Untouched'
<1>1. CASE Crash
  BY <1>1, DieUntouched, StillUntouched DEF Crash
<1>2. ASSUME NEW t \in created, RestartTorn(t) PROVE Untouched'
  <2>1. created' = created
    BY <1>2, DieUntouched DEF RestartTorn
  <2>2. \A y \in Tasks \ created : \A u \in created : y \notin ClosedBy(u)
    BY DEF ClosedBy
  <2>3. ASSUME NEW done \in SUBSET ClosedBy(t), NEW x \in created, NEW row,
               store' = [SweepUpTo(t, done) EXCEPT ![x] = row]
        PROVE  Untouched'
    <3>1. \A y \in Tasks \ created : y # x /\ y \notin done
      BY <2>2
    <3>2. \A y \in Tasks \ created : store'[y] = store[y]
      BY <2>2, <2>3, <3>1 DEF SweepUpTo
    <3> QED
      BY <2>1, <3>2, StillUntouched
  <2>4. \A x : UpTo(ClosedBy(t), x) \in SUBSET ClosedBy(t)
    BY DEF UpTo
  <2>5. ClosedBy(t) \subseteq created
    BY DEF ClosedBy
  <2> QED
    BY <1>2, <2>3, <2>4, <2>5 DEF RestartTorn
<1>3. ASSUME NEW s \in Runners, NEW t \in created, SelectTorn(s, t) PROVE Untouched'
  <2>1. created' = created /\ Visited \subseteq created
    BY <1>3, DieUntouched DEF SelectTorn, Visited
  <2>2. \A u \in Tasks \ created : store'[u] = store[u]
    BY <1>3, <2>1 DEF SelectTorn
  <2> QED
    BY <2>1, <2>2, StillUntouched
<1>4. ASSUME NEW s \in Runners, BootTorn(s) PROVE Untouched'
  <2>1. pc[s] \notin {"idle", "selecting"} /\ created' = created
    BY <1>4, DieUntouched DEF BootTorn
  <2> QED
    BY <1>4, <2>1, TouchOwn DEF BootTorn
<1>5. ASSUME NEW s \in Runners, RecordTorn(s) PROVE Untouched'
  <2>1. pc[s] \notin {"idle", "selecting"} /\ created' = created
    BY <1>5, DieUntouched DEF RecordTorn, TurnEnds
  <2> QED
    BY <1>5, <2>1, TouchOwn DEF RecordTorn
<1>6. ASSUME NEW t \in created, NEW at \in created, CancelTorn(t, at) PROVE Untouched'
  <2>1. created' = created /\ CancelReaches(t) \subseteq created
    BY <1>6, DieUntouched DEF CancelTorn, CancelReaches, Cascade
  <2>2. \A u \in Tasks \ created : store'[u] = store[u]
    BY <1>6, <2>1 DEF CancelTorn
  <2> QED
    BY <2>1, <2>2, StillUntouched
<1>7. ASSUME NEW c \in Controls, NEW t \in created, NEW n \in 1..3, StartOverTorn(c, t, n)
      PROVE  Untouched'
  <2>1. UNCHANGED created
        /\ store' = [store EXCEPT ![t] = FreshStage(store[t], c.source, c.carry, n)]
    BY <1>7, DieUntouched DEF StartOverTorn
  <2> QED
    BY <2>1, TouchOne
<1> QED
  BY <1>1, <1>2, <1>3, <1>4, <1>5, <1>6, <1>7 DEF Torn

-----------------------------------------------------------------------------
(* What one step may do to a row and to a loop: the properties below are    *)
(* about rows and loops in general, not about single actions.              *)

\* Anybody may cancel a task, scan it, claim an attempt or wait for a lease
\* to run out; the rest is up to its loop, or needs a task that ended, a
\* process that is down or a task that is new.
Written(t) ==
  LET r == store[t]
      q == store'[t]
  IN  \/ q \in {r, CancelRow(r), VisitRow(r, DepsDone(t))}
      \/ Die /\ q \in {CancelHalf(r), VisitHalf(r, DepsDone(t))}
      \/ \E i \in DOMAIN r.tries : q = ClaimRow(r, i) \/ LeaseRunsOut(t, i)
      \/ \E s \in Runners : held[s] = t /\ OwnWrite(s)
      \/ /\ t \in created
         /\ \E source \in {"failed", "interrupted"}, carry \in BOOLEAN, n \in 1..4 :
              r.state \in {source, "retryable"} /\ q = FreshStage(r, source, carry, n)
      \/ /\ phase = "down" /\ t \in created
         /\ \E row \in {r, CancelRow(r), CancelHalf(r)} :
              q \in {row, RecoverRow(row)} \cup RecoverStages(row)
      \/ /\ phase = "serving" /\ t \notin created /\ r = NewRow
         /\ q \in {NewRow, InterruptRow(NewRow, 1)}

\* A loop stays, leaves its candidate, or takes the next step with it.
Kept(s) == pc'[s] = pc[s] /\ held'[s] = held[s] /\ heldTry'[s] = heldTry[s]

Won(s) == Claim(s) /\ ClaimWins(store[held[s]], heldTry[s])

Moved(s) ==
  \/ Kept(s)
  \/ pc'[s] \in {"idle", "selecting"} /\ (~InTurn(s) \/ Die \/ Record(s))
  \/ Select(s) \/ Won(s) \/ Start(s) \/ Boot(s) \/ Launch(s)
  \/ \E end \in TurnEnds : TurnEnd(s, end)

\* Only a death takes the process down, and a loop's completed turn is noted
\* until then.
Noted ==
  \/ Die
  \/ /\ phase' = "down" => phase = "down"
     /\ answered' = answered \/ \E s \in Runners : TurnEnd(s, "completed")

Framed ==
  /\ \A t \in Tasks : Written(t)
  /\ \A s \in Runners : Moved(s)
  /\ Noted

\* All that a loop's step must show: the rest follows from where it goes.
LEMMA FrameOfLoop ==
  ASSUME Kernel, NEW s \in Runners, NEW next, pc' = [pc EXCEPT ![s] = next],
         NEW h, held' = [held EXCEPT ![s] = h], NEW n, heldTry' = [heldTry EXCEPT ![s] = n]
  PROVE  \A u \in Runners \ {s} : Moved(u)
BY Parts DEF LoopsOK, Moved, Kept

\* The same of a loop that keeps its candidate.
LEMMA FrameOfGoing ==
  ASSUME Kernel, NEW s \in Runners, NEW next, pc' = [pc EXCEPT ![s] = next],
         UNCHANGED <<held, heldTry>>
  PROVE  \A u \in Runners \ {s} : Moved(u)
BY Parts DEF LoopsOK, Moved, Kept

\* A death stops every loop.
LEMMA FrameOfDeath ==
  ASSUME Die
  PROVE  (\A s \in Runners : Moved(s)) /\ Noted
BY DEF Die, Moved, Noted

\* So does an error one loop.
LEMMA FrameOfRelease ==
  ASSUME Kernel, NEW s \in Runners, NEW next \in {"idle", "selecting"}, Release(s, next),
         ~InTurn(s) \/ Record(s)
  PROVE  \A u \in Runners : Moved(u)
<1>1. \A u \in Runners \ {s} : Moved(u)
  BY FrameOfLoop DEF Release
<1>2. Moved(s)
  BY Parts DEF Release, LoopsOK, Moved
<1> QED
  BY <1>1, <1>2

LEMMA FrameOfAbort ==
  ASSUME Kernel, NEW s \in Runners, Abort(s), ~InTurn(s) \/ Record(s)
  PROVE  (\A u \in Runners : Moved(u)) /\ Noted
<1>1. CASE Die
  BY <1>1, FrameOfDeath
<1>2. CASE Release(s, "idle") /\ answered' = answered /\ phase' = phase
  BY <1>2, FrameOfRelease DEF Noted
<1> QED
  BY <1>1, <1>2 DEF Abort

\* A loop's write leaves the other rows alone.
LEMMA FrameOfRow ==
  ASSUME Kernel, NEW t \in Tasks, NEW q, store' = [store EXCEPT ![t] = q]
  PROVE  /\ store'[t] = q
         /\ \A u \in Tasks \ {t} : Written(u)
BY Parts DEF StoreOK, Written

LEMMA FrameOfOwn ==
  ASSUME Kernel, NEW s \in Runners, pc[s] \notin {"idle", "selecting"},
         OwnWrite(s), NEW q, SetRow(s, q)
  PROVE  \A t \in Tasks : Written(t)
<1>1. held[s] \in Tasks
  BY WorksOnTask
<1>2. \A u \in Tasks \ {held[s]} : Written(u)
  BY <1>1, FrameOfRow DEF SetRow
<1>3. Written(held[s])
  BY DEF Written
<1> QED
  BY <1>2, <1>3

\* A step of a loop.
LEMMA LoopFrame ==
  ASSUME Kernel, NEW s \in Runners, LoopStep(s)
  PROVE  Framed
<1>1. CASE Select(s)
  <2>1. \A t \in Tasks : Written(t)
    BY <1>1 DEF Select, Written
  <2>2. PICK h, n : held' = [held EXCEPT ![s] = h] /\ heldTry' = [heldTry EXCEPT ![s] = n]
    BY <1>1 DEF Select
  <2>3. \A u \in Runners \ {s} : Moved(u)
    BY <1>1, <2>2, FrameOfLoop DEF Select
  <2>4. Moved(s) /\ Noted
    BY <1>1 DEF Moved, Noted, Select
  <2> QED
    BY <2>1, <2>3, <2>4 DEF Framed
<1>2. CASE SelectNone(s)
  <2>1. \A t \in Tasks : Written(t)
    BY <1>2 DEF SelectNone, Written
  <2>2. (\A u \in Runners : Moved(u)) /\ Noted
    BY <1>2, FrameOfRelease DEF SelectNone, Noted, InTurn, TurnEnds
  <2> QED
    BY <2>1, <2>2 DEF Framed
<1>3. CASE Claim(s)
  <2>1. pc[s] \notin {"idle", "selecting"} /\ SetRow(s, ClaimRow(store[held[s]], heldTry[s]))
    BY <1>3 DEF Claim
  <2>2. held[s] \in Tasks /\ heldTry[s] \in DOMAIN store[held[s]].tries
    BY <2>1, WorksOnTask
  <2>3. \A t \in Tasks : Written(t)
    BY <2>1, <2>2, FrameOfRow DEF SetRow, Written
  <2>4. (\A u \in Runners : Moved(u)) /\ Noted
    <3>1. CASE ClaimWins(store[held[s]], heldTry[s])
      <4>1. Proceed(s, "starting")
        BY <1>3, <3>1 DEF Claim
      <4>2. \A u \in Runners \ {s} : Moved(u)
        BY <4>1, FrameOfGoing DEF Proceed
      <4>3. Moved(s) /\ Noted
        BY <1>3, <3>1, <4>1 DEF Moved, Won, Proceed, Noted
      <4> QED
        BY <4>2, <4>3
    <3>2. CASE ~ClaimWins(store[held[s]], heldTry[s])
      BY <1>3, <3>2, FrameOfRelease DEF Claim, NextCandidate, Noted, InTurn, TurnEnds
    <3> QED
      BY <3>1, <3>2
  <2> QED
    BY <2>3, <2>4 DEF Framed
<1>4. CASE Start(s)
  <2>1. \A t \in Tasks : Written(t)
    BY <1>4, FrameOfOwn DEF Start, OwnWrite
  <2>2. \A u \in Runners \ {s} : Moved(u)
    BY <1>4, FrameOfGoing DEF Start, Proceed
  <2>3. Moved(s) /\ Noted
    BY <1>4 DEF Moved, Noted, Start, Proceed
  <2> QED
    BY <2>1, <2>2, <2>3 DEF Framed
<1>5. CASE Boot(s)
  <2>1. \A t \in Tasks : Written(t)
    BY <1>5, FrameOfOwn DEF Boot, OwnWrite
  <2>2. CASE Abort(s)
    BY <1>5, <2>1, <2>2, FrameOfAbort DEF Boot, Framed, InTurn, TurnEnds
  <2>3. CASE Proceed(s, "launching")
    <3>1. \A u \in Runners \ {s} : Moved(u)
      BY <2>3, FrameOfGoing DEF Proceed
    <3>2. Moved(s) /\ Noted
      BY <1>5, <2>3 DEF Moved, Noted, Proceed
    <3> QED
      BY <2>1, <3>1, <3>2 DEF Framed
  <2> QED
    BY <1>5, <2>2, <2>3 DEF Boot
<1>6. CASE BootInterrupted(s)
  <2>1. \A t \in Tasks : Written(t)
    BY <1>6, FrameOfOwn DEF BootInterrupted, OwnWrite
  <2>2. (\A u \in Runners : Moved(u)) /\ Noted
    BY <1>6, FrameOfRelease DEF BootInterrupted, NextCandidate, Noted, InTurn, TurnEnds
  <2> QED
    BY <2>1, <2>2 DEF Framed
<1>7. CASE Launch(s)
  <2>1. \A t \in Tasks : Written(t)
    BY <1>7 DEF Launch, Written
  <2>2. \A u \in Runners \ {s} : Moved(u)
    BY <1>7, FrameOfGoing DEF Launch, Proceed
  <2>3. Moved(s) /\ Noted
    BY <1>7 DEF Moved, Noted, Launch, Proceed
  <2> QED
    BY <2>1, <2>2, <2>3 DEF Framed
<1>8. CASE LaunchRefused(s)
  <2>1. \A t \in Tasks : Written(t)
    BY <1>8 DEF LaunchRefused, Written
  <2> QED
    BY <1>8, <2>1, FrameOfAbort DEF LaunchRefused, Framed, InTurn, TurnEnds
<1>9. ASSUME NEW end \in TurnEnds, TurnEnd(s, end) PROVE Framed
  <2>1. \A t \in Tasks : Written(t)
    BY <1>9 DEF TurnEnd, durable, Written
  <2>2. \A u \in Runners \ {s} : Moved(u)
    BY <1>9, FrameOfGoing DEF TurnEnd
  <2>3. Moved(s)
    BY <1>9 DEF Moved
  <2>4. Noted
    BY <1>9 DEF Noted, TurnEnd
  <2> QED
    BY <2>1, <2>2, <2>3, <2>4 DEF Framed
<1>10. CASE Record(s)
  <2>1. pc[s] \notin {"idle", "selecting"}
    BY <1>10 DEF Record, TurnEnds
  <2>2. \A t \in Tasks : Written(t)
    BY <1>10, <2>1, FrameOfOwn DEF Record, OwnWrite
  <2>3. (\A u \in Runners : Moved(u)) /\ Noted
    BY <1>10, FrameOfAbort, FrameOfRelease DEF Record, NextCandidate, Noted
  <2> QED
    BY <2>2, <2>3 DEF Framed
<1> QED
  BY <1>1, <1>2, <1>3, <1>4, <1>5, <1>6, <1>7, <1>8, <1>9, <1>10 DEF LoopStep

\* Control calls, and the tool that creates a task.
LEMMA ControlFrame ==
  ASSUME Kernel, Untouched, Control \/ Spawn
  PROVE  Framed
<1>1. UNCHANGED loops /\ answered' = answered /\ phase' = phase
  BY DEF Control, Spawn, AskCancel, CancelGraph, StartOver, Reprioritize, Delegate
<1>2. (\A s \in Runners : Moved(s)) /\ Noted
  BY <1>1 DEF loops, Moved, Kept, Noted
<1>3. ASSUME NEW t \in Tasks, AskCancel(t) PROVE \A x \in Tasks : Written(x)
  BY <1>3 DEF AskCancel, durable, Written
<1>4. ASSUME NEW t \in Tasks, CancelGraph(t) PROVE \A x \in Tasks : Written(x)
  BY <1>4 DEF CancelGraph, Written
<1>5. ASSUME NEW c \in Controls, NEW t \in Tasks, StartOver(c, t)
      PROVE  \A x \in Tasks : Written(x)
  <2>1. /\ store[t].state \in {c.source, "retryable"} /\ t \in created
        /\ store' = [store EXCEPT ![t] = FreshStage(store[t], c.source, c.carry, 4)]
    BY <1>5 DEF StartOver, Accepts, FreshRow
  <2>2. c.source \in {"failed", "interrupted"} /\ c.carry \in BOOLEAN /\ 4 \in 1..4
    BY ControlKinds
  <2> QED
    BY <2>1, <2>2, FrameOfRow DEF Written
<1>6. ASSUME NEW t \in Tasks, NEW p \in Priorities, Reprioritize(t, p)
      PROVE  \A x \in Tasks : Written(x)
  BY <1>6 DEF Reprioritize, Written
<1>7. ASSUME NEW t \in Tasks, NEW row \in {NewRow, InterruptRow(NewRow, 1)}, Delegate(t, row)
      PROVE  \A x \in Tasks : Written(x)
  <2>1. t \notin created /\ store' = [store EXCEPT ![t] = row] /\ phase = "serving"
    BY <1>7 DEF Delegate
  <2>2. store[t] = NewRow
    BY <2>1 DEF Untouched
  <2> QED
    BY <2>1, <2>2, FrameOfRow DEF Written
<1> QED
  BY <1>2, <1>3, <1>4, <1>5, <1>6, <1>7 DEF Control, Spawn, Framed

\* A step of the startup sweep on one row.
LEMMA SweptRow ==
  ASSUME Kernel, phase = "down", NEW x \in Tasks,
         NEW row \in {store[x], CancelRow(store[x]), CancelHalf(store[x])},
         row # store[x] => x \in created,
         \/ store'[x] = row
         \/ x \in created /\ store'[x] \in {RecoverRow(row)} \cup RecoverStages(row)
  PROVE  Written(x)
BY DEF Written

\* What the sweep leaves of a row, and whose rows it writes.
LEMMA SweepWrites ==
  ASSUME NEW stop, NEW done \in SUBSET created, NEW x \in Tasks
  PROVE  \E row \in {store[x], CancelRow(store[x])} :
           /\ row # store[x] => x \in created
           /\ \/ SweepUpTo(stop, done)[x] = row
              \/ x \in created /\ SweepUpTo(stop, done)[x] = RecoverRow(row)
<1> DEFINE closed == x \in done \/ \E t \in created : t < stop /\ x \in ClosedBy(t)
           row == IF closed THEN CancelRow(store[x]) ELSE store[x]
<1>1. closed => x \in created
  BY DEF ClosedBy
<1>2. row # store[x] => x \in created
  BY <1>1
<1>3. SweepUpTo(stop, done)[x] = IF x \in created /\ x < stop THEN RecoverRow(row) ELSE row
  BY DEF SweepUpTo
<1> QED
  BY <1>2, <1>3

\* The startup sweep, finished or refused.
LEMMA StartupFrame ==
  ASSUME Kernel, Startup
  PROVE  Framed
<1>1. ASSUME NEW s \in Runners, Restart(s) PROVE Framed
  <2>1. ASSUME NEW x \in Tasks PROVE Written(x)
    <3> DEFINE closed == \E t \in created : x \in ClosedBy(t)
               row == IF closed THEN CancelRow(store[x]) ELSE store[x]
    <3>1. closed => x \in created
      BY DEF ClosedBy
    <3>2. store'[x] = IF x \in created THEN RecoverRow(row) ELSE row
      BY <1>1 DEF Restart, Swept
    <3>3. row \in {store[x], CancelRow(store[x]), CancelHalf(store[x])}
          /\ (row # store[x] => x \in created)
      BY <3>1
    <3> HIDE DEF row
    <3> QED
      BY <1>1, <3>2, <3>3, SweptRow DEF Restart
  <2>2. \A u \in Runners : Moved(u)
    <3>1. \A u \in Runners \ {s} : Moved(u)
      BY <1>1, FrameOfGoing DEF Restart
    <3>2. Moved(s)
      BY <1>1, DownIsQuiet, Parts DEF Restart, LoopsOK, Moved, InTurn, TurnEnds
    <3> QED
      BY <3>1, <3>2
  <2>3. Noted
    BY <1>1 DEF Restart, Noted
  <2> QED
    BY <2>1, <2>2, <2>3 DEF Framed
<1>2. ASSUME NEW t \in created, NEW y \in created, RestartRefused(t, y) PROVE Framed
  <2>1. ASSUME NEW x \in Tasks PROVE Written(x)
    <3>1. store' = SweepUpTo(t, UpTo(ClosedBy(t), y)) /\ phase = "down"
      BY <1>2 DEF RestartRefused
    <3>2. UpTo(ClosedBy(t), y) \in SUBSET created
      BY DEF UpTo, ClosedBy
    <3>3. PICK row \in {store[x], CancelRow(store[x])} :
            /\ row # store[x] => x \in created
            /\ store'[x] = row \/ (x \in created /\ store'[x] = RecoverRow(row))
      BY <3>1, <3>2, SweepWrites
    <3> QED
      BY <3>1, <3>3, SweptRow
  <2>2. (\A u \in Runners : Moved(u)) /\ Noted
    BY <1>2 DEF RestartRefused, loops, Moved, Kept, Noted
  <2> QED
    BY <2>1, <2>2 DEF Framed
<1> QED
  BY <1>1, <1>2 DEF Startup

\* A death inside any of them.
LEMMA TornFrame ==
  ASSUME SchedulerAssumption, Kernel, Torn
  PROVE  Framed
<1>1. Die
  BY DEF Torn, Crash, RestartTorn, SelectTorn, BootTorn, RecordTorn, CancelTorn, StartOverTorn
<1>2. SUFFICES \A x \in Tasks : Written(x)
  BY <1>1, FrameOfDeath DEF Framed
<1>3. created \subseteq Tasks
  BY Parts DEF RestOK
<1>4. CASE Crash
  BY <1>4 DEF Crash, Written
<1>5. ASSUME NEW stop \in created, RestartTorn(stop) PROVE \A x \in Tasks : Written(x)
  <2>1. phase = "down" /\ stop \in Tasks
    BY <1>3, <1>5 DEF RestartTorn
  <2>2. ASSUME NEW done \in SUBSET created, NEW at \in created, NEW row,
               store' = [SweepUpTo(stop, done) EXCEPT ![at] = row], Written(at)
        PROVE  \A x \in Tasks : Written(x)
    <3>1. \A x \in Tasks \ {at} : store'[x] = SweepUpTo(stop, done)[x]
      BY <2>2 DEF SweepUpTo
    <3>2. ASSUME NEW x \in Tasks \ {at} PROVE Written(x)
      <4>1. PICK it \in {store[x], CancelRow(store[x])} :
              /\ it # store[x] => x \in created
              /\ store'[x] = it \/ (x \in created /\ store'[x] = RecoverRow(it))
        BY <3>1, SweepWrites
      <4> QED
        BY <2>1, <4>1, SweptRow
    <3> QED
      BY <2>2, <3>2
  <2>3. ASSUME NEW at \in ClosedBy(stop),
               NEW row \in {CancelHalf(store[at]), CancelRow(store[at])},
               store' = [SweepUpTo(stop, UpTo(ClosedBy(stop), at)) EXCEPT ![at] = row]
        PROVE  \A x \in Tasks : Written(x)
    <3>1. at \in created /\ at \in Tasks /\ UpTo(ClosedBy(stop), at) \in SUBSET created
      BY <1>3 DEF ClosedBy, UpTo
    <3>2. store'[at] = row
      BY <2>3, <3>1 DEF SweepUpTo
    <3>3. Written(at)
      BY <2>1, <2>3, <3>1, <3>2, SweptRow
    <3> QED
      BY <2>2, <2>3, <3>1, <3>3
  <2>4. ASSUME NEW row \in RecoverStages(SweepUpTo(stop, ClosedBy(stop))[stop]),
               store' = [SweepUpTo(stop, ClosedBy(stop)) EXCEPT ![stop] = row]
        PROVE  \A x \in Tasks : Written(x)
    <3>1. ClosedBy(stop) \in SUBSET created
      BY DEF ClosedBy
    <3>2. store'[stop] = row
      BY <2>1, <2>4 DEF SweepUpTo
    <3>3. ~(stop < stop)
      BY <2>1 DEF SchedulerAssumption
    <3>4. SweepUpTo(stop, ClosedBy(stop))[stop] \in {store[stop], CancelRow(store[stop])}
      BY <2>1, <3>3, Parts, SweepUpToRow
    <3>5. Written(stop)
      BY <2>1, <2>4, <3>2, <3>4, SweptRow
    <3> QED
      BY <2>2, <2>4, <3>1, <3>5
  <2> QED
    BY <1>5, <2>3, <2>4 DEF RestartTorn
<1>6. ASSUME NEW s \in Runners, NEW t \in created, SelectTorn(s, t)
      PROVE  \A x \in Tasks : Written(x)
  BY <1>1, <1>6 DEF SelectTorn, Written
<1>7. ASSUME NEW s \in Runners, BootTorn(s) PROVE \A x \in Tasks : Written(x)
  <2>1. pc[s] \notin {"idle", "selecting"} /\ OwnWrite(s)
    BY <1>7 DEF BootTorn, OwnWrite
  <2> QED
    BY <1>7, <2>1, FrameOfOwn DEF BootTorn
<1>8. ASSUME NEW s \in Runners, RecordTorn(s) PROVE \A x \in Tasks : Written(x)
  <2>1. pc[s] \notin {"idle", "selecting"} /\ OwnWrite(s)
    BY <1>8 DEF RecordTorn, OwnWrite, TurnEnds
  <2> QED
    BY <1>8, <2>1, FrameOfOwn DEF RecordTorn
<1>9. ASSUME NEW t \in created, NEW at \in created, CancelTorn(t, at)
      PROVE  \A x \in Tasks : Written(x)
  BY <1>1, <1>9 DEF CancelTorn, Written
<1>10. ASSUME NEW c \in Controls, NEW t \in created, NEW n \in 1..3, StartOverTorn(c, t, n)
       PROVE  \A x \in Tasks : Written(x)
  <2>1. /\ store[t].state \in {c.source, "retryable"} /\ t \in Tasks /\ n \in 1..4
        /\ store' = [store EXCEPT ![t] = FreshStage(store[t], c.source, c.carry, n)]
    BY <1>3, <1>10 DEF StartOverTorn, Accepts
  <2> QED
    BY <2>1, ControlKinds, FrameOfRow DEF Written
<1> QED
  BY <1>4, <1>5, <1>6, <1>7, <1>8, <1>9, <1>10 DEF Torn

\* Only a loop at work writes to its row as such.
LEMMA OwnIsWorking ==
  ASSUME NEW s \in Runners, OwnWrite(s)
  PROVE  Working(s) /\ pc[s] \notin {"idle", "selecting"}
BY DEF OwnWrite, Start, Boot, BootInterrupted, BootTorn, Record, RecordTorn, Working,
       Claimed, TurnEnds

\* Every step keeps to the frame.
LEMMA NextFramed ==
  ASSUME SchedulerAssumption, IInv, [Next]_vars
  PROVE  Framed
<1>1. Kernel /\ Untouched
  BY DEF IInv, Kernel
<1>2. ASSUME NEW s \in Runners, NEW delegated \in BOOLEAN, Kick(s, delegated) PROVE Framed
  <2>1. \A t \in Tasks : Written(t)
    BY <1>2 DEF Kick, durable, Written
  <2>2. \A u \in Runners \ {s} : Moved(u)
    BY <1>1, <1>2, FrameOfGoing DEF Kick
  <2>3. Moved(s) /\ Noted
    BY <1>1, <1>2, Parts DEF Kick, LoopsOK, Moved, Noted, InTurn, TurnEnds
  <2> QED
    BY <2>1, <2>2, <2>3 DEF Framed
<1>3. ASSUME NEW t \in created, NEW i \in DOMAIN store[t].tries, LeaseRunsOut(t, i)
      PROVE  Framed
  <2>1. t \in Tasks
    BY <1>1, Parts DEF RestOK
  <2>2. \A x \in Tasks \ {t} : Written(x)
    BY <1>1, <1>3, <2>1, FrameOfRow DEF LeaseRunsOut
  <2>3. Written(t)
    BY <1>3 DEF Written
  <2>4. (\A s \in Runners : Moved(s)) /\ Noted
    BY <1>3 DEF LeaseRunsOut, loops, Moved, Kept, Noted
  <2> QED
    BY <2>2, <2>3, <2>4 DEF Framed
<1>4. CASE UNCHANGED vars
  BY <1>4 DEF vars, durable, loops, Framed, Written, Moved, Kept, Noted
<1> QED
  BY <1>1, <1>2, <1>3, <1>4, LoopFrame, ControlFrame, StartupFrame, TornFrame DEF Next

-----------------------------------------------------------------------------
(* The theorems.                                                           *)

\* Every step of the scheduler keeps the inductive invariant, and writes to
\* rows only in the ways of Rewrites.
LEMMA NextKeeps ==
  ASSUME SchedulerAssumption, IInv, [Next]_vars
  PROVE  IInv' /\ RowsKept
<1>1. Kernel /\ Untouched
  BY DEF IInv, Kernel
<1>2. SUFFICES Kernel' /\ RowsKept /\ Untouched'
  BY DEF IInv, Kernel
<1>3. ASSUME NEW s \in Runners, LoopStep(s) PROVE Kernel' /\ RowsKept /\ Untouched'
  BY <1>1, <1>3, LoopUntouched, SelectStep, SelectNoneStep, ClaimStep, StartStep,
     BootStep, RefusedStep, BootInterruptedStep, LaunchStep, TurnEndStep, RecordStep
     DEF LoopStep
<1>4. ASSUME NEW s \in Runners, NEW delegated \in BOOLEAN, Kick(s, delegated)
      PROVE  Kernel' /\ RowsKept /\ Untouched'
  BY <1>1, <1>4, KickStep, StillUntouched DEF Kick, durable
<1>5. ASSUME NEW t \in created, NEW i \in DOMAIN store[t].tries, LeaseRunsOut(t, i)
      PROVE  Kernel' /\ RowsKept /\ Untouched'
  <2>1. Kernel' /\ RowsKept
    BY <1>1, <1>5, LeaseStep
  <2>2. created' = created /\ store' = [store EXCEPT ![t] =
          PutAttempt(store[t], i, [state |-> store[t].tries[i].state, lease |-> "due"])]
    BY <1>5 DEF LeaseRunsOut
  <2>3. Untouched'
    BY <1>1, <2>2, TouchOne
  <2> QED
    BY <2>1, <2>3
<1>6. CASE Spawn
  BY <1>1, <1>6, DelegateStep, ControlUntouched DEF Spawn
<1>7. CASE Control
  BY <1>1, <1>7, ControlUntouched, AskCancelStep, CancelGraphStep, StartOverStep,
     ReprioritizeStep DEF Control
<1>8. CASE Startup
  BY <1>1, <1>8, StartupUntouched, RestartKeeps, RestartRefusedKeeps DEF Startup
<1>9. CASE Torn
  BY <1>1, <1>9, TornUntouched, CrashKeeps, RestartTornKeeps, SelectTornStep,
     BootTornKeeps, RecordTornKeeps, CancelTornStep, StartOverTornKeeps DEF Torn
<1>10. CASE UNCHANGED vars
  <2>1. UNCHANGED <<store, created, priority, phase, cancelAsked, kickOwed, bounds, answered>>
        /\ UNCHANGED loops
    BY <1>10 DEF vars, durable
  <2>2. RowsKept /\ \A u \in Runners : Undisturbed(u)
    BY <1>1, <2>1, Parts, SameStore, SameRowUndisturbed
  <2> QED
    BY <1>1, <2>1, <2>2, LoopsStay, RestStays, Steps, StillUntouched
<1> QED
  BY <1>3, <1>4, <1>5, <1>6, <1>7, <1>8, <1>9, <1>10 DEF Next

\* Every step of the scheduler keeps the inductive invariant.
THEOREM NextKeepsIInv ==
  ASSUME SchedulerAssumption
  PROVE  IInv /\ [Next]_vars => IInv'
BY NextKeeps

\* The inductive invariant holds of every reachable state.
THEOREM InvariantHolds == Spec => []IInv
<1>1. Init => IInv
  <2>1. Init => Kernel
    BY SchedulerAssumption, InitOK
  <2>2. Init => Untouched
    BY DEF Init, Untouched
  <2> QED
    BY <2>1, <2>2 DEF IInv, Kernel
<1>2. IInv /\ [Next]_vars => IInv'
  BY SchedulerAssumption, NextKeepsIInv
<1> QED
  BY <1>1, <1>2, PTL DEF Spec

\* Every variable keeps its type, for any tasks, loops and bounds.
THEOREM TypeCorrect == Spec => []TypeOK
<1>1. IInv => TypeOK
  BY DEF IInv
<1> QED
  BY <1>1, InvariantHolds, PTL

\* No two loops run the same task.
THEOREM OneRunner == Spec => []OneRunnerPerTask
<1>1. IInv => OneRunnerPerTask
  BY DEF IInv
<1> QED
  BY <1>1, InvariantHolds, PTL

\* A loop's attempt is the newest one of its task.
THEOREM NewestAttempt == Spec => []RunnerHoldsNewestAttempt
<1>1. IInv => RunnerHoldsNewestAttempt
  BY DEF IInv, WorkInv, RunnerHoldsNewestAttempt
<1> QED
  BY <1>1, InvariantHolds, PTL

\* A loop works on a task only while its dependencies are completed.
THEOREM DependenciesHold == Spec => []DependenciesFirst
<1>1. IInv => DependenciesFirst
  BY DEF IInv, WorkInv, WorkedOn, DepsDone, DependenciesFirst
<1> QED
  BY <1>1, InvariantHolds, PTL

\* A task that is completed or failed has a newest attempt that is.
THEOREM TaskFollowsAttempt == Spec => []TaskNeverAheadOfAttempt
<1>1. IInv => TaskNeverAheadOfAttempt
  <2> SUFFICES ASSUME IInv, NEW t \in created, store[t].state \in {"completed", "failed"}
               PROVE  Latest(store[t]).state = store[t].state
    BY DEF TaskNeverAheadOfAttempt
  <2>1. RowInv(t)
    BY DEF IInv, TypeOK
  <2> QED
    BY <2>1 DEF RowInv, RowOK, Fits
<1> QED
  BY <1>1, InvariantHolds, PTL

\* No step moves an attempt that a newer one replaced.
THEOREM HistoryStays == Spec => SupersededAttemptsStay
<1> DEFINE Stays == \A t \in Tasks : \A i \in DOMAIN store[t].tries :
             i < Len(store[t].tries) => store'[t].tries[i].state = store[t].tries[i].state
<1>1. IInv /\ [Next]_vars => Stays
  <2> SUFFICES ASSUME IInv, [Next]_vars PROVE Stays
    OBVIOUS
  <2>1. RowsKept
    BY SchedulerAssumption, NextKeeps
  <2> QED
    BY <2>1 DEF RowsKept, Rewrites
<1>2. IInv /\ [Next]_vars => [Stays]_vars
  BY <1>1
<1>3. SupersededAttemptsStay <=> [][Stays]_vars
  BY DEF SupersededAttemptsStay
<1> HIDE DEF Stays
<1> QED
  BY <1>2, <1>3, InvariantHolds, PTL DEF Spec

-----------------------------------------------------------------------------
(* Leases.                                                                 *)

\* A running attempt with a live lease is the newest one, and every write to
\* its row that is not its loop's leaves it running or asked to stop.
LEMMA LeaseStays ==
  ASSUME SchedulerAssumption, IInv, [Next]_vars,
         NEW t \in Tasks, NEW i \in DOMAIN store[t].tries,
         store[t].tries[i] = [state |-> "running", lease |-> "live"],
         store'[t].tries[i].state \notin {"running", "cancel_requested"}
  PROVE  \E s \in Runners : Working(s) /\ held[s] = t /\ heldTry[s] = i /\ OwnWrite(s)
<1> DEFINE r == store[t]
           q == store'[t]
           d == DepsDone(t)
<1>1. Kernel /\ Sound(r) /\ RowOK(r, d) /\ d \in BOOLEAN /\ Written(t)
  BY Parts, SoundRows, NextFramed DEF IInv, Kernel, Framed
<1>2. i = Len(r.tries) /\ Latest(r) = [state |-> "running", lease |-> "live"]
  BY <1>1, LatestType DEF RowOK, OldTriesDone
<1>3. ASSUME Protected(q), Len(q.tries) = Len(r.tries) PROVE FALSE
  BY <1>2, <1>3 DEF Protected, Latest
<1>4. ASSUME NEW s \in Runners, held[s] = t, OwnWrite(s)
      PROVE  Working(s) /\ heldTry[s] = i
  <2>1. Working(s) /\ pc[s] \notin {"idle", "selecting"}
    BY <1>4, OwnIsWorking
  <2> QED
    BY <1>1, <1>2, <1>4, <2>1, WorksOnTask
<1>5. ASSUME NEW j \in DOMAIN r.tries, LeaseRunsOut(t, j) PROVE FALSE
  <2>1. q = PutAttempt(r, j, [state |-> r.tries[j].state, lease |-> "due"])
    BY <1>1, <1>5, Parts DEF LeaseRunsOut, StoreOK
  <2> QED
    BY <1>1, <2>1, RunOutShape
<1>6. r.state \notin {"failed", "interrupted", "retryable"}
  BY <1>1, <1>2 DEF RowOK, Fits
<1>7. r # NewRow
  BY <1>2 DEF NewRow, QueuedAttempt, Latest
<1>8. CASE \/ q \in {r, CancelRow(r), CancelHalf(r), VisitRow(r, d), VisitHalf(r, d)}
           \/ \E j \in DOMAIN r.tries : q = ClaimRow(r, j)
           \/ \E row \in {r, CancelRow(r), CancelHalf(r)} :
                q \in {row, RecoverRow(row)} \cup RecoverStages(row)
  BY <1>1, <1>2, <1>3, <1>8, LiveIsProtected
<1> QED
  BY <1>1, <1>4, <1>5, <1>6, <1>7, <1>8 DEF Written

\* While its lease lasts, a running attempt is moved by its loop and nobody else.
THEOREM LeaseHolds == Spec => LiveLeaseIsRespected
<1> DEFINE Respects == \A t \in Tasks : \A i \in DOMAIN store[t].tries :
             /\ store[t].tries[i] = [state |-> "running", lease |-> "live"]
             /\ store'[t].tries[i].state \notin {"running", "cancel_requested"}
             => \E s \in Runners : /\ Working(s) /\ held[s] = t /\ heldTry[s] = i
                                  /\ OwnWrite(s)
<1>1. IInv /\ [Next]_vars => Respects
  BY SchedulerAssumption, LeaseStays
<1>2. IInv /\ [Next]_vars => [Respects]_vars
  BY <1>1
<1>3. LiveLeaseIsRespected <=> [][Respects]_vars
  BY DEF LiveLeaseIsRespected
<1> HIDE DEF Respects
<1> QED
  BY <1>2, <1>3, InvariantHolds, PTL DEF Spec

-----------------------------------------------------------------------------
(* Finished tasks.                                                         *)

\* A task whose child turn completed is parked, and a loop still on it has
\* only the record of that to write.
AnsweredInv ==
  /\ phase = "down" => answered = {}
  /\ \A t \in answered : Parked(store[t], DepsDone(t))
  /\ \A s \in Runners : Working(s) /\ held[s] \in answered => pc[s] = "completed"

\* A loop that works on a row finds it as a finished turn would.
LEMMA WorkIsParked ==
  ASSUME NEW r, NEW d, WorkedOn(r, d)
  PROVE  Parked(r, d)
BY DEF WorkedOn, Parked

\* The row of a finished task stays parked.
LEMMA AnsweredRow ==
  ASSUME SchedulerAssumption, IInv, [Next]_vars, AnsweredInv, ~Die, NEW t \in answered
  PROVE  Parked(store'[t], DepsDone(t)')
<1> DEFINE r == store[t]
           q == store'[t]
           d == DepsDone(t)
<1>1. Kernel /\ t \in Tasks /\ t \in created /\ phase # "down"
  BY Parts DEF IInv, Kernel, RestOK, AnsweredInv
<1>2. Sound(r) /\ RowOK(r, d) /\ d \in BOOLEAN /\ Written(t) /\ Parked(r, d)
  BY <1>1, Parts, SoundRows, NextFramed DEF Framed, AnsweredInv
<1>3. Parked(q, d)
  <2>1. ASSUME NEW s \in Runners, held[s] = t, OwnWrite(s) PROVE Parked(q, d)
    <3>1. Working(s) /\ pc[s] \notin {"idle", "selecting"}
      BY <2>1, OwnIsWorking
    <3>2. pc[s] = "completed"
      BY <2>1, <3>1 DEF AnsweredInv
    <3>3. Record(s)
      BY <1>2, <2>1, <3>2 DEF OwnWrite, Start, Boot, BootInterrupted, BootTorn, RecordTorn
    <3>4. q = RecordRow(r, Len(r.tries), "completed")
      BY <1>1, <2>1, <3>1, <3>2, <3>3, WorksOnTask, Parts DEF Record, SetRow, StoreOK
    <3> QED
      BY <1>2, <3>4, ParkedRecord
  <2>2. ASSUME NEW i \in DOMAIN r.tries, LeaseRunsOut(t, i) PROVE Parked(q, d)
    <3>1. q = PutAttempt(r, i, [state |-> r.tries[i].state, lease |-> "due"])
      BY <1>1, <2>2, Parts DEF LeaseRunsOut, StoreOK
    <3> QED
      BY <1>2, <3>1, ParkedStays
  <2>3. CASE q \in {r, CancelRow(r), VisitRow(r, d)} \/ \E i \in DOMAIN r.tries : q = ClaimRow(r, i)
    BY <1>2, <2>3, ParkedStays
  <2>4. r.state \notin {"failed", "interrupted", "retryable"}
    BY <1>2 DEF Parked
  <2> QED
    BY <1>1, <1>2, <2>1, <2>2, <2>3, <2>4 DEF Written
<1>4. d => DepsDone(t)'
  BY <1>1, NextKeeps, DepsStayDone
<1> QED
  BY <1>3, <1>4 DEF Parked

\* A loop that starts on a task finds an attempt that is ready, which a
\* finished task does not have.
LEMMA AnsweredLoop ==
  ASSUME SchedulerAssumption, IInv, [Next]_vars, AnsweredInv, ~Die,
         NEW u \in Runners, Working(u)', held'[u] \in answered'
  PROVE  pc'[u] = "completed"
<1>1. /\ Kernel /\ Moved(u) /\ Noted /\ OneRunnerPerTask'
      /\ pc \in [Runners -> PCs]
  BY NextKeeps, NextFramed, Parts DEF Framed, IInv, Kernel, LoopsOK
<1>2. Working(u)' <=> pc'[u] \in Claimed
  BY DEF Working
<1>3. CASE Kept(u)
  <2>1. Working(u) /\ held[u] = held'[u]
    BY <1>2, <1>3 DEF Kept, Working
  <2>2. CASE held[u] \in answered
    BY <1>3, <2>1, <2>2 DEF AnsweredInv, Kept
  <2>3. CASE held[u] \notin answered
    <3>1. PICK s \in Runners : TurnEnd(s, "completed")
      BY <1>1, <2>1, <2>3 DEF Noted
    <3>2. held'[s] = held'[u] /\ pc'[s] = "completed"
      BY <1>1, <2>1, <2>3, <3>1 DEF TurnEnd
    <3>3. Working(s)'
      BY <3>2 DEF Working, Claimed, TurnEnds
    <3> QED
      BY <1>1, <3>2, <3>3 DEF OneRunnerPerTask
  <2> QED
    BY <2>2, <2>3
<1>4. CASE pc'[u] \in {"idle", "selecting"}
  BY <1>2, <1>4 DEF Claimed, TurnEnds
<1>5. CASE Select(u)
  BY <1>1, <1>2, <1>5 DEF Select, Claimed, TurnEnds
<1>6. CASE Won(u)
  <2>1. /\ answered' = answered /\ held' = held /\ pc[u] = "claiming"
        /\ store[held[u]].tries[heldTry[u]].state = "ready"
    BY <1>6 DEF Won, Claim, Proceed, ClaimWins
  <2>2. held[u] \in answered /\ Parked(store[held[u]], DepsDone(held[u]))
    BY <2>1 DEF AnsweredInv
  <2>3. /\ Sound(store[held[u]]) /\ heldTry[u] \in DOMAIN store[held[u]].tries
        /\ RowOK(store[held[u]], DepsDone(held[u]))
    BY <1>1, <2>1, WorksOnTask
  <2>4. Latest(store[held[u]]).state = "ready"
    BY <2>1, <2>3, ReadyIsNewest DEF RowOK
  <2> QED
    BY <2>2, <2>4 DEF Parked
<1>7. CASE Start(u) \/ Launch(u)
  <2>1. Working(u) /\ pc[u] # "completed" /\ held' = held /\ answered' = answered
    BY <1>7 DEF Start, Launch, Proceed, Working, Claimed, TurnEnds
  <2> QED
    BY <2>1 DEF AnsweredInv
<1>8. CASE Boot(u)
  <2>1. Proceed(u, "launching") /\ pc[u] = "booting"
    BY <1>1, <1>2, <1>8 DEF Boot, Abort, Release, Claimed, TurnEnds
  <2>2. Working(u) /\ pc[u] # "completed" /\ held' = held /\ answered' = answered
    BY <2>1 DEF Proceed, Working, Claimed, TurnEnds
  <2> QED
    BY <2>2 DEF AnsweredInv
<1>9. ASSUME NEW end \in TurnEnds, TurnEnd(u, end) PROVE pc'[u] = "completed"
  <2>1. Working(u) /\ pc[u] # "completed" /\ held' = held
    BY <1>9 DEF TurnEnd, Working, Claimed, TurnEnds
  <2>2. held[u] \notin answered
    BY <2>1 DEF AnsweredInv
  <2> QED
    BY <1>1, <1>9, <2>1, <2>2 DEF TurnEnd
<1> QED
  BY <1>1, <1>3, <1>4, <1>5, <1>6, <1>7, <1>8, <1>9 DEF Moved

\* What is known of finished tasks stays so.
LEMMA AnsweredStep ==
  ASSUME SchedulerAssumption, IInv, [Next]_vars, AnsweredInv
  PROVE  AnsweredInv'
<1>1. CASE Die
  <2>1. answered' = {}
    BY <1>1 DEF Die
  <2> QED
    BY <2>1 DEF AnsweredInv
<1>2. CASE ~Die
  <2>1. /\ phase' = "down" => phase = "down"
        /\ answered' = answered \/ \E s \in Runners : TurnEnd(s, "completed")
    BY <1>2, NextFramed DEF Framed, Noted
  <2>2. phase' = "down" => answered' = {}
    <3>1. \A s \in Runners : phase = "down" => ~TurnEnd(s, "completed")
      BY DownIsQuiet DEF TurnEnd, IInv, Kernel
    <3> QED
      BY <2>1, <3>1 DEF AnsweredInv
  <2>3. ASSUME NEW t \in answered' PROVE Parked(store'[t], DepsDone(t)')
    <3>1. CASE t \in answered
      BY <1>2, <3>1, AnsweredRow
    <3>2. CASE t \notin answered
      <4>1. PICK s \in Runners : TurnEnd(s, "completed")
        BY <2>1, <3>2
      <4>2. t = held[s] /\ store' = store /\ pc[s] = "turn"
        BY <3>2, <4>1 DEF TurnEnd, durable
      <4>3. Working(s) /\ WorkInv(s)
        BY <4>2 DEF IInv, Working, Claimed, TurnEnds
      <4>4. WorkedOn(store[t], DepsDone(t)) /\ DepsDone(t)' = DepsDone(t)
        BY <4>2, <4>3 DEF WorkInv, DepsDone
      <4> QED
        BY <4>2, <4>4, WorkIsParked
    <3> QED
      BY <3>1, <3>2
  <2>4. \A u \in Runners : Working(u)' /\ held'[u] \in answered' => pc'[u] = "completed"
    BY <1>2, AnsweredLoop
  <2> QED
    BY <2>2, <2>3, <2>4 DEF AnsweredInv
<1> QED
  BY <1>1, <1>2

\* A task whose child turn completed is not run again.
THEOREM FinishedStaysFinished == Spec => []NoRerunOfFinishedTask
<1>1. Init => AnsweredInv
  BY DEF Init, AnsweredInv
<1>2. IInv /\ [Next]_vars /\ AnsweredInv => AnsweredInv'
  BY SchedulerAssumption, AnsweredStep
<1>3. AnsweredInv => NoRerunOfFinishedTask
  BY DEF AnsweredInv, NoRerunOfFinishedTask, Working, Claimed, TurnEnds
<1> QED
  BY <1>1, <1>2, <1>3, InvariantHolds, PTL DEF Spec

-----------------------------------------------------------------------------
(* Cancellation, when no loop stalls for as long as a lease lasts.         *)

\* The row that loop s works on: the task is running, asked to stop, or still
\* ready, and then the claim of its attempt is fresh.
QuietWork(s) ==
  Working(s) =>
    /\ store[held[s]].state \in {"ready", "running", "cancel_requested"}
    /\ store[held[s]].state = "ready" =>
         /\ pc[s] = "starting"
         /\ Latest(store[held[s]]) = [state |-> "running", lease |-> "live"]

\* The task that loop s is about to claim was not cancelled if its attempt is
\* still ready.
QuietClaim(s) ==
  pc[s] = "claiming" /\ store[held[s]].tries[heldTry[s]].state = "ready"
    => store[held[s]].state = "ready"

QuietInv == \A s \in Runners : QuietWork(s) /\ QuietClaim(s)

\* A row that loop u works on, whoever else writes to it.
LEMMA OthersStayQuiet ==
  ASSUME SchedulerAssumption, ~Stalls, IInv, [Next]_vars, QuietInv,
         NEW u \in Runners, Working(u), Kept(u)
  PROVE  QuietWork(u)'
<1> DEFINE t == held[u]
           r == store[t]
           q == store'[t]
           d == DepsDone(t)
<1>1. /\ Kernel /\ pc[u] \notin {"idle", "selecting"} /\ pc \in [Runners -> PCs]
  BY Parts DEF IInv, Kernel, LoopsOK, Working, Claimed, TurnEnds
<1>2. /\ t \in created /\ t \in Tasks /\ heldTry[u] = Len(r.tries)
      /\ Sound(r) /\ RowOK(r, d) /\ WorkedOn(r, d) /\ d \in BOOLEAN
  BY <1>1, WorksOnTask DEF DepsDone
<1>3. Written(t) /\ QuietWork(u)
  BY <1>2, NextFramed DEF Framed, QuietInv
<1>4. phase # "down" /\ ~Die
  <2>1. Die => pc'[u] = "idle"
    BY DEF Die
  <2> QED
    BY <1>1, <2>1, BusyIsUp DEF Kept
<1>5. SUFFICES ASSUME TRUE
               PROVE  /\ q.state \in {"ready", "running", "cancel_requested"}
                      /\ q.state = "ready" =>
                           r.state = "ready" /\ Latest(q) = Latest(r)
  BY <1>3 DEF QuietWork, Kept, Working
<1>6. CASE q \in {r, CancelRow(r)}
  BY <1>2, <1>3, <1>6, CancelUnderWork DEF QuietWork
<1>7. CASE q = VisitRow(r, d)
  BY <1>2, <1>3, <1>7, VisitUnderWork DEF QuietWork, Latest
<1>8. ASSUME NEW i \in DOMAIN r.tries, q = ClaimRow(r, i)
      PROVE  q.state = r.state /\ (r.state = "ready" => Latest(q) = Latest(r))
  BY <1>2, <1>3, <1>8, ClaimShape DEF QuietWork, RowOK
<1>9. ASSUME NEW i \in DOMAIN r.tries, LeaseRunsOut(t, i)
      PROVE  q.state = r.state /\ (r.state = "ready" => Latest(q) = Latest(r))
  <2>1. q = PutAttempt(r, i, [state |-> r.tries[i].state, lease |-> "due"])
    BY <1>1, <1>2, <1>9, Parts DEF LeaseRunsOut, StoreOK
  <2>2. pc[u] = "starting" => i # Len(r.tries)
    BY <1>2, <1>9 DEF LeaseRunsOut
  <2> QED
    BY <1>2, <1>3, <2>1, <2>2, RunOutShape DEF QuietWork
<1>10. ASSUME NEW s \in Runners, held[s] = t, OwnWrite(s) PROVE FALSE
  <2>1. s = u
    BY <1>1, <1>10, OwnIsWorking DEF Kernel, OneRunnerPerTask
  <2> QED
    BY <1>1, <1>4, <1>10, <2>1 DEF OwnWrite, Start, Boot, BootInterrupted, BootTorn, Record,
       RecordTorn, Abort, Proceed, NextCandidate, Release, Kept, TurnEnds
<1>11. r.state \notin {"failed", "interrupted", "retryable"}
  BY <1>2 DEF WorkedOn
<1> QED
  BY <1>2, <1>3, <1>4, <1>6, <1>7, <1>8, <1>9, <1>10, <1>11 DEF Written, QuietWork

\* The steps of loop u itself.
LEMMA OwnStaysQuiet ==
  ASSUME SchedulerAssumption, IInv, [Next]_vars, QuietInv,
         NEW u \in Runners, ~Kept(u), Working(u)'
  PROVE  QuietWork(u)'
<1> DEFINE t == held[u]
           r == store[t]
           q == store'[t]
<1>1. Kernel /\ Moved(u) /\ QuietWork(u) /\ QuietClaim(u) /\ pc'[u] \in Claimed
      /\ pc \in [Runners -> PCs] /\ store \in [Tasks -> Row]
  BY NextFramed, Parts DEF Framed, IInv, Kernel, QuietInv, Working, LoopsOK, StoreOK
<1>2. pc'[u] \notin {"idle", "selecting", "claiming"}
  BY <1>1 DEF Claimed, TurnEnds
<1>3. CASE Won(u)
  <2>1. /\ pc[u] = "claiming" /\ r.tries[heldTry[u]].state = "ready" /\ held' = held
        /\ pc'[u] = "starting" /\ ClaimWins(r, heldTry[u])
        /\ store' = [store EXCEPT ![t] = ClaimRow(r, heldTry[u])]
    BY <1>1, <1>3 DEF Won, Claim, Proceed, ClaimWins, SetRow
  <2>2. r.state = "ready"
    BY <1>1, <2>1 DEF QuietClaim
  <2>3. t \in Tasks /\ Sound(r) /\ heldTry[u] \in DOMAIN r.tries /\ RowOK(r, DepsDone(t))
    BY <1>1, <2>1, WorksOnTask
  <2>4. q = ClaimRow(r, heldTry[u])
    BY <1>1, <2>1, <2>3
  <2>5. /\ heldTry[u] = Len(r.tries) /\ Latest(r).state = "ready"
    BY <2>1, <2>3, ReadyIsNewest DEF RowOK
  <2>6. q # r
    <3>1. heldTry[u] \in DOMAIN r.tries /\ [state |-> "running", lease |-> "live"] \in Attempt
      BY <2>3 DEF Attempt, States, Leases
    <3>2. q = PutAttempt(r, heldTry[u], [state |-> "running", lease |-> "live"])
      BY <2>1, <2>4 DEF ClaimRow
    <3>3. q.tries[heldTry[u]] = [state |-> "running", lease |-> "live"]
      BY <2>3, <3>1, <3>2, PutAttemptFacts
    <3> QED
      BY <2>1, <3>3
  <2>7. q.state = "ready" /\ Latest(q) = [state |-> "running", lease |-> "live"]
    BY <2>2, <2>3, <2>4, <2>5, <2>6, ClaimShape DEF RowOK
  <2> QED
    BY <2>1, <2>7 DEF QuietWork
<1>4. ASSUME Working(u), held' = held, pc'[u] # "starting",
             q.state \in {"running", "cancel_requested"}
      PROVE  QuietWork(u)'
  BY <1>4 DEF QuietWork
<1>5. CASE Start(u)
  <2>1. /\ pc[u] = "starting" /\ held' = held /\ pc'[u] = "booting"
        /\ store' = [store EXCEPT ![t] =
             IF r.state = "ready" THEN SetTask(r, "running") ELSE r]
    BY <1>1, <1>5 DEF Start, Proceed, SetRow
  <2>2. Working(u) /\ t \in Tasks
    BY <1>1, <2>1, WorksOnTask DEF Working, Claimed, TurnEnds
  <2>3. q = IF r.state = "ready" THEN SetTask(r, "running") ELSE r
    BY <1>1, <2>1, <2>2
  <2>4. q.state \in {"running", "cancel_requested"}
    BY <1>1, <2>2, <2>3 DEF QuietWork, SetTask
  <2> QED
    BY <1>4, <2>1, <2>2, <2>4
<1>6. CASE Boot(u)
  <2>1. Proceed(u, "launching") /\ pc[u] = "booting" /\ SetRow(u, EnsureRow(r, heldTry[u]))
    BY <1>1, <1>2, <1>6 DEF Boot, Abort, Release, Die
  <2>2. Working(u) /\ t \in Tasks /\ held' = held /\ pc'[u] = "launching"
    BY <1>1, <2>1, WorksOnTask DEF Working, Claimed, TurnEnds, Proceed
  <2>3. q = EnsureRow(r, heldTry[u])
    BY <1>1, <2>1, <2>2 DEF SetRow
  <2>4. q.state \in {"running", "cancel_requested"}
    BY <1>1, <2>1, <2>2, <2>3 DEF QuietWork, EnsureRow, SetTask
  <2> QED
    BY <1>4, <2>2, <2>4
<1>7. CASE Launch(u) \/ \E end \in TurnEnds : TurnEnd(u, end)
  <2>1. /\ pc[u] \in {"launching", "turn"} /\ held' = held /\ store' = store
        /\ pc'[u] # "starting"
    BY <1>1, <1>7 DEF Launch, TurnEnd, Proceed, durable, TurnEnds
  <2>2. Working(u)
    BY <2>1 DEF Working, Claimed
  <2>3. q.state \in {"running", "cancel_requested"}
    BY <1>1, <2>1, <2>2 DEF QuietWork
  <2> QED
    BY <1>4, <2>1, <2>2, <2>3
<1>8. ~Select(u)
  BY <1>1, <1>2 DEF Select
<1> QED
  BY <1>1, <1>2, <1>3, <1>5, <1>6, <1>7, <1>8 DEF Moved

\* A loop about to claim.
LEMMA ClaimStaysQuiet ==
  ASSUME SchedulerAssumption, IInv, [Next]_vars, QuietInv,
         NEW u \in Runners, pc'[u] = "claiming",
         store'[held'[u]].tries[heldTry'[u]].state = "ready"
  PROVE  store'[held'[u]].state = "ready"
<1> DEFINE t == held'[u]
           r == store[t]
           q == store'[t]
           d == DepsDone(t)
<1>1. /\ Kernel /\ IInv' /\ RowsKept /\ Moved(u) /\ QuietClaim(u)
      /\ pc \in [Runners -> PCs] /\ held \in [Runners -> created \cup {NoTask}]
      /\ created \subseteq Tasks
  BY NextKeeps, NextFramed, Parts DEF Framed, IInv, Kernel, QuietInv, LoopsOK, RestOK
<1>2. CASE Kept(u)
  <2>1. /\ t = held[u] /\ heldTry'[u] = heldTry[u] /\ pc[u] = "claiming"
    BY <1>2 DEF Kept
  <2>2. /\ t \in created /\ t \in Tasks /\ heldTry[u] \in DOMAIN r.tries
        /\ Sound(r) /\ RowOK(r, d) /\ d \in BOOLEAN /\ Written(t)
    BY <1>1, <2>1, WorksOnTask, NextFramed DEF DepsDone, Framed
  <2>3. Sound(q) /\ RowOK(q, d) /\ Len(r.tries) <= Len(q.tries)
    BY <1>1, <2>2 DEF RowsKept, Rewrites
  <2>4. /\ Len(r.tries) \in Nat /\ Len(q.tries) \in Nat
        /\ DOMAIN r.tries = 1..Len(r.tries) /\ DOMAIN q.tries = 1..Len(q.tries)
        /\ Latest(r) = r.tries[Len(r.tries)]
    BY <2>2, <2>3, LatestType
  <2>5. Len(q.tries) = Len(r.tries) /\ heldTry[u] = Len(r.tries) /\ Latest(q).state = "ready"
    <3>1. heldTry[u] = Len(q.tries) /\ Latest(q) = q.tries[heldTry[u]]
      BY <2>1, <2>2, <2>3, <2>4, ReadyIsNewest DEF RowOK
    <3> QED
      BY <2>1, <2>2, <2>3, <2>4, <3>1
  <2>6. Latest(r).state = "ready" => r.state = "ready"
    BY <1>1, <2>1, <2>4, <2>5 DEF QuietClaim
  <2>7. phase # "down" /\ ~Die
    <3>1. Die => pc'[u] = "idle"
      BY DEF Die
    <3> QED
      BY <1>1, <2>1, <3>1, BusyIsUp
  <2>8. CASE q \in {r, CancelRow(r)}
    BY <2>2, <2>5, <2>6, <2>8, CancelReady
  <2>9. CASE q = VisitRow(r, d)
    BY <2>2, <2>5, <2>6, <2>9, VisitReady
  <2>10. ASSUME NEW i \in DOMAIN r.tries, q = ClaimRow(r, i) PROVE q.state = "ready"
    <3>1. q = r
      BY <2>2, <2>5, <2>10, ClaimShape DEF RowOK
    <3> QED
      BY <2>5, <2>6, <3>1
  <2>11. ASSUME NEW i \in DOMAIN r.tries, LeaseRunsOut(t, i) PROVE q.state = "ready"
    <3>1. q = PutAttempt(r, i, [state |-> r.tries[i].state, lease |-> "due"])
      BY <1>1, <2>2, <2>11, Parts DEF LeaseRunsOut, StoreOK
    <3>2. Sound(r) /\ i \in DOMAIN r.tries
      BY <2>2, <2>11
    <3> HIDE DEF r, q
    <3>3. q.state = r.state /\ Latest(q).state = Latest(r).state
      BY <3>1, <3>2, RunOutShape
    <3> QED
      BY <2>5, <2>6, <3>3, Zenon
  <2>12. ASSUME NEW s \in Runners, held[s] = t, OwnWrite(s) PROVE FALSE
    <3>1. Working(s) /\ pc[s] \notin {"idle", "selecting"} /\ store \in [Tasks -> Row]
      BY <1>1, <2>12, OwnIsWorking, Parts DEF StoreOK
    <3>2. WorkedOn(r, d) /\ heldTry[s] = Len(r.tries)
      BY <1>1, <2>12, <3>1, WorksOnTask
    <3>3. \E end \in TurnEnds :
            q \in {r, SetTask(r, "running"), EnsureRow(r, heldTry[s]),
                   InterruptHalf(EnsureRow(r, heldTry[s]), heldTry[s]),
                   InterruptRow(EnsureRow(r, heldTry[s]), heldTry[s]),
                   RecordHalf(r, heldTry[s], end), RecordRow(r, heldTry[s], end)}
      BY <2>2, <2>12, <3>1 DEF OwnWrite, Start, Boot, BootInterrupted, BootTorn,
         Record, RecordTorn, SetRow, TurnEnds
    <3> QED
      BY <2>2, <2>5, <3>2, <3>3, OwnNeverReady DEF TurnEnds
  <2>13. ASSUME NEW source \in {"failed", "interrupted"}, NEW carry \in BOOLEAN, NEW n \in 1..4,
                r.state \in {source, "retryable"}, q = FreshStage(r, source, carry, n)
         PROVE  FALSE
    <3>1. q.state \in {"retryable", "queued"}
      BY <2>2, <2>13, FreshShape
    <3> QED
      BY <2>3, <2>5, <3>1 DEF RowOK, Fits
  <2> QED
    BY <2>2, <2>7, <2>8, <2>9, <2>10, <2>11, <2>12, <2>13 DEF Written
<1>3. CASE Select(u)
  <2>1. PICK first \in Candidates \cap Visited : t = first
    BY <1>1, <1>3 DEF Select
  <2>2. t \in Tasks /\ q = VisitRow(r, d) /\ ~Skipped(r) /\ Latest(VisitRow(r, d)).state = "ready"
    BY <1>1, <1>3, <2>1 DEF Select, Candidates, Runnable
  <2>3. Sound(r) /\ RowOK(r, d) /\ d \in BOOLEAN
    BY <1>1, <2>2, Parts, SoundRows
  <2> QED
    BY <2>2, <2>3, VisitReady
<1>4. CASE ~Kept(u) /\ ~Select(u)
  <2>1. pc'[u] # "claiming"
    <3>1. Won(u) => pc'[u] = "starting"
      BY <1>1 DEF Won, Claim, Proceed
    <3>2. Start(u) \/ Launch(u) => pc'[u] # "claiming"
      BY <1>1 DEF Start, Launch, Proceed
    <3>3. Boot(u) => pc'[u] # "claiming"
      BY <1>1 DEF Boot, Abort, Proceed, Release, Die
    <3>4. \A end \in TurnEnds : TurnEnd(u, end) => pc'[u] # "claiming"
      BY <1>1 DEF TurnEnd, TurnEnds
    <3> QED
      BY <1>1, <1>4, <3>1, <3>2, <3>3, <3>4 DEF Moved
  <2> QED
    BY <2>1
<1> QED
  BY <1>2, <1>3, <1>4

\* The strengthening is an invariant.
LEMMA QuietHolds ==
  ASSUME ~Stalls
  PROVE  Spec => []QuietInv
<1>1. Init => QuietInv
  BY DEF Init, QuietInv, QuietWork, QuietClaim, Working, Claimed, TurnEnds
<1>2. ASSUME IInv, [Next]_vars, QuietInv PROVE QuietInv'
  <2>1. ASSUME NEW u \in Runners PROVE QuietWork(u)'
    <3>1. CASE ~Working(u)'
      BY <3>1 DEF QuietWork
    <3>2. CASE Working(u)' /\ Kept(u)
      <4>1. Working(u)
        BY <3>2 DEF Kept, Working
      <4> QED
        BY <1>2, <3>2, <4>1, SchedulerAssumption, OthersStayQuiet
    <3>3. CASE Working(u)' /\ ~Kept(u)
      BY <1>2, <3>3, SchedulerAssumption, OwnStaysQuiet
    <3> QED
      BY <3>1, <3>2, <3>3
  <2>2. ASSUME NEW u \in Runners PROVE QuietClaim(u)'
    BY <1>2, SchedulerAssumption, ClaimStaysQuiet DEF QuietClaim
  <2> QED
    BY <2>1, <2>2 DEF QuietInv
<1> QED
  BY <1>1, <1>2, InvariantHolds, PTL DEF Spec

\* A cancelled task has no loop on it, as long as no loop stalls between its
\* claim and the start of the child turn.
THEOREM CancelledStaysQuiet ==
  ASSUME ~Stalls
  PROVE  Spec => []CancelledIsQuiet
<1>1. QuietInv => CancelledIsQuiet
  BY DEF QuietInv, QuietWork, CancelledIsQuiet
<1> QED
  BY <1>1, QuietHolds, PTL

-----------------------------------------------------------------------------
(* The scheduler implements the board.                                     *)

OpenStates == {"queued", "ready", "running", "blocked", "interrupted", "retryable"}

\* What the board shows of a task in a state.
Shown(state) ==
  CASE state = "completed" -> "done"
    [] state = "cancel_requested" -> "closing"
    [] state \in {"failed", "cancelled"} -> state
    [] OTHER -> "open"

LEMMA ShownIs ==
  ASSUME NEW state \in States
  PROVE  /\ Shown(state) \in Board!Statuses
         /\ Shown(state) = "open" <=> state \in OpenStates
         /\ state = "cancel_requested" => Shown(state) = "closing"
         /\ state \in {"failed", "cancelled"} => Shown(state) = state
         /\ state = "completed" => Shown(state) = "done"
BY DEF Shown, States, OpenStates, Board!Statuses

LEMMA StatusIs ==
  ASSUME NEW t \in Tasks
  PROVE  /\ t \in created => BoardStatus[t] = Shown(store[t].state)
         /\ t \notin created => BoardStatus[t] = "absent"
         /\ t \in created' => BoardStatus'[t] = Shown(store'[t].state)
         /\ t \notin created' => BoardStatus'[t] = "absent"
BY DEF BoardStatus, Shown

\* A loop in a turn is the one the board shows.
RunShown ==
  /\ \A t \in Tasks, s \in Runners : InTurn(s) /\ held[s] = t => BoardRun[t] = pc[s]
  /\ \A t \in Tasks :
       (\A s \in Runners : ~(InTurn(s) /\ held[s] = t)) => BoardRun[t] = "idle"

LEMMA RunIs == OneRunnerPerTask => RunShown
<1> SUFFICES ASSUME OneRunnerPerTask PROVE RunShown
  OBVIOUS
<1>1. ASSUME NEW t \in Tasks, NEW s \in Runners, InTurn(s), held[s] = t
      PROVE  BoardRun[t] = pc[s]
  <2> DEFINE one == CHOOSE x \in Runners : InTurn(x) /\ held[x] = t
  <2>1. one \in Runners /\ InTurn(one) /\ held[one] = t
    BY <1>1
  <2>2. one = s
    BY <1>1, <2>1 DEF OneRunnerPerTask, Working, InTurn, Claimed
  <2> QED
    BY <1>1, <2>2 DEF BoardRun
<1>2. ASSUME NEW t \in Tasks, \A s \in Runners : ~(InTurn(s) /\ held[s] = t)
      PROVE  BoardRun[t] = "idle"
  BY <1>2 DEF BoardRun
<1> QED
  BY <1>1, <1>2 DEF RunShown

\* The same of the next state.
LEMMA RunIsNext ==
  ASSUME OneRunnerPerTask'
  PROVE  RunShown'
BY RunIs, PTL

\* The board does not see a step that starts, ends and records no turn.
LEMMA SameRun ==
  ASSUME OneRunnerPerTask, OneRunnerPerTask',
         \A s \in Runners : Kept(s) \/ ~(InTurn(s) \/ InTurn(s)')
  PROVE  BoardRun' = BoardRun
<1>1. ASSUME NEW t \in Tasks PROVE BoardRun'[t] = BoardRun[t]
  <2>1. CASE \E s \in Runners : InTurn(s) /\ held[s] = t
    <3>1. PICK s \in Runners : InTurn(s) /\ held[s] = t
      BY <2>1
    <3>2. InTurn(s)' /\ held'[s] = t /\ pc'[s] = pc[s]
      BY <3>1 DEF Kept, InTurn
    <3> QED
      BY <3>1, <3>2, RunIs, RunIsNext DEF RunShown
  <2>2. CASE \A s \in Runners : ~(InTurn(s) /\ held[s] = t)
    <3>1. \A s \in Runners : ~(InTurn(s)' /\ held'[s] = t)
      BY <2>2 DEF Kept, InTurn
    <3> QED
      BY <2>2, <3>1, RunIs, RunIsNext DEF RunShown
  <2> QED
    BY <2>1, <2>2
<1> QED
  BY <1>1 DEF BoardRun

\* The board sees the loop that starts, ends or records a turn.
LEMMA OneRun ==
  ASSUME OneRunnerPerTask, OneRunnerPerTask', NEW u \in Runners, held[u] \in Tasks,
         Working(u), \A s \in Runners \ {u} : Kept(s),
         InTurn(u)' => held'[u] = held[u]
  PROVE  /\ InTurn(u)' => BoardRun' = [BoardRun EXCEPT ![held[u]] = pc'[u]]
         /\ ~InTurn(u)' => BoardRun' = [BoardRun EXCEPT ![held[u]] = "idle"]
<1>1. ASSUME NEW t \in Tasks, t # held[u] PROVE BoardRun'[t] = BoardRun[t]
  <2>1. CASE \E s \in Runners : InTurn(s) /\ held[s] = t
    <3>1. PICK s \in Runners : InTurn(s) /\ held[s] = t
      BY <2>1
    <3>2. InTurn(s)' /\ held'[s] = t /\ pc'[s] = pc[s]
      BY <1>1, <3>1 DEF Kept, InTurn
    <3> QED
      BY <3>1, <3>2, RunIs, RunIsNext DEF RunShown
  <2>2. CASE \A s \in Runners : ~(InTurn(s) /\ held[s] = t)
    <3>1. \A s \in Runners : ~(InTurn(s)' /\ held'[s] = t)
      BY <1>1, <2>2 DEF Kept, InTurn
    <3> QED
      BY <2>2, <3>1, RunIs, RunIsNext DEF RunShown
  <2> QED
    BY <2>1, <2>2
<1>2. /\ BoardRun = [t \in Tasks |-> BoardRun[t]]
      /\ BoardRun' = [t \in Tasks |-> BoardRun'[t]]
  BY DEF BoardRun
<1>3. CASE InTurn(u)'
  <2>1. BoardRun'[held[u]] = pc'[u]
    BY <1>3, RunIsNext DEF RunShown
  <2>2. BoardRun' = [BoardRun EXCEPT ![held[u]] = pc'[u]]
    BY <1>2, <1>1, <2>1
  <2> QED
    BY <1>3, <2>2
<1>4. CASE ~InTurn(u)'
  <2>1. \A s \in Runners : ~(InTurn(s)' /\ held'[s] = held[u])
    BY <1>4 DEF Kept, InTurn, OneRunnerPerTask, Working, Claimed
  <2>2. BoardRun'[held[u]] = "idle"
    BY <2>1, RunIsNext DEF RunShown
  <2>3. BoardRun' = [BoardRun EXCEPT ![held[u]] = "idle"]
    BY <1>2, <1>1, <2>2
  <2> QED
    BY <1>4, <2>3
<1> QED
  BY <1>3, <1>4

\* A cancellation, whole or cut short, as the board shows it.
LEMMA CancelShown ==
  ASSUME NEW r, Sound(r), NEW q \in {CancelRow(r), CancelHalf(r)}
  PROVE  \/ q.state = r.state
         \/ r.state \in OpenStates /\ q.state = "cancel_requested"
         \/ r.state \in OpenStates \ {"running"} /\ q.state = "cancelled"
<1>1. r.state \in States
  BY DEF Sound, Row
<1>2. CASE q = r
  BY <1>2
<1>3. CASE ~CancelIgnored(r) /\ CancelTaskAllowed(r) /\ q.state = CancelTarget(r)
  <2>1. ~Terminal(r.state)
    BY <1>3 DEF CancelIgnored
  <2>2. q.state = r.state \/ CanMove(r.state, q.state)
    BY <1>3 DEF CancelTaskAllowed
  <2>3. q.state = "cancelled" \/ q.state = "cancel_requested"
    BY <1>3 DEF CancelTarget
  <2>4. q.state = "cancelled" => r.state \notin {"running", "cancel_requested"}
    BY <1>3 DEF CancelTarget
  <2> QED
    BY <1>1, <2>1, <2>2, <2>3, <2>4 DEF OpenStates, States, Terminal
<1> QED
  BY <1>2, <1>3, CancelShape

\* The writes of a loop before its turn ended, or after a refused record.
LEMMA OwnShown ==
  ASSUME NEW r, Sound(r), r.state \in {"ready", "running", "cancel_requested"},
         NEW i \in DOMAIN r.tries, NEW end \in TurnEnds,
         NEW q \in {IF r.state = "ready" THEN SetTask(r, "running") ELSE r,
                    EnsureRow(r, i), InterruptHalf(EnsureRow(r, i), i),
                    RecordHalf(r, i, end)}
  PROVE  q.state = r.state \/ (r.state \in OpenStates /\ q.state \in OpenStates)
<1>1. EnsureRow(r, i).state \in {r.state, "running"}
      /\ (EnsureRow(r, i).state # r.state => CanMove(r.state, "running"))
  BY DEF EnsureRow, EnsureRefused, SetTask
<1>2. r.state = "cancel_requested" => ~CanMove(r.state, "running")
  BY DEF CanMove
<1>3. InterruptHalf(EnsureRow(r, i), i).state = EnsureRow(r, i).state
  BY DEF InterruptHalf, SetAttempt, PutAttempt
<1>4. RecordHalf(r, i, end).state = r.state
  BY DEF RecordHalf, SetAttempt, PutAttempt
<1>5. SetTask(r, "running").state = "running"
  BY DEF SetTask
<1> QED
  BY <1>1, <1>2, <1>3, <1>4, <1>5 DEF OpenStates

LEMMA InterruptShown ==
  ASSUME NEW r, Sound(r), r.state \in {"ready", "running", "cancel_requested"},
         NEW i \in DOMAIN r.tries
  PROVE  InterruptRow(EnsureRow(r, i), i).state \in OpenStates \cup {r.state}
<1>1. EnsureRow(r, i).state \in {r.state, "running"}
  BY DEF EnsureRow, SetTask
<1>2. InterruptHalf(EnsureRow(r, i), i).state = EnsureRow(r, i).state
  BY DEF InterruptHalf, SetAttempt, PutAttempt
<1> QED
  BY <1>1, <1>2 DEF InterruptRow, SetTask, OpenStates

\* A turn that is recorded finds its task running or asked to stop.
LEMMA RecordShown ==
  ASSUME NEW r, Sound(r), r.state \in {"running", "cancel_requested"},
         NEW i \in DOMAIN r.tries, NEW end \in TurnEnds, ~RecordFails(r, i, end)
  PROVE  /\ RecordRow(r, i, end).state = end
         /\ r.state = "cancel_requested" => end = "interrupted"
<1>1. RecordTaskAllowed(r, end)
  BY DEF RecordFails
<1> QED
  BY <1>1 DEF RecordRow, RecordTaskAllowed, SetTask, CanMove, TurnEnds
\* What a step may make of a task that exists: what the board allows, unless
\* a loop records its turn on it.
LEMMA RowShown ==
  ASSUME SchedulerAssumption, ~Stalls, IInv, QuietInv, [Next]_vars, NEW t \in created,
         \A s \in Runners : Record(s) /\ held[s] = t =>
           RecordFails(store[t], heldTry[s], pc[s])
  PROVE  \/ store'[t].state = store[t].state
         \/ store[t].state \in OpenStates /\ store'[t].state \in OpenStates
         \/ store[t].state \in OpenStates /\ store'[t].state = "cancel_requested"
         \/ /\ store[t].state \in OpenStates /\ store'[t].state = "cancelled"
            /\ \A s \in Runners : ~(InTurn(s) /\ held[s] = t)
         \/ /\ store[t].state = "cancel_requested" /\ store'[t].state \in OpenStates
            /\ \A s \in Runners : ~(InTurn(s) /\ held[s] = t)
         \/ store[t].state = "failed" /\ store'[t].state \in OpenStates
<1> DEFINE r == store[t]
           q == store'[t]
           d == DepsDone(t)
           Alone == \A s \in Runners : ~(InTurn(s) /\ held[s] = t)
           Fine(x) == \/ x.state = r.state
                      \/ r.state \in OpenStates /\ x.state \in OpenStates
                      \/ r.state \in OpenStates /\ x.state = "cancel_requested"
                      \/ r.state \in OpenStates /\ x.state = "cancelled" /\ Alone
                      \/ r.state = "cancel_requested" /\ x.state \in OpenStates /\ Alone
                      \/ r.state = "failed" /\ x.state \in OpenStates
<1>1. Kernel /\ t \in Tasks /\ Sound(r) /\ RowOK(r, d) /\ d \in BOOLEAN /\ Written(t)
      /\ r.state \in States
  <2>1. Kernel
    BY DEF IInv, Kernel
  <2>2. t \in Tasks
    BY <2>1, Parts DEF RestOK
  <2> QED
    BY <2>1, <2>2, Parts, SoundRows, NextFramed DEF Framed, Sound, Row
<1>2. ASSUME NEW s \in Runners, Working(s), held[s] = t
      PROVE  /\ r.state \in {"ready", "running", "cancel_requested"}
             /\ r.state = "ready" => ~InTurn(s)
             /\ heldTry[s] \in DOMAIN r.tries
             /\ \A u \in Runners : InTurn(u) /\ held[u] = t => u = s
  <2>1. QuietWork(s) /\ pc[s] \notin {"idle", "selecting"}
    BY <1>2 DEF QuietInv, Working, Claimed, TurnEnds
  <2>2. heldTry[s] \in DOMAIN r.tries
    BY <1>1, <1>2, <2>1, WorksOnTask
  <2>3. r.state = "ready" => ~InTurn(s)
    BY <1>2, <2>1 DEF QuietWork, InTurn, TurnEnds
  <2>4. ASSUME NEW u \in Runners, InTurn(u), held[u] = t PROVE u = s
    BY <1>1, <1>2, <2>4 DEF Kernel, OneRunnerPerTask, InTurn, Working, Claimed
  <2> QED
    BY <1>2, <2>1, <2>2, <2>3, <2>4 DEF QuietWork
<1>3. r.state \in OpenStates \ {"running"} => Alone
  BY <1>2 DEF InTurn, Working, Claimed, OpenStates
<1>4. ASSUME NEW x \in {r, CancelRow(r), CancelHalf(r)} PROVE Fine(x)
  BY <1>1, <1>3, <1>4, CancelShown
<1>5. ASSUME NEW x \in {VisitHalf(r, d), VisitRow(r, d)} PROVE Fine(x)
  BY <1>1, <1>5, VisitShape DEF OpenStates
<1>6. ASSUME NEW i \in DOMAIN r.tries, q = ClaimRow(r, i) \/ LeaseRunsOut(t, i) PROVE Fine(q)
  <2>1. LeaseRunsOut(t, i) =>
          q = PutAttempt(r, i, [state |-> r.tries[i].state, lease |-> "due"])
    BY <1>1, Parts DEF LeaseRunsOut, StoreOK
  <2> QED
    BY <1>1, <1>6, <2>1, ClaimShape, RunOutShape DEF RowOK
<1>7. ASSUME NEW s \in Runners, held[s] = t, OwnWrite(s) PROVE Fine(q)
  <2> DEFINE i == heldTry[s]
  <2>1. Working(s) /\ store \in [Tasks -> Row]
    BY <1>1, <1>7, OwnIsWorking, Parts DEF StoreOK
  <2>2. r.state \in {"ready", "running", "cancel_requested"} /\ i \in DOMAIN r.tries
    BY <1>2, <1>7, <2>1
  <2>3. CASE BootInterrupted(s)
    <3>1. pc[s] = "booting" /\ q = InterruptRow(EnsureRow(r, i), i)
      BY <1>1, <1>7, <2>1, <2>3 DEF BootInterrupted, SetRow
    <3>2. Alone
      BY <1>2, <1>7, <2>1, <3>1 DEF InTurn, TurnEnds
    <3>3. q.state \in OpenStates \cup {r.state}
      BY <1>1, <2>2, <3>1, InterruptShown
    <3> QED
      BY <2>2, <3>2, <3>3 DEF OpenStates
  <2>4. CASE ~BootInterrupted(s)
    <3>1. \E end \in TurnEnds :
            q \in {IF r.state = "ready" THEN SetTask(r, "running") ELSE r,
                   EnsureRow(r, i), InterruptHalf(EnsureRow(r, i), i),
                   RecordHalf(r, i, end)}
      <4>1. CASE Record(s)
        BY <1>1, <1>7, <2>1, <4>1 DEF Record, SetRow, RecordRow
      <4> QED
        BY <1>1, <1>7, <2>1, <2>4, <4>1 DEF OwnWrite, Start, Boot, BootTorn, RecordTorn,
           SetRow, TurnEnds
    <3>2. q.state = r.state \/ (r.state \in OpenStates /\ q.state \in OpenStates)
      BY <1>1, <2>2, <3>1, OwnShown
    <3> QED
      BY <3>2
  <2> QED
    BY <2>3, <2>4
<1>8. ASSUME NEW source \in {"failed", "interrupted"}, NEW carry \in BOOLEAN, NEW n \in 1..4,
             r.state \in {source, "retryable"}, q = FreshStage(r, source, carry, n)
      PROVE  Fine(q)
  <2>1. q.state \in {"retryable", "queued"}
    BY <1>1, <1>8, FreshShape
  <2> QED
    BY <1>8, <2>1 DEF OpenStates
<1>9. ASSUME NEW row \in {r, CancelRow(r), CancelHalf(r)},
             q \in {row, RecoverRow(row)} \cup RecoverStages(row)
      PROVE  Fine(q)
  <2>1. Fine(row)
    BY <1>4
  <2>2. Sound(row) /\ RowOK(row, d)
    BY <1>1, CancelKeeps DEF Rewrites
  <2>3. q.state = row.state \/ (row.state \in OpenStates /\ q.state \in OpenStates)
    BY <1>1, <1>9, <2>2, RecoverShape DEF OpenStates
  <2> QED
    BY <2>1, <2>3 DEF OpenStates
<1> HIDE DEF Fine
<1>10. Fine(q)
  BY <1>1, <1>4, <1>5, <1>6, <1>7, <1>8, <1>9 DEF Written
<1> QED
  BY <1>10 DEF Fine

\* So the board finds it moved as it allows.
LEMMA TaskMoves ==
  ASSUME SchedulerAssumption, ~Stalls, IInv, QuietInv, [Next]_vars, created' = created,
         \A s \in Runners : Record(s) => RecordFails(store[held[s]], heldTry[s], pc[s])
  PROVE  /\ BoardStatus' \in [Tasks -> Board!Statuses]
         /\ \A t \in Tasks : Board!Moved(t)
<1>1. /\ OneRunnerPerTask /\ store \in [Tasks -> Row] /\ store' \in [Tasks -> Row]
      /\ created \subseteq Tasks
  <2>1. IInv' /\ IInv
    BY NextKeeps
  <2>2. IInv => store \in [Tasks -> Row]
    BY DEF IInv, TypeOK
  <2>3. store' \in [Tasks -> Row]
    BY <2>1 DEF IInv, TypeOK
  <2> QED
    BY <2>1, <2>2, <2>3 DEF IInv, TypeOK
<1>2. \A t \in Tasks : store[t].state \in States /\ store'[t].state \in States
  BY <1>1 DEF Row
<1>3. ASSUME NEW t \in Tasks PROVE BoardStatus'[t] \in Board!Statuses /\ Board!Moved(t)
  <2>1. CASE t \notin created
    BY <2>1, StatusIs DEF Board!Moved, Board!Statuses
  <2>2. CASE t \in created
    <3> DEFINE a == store[t].state
               b == store'[t].state
    <3>1. BoardStatus[t] = Shown(a) /\ BoardStatus'[t] = Shown(b)
      BY <2>2, StatusIs
    <3>2. (\A s \in Runners : ~(InTurn(s) /\ held[s] = t)) => BoardRun[t] = "idle"
      BY <1>1, RunIs DEF RunShown
    <3>3. /\ Shown(a) = "open" <=> a \in OpenStates
          /\ Shown(b) = "open" <=> b \in OpenStates
          /\ a = "cancel_requested" => Shown(a) = "closing"
          /\ b = "cancel_requested" => Shown(b) = "closing"
          /\ a = "failed" => Shown(a) = "failed"
          /\ b = "cancelled" => Shown(b) = "cancelled"
          /\ Shown(b) \in Board!Statuses
      BY <1>2, ShownIs
    <3>4. \/ b = a
          \/ a \in OpenStates /\ b \in OpenStates
          \/ a \in OpenStates /\ b = "cancel_requested"
          \/ a \in OpenStates /\ b = "cancelled" /\ BoardRun[t] = "idle"
          \/ a = "cancel_requested" /\ b \in OpenStates /\ BoardRun[t] = "idle"
          \/ a = "failed" /\ b \in OpenStates
      BY <2>2, <3>2, RowShown
    <3> QED
      BY <3>1, <3>3, <3>4 DEF Board!Moved
  <2> QED
    BY <2>1, <2>2
<1> QED
  BY <1>3 DEF BoardStatus
\* Only a delegation creates a task.
LEMMA CreatedStays ==
  ASSUME [Next]_vars, ~Spawn
  PROVE  created' = created
<1>1. ASSUME NEW s \in Runners, LoopStep(s) PROVE created' = created
  <2>1. Abort(s) => created' = created
    BY DEF Abort, Die
  <2> QED
    BY <1>1, <2>1 DEF LoopStep, Select, SelectNone, Claim, Start, Boot, BootInterrupted,
       Launch, LaunchRefused, TurnEnd, Record, Proceed, NextCandidate, durable
<1>2. ASSUME NEW s \in Runners, NEW delegated \in BOOLEAN, Kick(s, delegated)
      PROVE  created' = created
  BY <1>2 DEF Kick, durable
<1>3. CASE Control
  BY <1>3 DEF Control, AskCancel, CancelGraph, StartOver, Reprioritize, durable
<1>4. CASE Startup
  BY <1>4 DEF Startup, Restart, RestartRefused
<1>5. CASE Torn
  BY <1>5 DEF Torn, Crash, RestartTorn, SelectTorn, BootTorn, RecordTorn, CancelTorn,
     StartOverTorn, Die
<1>6. ASSUME NEW t \in created, NEW i \in DOMAIN store[t].tries, LeaseRunsOut(t, i)
      PROVE  created' = created
  BY <1>6 DEF LeaseRunsOut
<1> QED
  BY <1>1, <1>2, <1>3, <1>4, <1>5, <1>6 DEF Next, vars, durable

\* The board's steps, one for each kind of step of the scheduler: a death ...
LEMMA DeathOnBoard ==
  ASSUME SchedulerAssumption, ~Stalls, IInv, QuietInv, [Next]_vars, Die
  PROVE  Board!Next
<1>1. created' = created /\ OneRunnerPerTask'
  BY NextKeeps DEF Die, IInv
<1>2. IInv => pc \in [Runners -> PCs]
  BY DEF IInv, TypeOK
<1>3. ASSUME NEW s \in Runners, Record(s) PROVE RecordFails(store[held[s]], heldTry[s], pc[s])
  BY <1>2, <1>3 DEF Record, NextCandidate, Release, Die
<1>4. \A t \in Tasks : BoardRun'[t] = "idle"
  BY <1>1, RunIsNext DEF RunShown, Die, InTurn, TurnEnds
<1>5. BoardRun' = [t \in Tasks |-> "idle"]
  BY <1>4 DEF BoardRun
<1>6. Board!Crash
  BY <1>1, <1>3, <1>5, TaskMoves DEF Board!Crash
<1> QED
  BY <1>6 DEF Board!Next

\* ... a delegation ...
LEMMA SpawnOnBoard ==
  ASSUME SchedulerAssumption, IInv, NEW t \in Tasks,
         NEW row \in {NewRow, InterruptRow(NewRow, 1)}, Delegate(t, row)
  PROVE  Board!Next
<1>1. /\ store \in [Tasks -> Row] /\ created \subseteq Tasks /\ t \notin created
      /\ created' = created \cup {t} /\ store' = [store EXCEPT ![t] = row]
      /\ UNCHANGED loops
  BY DEF IInv, TypeOK, Delegate
<1>2. row.state \in {"queued", "interrupted"}
  <2>1. InterruptHalf(NewRow, 1).state = "queued"
    BY DEF InterruptHalf, SetAttempt, PutAttempt, NewRow
  <2> QED
    BY <2>1 DEF InterruptRow, SetTask, NewRow
<1>3. BoardStatus[t] = "absent" /\ BoardStatus'[t] = "open"
  <2>1. Shown(row.state) = "open"
    BY <1>2, ShownIs DEF States, OpenStates
  <2> QED
    BY <1>1, <2>1, StatusIs
<1>4. ASSUME NEW u \in Tasks \ {t} PROVE BoardStatus'[u] = BoardStatus[u]
  BY <1>1, StatusIs
<1>5. BoardStatus' = [BoardStatus EXCEPT ![t] = "open"]
  <2>1. /\ BoardStatus = [u \in Tasks |-> BoardStatus[u]]
        /\ BoardStatus' = [u \in Tasks |-> BoardStatus'[u]]
    BY DEF BoardStatus
  <2> QED
    BY <1>3, <1>4, <2>1
<1>6. BoardRun' = BoardRun
  BY <1>1 DEF BoardRun, InTurn, loops
<1>7. Board!Create(t)
  BY <1>3, <1>5, <1>6 DEF Board!Create
<1> QED
  BY <1>7 DEF Board!Next

\* ... the start, the end and the record of a child turn ...
LEMMA TurnOnBoard ==
  ASSUME SchedulerAssumption, ~Stalls, IInv, QuietInv, [Next]_vars, NEW s \in Runners,
         Launch(s) \/ (\E end \in TurnEnds : TurnEnd(s, end))
  PROVE  Board!Next
<1> DEFINE t == held[s]
<1>1. /\ Kernel /\ Untouched /\ OneRunnerPerTask /\ OneRunnerPerTask' /\ QuietWork(s)
      /\ pc \in [Runners -> PCs] /\ pc[s] \in {"launching", "turn"}
      /\ held' = held /\ heldTry' = heldTry /\ store' = store /\ created' = created
  BY NextKeeps, Parts DEF IInv, Kernel, LoopsOK, QuietInv, Launch, TurnEnd, Proceed, durable
<1>2. /\ Working(s) /\ t \in created /\ t \in Tasks
      /\ WorkedOn(store[t], DepsDone(t)) /\ DepsDone(t)
  <2>1. Working(s) /\ pc[s] \notin {"idle", "selecting"}
    BY <1>1 DEF Working, Claimed
  <2> QED
    BY <1>1, <2>1, WorksOnTask DEF WorkedOn
<1>3. BoardStatus' = BoardStatus
  BY <1>1 DEF BoardStatus
<1>4. PICK next \in {"turn"} \cup TurnEnds : pc' = [pc EXCEPT ![s] = next]
  BY DEF Launch, TurnEnd, Proceed
<1>5. InTurn(s)' /\ pc'[s] = next /\ \A u \in Runners \ {s} : Kept(u)
  BY <1>1, <1>4 DEF InTurn, Kept
<1>6. BoardRun' = [BoardRun EXCEPT ![t] = next]
  BY <1>1, <1>2, <1>5, OneRun
<1>7. CASE Launch(s)
  <2>1. pc[s] = "launching" /\ next = "turn"
    BY <1>1, <1>5, <1>7 DEF Launch, Proceed
  <2>2. BoardRun[t] = "idle"
    <3>1. \A u \in Runners : ~(InTurn(u) /\ held[u] = t)
      BY <1>1, <1>2, <2>1 DEF OneRunnerPerTask, InTurn, Working, Claimed, TurnEnds
    <3> QED
      BY <1>1, <1>2, <3>1, RunIs DEF RunShown
  <2>3. BoardStatus[t] \in {"open", "closing"}
    <3>1. store[t].state \in {"running", "cancel_requested"}
      BY <1>1, <1>2, <2>1 DEF QuietWork
    <3> QED
      BY <1>2, <3>1, StatusIs, ShownIs DEF States, OpenStates
  <2>4. ASSUME NEW d \in Deps[t] PROVE BoardStatus[d] = "done"
    <3>1. d \in Tasks /\ store[d].state = "completed"
      BY <1>2 DEF SchedulerAssumption, DepsDone
    <3>2. d \in created
      BY <1>1, <3>1 DEF Untouched, NewRow
    <3> QED
      BY <3>1, <3>2, StatusIs, ShownIs DEF States
  <2>5. Board!Begin(t)
    BY <1>3, <1>6, <2>1, <2>2, <2>3, <2>4 DEF Board!Begin
  <2> QED
    BY <1>2, <2>5 DEF Board!Next
<1>8. ASSUME NEW end \in TurnEnds, TurnEnd(s, end) PROVE Board!Next
  <2>1. pc[s] = "turn" /\ next = end
    BY <1>1, <1>5, <1>8 DEF TurnEnd
  <2>2. BoardRun[t] = "turn"
    BY <1>1, <1>2, <2>1, RunIs DEF RunShown, InTurn
  <2>3. Board!End(t, end)
    BY <1>3, <1>6, <2>1, <2>2 DEF Board!End
  <2>4. t \in Tasks /\ end \in Board!Ends
    BY <1>2, <1>8 DEF Board!Ends, TurnEnds
  <2> QED
    BY <2>3, <2>4, Zenon DEF Board!Next
<1> QED
  BY <1>7, <1>8

LEMMA RecordOnBoard ==
  ASSUME SchedulerAssumption, ~Stalls, IInv, QuietInv, [Next]_vars, ~Die,
         NEW s \in Runners, Record(s)
  PROVE  Board!Next
<1> DEFINE t == held[s]
           r == store[t]
           i == heldTry[s]
           end == pc[s]
<1>1. /\ Kernel /\ OneRunnerPerTask /\ OneRunnerPerTask' /\ QuietWork(s)
      /\ pc \in [Runners -> PCs] /\ held \in [Runners -> created \cup {NoTask}]
      /\ heldTry \in [Runners -> Nat] /\ store \in [Tasks -> Row]
  BY NextKeeps, Parts DEF IInv, Kernel, LoopsOK, StoreOK, QuietInv
<1>2. /\ Working(s) /\ InTurn(s) /\ end \in TurnEnds /\ t \in created /\ t \in Tasks
      /\ Sound(r) /\ i \in DOMAIN r.tries /\ r.state \in {"running", "cancel_requested"}
  <2>1. Working(s) /\ InTurn(s) /\ end \in TurnEnds /\ pc[s] \notin {"idle", "selecting", "starting"}
    BY DEF Record, Working, InTurn, Claimed, TurnEnds
  <2> QED
    BY <1>1, <2>1, WorksOnTask DEF QuietWork
<1>3. PICK next \in {"idle", "selecting"} : Release(s, next)
  BY DEF Record, Abort, NextCandidate
<1>4. created' = created
  BY DEF Record, Abort, NextCandidate
<1>5. ~InTurn(s)' /\ \A u \in Runners \ {s} : Kept(u)
  BY <1>1, <1>3 DEF Release, InTurn, Kept, TurnEnds
<1>6. BoardRun' = [BoardRun EXCEPT ![t] = "idle"] /\ BoardRun[t] = end
  BY <1>1, <1>2, <1>5, OneRun, RunIs DEF RunShown
<1>7. store' = [store EXCEPT ![t] = RecordRow(r, i, end)]
  BY DEF Record, SetRow
<1>8. ASSUME NEW u \in Tasks, u # t PROVE BoardStatus'[u] = BoardStatus[u]
  <2>1. store'[u] = store[u]
    BY <1>1, <1>2, <1>7, <1>8
  <2> QED
    BY <1>4, <1>8, <2>1, StatusIs
<1>9. /\ BoardStatus = [u \in Tasks |-> BoardStatus[u]]
      /\ BoardStatus' = [u \in Tasks |-> BoardStatus'[u]]
  BY DEF BoardStatus
<1>10. /\ BoardStatus[t] = Shown(r.state)
       /\ BoardStatus'[t] = Shown(RecordRow(r, i, end).state)
  BY <1>1, <1>2, <1>4, <1>7, StatusIs
<1>11. CASE RecordFails(r, i, end)
  <2>1. RecordRow(r, i, end).state = r.state
    BY <1>11 DEF RecordRow, RecordHalf, SetAttempt, PutAttempt
  <2>2. BoardStatus' = BoardStatus
    BY <1>8, <1>9, <1>10, <2>1
  <2>3. Board!Report(t)
    BY <1>2, <1>6, <2>2 DEF Board!Report, Board!Ends, TurnEnds
  <2> QED
    BY <1>2, <2>3 DEF Board!Next
<1>12. CASE ~RecordFails(r, i, end)
  <2>1. /\ RecordRow(r, i, end).state = end
        /\ r.state = "cancel_requested" => end = "interrupted"
    BY <1>2, <1>12, RecordShown
  <2>2. BoardStatus'[t] = Shown(end)
    BY <1>10, <2>1
  <2>3. /\ end \in {"completed", "failed", "interrupted"}
        /\ Shown("completed") = "done" /\ Shown("failed") = "failed"
        /\ Shown("interrupted") = "open" /\ Shown("running") = "open"
        /\ Shown("cancel_requested") = "closing"
    BY <1>2, ShownIs DEF States, OpenStates, TurnEnds
  <2>4. BoardStatus' = [BoardStatus EXCEPT ![t] = Shown(end)]
    BY <1>8, <1>9, <2>2
  <2>5. CASE r.state = "running" /\ end = "interrupted"
    <3>1. BoardStatus' = BoardStatus
      BY <1>8, <1>9, <1>10, <2>2, <2>3, <2>5
    <3>2. Board!Report(t)
      BY <1>2, <1>6, <3>1 DEF Board!Report, Board!Ends, TurnEnds
    <3> QED
      BY <1>2, <3>2 DEF Board!Next
  <2>6. CASE r.state = "running" /\ end # "interrupted"
    <3>1. Board!Report(t)
      BY <1>2, <1>6, <1>10, <2>3, <2>4, <2>6 DEF Board!Report, Board!Ends
    <3> QED
      BY <1>2, <3>1 DEF Board!Next
  <2>7. CASE r.state = "cancel_requested"
    <3>1. Board!Report(t)
      BY <1>2, <1>6, <1>10, <2>1, <2>3, <2>4, <2>7 DEF Board!Report, Board!Ends
    <3> QED
      BY <1>2, <3>1 DEF Board!Next
  <2> QED
    BY <1>2, <2>5, <2>6, <2>7
<1> QED
  BY <1>11, <1>12

\* ... and everything else, which the board takes for a move.
LEMMA MoveOnBoard ==
  ASSUME SchedulerAssumption, ~Stalls, IInv, QuietInv, [Next]_vars, ~Die, ~Spawn,
         \A s \in Runners :
           /\ ~Launch(s) /\ ~Record(s)
           /\ \A end \in TurnEnds : ~TurnEnd(s, end)
  PROVE  Board!Next
<1>1. OneRunnerPerTask /\ OneRunnerPerTask' /\ created' = created
  BY NextKeeps, CreatedStays DEF IInv
<1>2. ASSUME NEW s \in Runners PROVE Kept(s) \/ ~(InTurn(s) \/ InTurn(s)')
  <2>1. Moved(s) /\ pc \in [Runners -> PCs]
    BY NextFramed DEF Framed, IInv, TypeOK
  <2>2. CASE pc'[s] \in {"idle", "selecting"} /\ ~InTurn(s)
    BY <2>2 DEF InTurn, TurnEnds
  <2>3. CASE Select(s) \/ Won(s) \/ Start(s)
    BY <2>1, <2>3 DEF Select, Won, Claim, Start, Proceed, InTurn, TurnEnds
  <2>4. CASE Boot(s)
    BY <2>1, <2>4 DEF Boot, Abort, Release, Proceed, InTurn, TurnEnds
  <2> QED
    BY <2>1, <2>2, <2>3, <2>4 DEF Moved
<1>3. BoardRun' = BoardRun
  BY <1>1, <1>2, SameRun
<1>4. Board!Move
  BY <1>1, <1>3, TaskMoves DEF Board!Move
<1> QED
  BY <1>4 DEF Board!Next

\* Every behaviour of the scheduler is one of the board, as long as no loop
\* stalls for as long as a lease lasts: a task is worked on by one child turn
\* at a time, after what it depends on is done, is done only when such a turn
\* completed, and is never cancelled under one.
THEOREM SchedulerIsBoard ==
  ASSUME ~Stalls
  PROVE  Spec => BoardSpec
<1>1. Init => Board!Init
  <2>1. SUFFICES ASSUME Init PROVE Board!Init
    OBVIOUS
  <2>2. ASSUME NEW t \in Tasks
        PROVE  BoardStatus[t] = (IF t \in Seeded THEN "open" ELSE "absent") /\ BoardRun[t] = "idle"
    <3>1. Shown("queued") = "open"
      BY ShownIs DEF States, OpenStates
    <3>2. t \in Seeded => BoardStatus[t] = "open"
      BY <2>1, <3>1, StatusIs DEF Init, NewRow
    <3>3. t \notin Seeded => BoardStatus[t] = "absent"
      BY <2>1, StatusIs DEF Init
    <3>4. BoardRun[t] = "idle"
      BY <2>1 DEF Init, BoardRun, InTurn, TurnEnds
    <3> QED
      BY <3>2, <3>3, <3>4
  <2>3. BoardStatus = [t \in Tasks |-> BoardStatus[t]] /\ BoardRun = [t \in Tasks |-> BoardRun[t]]
    BY DEF BoardStatus, BoardRun
  <2> QED
    BY <2>2, <2>3 DEF Board!Init
<1>2. ASSUME IInv, QuietInv, [Next]_vars PROVE [Board!Next]_(Board!board)
  <2>1. ASSUME NEW t \in Tasks, NEW row \in {NewRow, InterruptRow(NewRow, 1)}, Delegate(t, row)
        PROVE  Board!Next
    BY <1>2, <2>1, SchedulerAssumption, SpawnOnBoard
  <2>2. Spawn => Board!Next
    BY <2>1 DEF Spawn
  <2> QED
    BY <1>2, <2>2, SchedulerAssumption, DeathOnBoard, TurnOnBoard, RecordOnBoard, MoveOnBoard
<1> QED
  BY <1>1, <1>2, InvariantHolds, QuietHolds, PTL DEF Spec, BoardSpec, Board!Spec
-----------------------------------------------------------------------------
(* Recovery.                                                               *)

\* Cascades nest, and go from a task to later ones only.
LEMMA CascadesNest ==
  ASSUME SchedulerAssumption, NEW a \in Tasks, NEW b \in Descendants[a],
         NEW c \in Descendants[b]
  PROVE  c \in Descendants[a] /\ (b # a => c # a)
<1>1. \A root \in Tasks : Descendants[root] =
        {t \in Tasks : \A S \in SUBSET Tasks :
           (root \in S /\ \A u \in Tasks : Deps[u] \cap S # {} => u \in S) => t \in S}
  BY DEF Descendants
<1>2. b \in Tasks /\ c \in Tasks
  BY <1>1
<1>3. c \in Descendants[a]
  BY <1>1, <1>2
<1>4. ASSUME NEW root \in Tasks, NEW t \in Descendants[root] PROVE t \in Nat /\ root <= t
  <2> DEFINE S == {u \in Tasks : root <= u}
  <2>1. \A u \in Tasks : u \in Nat /\ \A d \in Deps[u] : d \in Tasks /\ d \in Nat /\ d < u
    BY DEF SchedulerAssumption
  <2>2. ASSUME NEW u \in Tasks, Deps[u] \cap S # {} PROVE u \in S
    <3>1. PICK d \in Deps[u] : d \in S
      BY <2>2
    <3>2. d \in Nat /\ root \in Nat /\ u \in Nat /\ root <= d /\ d < u
      BY <2>1, <3>1
    <3> QED
      BY <3>2
  <2>3. S \in SUBSET Tasks /\ root \in S
    BY <2>1
  <2>4. t \in S
    <3> HIDE DEF S
    <3> QED
      BY <1>1, <1>4, <2>2, <2>3
  <2> QED
    BY <2>1, <2>4
<1>5. a \in Nat /\ a <= b /\ b <= c /\ b \in Nat /\ c \in Nat
  BY <1>2, <1>4 DEF SchedulerAssumption
<1> QED
  BY <1>3, <1>5

\* Only a restart takes a process from down to recovering.
LEMMA OnlyRestartRecovers ==
  ASSUME [Next]_vars, phase = "down", phase' = "recovering"
  PROVE  \E s \in Runners : Restart(s)
<1>1. ASSUME NEW s \in Runners, LoopStep(s) PROVE FALSE
  <2>1. Abort(s) => phase' = "down" \/ phase' = phase
    BY DEF Abort, Die
  <2> QED
    BY <1>1, <2>1 DEF LoopStep, Select, SelectNone, Claim, Start, Boot, BootInterrupted,
       Launch, LaunchRefused, TurnEnd, Record, Proceed, NextCandidate
<1>2. ASSUME NEW s \in Runners, NEW delegated \in BOOLEAN, Kick(s, delegated) PROVE FALSE
  BY <1>2 DEF Kick
<1>3. ~Control
  BY DEF Control, AskCancel, CancelGraph, StartOver, Reprioritize
<1>4. ~Spawn
  BY DEF Spawn, Delegate
<1>5. ~Torn
  BY DEF Torn, Crash, RestartTorn, SelectTorn, BootTorn, RecordTorn, CancelTorn,
     StartOverTorn, Die
<1>6. ASSUME NEW t \in created, NEW i \in DOMAIN store[t].tries, LeaseRunsOut(t, i) PROVE FALSE
  BY <1>6 DEF LeaseRunsOut
<1>7. ASSUME NEW t \in created, NEW x \in created, RestartRefused(t, x) PROVE FALSE
  BY <1>7 DEF RestartRefused
<1> QED
  BY <1>1, <1>2, <1>3, <1>4, <1>5, <1>6, <1>7 DEF Next, Startup, vars

\* A row that a second sweep would cancel was cancelled by the first.
LEMMA ClosedAgain ==
  ASSUME SchedulerAssumption, Kernel, NEW s \in Runners, Restart(s),
         NEW t \in created', NEW x \in Tasks, x \in ClosedBy(t)'
  PROVE  \E u \in created : x \in ClosedBy(u)
<1>1. created' = created /\ store' = Swept /\ created \subseteq Tasks
  BY Parts DEF Restart, RestOK
<1>2. /\ t \in created \cap Cascading /\ store'[t].state = "cancel_requested"
      /\ x \in (Descendants[t] \cap created) \ {t}
  BY <1>1 DEF ClosedBy
<1>3. PICK row \in {store[t], CancelRow(store[t])} :
        /\ store'[t] = RecoverRow(row)
        /\ row # store[t] => \E u \in created : t \in ClosedBy(u)
  BY <1>1, <1>2 DEF Swept
<1>4. Sound(store[t]) /\ RowOK(store[t], DepsDone(t)) /\ DepsDone(t) \in BOOLEAN
  BY <1>1, <1>2, Parts, SoundRows
<1>5. Sound(row) /\ RowOK(row, DepsDone(t))
  BY <1>3, <1>4, CancelKeeps DEF Rewrites
<1>6. row.state = "cancel_requested"
  BY <1>2, <1>3, <1>4, <1>5, RecoverAsksNothing
<1>7. CASE row = store[t]
  BY <1>2, <1>6, <1>7 DEF ClosedBy
<1>8. CASE row # store[t]
  <2>1. PICK u \in created : t \in ClosedBy(u)
    BY <1>3, <1>8
  <2>2. /\ u \in created \cap Cascading /\ store[u].state = "cancel_requested"
        /\ t \in Descendants[u] /\ t # u
    BY <2>1 DEF ClosedBy
  <2>3. x \in Descendants[u] /\ x # u
    BY <1>1, <1>2, <2>2, CascadesNest
  <2> QED
    BY <1>2, <2>2, <2>3 DEF ClosedBy
<1> QED
  BY <1>7, <1>8

\* A second sweep would leave every row as the first left it.
LEMMA SweptTwice ==
  ASSUME SchedulerAssumption, Kernel, NEW s \in Runners, Restart(s)
  PROVE  Swept' = store'
<1>1. /\ created' = created /\ store' = Swept /\ ~SweepFails /\ created \subseteq Tasks
  BY Parts DEF Restart, RestOK
<1> DEFINE closed(x) == \E t \in created : x \in ClosedBy(t)
           again(x) == \E t \in created' : x \in ClosedBy(t)'
           row(x) == IF closed(x) THEN CancelRow(store[x]) ELSE store[x]
           then(x) == IF again(x) THEN CancelRow(store'[x]) ELSE store'[x]
<1>2. ASSUME NEW x \in Tasks
      PROVE  store'[x] = IF x \in created THEN RecoverRow(row(x)) ELSE row(x)
  BY <1>1 DEF Swept
<1>3. Swept' = [x \in Tasks |-> IF x \in created' THEN RecoverRow(then(x)) ELSE then(x)]
  BY DEF Swept
<1>4. ASSUME NEW x \in Tasks
      PROVE  (IF x \in created' THEN RecoverRow(then(x)) ELSE then(x)) = store'[x]
  <2>1. /\ Sound(store[x]) /\ RowOK(store[x], DepsDone(x)) /\ DepsDone(x) \in BOOLEAN
    BY Parts, SoundRows
  <2>2. again(x) => closed(x) /\ x \in created
    BY <1>1, ClosedAgain DEF ClosedBy
  <2>3. CASE x \notin created
    BY <1>1, <2>2, <2>3
  <2>4. CASE x \in created
    <3>1. store'[x] = RecoverRow(row(x)) /\ row(x) \in {store[x], CancelRow(store[x])}
      BY <1>2, <2>4
    <3>2. Sound(row(x)) /\ RowOK(row(x), DepsDone(x))
      BY <2>1, <3>1, CancelKeeps DEF Rewrites
    <3>3. RecoverRow(store'[x]) = store'[x]
      BY <2>1, <3>1, <3>2, RecoverTwice
    <3>4. closed(x) => ~CancelFails(store[x])
      BY <1>1 DEF SweepFails, SweepFailures
    <3>5. again(x) => CancelRow(store'[x]) = store'[x]
      <4>1. SUFFICES ASSUME again(x) PROVE CancelRow(store'[x]) = store'[x]
        OBVIOUS
      <4>2. row(x) = CancelRow(store[x]) /\ ~CancelFails(store[x])
        BY <2>2, <3>4, <4>1
      <4> QED
        BY <2>1, <3>1, <4>2, CancelTwice
    <3>6. then(x) = store'[x]
      BY <3>5
    <3> QED
      BY <1>1, <2>4, <3>3, <3>6
  <2> QED
    BY <2>3, <2>4
<1>5. store' = [x \in Tasks |-> store'[x]]
  BY <1>1 DEF Swept
<1> HIDE DEF then
<1> QED
  BY <1>3, <1>4, <1>5

\* Recovering what was just recovered changes nothing: every cascade that the
\* first sweep leaves waiting was already passed on.
THEOREM RecoveryDoneOnce == Spec => RecoveryIsIdempotent
<1>1. ASSUME IInv, [Next]_vars
      PROVE  [phase = "down" /\ phase' = "recovering" => Swept' = store']_vars
  <2>1. SUFFICES ASSUME phase = "down", phase' = "recovering" PROVE Swept' = store'
    OBVIOUS
  <2>2. Kernel
    BY <1>1 DEF IInv, Kernel
  <2>3. PICK s \in Runners : Restart(s)
    BY <1>1, <2>1, OnlyRestartRecovers
  <2> QED
    BY <2>2, <2>3, SchedulerAssumption, SweptTwice
<1> QED
  BY <1>1, InvariantHolds, PTL DEF Spec, RecoveryIsIdempotent
=============================================================================
