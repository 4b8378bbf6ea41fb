---------------------------- MODULE SessionsProofs ----------------------------
(***************************************************************************)
(* Sessions and their turns: that the session table and its workers agree,  *)
(* then sockets and their locks, what a page is shown of a turn, and the    *)
(* watch of a task, for any values of the constants.                        *)
(***************************************************************************)
EXTENDS MCSessions, SequenceTheorems, WellFoundedInduction, TLAPS

-----------------------------------------------------------------------------
(* Controllers, loops and the worker of a turn.                            *)

\* The state the session table starts in.
LEMMA InitHolds == Init => IInv
<1> SUFFICES ASSUME Init PROVE IInv
  OBVIOUS
<1>1. TypeOK
  BY TurnAssumption DEF Init, TypeOK, Turns, Stages, Clients
<1>2. ReservedIsBusy /\ EndsCounted
  BY TurnAssumption DEF Init, ReservedIsBusy, EndsCounted, Busy, Live, Results
<1>3. TurnOfPrompt /\ NoGhostTurn /\ TurnsInOrder
  BY DEF Init, TurnOfPrompt, NoGhostTurn, TurnsInOrder
<1> QED
  BY <1>1, <1>2, <1>3 DEF IInv

\* Attaching and detaching touch nothing of a turn.
LEMMA Attachment ==
  ASSUME IInv, NEW c \in Controllers, Attach(c) \/ Detach(c)
  PROVE  IInv'
<1> USE DEF Attach, Detach, entry, worker
<1>1. TypeOK'
  BY TurnAssumption DEF IInv, TypeOK, Clients
<1>2. (ReservedIsBusy /\ TurnOfPrompt /\ NoGhostTurn /\ EndsCounted /\ TurnsInOrder)'
  BY DEF IInv, ReservedIsBusy, TurnOfPrompt, NoGhostTurn, EndsCounted, TurnsInOrder
<1> QED
  BY <1>1, <1>2 DEF IInv

\* A turn is registered only while no prompt is reserved, and is new.
LEMMA Registration ==
  ASSUME IInv, NEW c \in Clients, Start(c)
  PROVE  IInv'
<1> USE DEF Start, Register, MayPrompt, worker
<1>1. registered + 1 \in Turns /\ stage[registered + 1] = "none"
  BY TurnAssumption DEF IInv, TypeOK, Turns, TurnsInOrder
<1>2. TypeOK'
  BY <1>1, TurnAssumption DEF IInv, TypeOK, Clients, Turns
<1>3. ReservedIsBusy' /\ TurnOfPrompt' /\ EndsCounted'
  BY DEF IInv, ReservedIsBusy, TurnOfPrompt, EndsCounted
<1>4. NoGhostTurn'
  BY DEF IInv, TypeOK, NoGhostTurn
<1>5. TurnsInOrder'
  BY <1>1 DEF IInv, TypeOK, TurnsInOrder, Turns
<1> QED
  BY <1>2, <1>3, <1>4, <1>5 DEF IInv

\* A reservation starts the worker of the registered turn, which is new.
LEMMA Reservation ==
  ASSUME IInv, NEW c \in Clients, Reserve(c)
  PROVE  IInv'
<1> USE DEF Reserve
<1>1. activeTurn \in Turns /\ stage[activeTurn] = "none" /\ activeTurn <= registered
  BY DEF IInv, TypeOK, TurnsInOrder
<1>2. TypeOK'
  <2>1. stage' \in [Turns -> Stages] /\ prompter' \in [Turns -> Clients \cup {NoOne}]
    BY <1>1 DEF IInv, TypeOK, Stages, Busy
  <2>2. /\ pc' \in [Clients -> {"idle", "started", "refused", "waiting"}]
        /\ \A d \in Controllers : pc'[d] # "idle" => attached' = d /\ pc'[d] # "waiting"
    BY TurnAssumption DEF IInv, TypeOK, Clients
  <2> QED
    BY <1>1, <2>1, <2>2 DEF IInv, TypeOK
<1>3. ReservedIsBusy'
  BY <1>1, TurnAssumption DEF IInv, TypeOK, ReservedIsBusy, Busy
<1>4. TurnOfPrompt' /\ NoGhostTurn'
  BY DEF TurnOfPrompt, NoGhostTurn
<1>5. EndsCounted'
  BY <1>1 DEF IInv, TypeOK, EndsCounted, Live, Results
<1>6. TurnsInOrder'
  BY <1>1, TurnAssumption DEF IInv, TypeOK, TurnsInOrder
<1> QED
  BY <1>2, <1>3, <1>4, <1>5, <1>6 DEF IInv

\* A refused client gives up, a controller after it has taken its turn back;
\* a turn it leaves registered is the reserved one.
LEMMA Refusal ==
  ASSUME IInv, NEW c \in Clients, Refuse(c) \/ Clear(c)
  PROVE  IInv'
<1> USE DEF Refuse, Clear, entry, worker
<1>1. TypeOK'
  BY TurnAssumption DEF IInv, TypeOK, Clients
<1>2. ReservedIsBusy' /\ TurnOfPrompt' /\ EndsCounted' /\ TurnsInOrder'
  BY DEF IInv, ReservedIsBusy, TurnOfPrompt, EndsCounted, TurnsInOrder
<1>3. NoGhostTurn'
  <2>1. CASE Refuse(c)
    BY <2>1 DEF IInv, TurnOfPrompt, NoGhostTurn
  <2>2. CASE Clear(c)
    BY <2>2 DEF IInv, TypeOK, NoGhostTurn
  <2> QED
    BY <2>1, <2>2
<1> QED
  BY <1>1, <1>2, <1>3 DEF IInv

\* An abort raises a flag and nothing else.
LEMMA Aborting ==
  ASSUME IInv, NEW t \in Turns, Abort(t)
  PROVE  IInv'
<1> USE DEF Abort, clients, entry
<1>1. TypeOK'
  BY DEF IInv, TypeOK
<1>2. (ReservedIsBusy /\ TurnOfPrompt /\ NoGhostTurn /\ EndsCounted /\ TurnsInOrder)'
  BY DEF IInv, ReservedIsBusy, TurnOfPrompt, NoGhostTurn, EndsCounted, TurnsInOrder
<1> QED
  BY <1>1, <1>2 DEF IInv

\* What a worker does next, its prompt being the reserved one: its turn ends
\* up with a result, with an event to be published unless it is an error.
LEMMA Going ==
  ASSUME IInv, NEW t \in Turns, NEW next \in Busy \ {"spawned"}, NEW up \in BOOLEAN,
         stage[t] \in {"spawned", "answered"} \cup Live, Goes(t, next, up)
  PROVE  IInv'
<1> USE DEF Goes, clients, entry
<1>1. stage[t] \in Busy /\ next # "none" /\ next # "finished"
  BY DEF Busy, Live, Results
<1>2. TypeOK'
  BY <1>1 DEF IInv, TypeOK, Stages
<1>3. ReservedIsBusy'
  BY <1>1 DEF IInv, TypeOK, ReservedIsBusy
<1>4. TurnOfPrompt' /\ NoGhostTurn'
  BY DEF IInv, TurnOfPrompt, NoGhostTurn
<1>5. EndsCounted'
  BY <1>1 DEF IInv, TypeOK, EndsCounted, Busy, Live, Results
<1>6. TurnsInOrder'
  <2>1. activePrompt = t /\ t <= registered
    BY <1>1 DEF IInv, ReservedIsBusy, TurnsInOrder, Busy, Live, Results
  <2> QED
    BY <2>1, TurnAssumption DEF IInv, TypeOK, TurnsInOrder, Turns
<1> QED
  BY <1>2, <1>3, <1>4, <1>5, <1>6 DEF IInv

\* Each stretch of a worker goes on to another stage.
LEMMA Working ==
  ASSUME IInv, NEW t \in Turns, Work(t)
  PROVE  IInv'
<1>1. flag[t] \in BOOLEAN
  BY DEF IInv, TypeOK
<1>2. ASSUME NEW next \in Busy \ {"spawned"}, NEW up \in BOOLEAN,
             stage[t] \in {"spawned", "answered"} \cup Live, Goes(t, next, up)
      PROVE  IInv'
  BY <1>2, Going
<1>3. {"error", "opening", "aborted", "checking", "asking", "answered", "failed",
       "calling", "completed"} \subseteq Busy \ {"spawned"}
  BY DEF Busy, Live, Results
<1>4. ASSUME GivesUp(t), stage[t] \in Live
      PROVE  IInv'
  BY <1>2, <1>3, <1>4 DEF GivesUp
<1>5. CASE SetupFails(t)
  BY <1>1, <1>2, <1>3, <1>5 DEF SetupFails
<1>6. CASE Begin(t)
  BY <1>2, <1>3, <1>6 DEF Begin
<1>7. CASE Open(t)
  BY <1>2, <1>3, <1>4, <1>7 DEF Open, Live
<1>8. CASE Check(t)
  BY <1>2, <1>3, <1>4, <1>8 DEF Check, Live
<1>9. CASE Ask(t)
  BY <1>1, <1>2, <1>3, <1>4, <1>9 DEF Ask, Live
<1>10. CASE Call(t)
  BY <1>1, <1>2, <1>3, <1>4, <1>10 DEF Call, Live
<1>11. CASE Answer(t)
  BY <1>1, <1>2, <1>3, <1>11 DEF Answer
<1> QED
  BY <1>5, <1>6, <1>7, <1>8, <1>9, <1>10, <1>11 DEF Work

\* The final event is published once, and unregisters the prompt's own turn.
LEMMA Publishing ==
  ASSUME IInv, NEW t \in Turns, Publish(t)
  PROVE  IInv'
<1> USE DEF Publish, clients
<1>1. stage[t] \in Results \ {"error"} /\ ends[t] = 0
  BY DEF IInv, TypeOK, EndsCounted, Stages, Busy, Live, Results
<1>2. TypeOK'
  BY DEF IInv, TypeOK
<1>3. ReservedIsBusy' /\ TurnOfPrompt' /\ NoGhostTurn'
  BY DEF IInv, ReservedIsBusy, TurnOfPrompt, NoGhostTurn
<1>4. EndsCounted'
  BY <1>1 DEF IInv, TypeOK, EndsCounted, Live, Results
<1>5. TurnsInOrder'
  BY DEF IInv, TurnsInOrder
<1> QED
  BY <1>2, <1>3, <1>4, <1>5 DEF IInv

\* The prompt that is finished is the reserved one, so that nothing is left
\* registered, and its end is counted once.
LEMMA Finishing ==
  ASSUME IInv, NEW t \in Turns, Finish(t)
  PROVE  IInv'
<1> USE DEF Finish, Over
<1>1. stage[t] \in Busy /\ activePrompt = t
  BY DEF IInv, ReservedIsBusy, Busy
<1>2. activeTurn' = NoTurn /\ activePrompt' = NoTurn
  BY <1>1, TurnAssumption DEF IInv, TurnOfPrompt
<1>3. ends[t] = IF stage[t] = "error" THEN 0 ELSE 1
  BY DEF IInv, EndsCounted
<1>4. TypeOK'
  <2>1. /\ pc' \in [Clients -> {"idle", "started", "refused", "waiting"}]
        /\ \A c \in Controllers : pc'[c] # "idle" => attached' = c /\ pc'[c] # "waiting"
    BY DEF IInv, TypeOK, Freed, Clients
  <2> QED
    BY <1>2, <2>1 DEF IInv, TypeOK, Stages
<1>5. ReservedIsBusy'
  BY <1>1, <1>2, TurnAssumption DEF IInv, TypeOK, ReservedIsBusy, Busy, Live, Results
<1>6. TurnOfPrompt' /\ NoGhostTurn'
  BY <1>2 DEF TurnOfPrompt, NoGhostTurn
<1>7. EndsCounted'
  BY <1>3 DEF IInv, TypeOK, EndsCounted, Live, Results
<1>8. TurnsInOrder'
  BY <1>1, <1>2 DEF IInv, TypeOK, TurnsInOrder, Busy, Live, Results
<1> QED
  BY <1>4, <1>5, <1>6, <1>7, <1>8 DEF IInv

\* Every step keeps the invariant.
THEOREM NextKeepsIInv == IInv /\ [Next]_vars => IInv'
<1> SUFFICES ASSUME IInv, [Next]_vars PROVE IInv'
  OBVIOUS
<1>1. CASE UNCHANGED vars
  BY <1>1 DEF IInv, TypeOK, ReservedIsBusy, TurnOfPrompt, NoGhostTurn, EndsCounted,
              TurnsInOrder, vars, clients, entry, worker
<1>2. CASE \E c \in Controllers : Attach(c) \/ Detach(c)
  BY <1>2, Attachment
<1>3. CASE Prompting
  BY <1>3, Registration, Reservation, Refusal DEF Prompting
<1>4. CASE \E t \in Turns : Abort(t) \/ Work(t) \/ Publish(t) \/ Finish(t)
  BY <1>4, Aborting, Working, Publishing, Finishing
<1> QED
  BY <1>1, <1>2, <1>3, <1>4 DEF Next

\* The inductive invariant holds of every reachable state.
THEOREM InvariantHolds == Spec => []IInv
<1> QED
  BY InitHolds, NextKeepsIInv, PTL DEF Spec

\* Type correctness of the session and of its workers.
THEOREM TypeCorrect == Spec => []TypeOK
<1>1. IInv => TypeOK
  BY DEF IInv
<1> QED
  BY <1>1, InvariantHolds, PTL

\* reserve_prompt_execution excludes a second worker until finish_prompt,
\* whoever prompts the session.
THEOREM OnePrompt == Spec => []OnePromptAtATime
<1>1. IInv => OnePromptAtATime
  BY DEF IInv, ReservedIsBusy, OnePromptAtATime
<1> QED
  BY <1>1, InvariantHolds, PTL

\* request_abort, publish_runtime_event and finish_prompt, which change the
\* turn that is registered, never meet another turn than the prompt's.
THEOREM OwnTurn == Spec => []TurnOfPrompt
<1>1. IInv => TurnOfPrompt
  BY DEF IInv
<1> QED
  BY <1>1, InvariantHolds, PTL

\* No turn stays registered that nobody will reserve or finish.
THEOREM NoGhost == Spec => []NoGhostTurn
<1>1. IInv => NoGhostTurn
  BY DEF IInv
<1> QED
  BY <1>1, InvariantHolds, PTL

\* The worker and finish_prompt report the end of a prompt once between them.
THEOREM OneEnd == Spec => []OneEndPerPrompt
<1>1. IInv => OneEndPerPrompt
  BY DEF IInv, TypeOK, EndsCounted, OneEndPerPrompt, Stages, Busy, Live, Results
<1> QED
  BY <1>1, InvariantHolds, PTL

-----------------------------------------------------------------------------
(* Sockets and their locks.                                                *)

\* What the locks rest on: a socket that is attached has one active session.
SocketShape ==
  /\ lock \in [Sessions -> SUBSET Sockets]
  /\ at \in [Sockets -> {"closed", "creating", "selecting"} \cup Web!Attached]
  /\ active \in [Sockets -> SUBSET Sessions]
  /\ \A c \in Sockets : at[c] \in Web!Attached => \E s \in Sessions : active[c] = {s}

LockInv == SocketShape /\ Web!LocksFollowSockets

Targets == target \in [Sockets -> SUBSET Sessions]

WebInv == LockInv /\ Targets

\* The steps that a socket takes with its lock and its session unchanged, and
\* without attaching or closing.
Stays(c) ==
  /\ UNCHANGED <<lock, active>>
  /\ \E to \in {"closed", "creating", "selecting"} \cup Web!Attached :
       /\ at' = [at EXCEPT ![c] = to]
       /\ to \in Web!Attached <=> at[c] \in Web!Attached

\* Such a step changes nobody's lock.
LEMMA StaysKeeps ==
  ASSUME LockInv, NEW c \in Sockets, Stays(c)
  PROVE  LockInv'
<1>1. PICK to \in {"closed", "creating", "selecting"} \cup Web!Attached :
        at' = [at EXCEPT ![c] = to] /\ (to \in Web!Attached <=> at[c] \in Web!Attached)
  BY DEF Stays
<1>2. /\ at' \in [Sockets -> {"closed", "creating", "selecting"} \cup Web!Attached]
      /\ \A d \in Sockets : at'[d] \in Web!Attached <=> at[d] \in Web!Attached
  BY <1>1 DEF LockInv, SocketShape
<1>3. lock' = lock /\ active' = active
  BY DEF Stays
<1>4. SocketShape'
  BY <1>2, <1>3 DEF LockInv, SocketShape, Web!Attached
<1>5. Web!LocksFollowSockets'
  BY <1>2, <1>3 DEF LockInv, Web!LocksFollowSockets, Web!Attached
<1> QED
  BY <1>4, <1>5 DEF LockInv

\* A socket that attaches to a session of which nobody else has the lock gets
\* it, and loses that of the session it leaves.
LEMMA AttachKeeps ==
  ASSUME LockInv, NEW c \in Sockets, NEW s \in Sessions, Web!Free(s, c),
         at' = [at EXCEPT ![c] = "greeting"], active' = [active EXCEPT ![c] = {s}],
         lock \in [Sessions -> SUBSET Sockets],
         lock' \in [Sessions -> SUBSET Sockets], lock'[s] = {c},
         \A t \in Sessions \ {s} : lock'[t] = lock[t] \ {c}
  PROVE  LockInv'
<1>1. /\ at' \in [Sockets -> {"closed", "creating", "selecting"} \cup Web!Attached]
      /\ at'[c] \in Web!Attached /\ \A d \in Sockets \ {c} : at'[d] = at[d]
  BY DEF LockInv, SocketShape, Web!Attached
<1>2. /\ active' \in [Sockets -> SUBSET Sessions]
      /\ active'[c] = {s} /\ \A d \in Sockets \ {c} : active'[d] = active[d]
  BY DEF LockInv, SocketShape
<1>3. SocketShape'
  BY <1>1, <1>2 DEF LockInv, SocketShape, Web!Attached
<1>4. ASSUME NEW t \in Sessions
      PROVE  lock'[t] = {d \in Sockets : at'[d] \in Web!Attached /\ active'[d] = {t}}
  <2>1. lock[t] = {d \in Sockets : at[d] \in Web!Attached /\ active[d] = {t}}
    BY DEF LockInv, Web!LocksFollowSockets
  <2>2. CASE t = s
    <3>1. lock[t] \subseteq {c}
      BY <2>2 DEF Web!Free
    <3>2. \A d \in Sockets \ {c} : ~(at'[d] \in Web!Attached /\ active'[d] = {t})
      BY <1>1, <1>2, <2>1, <3>1
    <3> QED
      BY <1>1, <1>2, <2>2, <3>2
  <2>3. CASE t # s
    <3>1. active'[c] # {t}
      BY <1>2, <2>3
    <3>2. lock'[t] = lock[t] \ {c}
      BY <2>3
    <3> QED
      BY <1>1, <1>2, <2>1, <3>1, <3>2
  <2> QED
    BY <2>2, <2>3
<1>5. Web!LocksFollowSockets'
  BY <1>4 DEF Web!LocksFollowSockets, Web!Attached
<1> QED
  BY <1>3, <1>5 DEF LockInv

\* A socket that ends gives back its lock.
LEMMA LeaveKeeps ==
  ASSUME LockInv, NEW c \in Sockets, Web!Leave(c)
  PROVE  LockInv'
<1>1. PICK s \in active[c] : lock' = [lock EXCEPT ![s] = @ \ {c}]
  BY DEF Web!Leave, Web!Released
<1>2. active[c] = {s} /\ s \in Sessions
  BY <1>1 DEF Web!Leave, LockInv, SocketShape, Web!Attached
<1>3. /\ at' = [at EXCEPT ![c] = "closed"] /\ active' = [active EXCEPT ![c] = {}]
      /\ "closed" \notin Web!Attached
  BY DEF Web!Leave, Web!Attached
<1>4. /\ at' \in [Sockets -> {"closed", "creating", "selecting"} \cup Web!Attached]
      /\ at'[c] \notin Web!Attached /\ \A d \in Sockets \ {c} : at'[d] = at[d]
  BY <1>3 DEF LockInv, SocketShape
<1>5. /\ active' \in [Sockets -> SUBSET Sessions]
      /\ \A d \in Sockets \ {c} : active'[d] = active[d]
  BY <1>3 DEF LockInv, SocketShape
<1>6. /\ lock' \in [Sessions -> SUBSET Sockets] /\ lock'[s] = lock[s] \ {c}
      /\ \A t \in Sessions \ {s} : lock'[t] = lock[t]
  BY <1>1, <1>2 DEF LockInv, SocketShape
<1>7. SocketShape'
  BY <1>4, <1>5, <1>6 DEF LockInv, SocketShape, Web!Attached
<1>8. ASSUME NEW t \in Sessions
      PROVE  lock'[t] = {d \in Sockets : at'[d] \in Web!Attached /\ active'[d] = {t}}
  <2>1. lock[t] = {d \in Sockets : at[d] \in Web!Attached /\ active[d] = {t}}
    BY DEF LockInv, Web!LocksFollowSockets
  <2>2. lock'[t] = lock[t] \ {c}
    BY <1>2, <1>6, <2>1
  <2> QED
    BY <1>4, <1>5, <2>1, <2>2
<1>9. Web!LocksFollowSockets'
  BY <1>8 DEF Web!LocksFollowSockets, Web!Attached
<1> QED
  BY <1>7, <1>9 DEF LockInv

\* A load that succeeds.
LEMMA LoadedKeeps ==
  ASSUME LockInv, NEW c \in Sockets, Web!Loaded(c), target[c] \subseteq Sessions
  PROVE  LockInv'
<1>1. PICK s \in target[c], p \in active[c] :
        /\ Web!Free(s, c) /\ active' = [active EXCEPT ![c] = {s}]
        /\ lock' = LET l == [lock EXCEPT ![s] = {c}]
                   IN IF s = p THEN l ELSE [l EXCEPT ![p] = @ \ {c}]
  BY DEF Web!Loaded, Web!Released
<1>2. s \in Sessions /\ p \in Sessions /\ active[c] = {p}
  BY <1>1 DEF Web!Loaded, LockInv, SocketShape, Web!Attached
<1>3. at' = [at EXCEPT ![c] = "greeting"]
  BY DEF Web!Loaded
<1>4. \A t \in Sessions \ {p} : c \notin lock[t]
  BY <1>2 DEF LockInv, Web!LocksFollowSockets
<1>5. lock' \in [Sessions -> SUBSET Sockets] /\ lock'[s] = {c}
  BY <1>1, <1>2 DEF LockInv, SocketShape
<1>6. \A t \in Sessions \ {s} : lock'[t] = lock[t] \ {c}
  BY <1>1, <1>2, <1>4 DEF LockInv, SocketShape
<1> QED
  BY <1>1, <1>2, <1>3, <1>5, <1>6, AttachKeeps DEF LockInv, SocketShape

\* An update attaches the socket to the session that it has.
LEMMA UpdatedKeeps ==
  ASSUME LockInv, NEW c \in Sockets, Web!Updated(c)
  PROVE  LockInv'
<1>1. PICK s \in active[c] : Web!Free(s, c) /\ lock' = [lock EXCEPT ![s] = {c}]
  BY DEF Web!Updated
<1>2. s \in Sessions /\ active[c] = {s}
  BY <1>1 DEF Web!Updated, LockInv, SocketShape, Web!Attached
<1>3. at' = [at EXCEPT ![c] = "greeting"] /\ active' = active
  BY DEF Web!Updated
<1>4. active' = [active EXCEPT ![c] = {s}]
  BY <1>2, <1>3 DEF LockInv, SocketShape
<1>5. \A t \in Sessions \ {s} : c \notin lock[t]
  BY <1>2 DEF LockInv, Web!LocksFollowSockets
<1>6. lock' \in [Sessions -> SUBSET Sockets] /\ lock'[s] = {c}
  BY <1>1, <1>2 DEF LockInv, SocketShape
<1>7. \A t \in Sessions \ {s} : lock'[t] = lock[t] \ {c}
  BY <1>1, <1>2, <1>5 DEF LockInv, SocketShape
<1> QED
  BY <1>1, <1>2, <1>3, <1>4, <1>6, <1>7, AttachKeeps DEF LockInv, SocketShape

\* Selecting a session is such a case.
LEMMA AttachedKeeps ==
  ASSUME LockInv, NEW c \in Sockets, NEW s \in Sessions, Web!Attach(c, s)
  PROVE  LockInv'
<1>1. /\ Web!Free(s, c) /\ lock' = [lock EXCEPT ![s] = {c}]
      /\ active' = [active EXCEPT ![c] = {s}] /\ at' = [at EXCEPT ![c] = "greeting"]
      /\ at[c] \notin Web!Attached
  BY DEF Web!Attach, Web!Attached
<1>2. \A t \in Sessions \ {s} : c \notin lock[t]
  BY <1>1 DEF LockInv, Web!LocksFollowSockets
<1>3. lock' \in [Sessions -> SUBSET Sockets] /\ lock'[s] = {c}
  BY <1>1 DEF LockInv, SocketShape
<1>4. \A t \in Sessions \ {s} : lock'[t] = lock[t] \ {c}
  BY <1>1, <1>2 DEF LockInv, SocketShape
<1> QED
  BY <1>1, <1>3, <1>4, AttachKeeps DEF LockInv, SocketShape

\* The other steps of a socket leave its lock and its session alone.
LEMMA OthersStay ==
  ASSUME LockInv, NEW c \in Sockets,
         \/ \E want : Web!Connect(c, want)
         \/ \E s \in Sessions : Web!Create(c, s) \/ Web!TryNext(c, s) \/ Web!Load(c, s)
         \/ Web!SelectFails(c) \/ Web!Greet(c) \/ Web!LoadRefused(c)
         \/ \E m \in Models : Web!Update(c, m)
  PROVE  Stays(c)
<1>1. CASE \E want : Web!Connect(c, want)
  BY <1>1 DEF Web!Connect, Stays, Web!Attached, Web!manager
<1>2. CASE \E s \in Sessions : Web!Create(c, s)
  BY <1>2 DEF Web!Create, Stays, Web!Attached, Web!manager
<1>3. CASE \E s \in Sessions : Web!TryNext(c, s)
  <2>1. PICK s \in Sessions : Web!TryNext(c, s)
    BY <1>3
  <2>2. at[c] = "selecting" /\ UNCHANGED <<lock, active>>
    BY <2>1 DEF Web!TryNext
  <2>3. at' = [at EXCEPT ![c] = "closed"] \/ at' = at
    BY <2>1 DEF Web!TryNext
  <2>4. at' = at => at' = [at EXCEPT ![c] = "selecting"]
    BY <2>2 DEF LockInv, SocketShape
  <2> QED
    BY <2>2, <2>3, <2>4 DEF Stays, Web!Attached
<1>4. CASE \E s \in Sessions : Web!Load(c, s)
  BY <1>4 DEF Web!Load, Stays, Web!Attached, Web!manager
<1>5. CASE Web!SelectFails(c)
  BY <1>5 DEF Web!SelectFails, Stays, Web!Attached, Web!manager
<1>6. CASE Web!Greet(c)
  BY <1>6 DEF Web!Greet, Stays, Web!Attached, Web!manager
<1>7. CASE Web!LoadRefused(c)
  BY <1>7 DEF Web!LoadRefused, Stays, Web!Attached
<1>8. CASE \E m \in Models : Web!Update(c, m)
  BY <1>8 DEF Web!Update, Stays, Web!Attached, Web!manager
<1> QED
  BY <1>1, <1>2, <1>3, <1>4, <1>5, <1>6, <1>7, <1>8

\* What a socket loads is a session.
LEMMA TargetsStay ==
  ASSUME Targets, [Web!Next]_(Web!vars)
  PROVE  Targets'
<1>1. CASE UNCHANGED Web!vars
  BY <1>1 DEF Web!vars, Web!socket, Targets
<1>2. CASE Web!Next
  <2>1. ASSUME NEW s \in Sessions, Web!EndTurn(s) PROVE Targets'
    BY <2>1 DEF Web!EndTurn, Web!socket, Targets
  <2>2. ASSUME NEW c \in Sockets, Web!LoadRefused(c) \/ Web!Loaded(c) PROVE Targets'
    BY <2>2 DEF Web!LoadRefused, Web!Loaded, Targets
  <2>3. ASSUME NEW c \in Sockets, NEW s \in Sessions, Web!Load(c, s) PROVE Targets'
    BY <2>3 DEF Web!Load, Targets
  <2>4. ASSUME NEW c \in Sockets,
               \/ Web!SelectFails(c) \/ Web!Greet(c) \/ Web!Leave(c) \/ Web!Updated(c)
               \/ Web!Submit(c)
               \/ \E want : Web!Connect(c, want)
               \/ \E s \in Sessions :
                    \/ Web!Create(c, s) \/ Web!FillIn(c, s) \/ Web!Attach(c, s)
                    \/ Web!TryNext(c, s)
               \/ \E m \in Models : Web!Update(c, m)
        PROVE  Targets'
    BY <2>4 DEF Web!SelectFails, Web!Greet, Web!Leave, Web!Updated, Web!Submit,
                Web!Connect, Web!Create, Web!FillIn,
                Web!Attach, Web!TryNext, Web!Update, Web!socket, Targets
  <2> QED
    BY <1>2, <2>1, <2>2, <2>3, <2>4 DEF Web!Next
<1> QED
  BY <1>1, <1>2

\* Every step keeps the invariant.
LEMMA WebStepKeeps ==
  ASSUME WebInv, [Web!Next]_(Web!vars)
  PROVE  WebInv'
<1> USE DEF WebInv
<1>1. Targets'
  BY TargetsStay
<1>2. CASE UNCHANGED Web!vars
  BY <1>1, <1>2 DEF Web!vars, Web!manager, Web!socket, LockInv, SocketShape,
                    Web!LocksFollowSockets
<1>3. CASE Web!Next
  <2>1. ASSUME NEW s \in Sessions, Web!EndTurn(s) PROVE LockInv'
    BY <2>1 DEF Web!EndTurn, Web!manager, Web!socket, LockInv, SocketShape,
                Web!LocksFollowSockets
  <2>2. ASSUME NEW c \in Sockets, Web!Leave(c) PROVE LockInv'
    BY <2>2, LeaveKeeps
  <2>3. ASSUME NEW c \in Sockets, Web!Loaded(c) PROVE LockInv'
    BY <2>3, LoadedKeeps DEF Targets
  <2>4. ASSUME NEW c \in Sockets, Web!Updated(c) PROVE LockInv'
    BY <2>4, UpdatedKeeps
  <2>5. ASSUME NEW c \in Sockets, NEW s \in Sessions, Web!Attach(c, s) PROVE LockInv'
    BY <2>5, AttachedKeeps
  <2>6. ASSUME NEW c \in Sockets, NEW s \in Sessions, Web!FillIn(c, s) PROVE LockInv'
    BY <2>6 DEF Web!FillIn, Web!manager, LockInv, SocketShape, Web!LocksFollowSockets
  <2>7. ASSUME NEW c \in Sockets, Web!Submit(c) PROVE LockInv'
    BY <2>7 DEF Web!Submit, Web!manager, Web!socket, LockInv, SocketShape,
                Web!LocksFollowSockets
  <2>8. ASSUME NEW c \in Sockets,
               \/ \E want : Web!Connect(c, want)
               \/ \E s \in Sessions :
                    Web!Create(c, s) \/ Web!TryNext(c, s) \/ Web!Load(c, s)
               \/ Web!SelectFails(c) \/ Web!Greet(c) \/ Web!LoadRefused(c)
               \/ \E m \in Models : Web!Update(c, m)
        PROVE  LockInv'
    BY <2>8, OthersStay, StaysKeeps
  <2> QED
    BY <1>1, <1>3, <2>1, <2>2, <2>3, <2>4, <2>5, <2>6, <2>7, <2>8 DEF Web!Next
<1> QED
  BY <1>2, <1>3

\* It holds at first.
LEMMA WebInit == Web!Init => WebInv
  BY DEF Web!Init, WebInv, LockInv, SocketShape, Targets, Web!LocksFollowSockets,
         Web!Attached

\* So it always holds.
LEMMA AlwaysWebInv == Web!Spec => []WebInv
<1>1. WebInv /\ [Web!Next]_(Web!vars) => WebInv'
  BY WebStepKeeps
<1> QED
  BY WebInit, <1>1, PTL DEF Web!Spec

\* A session's lock is held by exactly the socket that serves it, whatever way
\* sockets select, load, fail and close (attach_controller, release_controller,
\* load_session_for_controller).
THEOREM LocksHold == Web!Spec => []LocksFollowSockets
<1>1. WebInv => LocksFollowSockets
  BY DEF WebInv, LockInv, LocksFollowSockets
<1> QED
  BY AlwaysWebInv, <1>1, PTL

-----------------------------------------------------------------------------
\* One step: a streaming session keeps its socket.
TurnStays ==
  \A s \in Sessions, c \in Sockets :
    turn[s] # {} /\ c \in lock[s] => c \in lock'[s] \/ at'[c] = "closed"

\* That is so of every step.
LEMMA StepKeepsSocket ==
  ASSUME WebInv, [Web!Next]_(Web!vars)
  PROVE  TurnStays
<1> USE DEF WebInv
<1>1. CASE UNCHANGED lock
  BY <1>1 DEF TurnStays
<1>2. ASSUME NEW c \in Sockets, Web!Leave(c) PROVE TurnStays
  <2>1. PICK s \in active[c] : lock' = [lock EXCEPT ![s] = @ \ {c}]
    BY <1>2 DEF Web!Leave, Web!Released
  <2>2. at'[c] = "closed"
    BY <1>2 DEF Web!Leave, LockInv, SocketShape
  <2>3. \A t \in Sessions, d \in Sockets \ {c} : d \in lock[t] => d \in lock'[t]
    BY <2>1 DEF LockInv, SocketShape
  <2> QED
    BY <2>2, <2>3 DEF TurnStays
<1>3. ASSUME NEW c \in Sockets, Web!Loaded(c) PROVE TurnStays
  <2>1. PICK s \in target[c], p \in active[c] :
          /\ s = p \/ ~Web!Streaming(p)
          /\ Web!Free(s, c)
          /\ lock' = LET l == [lock EXCEPT ![s] = {c}]
                     IN IF s = p THEN l ELSE [l EXCEPT ![p] = @ \ {c}]
    BY <1>3 DEF Web!Loaded, Web!Released
  <2>2. s \in Sessions /\ p \in Sessions
    BY <2>1 DEF Web!Loaded, LockInv, SocketShape, Web!Attached, Targets
  <2>3. \A t \in Sessions, d \in Sockets :
          turn[t] # {} /\ d \in lock[t] => d \in lock'[t]
    BY <2>1, <2>2 DEF LockInv, SocketShape, Web!Streaming, Web!Free
  <2> QED
    BY <2>3 DEF TurnStays
<1>4. ASSUME NEW c \in Sockets, Web!Updated(c) PROVE TurnStays
  <2>1. PICK s \in active[c] : Web!Free(s, c) /\ lock' = [lock EXCEPT ![s] = {c}]
    BY <1>4 DEF Web!Updated
  <2> QED
    BY <2>1 DEF TurnStays, Web!Free, LockInv, SocketShape
<1>5. ASSUME NEW c \in Sockets, NEW s \in Sessions, Web!Attach(c, s) PROVE TurnStays
  BY <1>5 DEF Web!Attach, TurnStays, Web!Free, LockInv, SocketShape
<1>6. UNCHANGED Web!vars => UNCHANGED lock
  BY DEF Web!vars, Web!manager
<1>7. \A s \in Sessions : Web!EndTurn(s) => UNCHANGED lock
  BY DEF Web!EndTurn, Web!manager
<1>8. \A c \in Sockets :
        /\ \A want : Web!Connect(c, want) => UNCHANGED lock
        /\ \A s \in Sessions :
             \/ Web!Create(c, s) \/ Web!FillIn(c, s) \/ Web!TryNext(c, s)
             \/ Web!Load(c, s)
             => UNCHANGED lock
        /\ \/ Web!SelectFails(c) \/ Web!Greet(c) \/ Web!LoadRefused(c)
           \/ Web!Submit(c)
           => UNCHANGED lock
        /\ \A m \in Models : Web!Update(c, m) => UNCHANGED lock
  BY DEF Web!Connect, Web!Create, Web!FillIn, Web!TryNext, Web!Load, Web!SelectFails,
         Web!Greet, Web!LoadRefused, Web!Submit,
         Web!Update, Web!manager
<1> QED
  BY <1>1, <1>2, <1>3, <1>4, <1>5, <1>6, <1>7, <1>8 DEF Web!Next

\* Nothing but its own end takes a socket away from a session whose turn
\* streams (the check of active_turn before a load or an update).
THEOREM SocketStays == Web!Spec => TurnKeepsSocket
<1>1. WebInv /\ [Web!Next]_(Web!vars) => [TurnStays]_(Web!vars)
  BY StepKeepsSocket
<1>2. Web!Spec => [][TurnStays]_(Web!vars)
  BY AlwaysWebInv, <1>1, PTL DEF Web!Spec
<1> QED
  BY <1>2 DEF TurnKeepsSocket, Web!TurnKeepsSocket, TurnStays

-----------------------------------------------------------------------------
\* Every step of a socket keeps the types of WebController.
LEMMA WebTypesStay ==
  ASSUME Web!TypeOK, [Web!Next]_(Web!vars)
  PROVE  Web!TypeOK'
<1> USE SessionsAssumption DEF Web!TypeOK, Web!Attached
<1>1. CASE UNCHANGED Web!vars
  BY <1>1 DEF Web!vars, Web!manager, Web!socket
<1>2. ASSUME NEW s \in Sessions, NEW row \in Web!Row
      PROVE  Web!ModelOf(row) \in SUBSET Models
  BY DEF Web!ModelOf, Web!Row
<1>3. ASSUME NEW s \in Sessions, NEW row \in Web!Row, Web!Ensures(s, row)
       PROVE  inForce' \in [Sessions -> SUBSET Models]
  BY <1>2, <1>3 DEF Web!Ensures
<1>4. Web!NoRow \in Web!Row
  BY DEF Web!NoRow, Web!Row
<1>5. ASSUME NEW c \in Sockets, NEW want \in SUBSET Sessions, Web!Connect(c, want)
      PROVE  Web!TypeOK'
  BY <1>5 DEF Web!Connect, Web!Existing, Web!manager
<1>6. ASSUME NEW c \in Sockets, Web!SelectFails(c) \/ Web!Greet(c) \/ Web!Leave(c)
      PROVE  Web!TypeOK'
  <2>1. CASE Web!SelectFails(c)
    BY <2>1 DEF Web!SelectFails, Web!Forgets, Web!Unread, Web!manager
  <2>2. CASE Web!Greet(c)
    BY <2>2 DEF Web!Greet, Web!manager
  <2>3. CASE Web!Leave(c)
    BY <2>3 DEF Web!Leave, Web!Released
  <2> QED
    BY <1>6, <2>1, <2>2, <2>3
<1>7. ASSUME NEW c \in Sockets, Web!LoadRefused(c) \/ Web!Loaded(c)
      PROVE  Web!TypeOK'
  <2>1. inForce' \in [Sessions -> SUBSET Models]
    <3>1. CASE UNCHANGED inForce
      BY <3>1
    <3>2. CASE ~UNCHANGED inForce
      <4>1. PICK s \in target[c] : \E row \in read[c][s] : Web!Ensures(s, row)
        BY <1>7, <3>2 DEF Web!LoadRefused, Web!Loaded
      <4>2. s \in Sessions /\ read[c][s] \subseteq Web!Row
        BY <4>1
      <4> QED
        BY <1>3, <4>1, <4>2
    <3> QED
      BY <3>1, <3>2
  <2>2. CASE Web!LoadRefused(c)
    BY <2>1, <2>2 DEF Web!LoadRefused, Web!Forgets, Web!Unread
  <2>3. CASE Web!Loaded(c)
    <3>1. PICK s \in target[c], p \in active[c] :
            /\ active' = [active EXCEPT ![c] = {s}]
            /\ lock' = LET l == [lock EXCEPT ![s] = {c}]
                       IN IF s = p THEN l ELSE [l EXCEPT ![p] = @ \ {c}]
      BY <2>3 DEF Web!Loaded, Web!Released
    <3>2. s \in Sessions /\ p \in Sessions
      BY <3>1
    <3>3. lock' \in [Sessions -> SUBSET Sockets]
      BY <3>1, <3>2
    <3>4. active' \in [Sockets -> SUBSET Sessions]
      BY <3>1, <3>2
    <3> QED
      BY <2>1, <2>3, <3>3, <3>4 DEF Web!Loaded, Web!Forgets, Web!Unread
  <2> QED
    BY <1>7, <2>2, <2>3
<1>8. ASSUME NEW c \in Sockets, NEW m \in Models, Web!Update(c, m)
      PROVE  Web!TypeOK'
  <2>1. {[model |-> m, settings |-> {m}]} \in SUBSET Web!Row
    BY DEF Web!Row
  <2>2. updates' \in 0..MaxUpdates
    BY <1>8 DEF Web!Update
  <2> QED
    BY <1>8, <2>1, <2>2 DEF Web!Update, Web!manager
<1>9. ASSUME NEW c \in Sockets, Web!Updated(c) \/ Web!Submit(c)
      PROVE  Web!TypeOK'
  <2>1. CASE Web!Updated(c)
    <3>1. inForce' \in [Sessions -> SUBSET Models]
      BY <1>2, <2>1 DEF Web!Updated, Web!Ensures
    <3>2. chosen' \in [Sessions -> SUBSET Models]
      BY <2>1 DEF Web!Updated, Web!Row
    <3> QED
      BY <2>1, <3>1, <3>2 DEF Web!Updated, Web!Forgets, Web!Unread
  <2>2. CASE Web!Submit(c)
    BY <2>2 DEF Web!Submit, Web!manager, Web!socket
  <2> QED
    BY <1>9, <2>1, <2>2
<1>10. ASSUME NEW c \in Sockets, NEW s \in Sessions,
             Web!Create(c, s) \/ Web!FillIn(c, s) \/ Web!Load(c, s)
      PROVE  Web!TypeOK'
  <2>1. CASE Web!Create(c, s)
    BY <1>4, <2>1 DEF Web!Create, Web!manager
  <2>2. CASE Web!FillIn(c, s)
    <3>1. PICK row \in read[c][s] :
            /\ rows' = [rows EXCEPT ![s] = {[r EXCEPT !.settings = {row.model}] : r \in @}]
            /\ read' = [read EXCEPT ![c][s] = {Web!Complete(row)}]
      BY <2>2 DEF Web!FillIn
    <3>2. row \in Web!Row /\ Web!Complete(row) \in Web!Row
      <4>1. row \in Web!Row
        BY <3>1
      <4> QED
        BY <4>1 DEF Web!Complete, Web!Row
    <3>3. {[r EXCEPT !.settings = {row.model}] : r \in rows[s]} \in SUBSET Web!Row
      <4>1. ASSUME NEW r \in rows[s]
            PROVE  [r EXCEPT !.settings = {row.model}] \in Web!Row
        <5>1. r \in Web!Row /\ row.model \in Models
          BY <3>2 DEF Web!Row
        <5> QED
          BY <5>1 DEF Web!Row
      <4> QED
        BY <4>1
    <3>4. rows' \in [Sessions -> SUBSET Web!Row]
      BY <3>1, <3>3
    <3>5. read' \in [Sockets -> [Sessions -> SUBSET Web!Row]]
      BY <3>1, <3>2
    <3> QED
      BY <2>2, <3>4, <3>5 DEF Web!FillIn, Web!manager
  <2>3. CASE Web!Load(c, s)
    BY <2>3 DEF Web!Load, Web!manager
  <2> QED
    BY <1>10, <2>1, <2>2, <2>3
<1>11. ASSUME NEW c \in Sockets, NEW s \in Sessions, Web!Attach(c, s) \/ Web!TryNext(c, s)
      PROVE  Web!TypeOK'
  <2>1. inForce' \in [Sessions -> SUBSET Models]
    <3>1. PICK row \in read[c][s] : Web!Ensures(s, row)
      BY <1>11 DEF Web!Attach, Web!TryNext
    <3> QED
      BY <1>3, <3>1
  <2>2. CASE Web!Attach(c, s)
    BY <2>1, <2>2 DEF Web!Attach, Web!Forgets, Web!Unread
  <2>3. CASE Web!TryNext(c, s)
    <3>1. CASE s \in wanted[c] \/ left[c] = {s}
      <4>1. /\ at' = [at EXCEPT ![c] = "closed"] /\ wanted' = [wanted EXCEPT ![c] = {}]
            /\ left' = [left EXCEPT ![c] = {}]
            /\ read' = [read EXCEPT ![c] = [t \in Sessions |-> {}]]
            /\ UNCHANGED <<rows, lock, turn, active, target, updates, chosen>>
        BY <2>3, <3>1 DEF Web!TryNext, Web!Forgets, Web!Unread
      <4> QED
        BY <2>1, <4>1
    <3>2. CASE ~(s \in wanted[c] \/ left[c] = {s})
      <4>1. /\ left' = [left EXCEPT ![c] = @ \ {s}]
            /\ UNCHANGED <<at, wanted, read>>
            /\ UNCHANGED <<rows, lock, turn, active, target, updates, chosen>>
        BY <2>3, <3>2 DEF Web!TryNext
      <4>2. left' \in [Sockets -> SUBSET Sessions]
        BY <4>1
      <4> QED
        BY <2>1, <4>1, <4>2
    <3> QED
      BY <3>1, <3>2
  <2> QED
    BY <1>11, <2>2, <2>3
<1>12. ASSUME NEW s \in Sessions, Web!EndTurn(s)
       PROVE  Web!TypeOK'
  BY <1>12 DEF Web!EndTurn, Web!manager, Web!socket
<1> HIDE DEF Web!TypeOK, Web!Attached
<1> QED
  BY <1>1, <1>5, <1>6, <1>7, <1>8, <1>9, <1>10, <1>11, <1>12 DEF Web!Next

\* They hold at first.
LEMMA WebTypesInit == Web!Init => Web!TypeOK
<1> SUFFICES ASSUME Web!Init PROVE Web!TypeOK
  OBVIOUS
<1>1. Web!NoRow \in Web!Row /\ [Web!NoRow EXCEPT !.settings = {Default}] \in Web!Row
  BY SessionsAssumption DEF Web!NoRow, Web!Row
<1>2. rows \in [Sessions -> SUBSET Web!Row]
  BY <1>1 DEF Web!Init
<1> QED
  BY <1>2, SessionsAssumption DEF Web!Init, Web!TypeOK, Web!Attached

-----------------------------------------------------------------------------
(* What a page is shown of a turn (EventStream).                           *)

\* An event that is published comes last; if the channel is full, something is
\* dropped, and the receiver knows.
LEMMA PublishAdds ==
  ASSUME Stream!TypeOK, NEW events \in Seq(Stream!Events), Stream!Publish(events)
  PROVE  /\ queue' \in Seq(Stream!Events) /\ Len(queue') <= Capacity /\ missed' \in BOOLEAN
         /\ socket # "away" /\ ~missed' => ~missed /\ queue' = queue \o events
<1> DEFINE all == queue \o events
           over == IF Len(all) > Capacity THEN Len(all) - Capacity ELSE 0
<1>1. queue \in Seq(Stream!Events) /\ Len(queue) <= Capacity /\ missed \in BOOLEAN
  BY DEF Stream!TypeOK
<1>2. CASE socket = "away"
  BY <1>1, <1>2 DEF Stream!Publish, Stream!channel
<1>3. CASE socket # "away"
  <2>1. queue' = SubSeq(all, over + 1, Len(all)) /\ missed' = (missed \/ over > 0)
    BY <1>3 DEF Stream!Publish
  <2>2. all \in Seq(Stream!Events) /\ Len(all) \in Nat
    BY <1>1, ConcatProperties
  <2>3. Capacity \in Nat
    BY SessionsAssumption
  <2> HIDE DEF all
  <2>4. over \in Nat /\ over <= Len(all) /\ Len(all) - over <= Capacity
    BY <2>2, <2>3
  <2> HIDE DEF over
  <2>5. \A i \in (over + 1)..Len(all) : all[i] \in Stream!Events
    BY <2>2, <2>4
  <2>6. /\ SubSeq(all, over + 1, Len(all)) \in Seq(Stream!Events)
        /\ Len(SubSeq(all, over + 1, Len(all))) =
             IF over + 1 <= Len(all) THEN Len(all) - (over + 1) + 1 ELSE 0
    BY <2>2, <2>4, <2>5, SubSeqProperties
  <2>7. over = 0 => SubSeq(all, over + 1, Len(all)) = all
    BY <2>2, SubSeqFull
  <2>8. Len(queue') <= Capacity
    <3>1. PICK n \in Nat, m \in Nat : n = Len(all) /\ m = over
      BY <2>2, <2>4
    <3>2. Len(queue') = IF m + 1 <= n THEN n - (m + 1) + 1 ELSE 0
      BY <2>1, <2>6, <3>1
    <3>3. n - m <= Capacity
      BY <2>4, <3>1
    <3> QED
      BY <2>3, <3>2, <3>3
  <2>9. ~missed' => ~missed /\ over = 0
    <3>1. ~(over > 0) => over = 0
      BY <2>4
    <3> QED
      BY <2>1, <3>1, Zenon
  <2> QED
    BY <1>1, <2>1, <2>6, <2>7, <2>8, <2>9 DEF all
<1> QED
  BY <1>2, <1>3

\* An event of a turn.
LEMMA EventIsEvent ==
  ASSUME Stream!TypeOK, streamed > 0, NEW kind \in Stream!Kinds, NEW text \in Stream!Texts
  PROVE  Stream!Event(kind, text) \in Stream!Events
<1>1. streamed \in Stream!Turns
  BY SessionsAssumption DEF Stream!TypeOK, Stream!Turns
<1> QED
  BY <1>1 DEF Stream!Event, Stream!Events

\* A turn in progress has a number.
Numbered == step # "none" => streamed > 0

StreamTypes == Stream!TypeOK /\ Numbered

\* The channel of a new subscription.
LEMMA NothingFits == <<>> \in Seq(Stream!Events) /\ Len(<<>>) <= Capacity
<1>1. Capacity \in Nat
  BY SessionsAssumption
<1>2. Len(<<>>) = 0
  OBVIOUS
<1> QED
  BY <1>1, <1>2, EmptySeq

LEMMA NothingIsText == <<>> \in Stream!Texts
  BY EmptySeq DEF Stream!Texts

\* Where the worker publishes.
LEMMA PublishingKeepsTypes ==
  ASSUME StreamTypes, Stream!Open \/ Stream!Delta \/ Stream!Tool \/ Stream!Answer \/ Stream!EndTurn
  PROVE  StreamTypes'
<1> DEFINE n == pieces'
<1>0. MaxStreamed \in Nat /\ MaxDeltas \in Nat /\ streamed \in Nat
  BY SessionsAssumption DEF StreamTypes, Stream!TypeOK
<1>1. CASE Stream!Open
  <2> DEFINE events == <<Stream!Event("turn.started", <<>>), Stream!Event("message.started", <<>>)>>
  <2>1. Stream!Event("turn.started", <<>>) \in Stream!Events
        /\ Stream!Event("message.started", <<>>) \in Stream!Events
    BY <1>1, NothingIsText, EventIsEvent DEF Stream!Open, StreamTypes, Numbered, Stream!Kinds
  <2>2. events \in Seq(Stream!Events)
    BY <2>1
  <2>3. Stream!Publish(events)
    BY <1>1 DEF Stream!Open
  <2> HIDE DEF events
  <2>4. queue' \in Seq(Stream!Events) /\ Len(queue') <= Capacity /\ missed' \in BOOLEAN
    BY <2>2, <2>3, PublishAdds DEF StreamTypes
  <2> QED
    BY <1>1, <2>4 DEF Stream!Open, StreamTypes, Stream!TypeOK, Numbered, Stream!taking, Stream!page
<1>2. CASE Stream!Delta
  <2>1. pieces' = pieces + 1 /\ pieces' \in 1..MaxDeltas
    BY <1>0, <1>2 DEF Stream!Delta, StreamTypes, Stream!TypeOK
  <2>2. said' = Append(said, pieces') /\ said' \in Stream!Texts
    BY <1>2, <2>1 DEF Stream!Delta, StreamTypes, Stream!TypeOK, Stream!Texts
  <2>3. <<pieces'>> \in Stream!Texts
    BY <2>1 DEF Stream!Texts
  <2>4. running' \subseteq Stream!Texts
    <3>1. \A text \in running : Append(text, pieces') \in Stream!Texts
      BY <2>1 DEF StreamTypes, Stream!TypeOK, Stream!Texts
    <3> QED
      BY <1>2, <3>1 DEF Stream!Delta
  <2>5. PICK text : text = <<pieces'>>
    OBVIOUS
  <2>6. Stream!Event("message.delta", text) \in Stream!Events
    BY <1>2, <2>3, <2>5, EventIsEvent DEF Stream!Delta, StreamTypes, Numbered, Stream!Kinds
  <2>7. PICK events : events = <<Stream!Event("message.delta", text)>>
    OBVIOUS
  <2>8. events \in Seq(Stream!Events) /\ Stream!Publish(events)
    BY <1>2, <2>5, <2>6, <2>7 DEF Stream!Delta
  <2>9. queue' \in Seq(Stream!Events) /\ Len(queue') <= Capacity /\ missed' \in BOOLEAN
    BY <2>8, PublishAdds DEF StreamTypes
  <2> QED
    BY <1>2, <2>1, <2>2, <2>4, <2>9
       DEF Stream!Delta, StreamTypes, Stream!TypeOK, Numbered, Stream!taking, Stream!page
<1>3. CASE Stream!Tool
  <2>1. PICK events : events = <<Stream!Event("tool.completed", <<>>)>>
    OBVIOUS
  <2>2. Stream!Event("tool.completed", <<>>) \in Stream!Events
    BY <1>3, NothingIsText, EventIsEvent DEF Stream!Tool, StreamTypes, Numbered, Stream!Kinds
  <2>3. events \in Seq(Stream!Events) /\ Stream!Publish(events)
    BY <1>3, <2>1, <2>2 DEF Stream!Tool
  <2>4. queue' \in Seq(Stream!Events) /\ Len(queue') <= Capacity /\ missed' \in BOOLEAN
    BY <2>3, PublishAdds DEF StreamTypes
  <2> QED
    BY <1>3, <2>4, NothingIsText
       DEF Stream!Tool, StreamTypes, Stream!TypeOK, Numbered, Stream!taking, Stream!page
<1>4. CASE Stream!Answer
  <2>1. said \in Stream!Texts
    BY DEF StreamTypes, Stream!TypeOK
  <2>2. Stream!Event("message.completed", said) \in Stream!Events
    BY <1>4, <2>1, EventIsEvent DEF Stream!Answer, StreamTypes, Numbered, Stream!Kinds
  <2>3. PICK events : events = <<Stream!Event("message.completed", said)>>
    OBVIOUS
  <2>4. events \in Seq(Stream!Events) /\ Stream!Publish(events)
    BY <1>4, <2>2, <2>3 DEF Stream!Answer
  <2>5. queue' \in Seq(Stream!Events) /\ Len(queue') <= Capacity /\ missed' \in BOOLEAN
    BY <2>4, PublishAdds DEF StreamTypes
  <2>6. answers' \in [Stream!Turns -> SUBSET Stream!Texts]
    BY <1>4, <2>1 DEF Stream!Answer, StreamTypes, Stream!TypeOK
  <2> QED
    BY <1>4, <2>5, <2>6
       DEF Stream!Answer, StreamTypes, Stream!TypeOK, Numbered, Stream!taking, Stream!page
<1>5. CASE Stream!EndTurn
  <2>1. PICK kind \in {"turn.completed", "turn.failed"} :
          Stream!Publish(<<Stream!Event(kind, <<>>)>>)
    BY <1>5 DEF Stream!EndTurn
  <2>2. Stream!Event(kind, <<>>) \in Stream!Events
    BY <1>5, NothingIsText, EventIsEvent DEF Stream!EndTurn, StreamTypes, Numbered, Stream!Kinds
  <2>3. PICK events : events = <<Stream!Event(kind, <<>>)>>
    OBVIOUS
  <2>4. events \in Seq(Stream!Events) /\ Stream!Publish(events)
    BY <2>1, <2>2, <2>3
  <2>5. queue' \in Seq(Stream!Events) /\ Len(queue') <= Capacity /\ missed' \in BOOLEAN
    BY <2>4, PublishAdds DEF StreamTypes
  <2> QED
    BY <1>5, <2>5
       DEF Stream!EndTurn, StreamTypes, Stream!TypeOK, Numbered, Stream!taking, Stream!page
<1> QED
  BY <1>1, <1>2, <1>3, <1>4, <1>5

\* The other steps of the worker, of the snapshots and of the page.
LEMMA OthersKeepTypes ==
  ASSUME StreamTypes,
         \/ Stream!Submit \/ Stream!Persist
         \/ \E goal \in {"connecting", "loading"} : Stream!Subscribe(goal)
         \/ Stream!ReadTurns \/ Stream!Hydrate \/ Stream!Leave
  PROVE  StreamTypes'
<1>0. /\ MaxStreamed \in Nat /\ MaxSnapshots \in Nat
      /\ streamed \in 0..MaxStreamed /\ Stream!Turns = 1..MaxStreamed
  BY SessionsAssumption DEF StreamTypes, Stream!TypeOK, Stream!Turns
<1>1. CASE Stream!Submit
  <2>1. streamed' \in 0..MaxStreamed /\ streamed' > 0
    BY <1>0, <1>1 DEF Stream!Submit
  <2>2. running' \subseteq Stream!Texts /\ said' \in Stream!Texts
    BY <1>1, NothingIsText DEF Stream!Submit
  <2>3. pieces' \in 0..MaxDeltas
    BY <1>1, SessionsAssumption DEF Stream!Submit
  <2> QED
    BY <1>1, <2>1, <2>2, <2>3
       DEF Stream!Submit, StreamTypes, Stream!TypeOK, Numbered, Stream!channel, Stream!taking
<1>2. CASE Stream!Persist
  <2>1. streamed \in Stream!Turns
    BY <1>0, <1>2 DEF Stream!Persist, StreamTypes, Numbered
  <2> QED
    BY <1>2, <2>1 DEF Stream!Persist, StreamTypes, Stream!TypeOK, Numbered,
                      Stream!channel, Stream!taking, Stream!page
<1>3. ASSUME NEW goal \in {"connecting", "loading"}, Stream!Subscribe(goal)
      PROVE  StreamTypes'
  <2>1. snapshots' \in 0..MaxSnapshots
    BY <1>0, <1>3 DEF Stream!Subscribe, StreamTypes, Stream!TypeOK
  <2>2. since' \in 0..MaxStreamed
    <3>1. since' = Stream!Answered
      BY <1>3 DEF Stream!Subscribe
    <3>2. step \in {"reserved", "streaming"} => streamed > 0
      BY DEF StreamTypes, Numbered
    <3> QED
      BY <1>0, <3>1, <3>2 DEF Stream!Answered
  <2> QED
    BY <1>3, <2>1, <2>2, NothingFits
       DEF Stream!Subscribe, StreamTypes, Stream!TypeOK, Numbered, Stream!worker, Stream!page
<1>4. CASE Stream!ReadTurns
  BY <1>4 DEF Stream!ReadTurns, StreamTypes, Stream!TypeOK, Numbered, Stream!worker,
              Stream!channel, Stream!page
<1>5. CASE Stream!Hydrate
  <2>1. shownRows' \in [Stream!Turns -> SUBSET Stream!Texts]
    BY <1>5 DEF Stream!Hydrate, StreamTypes, Stream!TypeOK
  <2> QED
    BY <1>5, <2>1 DEF Stream!Hydrate, StreamTypes, Stream!TypeOK, Numbered, Stream!worker,
                      Stream!channel
<1>6. CASE Stream!Leave
  BY <1>6, NothingFits DEF Stream!Leave, StreamTypes, Stream!TypeOK, Numbered, Stream!worker,
                    Stream!page
<1> QED
  BY <1>1, <1>2, <1>3, <1>4, <1>5, <1>6

\* The page takes an event.
LEMMA ForwardKeepsTypes ==
  ASSUME StreamTypes, Stream!Forward
  PROVE  StreamTypes'
<1>1. /\ queue \in Seq(Stream!Events) /\ queue # <<>> /\ Len(queue) <= Capacity
      /\ Capacity \in Nat
  BY SessionsAssumption DEF Stream!Forward, StreamTypes, Stream!TypeOK
<1>2. PICK event : event = Head(queue)
  OBVIOUS
<1>3. /\ event \in Stream!Events /\ queue' \in Seq(Stream!Events)
      /\ Len(queue') <= Capacity
  <2>1. queue' = Tail(queue)
    BY DEF Stream!Forward
  <2>2. Len(queue') = Len(queue) - 1 /\ Len(queue) \in Nat
    BY <1>1, <2>1, HeadTailProperties
  <2> QED
    BY <1>1, <1>2, <2>1, <2>2, HeadTailProperties
<1>4. /\ event.turn \in Stream!Turns /\ event.text \in Stream!Texts
      /\ event.kind \in Stream!Kinds
  BY <1>3 DEF Stream!Events
<1>5. Stream!RowOf(event) \subseteq Stream!Texts
  <2>1. shownRows[event.turn] \subseteq Stream!Texts
    BY <1>4 DEF StreamTypes, Stream!TypeOK
  <2>2. \A text \in shownRows[event.turn] : text \o event.text \in Stream!Texts
    BY <1>4, <2>1, ConcatProperties DEF Stream!Texts
  <2>3. {<<>>} \subseteq Stream!Texts /\ {event.text} \subseteq Stream!Texts
    BY <1>4, NothingIsText
  <2> HIDE DEF Stream!Texts
  <2> QED
    BY <2>1, <2>2, <2>3 DEF Stream!RowOf
<1>6. shownRows' \in [Stream!Turns -> SUBSET Stream!Texts]
  BY <1>2, <1>4, <1>5 DEF Stream!Forward, StreamTypes, Stream!TypeOK
<1>7. busy' \in BOOLEAN
  BY <1>2 DEF Stream!Forward, Stream!BusyAfter, StreamTypes, Stream!TypeOK
<1> QED
  BY <1>3, <1>6, <1>7 DEF Stream!Forward, StreamTypes, Stream!TypeOK, Numbered,
                          Stream!worker, Stream!taking

LEMMA StreamTypesStay ==
  ASSUME StreamTypes, [Stream!Next]_(Stream!vars)
  PROVE  StreamTypes'
<1>1. CASE UNCHANGED Stream!vars
  BY <1>1 DEF Stream!vars, Stream!worker, Stream!channel, Stream!taking, Stream!page,
              StreamTypes, Stream!TypeOK, Numbered
<1> QED
  BY <1>1, PublishingKeepsTypes, OthersKeepTypes, ForwardKeepsTypes DEF Stream!Next

LEMMA StreamTypesInit == Stream!Init => StreamTypes
<1>1. Stream!NoRows \in [Stream!Turns -> SUBSET Stream!Texts]
  BY DEF Stream!NoRows
<1>2. 0 \in 0..MaxStreamed /\ 0 \in 0..MaxDeltas /\ 0 \in 0..MaxSnapshots
  BY SessionsAssumption
<1>3. ASSUME Stream!Init PROVE Stream!TypeOK
  BY <1>1, <1>2, <1>3, NothingIsText, NothingFits DEF Stream!Init, Stream!TypeOK
<1> QED
  BY <1>3 DEF StreamTypes, Numbered, Stream!Init

\* The worker's own order: what the manager holds is what was said, and a turn
\* has an answer only after it streamed.
Progress ==
  /\ running = IF step = "none" THEN {} ELSE {said}
  /\ step = "reserved" => said = <<>>
  /\ \A t \in Stream!Turns : answers[t] # {} =>
       t <= streamed /\ (t = streamed => step \notin {"reserved", "streaming"})

\* Events that change whether the page is busy, and those that change a row.
BusyKinds == {"turn.started", "message.delta", "turn.completed", "turn.failed"}
RowKinds == {"message.started", "message.delta", "message.completed"}

\* What is queued is of turns that began, and of answers that were given.
QueuedTurns ==
  \A q \in DOMAIN queue :
    /\ queue[q].turn <= streamed
    /\ queue[q].kind = "message.completed" /\ step \in {"reserved", "streaming"} =>
         queue[q].turn < streamed

\* The last queued event that tells whether a turn is in progress is right; if
\* there is none, the page is.
SaysBusy(event) == event.kind \in {"turn.started", "message.delta"}

LastSays(busyNow) ==
  \/ \E q \in DOMAIN queue :
       /\ queue[q].kind \in BusyKinds /\ (SaysBusy(queue[q]) <=> busyNow)
       /\ \A r \in DOMAIN queue : r > q => queue[r].kind \notin BusyKinds
  \/ /\ \A r \in DOMAIN queue : queue[r].kind \notin BusyKinds
     /\ socket = "serving" => (busy <=> busyNow)

BusyTells == step # "reserved" => LastSays(step # "none")

\* A piece of the turn's text is on the page or still to come.
Shows(piece) == \E row \in shownRows[streamed] : \E j \in DOMAIN row : row[j] = piece

Brings(q, piece) ==
  /\ queue[q].kind = "message.delta" /\ queue[q].turn = streamed
  /\ queue[q].text = <<piece>>

TextComes ==
  step = "streaming" /\ socket = "serving" =>
    \A i \in DOMAIN said :
      Shows(said[i]) \/ \E q \in DOMAIN queue : Brings(q, said[i])

\* So is an answer, and nothing that comes after it changes its row.
Answers(q, t) ==
  /\ queue[q].kind = "message.completed" /\ queue[q].turn = t
  /\ answers[t] = {queue[q].text}

LastOn(q, t) ==
  \A r \in DOMAIN queue : r > q /\ queue[r].turn = t => queue[r].kind \notin RowKinds

Answered(t) ==
  \/ \E q \in DOMAIN queue : Answers(q, t) /\ LastOn(q, t)
  \/ socket = "serving" /\ shownRows[t] = answers[t] /\ LastOn(0, t)
  \/ socket = "serving" /\ t \in history

AnswersCome == \A t \in (since + 1)..streamed : answers[t] # {} => Answered(t)

PageInv ==
  socket # "away" /\ ~missed => QueuedTurns /\ BusyTells /\ TextComes /\ AnswersCome

StreamInv == StreamTypes /\ Progress /\ PageInv

LEMMA ProgressStays ==
  ASSUME StreamTypes, Progress, [Stream!Next]_(Stream!vars)
  PROVE  Progress'
<1>1. CASE UNCHANGED <<step, streamed, said, running, answers>>
  BY <1>1 DEF Progress, Stream!Turns
<1>2. CASE Stream!Submit
  <2>1. streamed \in Nat /\ \A t \in Stream!Turns : t \in Nat
    BY SessionsAssumption DEF StreamTypes, Stream!TypeOK, Stream!Turns
  <2> QED
    BY <1>2, <2>1 DEF Stream!Submit, Progress, Stream!channel
<1>3. CASE Stream!Open
  BY <1>3 DEF Stream!Open, Progress
<1>4. CASE Stream!Delta
  BY <1>4 DEF Stream!Delta, Progress
<1>5. CASE Stream!Tool
  BY <1>5 DEF Stream!Tool, Progress
<1>6. CASE Stream!Answer
  <2>1. streamed \in Nat /\ answers \in [Stream!Turns -> SUBSET Stream!Texts]
    BY SessionsAssumption DEF StreamTypes, Stream!TypeOK
  <2> QED
    BY <1>6, <2>1 DEF Stream!Answer, Progress
<1>7. CASE Stream!Persist
  BY <1>7 DEF Stream!Persist, Progress
<1>8. CASE Stream!EndTurn
  BY <1>8 DEF Stream!EndTurn, Progress
<1>9. ASSUME \/ UNCHANGED Stream!vars
             \/ Stream!Subscribe("connecting") \/ Stream!Subscribe("loading")
             \/ Stream!ReadTurns \/ Stream!Hydrate \/ Stream!Leave \/ Stream!Forward
      PROVE  UNCHANGED <<step, streamed, said, running, answers>>
  BY <1>9 DEF Stream!Subscribe, Stream!ReadTurns, Stream!Hydrate, Stream!Leave,
              Stream!Forward, Stream!worker, Stream!vars
<1> QED
  BY <1>1, <1>2, <1>3, <1>4, <1>5, <1>6, <1>7, <1>8, <1>9 DEF Stream!Next

\* A subscription begins with an empty channel, after the answers there are.
LEMMA SubscribeKeeps ==
  ASSUME StreamInv, NEW goal \in {"connecting", "loading"}, Stream!Subscribe(goal)
  PROVE  PageInv'
<1>1. /\ queue' = <<>> /\ socket' = goal /\ since' = Stream!Answered
      /\ UNCHANGED <<step, streamed, said, answers>>
  BY DEF Stream!Subscribe, Stream!worker
<1>2. DOMAIN queue' = {}
  BY <1>1
<1>3. QueuedTurns' /\ TextComes' /\ BusyTells'
  BY <1>1, <1>2 DEF QueuedTurns, TextComes, BusyTells, LastSays
<1>4. AnswersCome'
  <2>1. streamed \in Nat /\ Stream!Turns = 1..MaxStreamed /\ streamed <= MaxStreamed
        /\ MaxStreamed \in Nat
    BY SessionsAssumption DEF StreamInv, StreamTypes, Stream!TypeOK, Stream!Turns
  <2>2. ASSUME NEW t \in (since' + 1)..streamed PROVE answers[t] = {}
    <3>1. step \in {"reserved", "streaming"} /\ t = streamed
      <4>1. step \in {"reserved", "streaming"} => streamed > 0
        BY DEF StreamInv, StreamTypes, Numbered
      <4> QED
        BY <1>1, <2>1, <2>2, <4>1 DEF Stream!Answered
    <3>2. t \in Stream!Turns
      <4>1. streamed > 0
        BY <3>1 DEF StreamInv, StreamTypes, Numbered
      <4> QED
        BY <2>1, <3>1, <4>1
    <3> QED
      BY <3>1, <3>2 DEF StreamInv, Progress
  <2> QED
    BY <1>1, <2>2 DEF AnswersCome
<1> QED
  BY <1>3, <1>4 DEF PageInv

\* The steps between events: a turn is reserved or stored, and the snapshot is
\* read.
LEMMA BetweenKeeps ==
  ASSUME StreamInv, Stream!Submit \/ Stream!Persist \/ Stream!ReadTurns
  PROVE  PageInv'
<1>0. /\ streamed \in Nat /\ Stream!Turns = 1..MaxStreamed /\ MaxStreamed \in Nat
      /\ since \in Nat /\ queue \in Seq(Stream!Events)
      /\ \A q \in DOMAIN queue : queue[q].turn \in Nat
  <2>1. \A q \in DOMAIN queue : queue[q] \in Stream!Events
    BY DEF StreamInv, StreamTypes, Stream!TypeOK
  <2> QED
    BY <2>1, SessionsAssumption DEF StreamInv, StreamTypes, Stream!TypeOK, Stream!Turns,
       Stream!Events
<1>1. CASE Stream!Submit
  <2>1. /\ step' = "reserved" /\ streamed' = streamed + 1 /\ streamed' \in Stream!Turns
        /\ UNCHANGED <<answers, queue, missed, socket, since, shownRows, history>>
    BY <1>0, <1>1 DEF Stream!Submit, Stream!channel, Stream!taking, StreamInv, StreamTypes, Stream!TypeOK
  <2>2. QueuedTurns => QueuedTurns'
    BY <1>0, <2>1 DEF QueuedTurns
  <2>3. BusyTells' /\ TextComes'
    BY <2>1 DEF BusyTells, TextComes
  <2>4. AnswersCome => AnswersCome'
    <3>1. answers[streamed + 1] = {}
      BY <1>0, <2>1 DEF StreamInv, Progress
    <3>2. \A t : Answered(t) => Answered(t)'
      BY <2>1 DEF Answered, Answers, LastOn
    <3>3. \A t \in (since' + 1)..streamed' : t = streamed + 1 \/ t \in (since + 1)..streamed
      BY <1>0, <2>1
    <3> QED
      BY <2>1, <3>1, <3>2, <3>3 DEF AnswersCome
  <2> QED
    BY <2>1, <2>2, <2>3, <2>4 DEF StreamInv, PageInv
<1>2. CASE Stream!Persist
  <2>1. /\ step = "answered" /\ step' = "persisted"
        /\ UNCHANGED <<streamed, answers, queue, missed, socket, since, busy, shownRows, history>>
    BY <1>2 DEF Stream!Persist, Stream!channel, Stream!taking, Stream!page
  <2>2. QueuedTurns => QueuedTurns'
    BY <2>1 DEF QueuedTurns
  <2>3. TextComes' /\ (BusyTells => BusyTells')
    BY <2>1 DEF BusyTells, TextComes, LastSays, SaysBusy
  <2>4. AnswersCome => AnswersCome'
    BY <2>1 DEF AnswersCome, Answered, Answers, LastOn
  <2> QED
    BY <2>1, <2>2, <2>3, <2>4 DEF StreamInv, PageInv
<1>3. CASE Stream!ReadTurns
  <2>1. /\ socket = "loading" /\ socket' = "read"
        /\ UNCHANGED <<step, streamed, answers, queue, missed, since, busy, shownRows, history>>
    BY <1>3 DEF Stream!ReadTurns, Stream!channel, Stream!worker, Stream!page
  <2>2. QueuedTurns => QueuedTurns'
    BY <2>1 DEF QueuedTurns
  <2>3. TextComes' /\ (BusyTells => BusyTells')
    BY <2>1 DEF BusyTells, TextComes, LastSays, SaysBusy
  <2>4. AnswersCome => AnswersCome'
    BY <2>1 DEF AnswersCome, Answered, Answers, LastOn
  <2> QED
    BY <2>1, <2>2, <2>3, <2>4 DEF StreamInv, PageInv
<1> QED
  BY <1>1, <1>2, <1>3

\* The snapshot tells what is in progress, and all the rest is queued.
LEMMA HydrateKeeps ==
  ASSUME StreamInv, Stream!Hydrate
  PROVE  PageInv'
<1>1. /\ socket \in {"connecting", "read"} /\ socket' = "serving" /\ busy' = (running # {})
      /\ shownRows' = [t \in Stream!Turns |-> IF t = streamed THEN running ELSE {}]
      /\ UNCHANGED <<step, streamed, said, answers, running, queue, missed, since>>
  BY DEF Stream!Hydrate, Stream!channel, Stream!worker
<1>2. running = IF step = "none" THEN {} ELSE {said}
  BY DEF StreamInv, Progress
<1>3. QueuedTurns => QueuedTurns'
  BY <1>1 DEF QueuedTurns
<1>4. BusyTells => BusyTells'
  BY <1>1, <1>2 DEF BusyTells, LastSays, SaysBusy
<1>5. TextComes'
  <2>1. ASSUME step = "streaming", NEW i \in DOMAIN said
        PROVE  Shows(said[i])'
    <3>1. streamed \in Stream!Turns
      BY <2>1, SessionsAssumption
         DEF StreamInv, StreamTypes, Numbered, Stream!TypeOK, Stream!Turns
    <3>2. shownRows'[streamed'] = {said}
      BY <1>1, <1>2, <2>1, <3>1
    <3> QED
      BY <1>1, <2>1, <3>2 DEF Shows
  <2> QED
    BY <1>1, <2>1 DEF TextComes
<1>6. AnswersCome => AnswersCome'
  BY <1>1 DEF AnswersCome, Answered, Answers, LastOn
<1> QED
  BY <1>1, <1>3, <1>4, <1>5, <1>6 DEF StreamInv, PageInv

\* A receiver that missed nothing finds an event at the end of its channel.
Adds(event) ==
  /\ Len(queue) \in Nat /\ DOMAIN queue = 1..Len(queue)
  /\ DOMAIN queue' = 1..(Len(queue) + 1)
  /\ \A q \in DOMAIN queue : queue'[q] = queue[q]
  /\ queue'[Len(queue) + 1] = event

LEMMA PublishedOne ==
  ASSUME StreamTypes, socket # "away", ~missed', NEW event \in Stream!Events,
         Stream!Publish(<<event>>)
  PROVE  ~missed /\ Adds(event)
<1>1. PICK events \in Seq(Stream!Events) :
        events = <<event>> /\ Len(events) = 1 /\ events[1] = event
  <2>1. <<event>> \in Seq(Stream!Events) /\ Len(<<event>>) = 1 /\ <<event>>[1] = event
    OBVIOUS
  <2> QED
    BY <2>1
<1>2. ~missed /\ queue' = queue \o events
  BY <1>1, PublishAdds DEF StreamTypes
<1>3. queue \in Seq(Stream!Events) /\ Len(queue) \in Nat
  BY DEF StreamTypes, Stream!TypeOK
<1>4. /\ queue' \in Seq(Stream!Events) /\ Len(queue') = Len(queue) + 1
      /\ \A i \in 1..(Len(queue) + 1) :
           queue'[i] = IF i <= Len(queue) THEN queue[i] ELSE events[i - Len(queue)]
  BY <1>1, <1>2, <1>3, ConcatProperties
<1>5. DOMAIN queue = 1..Len(queue) /\ DOMAIN queue' = 1..(Len(queue) + 1)
  BY <1>3, <1>4
<1>6. queue'[Len(queue) + 1] = event
  BY <1>1, <1>3, <1>4
<1>7. \A q \in DOMAIN queue : queue'[q] = queue[q]
  BY <1>3, <1>4, <1>5
<1> QED
  BY <1>2, <1>3, <1>5, <1>6, <1>7 DEF Adds

\* An event of the turn leaves the answers of other turns as they were to come.
LEMMA AddingKeepsAnswers ==
  ASSUME NEW event, Adds(event), AnswersCome, event.turn = streamed, NEW T,
         T = {t \in (since + 1)..streamed : answers[t] # {}},
         streamed \notin T \/ event.kind \notin RowKinds,
         UNCHANGED <<socket, streamed, since, shownRows, history>>
  PROVE  \A t \in T : answers'[t] = answers[t] => Answered(t)'
<1> SUFFICES ASSUME NEW t \in T, answers'[t] = answers[t] PROVE Answered(t)'
  OBVIOUS
<1>1. Answered(t)
  BY DEF AnswersCome
<1>2. ASSUME NEW q \in DOMAIN queue \cup {0}, LastOn(q, t) PROVE LastOn(q, t)'
  <2>1. ASSUME NEW r \in DOMAIN queue', r > q, queue'[r].turn = t
        PROVE  queue'[r].kind \notin RowKinds
    <3>1. CASE r \in DOMAIN queue
      BY <1>2, <2>1, <3>1 DEF Adds, LastOn
    <3>2. CASE r = Len(queue) + 1
      BY <2>1, <3>2 DEF Adds
    <3> QED
      BY <3>1, <3>2 DEF Adds
  <2> QED
    BY <2>1 DEF LastOn
<1>3. ASSUME NEW q \in DOMAIN queue, Answers(q, t), LastOn(q, t)
      PROVE  q \in DOMAIN queue' /\ Answers(q, t)' /\ LastOn(q, t)'
  BY <1>2, <1>3 DEF Adds, Answers
<1> QED
  BY <1>1, <1>2, <1>3 DEF Answered

\* A turn is told to start, and its message is begun.
LEMMA OpenKeeps ==
  ASSUME StreamInv, Stream!Open
  PROVE  PageInv'
<1> SUFFICES ASSUME socket # "away", ~missed'
             PROVE  QueuedTurns' /\ BusyTells' /\ TextComes' /\ AnswersCome'
  BY DEF PageInv, Stream!Open, Stream!taking
<1> DEFINE n == Len(queue)
<1>1. /\ step = "reserved" /\ step' = "streaming"
      /\ UNCHANGED <<streamed, said, answers, socket, since, shownRows, history>>
  BY DEF Stream!Open, Stream!taking, Stream!page
<1>2. PICK e, f : /\ e = Stream!Event("turn.started", <<>>)
                  /\ f = Stream!Event("message.started", <<>>)
  OBVIOUS
<1>3. /\ e \in Stream!Events /\ e.kind = "turn.started" /\ e.turn = streamed
      /\ f \in Stream!Events /\ f.kind = "message.started" /\ f.turn = streamed
  BY <1>1, <1>2, NothingIsText, EventIsEvent
     DEF StreamInv, StreamTypes, Numbered, Stream!Kinds, Stream!Event
<1>4. PICK events \in Seq(Stream!Events) :
        events = <<e, f>> /\ Len(events) = 2 /\ events[1] = e /\ events[2] = f
  <2>1. /\ <<e, f>> \in Seq(Stream!Events) /\ Len(<<e, f>>) = 2
        /\ <<e, f>>[1] = e /\ <<e, f>>[2] = f
    BY <1>3
  <2> QED
    BY <2>1
<1>5. ~missed /\ queue' = queue \o events
  BY <1>2, <1>4, PublishAdds DEF Stream!Open, StreamInv, StreamTypes
<1>6. /\ n \in Nat /\ DOMAIN queue = 1..n /\ DOMAIN queue' = 1..(n + 2)
      /\ \A q \in DOMAIN queue : queue'[q] = queue[q]
      /\ queue'[n + 1] = e /\ queue'[n + 2] = f
  <2>1. queue \in Seq(Stream!Events) /\ n \in Nat /\ DOMAIN queue = 1..n
    BY DEF StreamInv, StreamTypes, Stream!TypeOK
  <2>2. /\ queue' \in Seq(Stream!Events) /\ Len(queue') = n + 2
        /\ \A i \in 1..(n + 2) : queue'[i] = IF i <= n THEN queue[i] ELSE events[i - n]
    BY <1>4, <1>5, <2>1, ConcatProperties
  <2> HIDE DEF n
  <2>3. queue'[n + 1] = events[1] /\ queue'[n + 2] = events[2]
    BY <2>1, <2>2
  <2>4. \A q \in DOMAIN queue : queue'[q] = queue[q]
    BY <2>1, <2>2
  <2> QED
    BY <1>4, <2>1, <2>2, <2>3, <2>4
<1>7. QueuedTurns /\ AnswersCome
  BY <1>5 DEF StreamInv, PageInv
<1>8. streamed \in Nat
  BY SessionsAssumption DEF StreamInv, StreamTypes, Stream!TypeOK
<1> HIDE DEF n
<1>9. QueuedTurns'
  <2>1. ASSUME NEW q \in DOMAIN queue'
        PROVE  /\ queue'[q].turn <= streamed
               /\ queue'[q].kind = "message.completed" => queue'[q].turn < streamed
    <3>1. CASE q \in DOMAIN queue
      BY <1>1, <1>6, <1>7, <3>1 DEF QueuedTurns
    <3>2. CASE q = n + 1 \/ q = n + 2
      BY <1>3, <1>6, <1>8, <3>2
    <3> QED
      BY <1>6, <3>1, <3>2
  <2> QED
    BY <1>1, <2>1 DEF QueuedTurns
<1>10. BusyTells'
  <2>1. /\ n + 1 \in DOMAIN queue' /\ queue'[n + 1].kind \in BusyKinds
        /\ SaysBusy(queue'[n + 1])
    BY <1>3, <1>6 DEF BusyKinds, SaysBusy
  <2>2. \A r \in DOMAIN queue' : r > n + 1 => queue'[r].kind \notin BusyKinds
    <3>1. \A r \in DOMAIN queue' : r > n + 1 => r = n + 2
      BY <1>6
    <3> QED
      BY <1>3, <1>6, <3>1 DEF BusyKinds
  <2>3. LastSays(step # "none")'
    BY <1>1, <2>1, <2>2 DEF LastSays, SaysBusy
  <2> QED
    BY <2>3 DEF BusyTells
<1>11. TextComes'
  BY <1>1 DEF TextComes, StreamInv, Progress
<1>12. AnswersCome'
  <2>1. ASSUME NEW t \in (since + 1)..streamed, answers[t] # {} PROVE Answered(t)'
    <3>1. t # streamed
      <4>1. streamed \in Stream!Turns
        BY <1>1, SessionsAssumption DEF StreamInv, StreamTypes, Numbered, Stream!TypeOK, Stream!Turns
      <4> QED
        BY <1>1, <2>1, <4>1 DEF StreamInv, Progress
    <3>2. ASSUME NEW q \in DOMAIN queue \cup {0}, LastOn(q, t) PROVE LastOn(q, t)'
      <4>1. ASSUME NEW r \in DOMAIN queue', r > q, queue'[r].turn = t
            PROVE  queue'[r].kind \notin RowKinds
        <5>1. r \in DOMAIN queue
          BY <1>3, <1>6, <3>1, <4>1
        <5> QED
          BY <1>6, <3>2, <4>1, <5>1 DEF LastOn
      <4> QED
        BY <4>1 DEF LastOn
    <3>3. Answered(t)
      BY <1>7, <2>1 DEF AnswersCome
    <3>4. ASSUME NEW q \in DOMAIN queue, Answers(q, t), LastOn(q, t)
          PROVE  q \in DOMAIN queue' /\ Answers(q, t)' /\ LastOn(q, t)'
      BY <1>1, <1>6, <3>2, <3>4 DEF Answers
    <3> QED
      BY <1>1, <3>2, <3>3, <3>4 DEF Answered
  <2> QED
    BY <1>1, <2>1 DEF AnswersCome
<1> QED
  BY <1>9, <1>10, <1>11, <1>12

\* Which piece comes next does not change what comes of the others.
LEMMA AddingKeepsQueued ==
  ASSUME NEW event, Adds(event), QueuedTurns, streamed \in Nat,
         event.turn = streamed, event.kind # "message.completed" \/ step' = "answered",
         step' \in {"reserved", "streaming"} => step' = step, streamed' = streamed
  PROVE  QueuedTurns'
<1>1. ASSUME NEW q \in DOMAIN queue'
      PROVE  /\ queue'[q].turn <= streamed
             /\ queue'[q].kind = "message.completed" /\ step' \in {"reserved", "streaming"} =>
                  queue'[q].turn < streamed
  <2>1. CASE q \in DOMAIN queue
    BY <2>1 DEF QueuedTurns, Adds
  <2>2. CASE q = Len(queue) + 1
    BY <2>2 DEF Adds
  <2> QED
    BY <2>1, <2>2 DEF Adds
<1> QED
  BY <1>1 DEF QueuedTurns

\* An event that tells whether the turn is in progress is the last that does.
LEMMA AddingTells ==
  ASSUME NEW event, Adds(event), event.kind \in BusyKinds,
         SaysBusy(event) <=> step' # "none"
  PROVE  BusyTells'
<1>1. /\ Len(queue) + 1 \in DOMAIN queue' /\ queue'[Len(queue) + 1] = event
      /\ \A r \in DOMAIN queue' : ~(r > Len(queue) + 1)
  BY DEF Adds
<1>2. LastSays(step # "none")'
  BY <1>1 DEF LastSays, SaysBusy
<1> QED
  BY <1>2 DEF BusyTells

\* One that does not leaves it to the others.
LEMMA AddingLeavesTelling ==
  ASSUME NEW event, Adds(event), event.kind \notin BusyKinds, BusyTells,
         step # "reserved", step # "none", step' # "none", UNCHANGED <<socket, busy>>
  PROVE  BusyTells'
<1>1. LastSays(TRUE)
  BY DEF BusyTells, LastSays
<1>2. \A r \in DOMAIN queue' : r \in DOMAIN queue \/ r = Len(queue) + 1
  BY DEF Adds
<1>3. CASE \A r \in DOMAIN queue : queue[r].kind \notin BusyKinds
  <2>1. \A r \in DOMAIN queue' : queue'[r].kind \notin BusyKinds
    BY <1>2, <1>3 DEF Adds
  <2>2. socket = "serving" => busy
    BY <1>1, <1>3 DEF LastSays
  <2> QED
    BY <2>1, <2>2 DEF BusyTells, LastSays
<1>4. ASSUME NEW q \in DOMAIN queue, queue[q].kind \in BusyKinds, SaysBusy(queue[q]),
             \A r \in DOMAIN queue : r > q => queue[r].kind \notin BusyKinds
      PROVE  BusyTells'
  <2>1. q \in DOMAIN queue' /\ queue'[q] = queue[q]
    BY DEF Adds
  <2>2. \A r \in DOMAIN queue' : r > q => queue'[r].kind \notin BusyKinds
    BY <1>2, <1>4 DEF Adds
  <2> QED
    BY <1>4, <2>1, <2>2 DEF BusyTells, LastSays, SaysBusy
<1> QED
  BY <1>1, <1>3, <1>4 DEF LastSays

\* While the turn streams it has no answer.
LEMMA NoAnswerYet ==
  ASSUME StreamInv, step \in {"reserved", "streaming"}
  PROVE  answers[streamed] = {}
<1>1. streamed \in Stream!Turns
  BY SessionsAssumption DEF StreamInv, StreamTypes, Numbered, Stream!TypeOK, Stream!Turns
<1> QED
  BY <1>1 DEF StreamInv, Progress

\* A piece of text.
LEMMA DeltaKeeps ==
  ASSUME StreamInv, Stream!Delta
  PROVE  PageInv'
<1> SUFFICES ASSUME socket # "away", ~missed'
             PROVE  QueuedTurns' /\ BusyTells' /\ TextComes' /\ AnswersCome'
  BY DEF PageInv, Stream!Delta, Stream!taking
<1>1. /\ step = "streaming" /\ pieces < MaxDeltas
      /\ pieces' = pieces + 1 /\ said' = Append(said, pieces')
      /\ UNCHANGED <<step, streamed, answers, socket, since, shownRows, history, busy>>
  BY DEF Stream!Delta, Stream!taking, Stream!page
<1>2. PICK piece : piece = pieces'
  OBVIOUS
<1>3. piece \in 1..MaxDeltas /\ <<piece>> \in Stream!Texts
  BY <1>1, <1>2, SessionsAssumption DEF StreamInv, StreamTypes, Stream!TypeOK, Stream!Texts
<1>4. PICK event : event = Stream!Event("message.delta", <<piece>>)
  OBVIOUS
<1>5. /\ event \in Stream!Events /\ event.kind = "message.delta" /\ event.turn = streamed
      /\ event.text = <<piece>>
  BY <1>1, <1>3, <1>4, EventIsEvent
     DEF StreamInv, StreamTypes, Numbered, Stream!Kinds, Stream!Event
<1>6. ~missed /\ Adds(event)
  BY <1>2, <1>4, <1>5, PublishedOne DEF Stream!Delta, StreamInv
<1>7. QueuedTurns /\ BusyTells /\ TextComes /\ AnswersCome
  BY <1>6 DEF StreamInv, PageInv
<1>8. QueuedTurns'
  BY <1>1, <1>5, <1>6, <1>7, AddingKeepsQueued, SessionsAssumption
     DEF StreamInv, StreamTypes, Stream!TypeOK
<1>9. BusyTells'
  BY <1>1, <1>5, <1>6, AddingTells DEF BusyKinds, SaysBusy
<1>10. TextComes'
  <2>1. said \in Seq(1..MaxDeltas)
    BY DEF StreamInv, StreamTypes, Stream!TypeOK, Stream!Texts
  <2>2. said' = Append(said, piece) /\ Len(said) \in Nat /\ DOMAIN said = 1..Len(said)
        /\ DOMAIN said' = 1..(Len(said) + 1)
    BY <1>1, <1>2, <2>1
  <2>3. ASSUME socket = "serving", NEW i \in DOMAIN said', NEW p, p = said'[i]
        PROVE  Shows(p)' \/ \E q \in DOMAIN queue' : Brings(q, p)'
    <3>1. CASE i \in DOMAIN said
      <4>1. p = said[i]
        BY <2>1, <2>2, <2>3, <3>1
      <4>2. Shows(p) \/ \E q \in DOMAIN queue : Brings(q, p)
        BY <1>1, <1>7, <2>3, <3>1, <4>1 DEF TextComes
      <4>3. Shows(p) => Shows(p)'
        BY <1>1 DEF Shows
      <4>4. ASSUME NEW q \in DOMAIN queue, Brings(q, p)
            PROVE  q \in DOMAIN queue' /\ Brings(q, p)'
        BY <1>1, <1>6, <4>4 DEF Adds, Brings
      <4> QED
        BY <4>2, <4>3, <4>4
    <3>2. CASE i = Len(said) + 1
      <4>1. p = piece
        BY <2>1, <2>2, <2>3, <3>2
      <4>2. PICK q \in DOMAIN queue' : queue'[q] = event
        BY <1>6 DEF Adds
      <4>3. Brings(q, p)'
        BY <1>1, <1>5, <4>1, <4>2 DEF Brings
      <4> QED
        BY <4>2, <4>3
    <3> QED
      BY <2>2, <2>3, <3>1, <3>2
  <2> QED
    BY <1>1, <2>3 DEF TextComes
<1>11. AnswersCome'
  <2>1. PICK T : T = {t \in (since + 1)..streamed : answers[t] # {}}
    OBVIOUS
  <2>2. streamed \notin T
    BY <1>1, <2>1, NoAnswerYet
  <2>3. \A t \in T : answers'[t] = answers[t] => Answered(t)'
    BY <1>1, <1>5, <1>6, <1>7, <2>1, <2>2, AddingKeepsAnswers
  <2> QED
    BY <1>1, <2>1, <2>3 DEF AnswersCome
<1> QED
  BY <1>8, <1>9, <1>10, <1>11

\* A tool has run: the text is begun anew.
LEMMA ToolKeeps ==
  ASSUME StreamInv, Stream!Tool
  PROVE  PageInv'
<1> SUFFICES ASSUME socket # "away", ~missed'
             PROVE  QueuedTurns' /\ BusyTells' /\ TextComes' /\ AnswersCome'
  BY DEF PageInv, Stream!Tool, Stream!taking
<1>1. /\ step = "streaming" /\ said' = <<>>
      /\ UNCHANGED <<step, streamed, answers, socket, since, shownRows, history, busy>>
  BY DEF Stream!Tool, Stream!taking, Stream!page
<1>2. PICK event : event = Stream!Event("tool.completed", <<>>)
  OBVIOUS
<1>3. event \in Stream!Events /\ event.kind = "tool.completed" /\ event.turn = streamed
  BY <1>1, <1>2, NothingIsText, EventIsEvent
     DEF StreamInv, StreamTypes, Numbered, Stream!Kinds, Stream!Event
<1>4. ~missed /\ Adds(event)
  BY <1>2, <1>3, PublishedOne DEF Stream!Tool, StreamInv
<1>5. QueuedTurns /\ BusyTells /\ AnswersCome
  BY <1>4 DEF StreamInv, PageInv
<1>6. QueuedTurns'
  BY <1>1, <1>3, <1>4, <1>5, AddingKeepsQueued, SessionsAssumption
     DEF StreamInv, StreamTypes, Stream!TypeOK
<1>7. BusyTells'
  BY <1>1, <1>3, <1>4, <1>5, AddingLeavesTelling DEF BusyKinds
<1>8. TextComes'
  BY <1>1 DEF TextComes
<1>9. AnswersCome'
  <2>1. PICK T : T = {t \in (since + 1)..streamed : answers[t] # {}}
    OBVIOUS
  <2>2. \A t \in T : answers'[t] = answers[t] => Answered(t)'
    BY <1>1, <1>3, <1>4, <1>5, <2>1, AddingKeepsAnswers DEF RowKinds
  <2> QED
    BY <1>1, <2>1, <2>2 DEF AnswersCome
<1> QED
  BY <1>6, <1>7, <1>8, <1>9

\* The answer.
LEMMA AnswerKeeps ==
  ASSUME StreamInv, Stream!Answer
  PROVE  PageInv'
<1> SUFFICES ASSUME socket # "away", ~missed'
             PROVE  QueuedTurns' /\ BusyTells' /\ TextComes' /\ AnswersCome'
  BY DEF PageInv, Stream!Answer, Stream!taking
<1>1. /\ step = "streaming" /\ step' = "answered"
      /\ answers' = [answers EXCEPT ![streamed] = {said}]
      /\ UNCHANGED <<streamed, said, socket, since, shownRows, history, busy>>
  BY DEF Stream!Answer, Stream!taking, Stream!page
<1>2. PICK event : event = Stream!Event("message.completed", said)
  OBVIOUS
<1>3. /\ event \in Stream!Events /\ event.kind = "message.completed"
      /\ event.turn = streamed /\ event.text = said
  BY <1>1, <1>2, EventIsEvent
     DEF StreamInv, StreamTypes, Numbered, Stream!Kinds, Stream!Event, Stream!TypeOK
<1>4. ~missed /\ Adds(event)
  BY <1>2, <1>3, PublishedOne DEF Stream!Answer, StreamInv
<1>5. QueuedTurns /\ BusyTells /\ AnswersCome
  BY <1>4 DEF StreamInv, PageInv
<1>6. streamed \in Nat /\ streamed \in Stream!Turns /\ answers \in [Stream!Turns -> SUBSET Stream!Texts]
      /\ since \in Nat
  BY <1>1, SessionsAssumption
     DEF StreamInv, StreamTypes, Numbered, Stream!TypeOK, Stream!Turns
<1>7. QueuedTurns'
  BY <1>1, <1>3, <1>4, <1>5, <1>6, AddingKeepsQueued
<1>8. BusyTells'
  BY <1>1, <1>3, <1>4, <1>5, AddingLeavesTelling DEF BusyKinds
<1>9. TextComes'
  BY <1>1 DEF TextComes
<1>10. AnswersCome'
  <2>1. PICK T : T = {t \in (since + 1)..streamed : answers[t] # {}}
    OBVIOUS
  <2>2. streamed \notin T
    BY <1>1, <2>1, NoAnswerYet
  <2>3. \A t \in T : answers'[t] = answers[t] => Answered(t)'
    BY <1>1, <1>3, <1>4, <1>5, <2>1, <2>2, AddingKeepsAnswers
  <2>4. ASSUME NEW t \in (since + 1)..streamed, answers'[t] # {}, t # streamed
        PROVE  Answered(t)'
    <3>1. answers'[t] = answers[t]
      BY <1>1, <1>6, <2>4
    <3> QED
      BY <2>1, <2>3, <2>4, <3>1
  <2>5. Answered(streamed)'
    <3>1. PICK q \in DOMAIN queue' :
            queue'[q] = event /\ \A r \in DOMAIN queue' : ~(r > q)
      BY <1>4 DEF Adds
    <3>2. answers'[streamed] = {said}
      BY <1>1, <1>6
    <3>3. Answers(q, streamed)' /\ LastOn(q, streamed)'
      BY <1>1, <1>3, <3>1, <3>2 DEF Answers, LastOn
    <3> QED
      BY <3>1, <3>3 DEF Answered
  <2> QED
    BY <1>1, <2>4, <2>5 DEF AnswersCome
<1> QED
  BY <1>7, <1>8, <1>9, <1>10

\* The end of the turn.
LEMMA EndTurnKeeps ==
  ASSUME StreamInv, Stream!EndTurn
  PROVE  PageInv'
<1> SUFFICES ASSUME socket # "away", ~missed'
             PROVE  QueuedTurns' /\ BusyTells' /\ TextComes' /\ AnswersCome'
  BY DEF PageInv, Stream!EndTurn, Stream!taking
<1>1. /\ step # "none" /\ step' = "none"
      /\ UNCHANGED <<streamed, said, answers, socket, since, shownRows, history, busy>>
  BY DEF Stream!EndTurn, Stream!taking, Stream!page
<1>2. PICK kind \in {"turn.completed", "turn.failed"} :
        Stream!Publish(<<Stream!Event(kind, <<>>)>>)
  BY DEF Stream!EndTurn
<1>2a. PICK event : event = Stream!Event(kind, <<>>)
  OBVIOUS
<1>3. event \in Stream!Events /\ event.kind = kind /\ event.turn = streamed
  BY <1>1, <1>2, <1>2a, NothingIsText, EventIsEvent
     DEF StreamInv, StreamTypes, Numbered, Stream!Kinds, Stream!Event
<1>4. ~missed /\ Adds(event)
  BY <1>2, <1>2a, <1>3, PublishedOne DEF StreamInv
<1>5. QueuedTurns /\ BusyTells /\ AnswersCome
  BY <1>4 DEF StreamInv, PageInv
<1>6. QueuedTurns'
  BY <1>1, <1>2, <1>3, <1>4, <1>5, AddingKeepsQueued, SessionsAssumption
     DEF StreamInv, StreamTypes, Stream!TypeOK
<1>7. BusyTells'
  BY <1>1, <1>2, <1>3, <1>4, AddingTells DEF BusyKinds, SaysBusy
<1>8. TextComes'
  BY <1>1 DEF TextComes
<1>9. AnswersCome'
  <2>1. PICK T : T = {t \in (since + 1)..streamed : answers[t] # {}}
    OBVIOUS
  <2>2. \A t \in T : answers'[t] = answers[t] => Answered(t)'
    BY <1>1, <1>2, <1>3, <1>4, <1>5, <2>1, AddingKeepsAnswers DEF RowKinds
  <2> QED
    BY <1>1, <2>1, <2>2 DEF AnswersCome
<1> QED
  BY <1>6, <1>7, <1>8, <1>9

\* The page has taken what was first.
Takes(event) ==
  /\ Len(queue) \in Nat \ {0} /\ DOMAIN queue = 1..Len(queue)
  /\ DOMAIN queue' = 1..(Len(queue) - 1)
  /\ event = queue[1]
  /\ \A q \in DOMAIN queue' : queue'[q] = queue[q + 1]

LEMMA ForwardTakes ==
  ASSUME StreamTypes, Stream!Forward
  PROVE  \E event \in Stream!Events :
           /\ Takes(event)
           /\ shownRows' = [shownRows EXCEPT ![event.turn] = Stream!RowOf(event)]
           /\ busy' = Stream!BusyAfter(event)
<1>1. queue \in Seq(Stream!Events) /\ queue # <<>> /\ queue' = Tail(queue)
  BY DEF Stream!Forward, StreamTypes, Stream!TypeOK
<1>2. /\ Head(queue) \in Stream!Events /\ Len(queue') = Len(queue) - 1
      /\ queue' \in Seq(Stream!Events)
      /\ \A q \in 1..Len(queue') : queue'[q] = queue[q + 1]
  BY <1>1, HeadTailProperties
<1>3. Len(queue) \in Nat \ {0} /\ DOMAIN queue = 1..Len(queue) /\ Head(queue) = queue[1]
  BY <1>1
<1>4. DOMAIN queue' = 1..(Len(queue) - 1)
  BY <1>2, <1>3
<1>5. Takes(Head(queue))
  BY <1>2, <1>3, <1>4 DEF Takes
<1> QED
  BY <1>2, <1>5 DEF Stream!Forward

\* What the page takes has its place on it.
LEMMA ForwardKeeps ==
  ASSUME StreamInv, Stream!Forward
  PROVE  PageInv'
<1>1. /\ socket = "serving"
      /\ UNCHANGED <<step, streamed, said, answers, socket, since, history, missed>>
  BY DEF Stream!Forward, Stream!worker, Stream!taking
<1> SUFFICES ASSUME ~missed
             PROVE  QueuedTurns' /\ BusyTells' /\ TextComes' /\ AnswersCome'
  BY <1>1 DEF PageInv
<1>2. PICK event \in Stream!Events :
        /\ Takes(event)
        /\ shownRows' = [shownRows EXCEPT ![event.turn] = Stream!RowOf(event)]
        /\ busy' = Stream!BusyAfter(event)
  BY ForwardTakes DEF StreamInv
<1>3. QueuedTurns /\ BusyTells /\ TextComes /\ AnswersCome
  BY <1>1 DEF StreamInv, PageInv
<1>4. /\ event.turn \in Stream!Turns /\ event.text \in Stream!Texts /\ event.kind \in Stream!Kinds
      /\ shownRows \in [Stream!Turns -> SUBSET Stream!Texts]
      /\ Stream!Turns = 1..MaxStreamed /\ MaxStreamed \in Nat
      /\ streamed \in 0..MaxStreamed /\ since \in Nat
  BY SessionsAssumption DEF Stream!Events, StreamInv, StreamTypes, Stream!TypeOK, Stream!Turns
<1>5. /\ 1 \in DOMAIN queue /\ queue[1] = event
      /\ \A q \in DOMAIN queue : q = 1 \/ (q - 1 \in DOMAIN queue' /\ queue'[q - 1] = queue[q])
      /\ \A q \in DOMAIN queue' : q + 1 \in DOMAIN queue /\ queue'[q] = queue[q + 1]
      /\ \A q \in DOMAIN queue : q \in Nat
      /\ \A q \in DOMAIN queue' : q \in Nat /\ q > 0
  BY <1>2 DEF Takes
<1>6. QueuedTurns'
  BY <1>1, <1>3, <1>5 DEF QueuedTurns
<1>7. BusyTells'
  <2> SUFFICES ASSUME step # "reserved" PROVE LastSays(step # "none")'
    BY <1>1 DEF BusyTells
  <2>1. LastSays(step # "none")
    BY <1>3 DEF BusyTells
  <2>2. CASE \A r \in DOMAIN queue : queue[r].kind \notin BusyKinds
    <3>1. \A r \in DOMAIN queue' : queue'[r].kind \notin BusyKinds
      BY <1>5, <2>2
    <3>2. busy' = busy
      BY <1>2, <1>5, <2>2 DEF Stream!BusyAfter, BusyKinds
    <3>3. busy <=> step # "none"
      BY <1>1, <2>1, <2>2 DEF LastSays
    <3> QED
      BY <1>1, <3>1, <3>2, <3>3 DEF LastSays
  <2>3. ASSUME NEW q \in DOMAIN queue, queue[q].kind \in BusyKinds,
               SaysBusy(queue[q]) <=> step # "none",
               \A r \in DOMAIN queue : r > q => queue[r].kind \notin BusyKinds
        PROVE  LastSays(step # "none")'
    <3>1. CASE q = 1
      <4>1. \A r \in DOMAIN queue' : queue'[r].kind \notin BusyKinds
        BY <1>5, <2>3, <3>1
      <4>2. busy' <=> step # "none"
        BY <1>2, <1>5, <2>3, <3>1 DEF Stream!BusyAfter, BusyKinds, SaysBusy
      <4> QED
        BY <1>1, <4>1, <4>2 DEF LastSays
    <3>2. CASE q # 1
      <4>1. PICK p \in DOMAIN queue' : p = q - 1 /\ queue'[p] = queue[q]
        BY <1>5, <3>2
      <4>2. \A r \in DOMAIN queue' : r > p => queue'[r].kind \notin BusyKinds
        BY <1>5, <2>3, <4>1
      <4> QED
        BY <1>1, <2>3, <4>1, <4>2 DEF LastSays, SaysBusy
    <3> QED
      BY <3>1, <3>2
  <2> QED
    BY <2>1, <2>2, <2>3 DEF LastSays
<1>8. TextComes'
  <2> SUFFICES ASSUME step = "streaming", NEW i \in DOMAIN said, NEW p, p = said[i]
               PROVE  Shows(p)' \/ \E q \in DOMAIN queue' : Brings(q, p)'
    BY <1>1 DEF TextComes
  <2>1. Shows(p) \/ \E q \in DOMAIN queue : Brings(q, p)
    BY <1>1, <1>3 DEF TextComes
  <2>2. streamed \in Stream!Turns
    BY <1>4 DEF StreamInv, StreamTypes, Numbered
  <2>3. event.turn = streamed => event.kind # "message.completed"
    BY <1>3, <1>4, <1>5 DEF QueuedTurns
  <2>4. \A q \in DOMAIN queue : Brings(q, p) /\ q # 1 =>
          \E r \in DOMAIN queue' : Brings(r, p)'
    BY <1>1, <1>5 DEF Brings
  <2>5. ASSUME NEW row \in shownRows[streamed], NEW j \in DOMAIN row, row[j] = p
        PROVE  Shows(p)'
    <3>1. CASE event.turn # streamed
      BY <1>1, <1>2, <1>4, <2>2, <2>5, <3>1 DEF Shows
    <3>2. CASE event.turn = streamed /\ event.kind = "message.delta"
      <4>1. shownRows'[streamed] = {text \o event.text : text \in shownRows[streamed]}
        BY <1>2, <1>4, <2>2, <2>5, <3>2 DEF Stream!RowOf
      <4>2. /\ row \in Seq(1..MaxDeltas) /\ event.text \in Seq(1..MaxDeltas)
        BY <1>4, <2>2, <2>5 DEF Stream!Texts
      <4>3. j \in DOMAIN (row \o event.text) /\ (row \o event.text)[j] = p
        BY <2>5, <4>2, ConcatProperties
      <4> QED
        BY <1>1, <2>5, <4>1, <4>3 DEF Shows
    <3>3. CASE event.turn = streamed /\ event.kind # "message.delta"
      <4>1. shownRows'[streamed] = shownRows[streamed]
        BY <1>2, <1>4, <2>2, <2>3, <2>5, <3>3 DEF Stream!RowOf
      <4> QED
        BY <1>1, <2>5, <4>1 DEF Shows
    <3> QED
      BY <3>1, <3>2, <3>3
  <2>6. ASSUME Brings(1, p) PROVE Shows(p)'
    <3>1. event.kind = "message.delta" /\ event.turn = streamed /\ event.text = <<p>>
      BY <1>5, <2>6 DEF Brings
    <3>2. CASE shownRows[streamed] = {}
      <4>1. shownRows'[streamed] = {<<p>>}
        BY <1>2, <1>4, <2>2, <3>1, <3>2 DEF Stream!RowOf
      <4>2. 1 \in DOMAIN <<p>> /\ <<p>>[1] = p
        OBVIOUS
      <4> QED
        BY <1>1, <4>1, <4>2 DEF Shows
    <3>3. ASSUME NEW row \in shownRows[streamed] PROVE Shows(p)'
      <4>1. shownRows'[streamed] = {text \o event.text : text \in shownRows[streamed]}
        BY <1>2, <1>4, <2>2, <3>1, <3>3 DEF Stream!RowOf
      <4>2. row \in Seq(1..MaxDeltas) /\ event.text \in Seq(1..MaxDeltas)
        BY <1>4, <2>2, <3>3 DEF Stream!Texts
      <4>3. Len(event.text) = 1 /\ event.text[1] = p
        BY <3>1
      <4>4. PICK j : j = Len(row) + 1
        OBVIOUS
      <4>5. j \in DOMAIN (row \o event.text) /\ (row \o event.text)[j] = p
        BY <4>2, <4>3, <4>4, ConcatProperties
      <4> QED
        BY <1>1, <3>3, <4>1, <4>5 DEF Shows
    <3> QED
      BY <3>2, <3>3
  <2> QED
    BY <2>1, <2>4, <2>5, <2>6 DEF Shows
<1>9. AnswersCome'
  <2> SUFFICES ASSUME NEW t \in (since + 1)..streamed, answers[t] # {}
               PROVE  Answered(t)'
    BY <1>1 DEF AnswersCome
  <2>1. Answered(t) /\ t \in Stream!Turns
    BY <1>3, <1>4 DEF AnswersCome
  <2>2. ASSUME NEW q \in DOMAIN queue, Answers(q, t), LastOn(q, t) PROVE Answered(t)'
    <3>1. CASE q = 1
      <4>1. shownRows'[t] = answers[t]
        <5>1. event.kind = "message.completed" /\ event.turn = t /\ answers[t] = {event.text}
          BY <1>5, <2>2, <3>1 DEF Answers
        <5> QED
          BY <1>2, <1>4, <2>1, <5>1 DEF Stream!RowOf
      <4>2. LastOn(0, t)'
        BY <1>5, <2>2, <3>1 DEF LastOn
      <4> QED
        BY <1>1, <4>1, <4>2 DEF Answered
    <3>2. CASE q # 1
      <4>1. PICK p \in DOMAIN queue' : p = q - 1 /\ queue'[p] = queue[q]
        BY <1>5, <3>2
      <4>2. LastOn(p, t)'
        BY <1>5, <2>2, <4>1 DEF LastOn
      <4>3. Answers(p, t)'
        BY <1>1, <2>2, <4>1 DEF Answers
      <4> QED
        BY <4>2, <4>3 DEF Answered
    <3> QED
      BY <3>1, <3>2
  <2>3. ASSUME shownRows[t] = answers[t], LastOn(0, t) PROVE Answered(t)'
    <3>1. LastOn(0, t)'
      BY <1>5, <2>3 DEF LastOn
    <3>2. event.turn = t => event.kind \notin RowKinds
      BY <1>5, <2>3 DEF LastOn
    <3>3. shownRows'[t] = shownRows[t]
      BY <1>2, <1>4, <2>1, <3>2 DEF Stream!RowOf, RowKinds
    <3> QED
      BY <1>1, <2>3, <3>1, <3>3 DEF Answered
  <2>4. t \in history => Answered(t)'
    BY <1>1 DEF Answered
  <2> QED
    BY <2>1, <2>2, <2>3, <2>4 DEF Answered
<1> QED
  BY <1>6, <1>7, <1>8, <1>9

\* Every step keeps the invariant.
LEMMA StreamStepKeeps ==
  ASSUME StreamInv, [Stream!Next]_(Stream!vars)
  PROVE  StreamInv'
<1>1. StreamTypes' /\ Progress'
  BY StreamTypesStay, ProgressStays DEF StreamInv
<1>2. CASE UNCHANGED Stream!vars
  <2>1. UNCHANGED <<step, streamed, said, answers, queue, missed, socket, since, busy,
                    shownRows, history>>
    BY <1>2 DEF Stream!vars, Stream!worker, Stream!channel, Stream!taking, Stream!page
  <2> QED
    BY <1>1, <2>1 DEF StreamInv, PageInv, QueuedTurns, BusyTells, LastSays, SaysBusy,
                      TextComes, Shows, Brings, AnswersCome, Answered, Answers, LastOn
<1>3. CASE Stream!Leave
  BY <1>1, <1>3 DEF Stream!Leave, StreamInv, PageInv
<1> QED
  BY <1>1, <1>2, <1>3, SubscribeKeeps, BetweenKeeps, HydrateKeeps, OpenKeeps, DeltaKeeps,
     ToolKeeps, AnswerKeeps, EndTurnKeeps, ForwardKeeps DEF Stream!Next, StreamInv

LEMMA AlwaysStreamInv == Stream!Spec => []StreamInv
<1>1. Stream!Init => StreamInv
  <2>1. Stream!Init => Progress /\ PageInv
    BY DEF Stream!Init, Progress, PageInv, Stream!NoRows
  <2> QED
    BY <2>1, StreamTypesInit DEF StreamInv
<1>2. StreamInv /\ [Stream!Next]_(Stream!vars) => StreamInv'
  BY StreamStepKeeps
<1> QED
  BY <1>1, <1>2, PTL DEF Stream!Spec

\* Wherever a snapshot fell between the events of a turn: once the socket that
\* missed nothing has forwarded what it had, the page shows a turn if one is in
\* progress, every piece of its text, and each answer given since it subscribed
\* (publish_runtime_event, subscribe before snapshot_data).
THEOREM PageShowsTurn == Stream!Spec => []PageKeepsUp
<1>1. StreamInv => PageKeepsUp
  <2> SUFFICES ASSUME StreamInv, socket = "serving", queue = <<>>, ~missed
               PROVE  /\ step # "reserved" => busy = (running # {})
                      /\ step = "streaming" =>
                           \A text \in running : \A i \in DOMAIN text :
                             \E row \in shownRows[streamed] : \E j \in DOMAIN row : row[j] = text[i]
                      /\ \A t \in (since + 1)..streamed :
                           answers[t] # {} => shownRows[t] = answers[t] \/ t \in history
    BY DEF PageKeepsUp, Stream!PageKeepsUp
  <2>1. DOMAIN queue = {}
    OBVIOUS
  <2>2. BusyTells /\ TextComes /\ AnswersCome
    BY DEF StreamInv, PageInv
  <2>3. running = IF step = "none" THEN {} ELSE {said}
    BY DEF StreamInv, Progress
  <2>4. step # "reserved" => busy = (running # {})
    <3>1. busy \in BOOLEAN
      BY DEF StreamInv, StreamTypes, Stream!TypeOK
    <3> QED
      BY <2>1, <2>2, <2>3, <3>1 DEF BusyTells, LastSays
  <2>5. step = "streaming" => \A i \in DOMAIN said : Shows(said[i])
    BY <2>1, <2>2 DEF TextComes
  <2>6. \A t \in (since + 1)..streamed :
          answers[t] # {} => shownRows[t] = answers[t] \/ t \in history
    BY <2>1, <2>2 DEF AnswersCome, Answered
  <2> QED
    BY <2>3, <2>4, <2>5, <2>6 DEF Shows
<1> QED
  BY AlwaysStreamInv, <1>1, PTL

-----------------------------------------------------------------------------
(* The watch of a task (TaskWatch).                                        *)

\* A set of numbers up to a bound has a greatest one.
LEMMA LastIsGreatest ==
  ASSUME NEW N \in Nat, NEW T, T \subseteq 0..N
  PROVE  /\ Watch!LastOf(T) \in T \cup {0}
         /\ \A m \in T : m <= Watch!LastOf(T)
<1>1. CASE T = {}
  BY <1>1 DEF Watch!LastOf
<1>2. CASE T # {}
  <2> DEFINE Less == {p \in Nat \X Nat : p[1] < p[2]}
             Below == {N - n : n \in T}
  <2>1. IsWellFoundedOn(Less, Nat)
    BY NatLessThanWellFounded DEF OpToRel
  <2>2. Below \subseteq Nat /\ Below # {}
    <3>1. \A n \in T : N - n \in Nat
      OBVIOUS
    <3> QED
      BY <1>2, <3>1
  <2>3. PICK x \in Below : \A y \in Below : <<y, x>> \notin Less
    <3> HIDE DEF Less, Below
    <3> QED
      BY <2>1, <2>2, WFMin
  <2>4. PICK n \in T : x = N - n
    BY <2>3
  <2>5. ASSUME NEW m \in T PROVE m <= n
    <3>1. N - m \in Below /\ N - m \in Nat /\ x \in Nat
      BY <2>2, <2>3
    <3>2. ~(N - m < x)
      BY <2>3, <3>1
    <3> QED
      BY <2>4, <3>2
  <2> QED
    BY <2>5 DEF Watch!LastOf
<1> QED
  BY <1>1, <1>2

\* The events of a task that the page has come in order, and are its first.
InOrder(t) ==
  /\ \A i, j \in DOMAIN shown[t] : i < j => shown[t][i] < shown[t][j]
  /\ Watch!Had(t) \subseteq Watch!Events(t, 0)
  /\ \A n \in Watch!Had(t), m \in Watch!Events(t, 0) : m <= n => m \in Watch!Had(t)

\* What a watch has read is what the page has and what is to be sent.
ReadUpTo(w) ==
  /\ w.last \in {0} \cup Watch!Events(w.task, 0)
  /\ Watch!Had(w.task) \cup out = {n \in Watch!Events(w.task, 0) : n <= w.last}
  /\ \A n \in out, m \in Watch!Had(w.task) : m < n

WatchInv ==
  /\ Watch!TypeOK
  /\ \A w, v \in watch : w = v
  /\ \A c, d \in command : c = d
  /\ \A t \in Tasks : InOrder(t)
  /\ handling # "sending" => out = {}
  /\ \A c \in command : c.after \in {0} \cup Watch!Had(c.task)
  /\ \A w \in watch : ReadUpTo(w)

LEMMA WatchInit == Watch!Init => WatchInv
  BY SessionsAssumption DEF Watch!Init, WatchInv, Watch!TypeOK, Watch!Numbers, InOrder,
     Watch!Had, Watch!Events

\* From the invariant to the property.
LEMMA WatchInvImplies == WatchInv => Watch!EventsComeOnceInOrder
<1> SUFFICES ASSUME WatchInv PROVE Watch!EventsComeOnceInOrder
  OBVIOUS
<1>1. Len(recorded) \in Nat /\ Watch!Numbers = 1..Len(recorded)
  BY DEF WatchInv, Watch!TypeOK, Watch!Numbers
<1>2. ASSUME NEW t \in Tasks
      PROVE  /\ Watch!Had(t) \subseteq 0..Len(recorded)
             /\ Watch!LastOf(Watch!Had(t)) \in Watch!Had(t) \cup {0}
             /\ \A m \in Watch!Had(t) : m <= Watch!LastOf(Watch!Had(t))
  <2>1. Watch!Had(t) \subseteq 0..Len(recorded)
    BY <1>1 DEF WatchInv, InOrder, Watch!Events
  <2> QED
    BY <1>1, <2>1, LastIsGreatest
<1>3. ASSUME NEW t \in Tasks
      PROVE  Watch!Had(t) = {n \in Watch!Events(t, 0) : n <= Watch!LastOf(Watch!Had(t))}
  <2> DEFINE l == Watch!LastOf(Watch!Had(t))
  <2>1. \A n \in Watch!Events(t, 0) : n \in Nat /\ n > 0
    BY <1>1 DEF Watch!Events
  <2>2. InOrder(t) /\ l \in Nat /\ l \in Watch!Had(t) \cup {0}
    BY <1>2 DEF WatchInv
  <2>3. \A m \in Watch!Had(t) : m \in Watch!Events(t, 0) /\ m <= l
    BY <1>2, <2>2 DEF InOrder
  <2>4. ASSUME NEW n \in Watch!Events(t, 0), n <= l PROVE n \in Watch!Had(t)
    <3> HIDE DEF l
    <3>1. l # 0
      BY <2>1, <2>2, <2>4
    <3> QED
      BY <2>2, <2>4, <3>1 DEF InOrder
  <2> HIDE DEF l
  <2>5. Watch!Had(t) = {n \in Watch!Events(t, 0) : n <= l}
    BY <2>3, <2>4
  <2> QED
    BY <2>5 DEF l
<1>4. ASSUME out = {}, NEW w \in watch
      PROVE  w.last = Watch!LastOf(Watch!Had(w.task))
  <2>1. w.task \in Tasks /\ w.last \in Nat
    BY SessionsAssumption DEF WatchInv, Watch!TypeOK
  <2>2. Watch!Had(w.task) = {n \in Watch!Events(w.task, 0) : n <= w.last}
    BY <1>4 DEF WatchInv, ReadUpTo
  <2>3. w.last \in {0} \cup Watch!Had(w.task)
    BY <2>1, <2>2 DEF WatchInv, ReadUpTo
  <2> DEFINE l == Watch!LastOf(Watch!Had(w.task))
  <2>4. l \in Nat /\ l <= w.last
    <3>1. l \in Watch!Had(w.task) \cup {0}
      BY <1>2, <2>1
    <3> HIDE DEF l
    <3>2. \A n \in Watch!Events(w.task, 0) : n \in Nat
      BY <1>1 DEF Watch!Events
    <3> QED
      BY <2>1, <2>2, <3>1, <3>2
  <2>5. w.last <= l
    <3> HIDE DEF l
    <3>1. CASE w.last = 0
      BY <2>4, <3>1
    <3>2. CASE w.last \in Watch!Had(w.task)
      BY <1>2, <2>1, <3>2 DEF l
    <3> QED
      BY <2>3, <3>1, <3>2
  <2> QED
    BY <2>1, <2>4, <2>5
<1> QED
  BY <1>3, <1>4 DEF Watch!EventsComeOnceInOrder, WatchInv, InOrder

\* An event that is recorded comes after all there are.
LEMMA RecordKeeps ==
  ASSUME WatchInv, NEW t \in Tasks, Watch!Record(t)
  PROVE  WatchInv'
<1>1. /\ recorded \in Seq(Tasks) /\ recorded' = Append(recorded, t)
      /\ Len(recorded) < MaxEvents /\ MaxEvents \in Nat
      /\ UNCHANGED <<handling, command, out, watch, shown>>
  BY SessionsAssumption DEF WatchInv, Watch!TypeOK, Watch!Record, Watch!handler
<1>2. /\ recorded' \in Seq(Tasks) /\ Len(recorded') = Len(recorded) + 1
      /\ Watch!Numbers = 1..Len(recorded)
      /\ Watch!Numbers' = Watch!Numbers \cup {Len(recorded) + 1}
      /\ \A n \in Watch!Numbers : recorded'[n] = recorded[n]
  BY <1>1 DEF Watch!Numbers
<1>3. Watch!TypeOK'
  <2>1. shown' \in [Tasks -> Seq(Watch!Numbers')]
    <3>1. ASSUME NEW u \in Tasks PROVE shown[u] \in Seq(Watch!Numbers')
      <4>1. shown[u] \in Seq(Watch!Numbers) /\ Watch!Numbers \subseteq Watch!Numbers'
        BY <1>2 DEF WatchInv, Watch!TypeOK
      <4> QED
        BY <4>1, SeqMonotonic
    <3> QED
      BY <1>1, <3>1 DEF WatchInv, Watch!TypeOK
  <2> QED
    BY <1>1, <1>2, <2>1 DEF WatchInv, Watch!TypeOK
<1>4. ASSUME NEW u \in Tasks
      PROVE  /\ Watch!Had(u)' = Watch!Had(u)
             /\ Watch!Had(u) \subseteq Watch!Numbers
             /\ Watch!Events(u, 0) \subseteq Watch!Numbers
             /\ Watch!Events(u, 0) \subseteq Watch!Events(u, 0)'
             /\ Watch!Events(u, 0)' \subseteq Watch!Events(u, 0) \cup {Len(recorded) + 1}
  BY <1>1, <1>2 DEF Watch!Had, Watch!Events, WatchInv, InOrder
<1>5. Len(recorded) \in Nat /\ \A n \in Watch!Numbers : n \in Nat /\ n <= Len(recorded)
  BY <1>1, <1>2
<1>6. ASSUME NEW u \in Tasks PROVE InOrder(u)'
  <2>1. InOrder(u)
    BY DEF WatchInv
  <2>2. \A n \in Watch!Had(u) : ~(Len(recorded) + 1 <= n)
    BY <1>4, <1>5
  <2> QED
    BY <1>1, <1>4, <2>1, <2>2 DEF InOrder
<1>7. ASSUME NEW w \in watch PROVE ReadUpTo(w)'
  <2>1. ReadUpTo(w) /\ w.task \in Tasks
    BY DEF WatchInv, Watch!TypeOK
  <2>2. ~(Len(recorded) + 1 <= w.last)
    <3>1. w.last \in {0} \cup Watch!Numbers
      BY <1>4, <2>1 DEF ReadUpTo
    <3> QED
      BY <1>5, <3>1
  <2> QED
    BY <1>1, <1>4, <2>1, <2>2 DEF ReadUpTo
<1> QED
  BY <1>1, <1>3, <1>4, <1>6, <1>7 DEF WatchInv, Watch!TypeOK

\* What the page has and what is recorded stays when only the watch is changed.
LEMMA WatchCommandKeeps ==
  ASSUME WatchInv, NEW t \in Tasks, NEW after \in 0..MaxEvents, Watch!Watch(t, after)
  PROVE  WatchInv'
<1>1. /\ handling = "idle" /\ handling' = "checked"
      /\ command' = {[task |-> t, after |-> after]}
      /\ after \in {0} \cup UNION {Watch!Had(u) : u \in Tasks}
      /\ after \in {0} \cup {n \in Watch!Numbers : recorded[n] = t}
      /\ UNCHANGED <<recorded, out, watch, shown>>
  BY DEF Watch!Watch, Watch!Cursors, Watch!ValidCursor
<1>2. after \in {0} \cup Watch!Had(t)
  <2>1. ASSUME NEW u \in Tasks, after \in Watch!Had(u), after # 0
        PROVE  u = t
    <3>1. after \in Watch!Events(u, 0)
      BY <2>1 DEF WatchInv, InOrder
    <3> QED
      BY <1>1, <2>1, <3>1 DEF Watch!Events
  <2> QED
    BY <1>1, <2>1
<1>3. Watch!TypeOK'
  BY <1>1 DEF WatchInv, Watch!TypeOK, Watch!Numbers
<1>4. \A u : /\ Watch!Had(u)' = Watch!Had(u) /\ Watch!Events(u, 0)' = Watch!Events(u, 0)
             /\ InOrder(u)' = InOrder(u)
  BY <1>1 DEF Watch!Had, Watch!Events, InOrder, Watch!Numbers
<1>5. \A w : ReadUpTo(w)' = ReadUpTo(w)
  BY <1>1, <1>4 DEF ReadUpTo
<1>6. out = {}
  BY <1>1 DEF WatchInv
<1> QED
  BY <1>1, <1>2, <1>3, <1>4, <1>5, <1>6 DEF WatchInv

\* The steps that read and send nothing.
LEMMA QuietKeeps ==
  ASSUME WatchInv,
         Watch!BootstrapFails \/ Watch!Unwatch \/ Watch!Sent \/ Watch!Reconnect
  PROVE  WatchInv'
<1>1. /\ UNCHANGED <<recorded, shown>>
      /\ handling' = "idle" /\ command' \subseteq command /\ watch' \subseteq watch
      /\ out' = {} /\ (watch' = {} \/ out' = out)
  BY DEF WatchInv, Watch!BootstrapFails, Watch!Unwatch, Watch!Sent, Watch!Reconnect
<1>2. \A u : /\ Watch!Had(u)' = Watch!Had(u) /\ Watch!Events(u, 0)' = Watch!Events(u, 0)
             /\ InOrder(u)' = InOrder(u)
  BY <1>1 DEF Watch!Had, Watch!Events, InOrder, Watch!Numbers
<1>3. ASSUME out' = out, NEW w PROVE ReadUpTo(w)' = ReadUpTo(w)
  BY <1>2, <1>3 DEF ReadUpTo
<1>4. Watch!TypeOK'
  BY <1>1 DEF WatchInv, Watch!TypeOK, Watch!Numbers
<1> QED
  BY <1>1, <1>2, <1>3, <1>4 DEF WatchInv

\* A tick reads what was recorded since the last.
LEMMA TickKeeps ==
  ASSUME WatchInv, Watch!Tick
  PROVE  WatchInv'
<1>1. PICK w \in watch :
        /\ out' = Watch!Events(w.task, w.last)
        /\ watch' = {[w EXCEPT !.last = Watch!LastOf(out')]}
  BY DEF Watch!Tick
<1>2. /\ handling = "idle" /\ handling' = "sending" /\ out = {}
      /\ UNCHANGED <<recorded, command, shown>>
  BY DEF Watch!Tick, WatchInv
<1>3. /\ w.task \in Tasks /\ w.last \in Nat /\ ReadUpTo(w) /\ InOrder(w.task)
      /\ w \in [task : Tasks, last : 0..MaxEvents]
      /\ Watch!Numbers = 1..Len(recorded) /\ Len(recorded) \in Nat /\ Len(recorded) <= MaxEvents
      /\ MaxEvents \in Nat
  BY <1>1, SessionsAssumption DEF WatchInv, Watch!TypeOK, Watch!Numbers
<1>4. \A u : /\ Watch!Had(u)' = Watch!Had(u) /\ Watch!Events(u, 0)' = Watch!Events(u, 0)
             /\ InOrder(u)' = InOrder(u)
  BY <1>2 DEF Watch!Had, Watch!Events, InOrder, Watch!Numbers
<1>5. /\ out' \subseteq 1..Len(recorded) /\ out' # {}
      /\ out' = {n \in Watch!Events(w.task, 0) : n > w.last}
      /\ \A n \in Watch!Events(w.task, 0) : n \in Nat
  BY <1>1, <1>3 DEF Watch!Events, Watch!Tick, Watch!Numbers
<1>5a. PICK l : l = Watch!LastOf(out')
  OBVIOUS
<1>6. /\ l \in out' /\ l \in 1..Len(recorded) /\ \A n \in out' : n <= l
  <2>1. out' \subseteq 0..Len(recorded)
    BY <1>5
  <2>2. l \in out' \cup {0} /\ \A n \in out' : n <= l
    BY <1>3, <1>5a, <2>1, LastIsGreatest
  <2>3. PICK n \in out' : n \in 1..Len(recorded)
    BY <1>5
  <2>4. l # 0
    BY <1>3, <2>2, <2>3
  <2> QED
    BY <1>5, <2>2, <2>4
<1>7. watch' = {[task |-> w.task, last |-> l]}
  BY <1>1, <1>3, <1>5a
<1>8. Watch!TypeOK'
  BY <1>2, <1>3, <1>5, <1>6, <1>7 DEF WatchInv, Watch!TypeOK, Watch!Numbers
<1>9. ReadUpTo([task |-> w.task, last |-> l])'
  <2> DEFINE E == Watch!Events(w.task, 0)
             H == Watch!Had(w.task)
  <2>1. /\ H = {n \in E : n <= w.last} /\ out' = {n \in E : n > w.last}
        /\ \A n \in E : n \in Nat
        /\ w.last \in Nat /\ l \in Nat /\ l \in out' /\ \A n \in out' : n <= l
    BY <1>2, <1>3, <1>5, <1>6 DEF ReadUpTo
  <2> HIDE DEF E, H
  <2>2. l \in E /\ w.last < l
    BY <2>1
  <2>3. H \cup out' = {n \in E : n <= l}
    <3>1. \A n \in E : n <= l => n \in H \cup out'
      BY <2>1
    <3>2. \A n \in H \cup out' : n \in E /\ n <= l
      BY <2>1, <2>2
    <3> QED
      BY <3>1, <3>2
  <2>4. \A n \in out', m \in H : m < n
    BY <2>1
  <2> QED
    BY <1>4, <2>2, <2>3, <2>4 DEF ReadUpTo, E, H
<1> QED
  BY <1>2, <1>4, <1>7, <1>8, <1>9 DEF WatchInv

\* The page takes the next event.
LEMMA SendKeeps ==
  ASSUME WatchInv, Watch!Send
  PROVE  WatchInv'
<1>1. PICK n \in out, w \in watch :
        /\ \A m \in out : n <= m
        /\ shown' = [shown EXCEPT ![w.task] = Append(@, n)]
        /\ out' = out \ {n}
  BY DEF Watch!Send
<1>2. /\ handling = "sending" /\ UNCHANGED <<recorded, handling, command, watch>>
  BY DEF Watch!Send
<1>3. /\ w.task \in Tasks /\ w.last \in Nat /\ ReadUpTo(w) /\ InOrder(w.task)
      /\ Watch!Numbers = 1..Len(recorded) /\ Len(recorded) \in Nat /\ n \in Watch!Numbers
      /\ shown[w.task] \in Seq(Watch!Numbers) /\ shown \in [Tasks -> Seq(Watch!Numbers)]
  <2>1. Watch!TypeOK /\ ReadUpTo(w) /\ \A t \in Tasks : InOrder(t)
    BY <1>1 DEF WatchInv
  <2>2. Watch!Numbers = 1..Len(recorded) /\ Len(recorded) \in Nat
    BY <2>1 DEF Watch!TypeOK, Watch!Numbers
  <2>3. w.task \in Tasks /\ w.last \in 0..MaxEvents /\ n \in Watch!Numbers
        /\ shown \in [Tasks -> Seq(Watch!Numbers)]
    BY <1>1, <2>1 DEF Watch!TypeOK
  <2>4. shown[w.task] \in Seq(Watch!Numbers) /\ w.last \in Nat
    BY <2>3, SessionsAssumption
  <2> QED
    BY <2>1, <2>2, <2>3, <2>4
<1> DEFINE old == shown[w.task]
           new == shown'[w.task]
<1>4. /\ new \in Seq(Watch!Numbers) /\ Len(old) \in Nat /\ Len(new) = Len(old) + 1
      /\ DOMAIN old = 1..Len(old) /\ DOMAIN new = 1..Len(new)
      /\ \A i \in DOMAIN old : i \in DOMAIN new /\ new[i] = old[i]
      /\ new[Len(old) + 1] = n
  <2>1. new = Append(old, n)
    BY <1>1, <1>3
  <2> QED
    BY <1>3, <2>1
<1>5. /\ Watch!Had(w.task)' = Watch!Had(w.task) \cup {n}
      /\ \A u \in Tasks \ {w.task} : shown'[u] = shown[u]
  <2>1. \A i \in DOMAIN new : i \in DOMAIN old \/ i = Len(old) + 1
    BY <1>4
  <2>2. Len(old) + 1 \in DOMAIN new
    BY <1>4
  <2> HIDE DEF old, new
  <2>3. {new[i] : i \in DOMAIN new} = {old[i] : i \in DOMAIN old} \cup {n}
    BY <1>4, <2>1, <2>2
  <2>4. Watch!Had(w.task)' = Watch!Had(w.task) \cup {n}
    BY <2>3 DEF Watch!Had, old, new
  <2> QED
    BY <1>1, <1>3, <2>4
<1>6. \A u : Watch!Events(u, 0)' = Watch!Events(u, 0)
  BY <1>2 DEF Watch!Events, Watch!Numbers
<1>7. /\ n \in Watch!Events(w.task, 0) /\ n <= w.last
      /\ \A m \in Watch!Had(w.task) : m < n
      /\ \A m \in Watch!Events(w.task, 0) : m \in Nat
  BY <1>1, <1>3 DEF ReadUpTo, Watch!Events
<1>8. InOrder(w.task)'
  <2>1. \A i \in DOMAIN old : old[i] < n
    BY <1>7 DEF Watch!Had
  <2>2. ASSUME NEW i \in DOMAIN new, NEW j \in DOMAIN new, i < j
        PROVE  new[i] < new[j]
    <3>1. i \in DOMAIN old
      BY <1>4, <2>2
    <3>2. CASE j \in DOMAIN old
      BY <1>3, <1>4, <2>2, <3>1, <3>2 DEF InOrder
    <3>3. CASE j = Len(old) + 1
      BY <1>4, <2>1, <3>1, <3>3
    <3> QED
      BY <1>4, <3>2, <3>3
  <2>3. ASSUME NEW m \in Watch!Events(w.task, 0), m <= n
        PROVE  m \in Watch!Had(w.task) \cup {n}
    <3>1. m <= w.last
      BY <1>3, <1>7, <2>3
    <3>2. m \in Watch!Had(w.task) \cup out
      BY <1>3, <2>3, <3>1 DEF ReadUpTo
    <3>3. m \in out => m = n
      BY <1>1, <1>3, <1>7, <2>3
    <3> QED
      BY <3>2, <3>3
  <2> HIDE DEF old, new
  <2>4. \A i, j \in DOMAIN new : i < j => new[i] < new[j]
    BY <2>2
  <2>5. \A i, j \in DOMAIN shown'[w.task] : i < j => shown'[w.task][i] < shown'[w.task][j]
    BY <2>4 DEF new
  <2> QED
    BY <1>3, <1>5, <1>6, <1>7, <2>3, <2>5 DEF InOrder
<1>9. ASSUME NEW u \in Tasks \ {w.task} PROVE InOrder(u)' /\ Watch!Had(u)' = Watch!Had(u)
  <2>1. InOrder(u) /\ shown'[u] = shown[u]
    BY <1>5 DEF WatchInv
  <2>2. Watch!Had(u)' = Watch!Had(u)
    BY <2>1 DEF Watch!Had
  <2> QED
    BY <1>6, <2>1, <2>2 DEF InOrder
<1>10. ReadUpTo(w)'
  BY <1>1, <1>2, <1>3, <1>5, <1>6, <1>7 DEF ReadUpTo, WatchInv, Watch!TypeOK, Watch!Numbers
<1>11. Watch!TypeOK'
  <2>1. shown' \in [Tasks -> Seq(Watch!Numbers)]
    BY <1>1, <1>3, <1>4, <1>5
  <2> QED
    BY <1>1, <1>2, <2>1 DEF WatchInv, Watch!TypeOK, Watch!Numbers
<1>12. ASSUME NEW c \in command PROVE c.after \in {0} \cup Watch!Had(c.task)'
  <2>1. c.task \in Tasks /\ c.after \in {0} \cup Watch!Had(c.task)
    BY DEF WatchInv, Watch!TypeOK
  <2> QED
    BY <1>5, <1>9, <2>1
<1>13. \A v \in watch : v = w
  BY <1>1 DEF WatchInv
<1> QED
  BY <1>2, <1>8, <1>9, <1>10, <1>11, <1>12, <1>13 DEF WatchInv

\* A page that resumes keeps its first events, and is sent the others.
LEMMA BootstrapKeeps ==
  ASSUME WatchInv, Watch!Bootstrap
  PROVE  WatchInv'
<1>1. PICK c \in command :
        /\ Watch!Resumed(c) /\ out' = Watch!Events(c.task, c.after)
        /\ watch' = {[task |-> c.task, last |-> Watch!LastOf(Watch!Events(c.task, 0))]}
  BY DEF Watch!Bootstrap
<1>2. PICK t \in Tasks, after \in 0..MaxEvents : c = [task |-> t, after |-> after]
  BY <1>1 DEF WatchInv, Watch!TypeOK
<1>3. c.task = t /\ c.after = after
  BY <1>2
<1> DEFINE old == shown[t]
           E == Watch!Events(t, 0)
           H == Watch!Had(t)
<1>4. PICK k \in 0..Len(old) :
        /\ \A i \in DOMAIN old : i <= k <=> old[i] <= after
        /\ shown' = [shown EXCEPT ![t] = SubSeq(old, 1, k)]
  BY <1>1, <1>3 DEF Watch!Resumed
<1>5. /\ handling' = "sending" /\ command' = {} /\ recorded' = recorded
      /\ MaxEvents \in Nat /\ Len(recorded) \in Nat /\ Len(recorded) <= MaxEvents
      /\ Watch!Numbers = 1..Len(recorded)
      /\ shown \in [Tasks -> Seq(Watch!Numbers)] /\ old \in Seq(Watch!Numbers)
  BY SessionsAssumption DEF Watch!Bootstrap, WatchInv, Watch!TypeOK, Watch!Numbers
<1>6. \A u : Watch!Events(u, 0)' = Watch!Events(u, 0)
  BY <1>5 DEF Watch!Events, Watch!Numbers
<1>7. /\ after \in Nat /\ after \in {0} \cup H /\ InOrder(t)
      /\ E \subseteq 1..Len(recorded)
      /\ out' = {n \in E : n > after}
  BY <1>1, <1>3, <1>5 DEF WatchInv, Watch!Events
<1> DEFINE new == shown'[t]
<1>8. /\ new \in Seq(Watch!Numbers) /\ DOMAIN new = 1..k /\ k <= Len(old)
      /\ DOMAIN old = 1..Len(old) /\ Len(old) \in Nat
      /\ \A i \in 1..k : new[i] = old[i]
      /\ \A u \in Tasks \ {t} : shown'[u] = shown[u]
  <2>1. Len(old) \in Nat /\ DOMAIN old = 1..Len(old) /\ \A i \in 1..k : old[i] \in Watch!Numbers
    BY <1>4, <1>5
  <2>2. new = SubSeq(old, 1, k)
    BY <1>4, <1>5
  <2> HIDE DEF old, new
  <2>3. /\ SubSeq(old, 1, k) \in Seq(Watch!Numbers)
        /\ Len(SubSeq(old, 1, k)) = IF 1 <= k THEN k - 1 + 1 ELSE 0
        /\ \A i \in 1..(k - 1 + 1) : SubSeq(old, 1, k)[i] = old[1 + i - 1]
    BY <1>4, <2>1, SubSeqProperties
  <2>4. DOMAIN new = 1..k /\ \A i \in 1..k : new[i] = old[i]
    BY <1>4, <2>1, <2>2, <2>3
  <2> QED
    BY <1>4, <2>1, <2>2, <2>3, <2>4
<1>9. Watch!Had(t)' = {n \in H : n <= after}
  <2>1. Watch!Had(t)' = {new[i] : i \in 1..k}
    BY <1>8 DEF Watch!Had
  <2>2. H = {old[i] : i \in 1..Len(old)}
    BY <1>8 DEF Watch!Had
  <2> HIDE DEF old, new, H
  <2> QED
    BY <1>4, <1>8, <2>1, <2>2
<1>10. ASSUME NEW u \in Tasks \ {t} PROVE InOrder(u)'
  <2>1. InOrder(u) /\ Watch!Had(u)' = Watch!Had(u) /\ shown'[u] = shown[u]
    BY <1>8 DEF WatchInv, Watch!Had
  <2> QED
    BY <1>6, <2>1 DEF InOrder
<1>11. InOrder(t)'
  <2>1. \A i, j \in DOMAIN shown'[t] : i < j => shown'[t][i] < shown'[t][j]
    <3>1. \A i \in DOMAIN shown'[t] : i \in DOMAIN old /\ shown'[t][i] = old[i]
      BY <1>4, <1>8
    <3>2. \A i, j \in DOMAIN old : i < j => old[i] < old[j]
      BY <1>7 DEF InOrder
    <3> HIDE DEF old
    <3> QED
      BY <3>1, <3>2
  <2>2. \A n \in Watch!Had(t)', m \in E : m <= n => m \in Watch!Had(t)'
    BY <1>5, <1>7, <1>9 DEF InOrder
  <2> QED
    BY <1>6, <1>7, <1>9, <2>1, <2>2 DEF InOrder
<1>12. PICK l : l = Watch!LastOf(E)
  OBVIOUS
<1>13. l \in E \cup {0} /\ \A n \in E : n <= l
  <2>1. E \subseteq 0..Len(recorded)
    BY <1>7
  <2> QED
    BY <1>5, <1>12, <2>1, LastIsGreatest
<1>14. watch' = {[task |-> t, last |-> l]}
  BY <1>1, <1>3, <1>12
<1>15. ReadUpTo([task |-> t, last |-> l])'
  <2> HIDE DEF old, new, E, H
  <2>1. \A n \in E : n <= after => n \in Watch!Had(t)'
    <3>1. CASE after \in H
      BY <1>7, <1>9, <3>1 DEF InOrder, E, H
    <3>2. CASE after = 0
      BY <1>7, <3>2
    <3> QED
      BY <1>7, <3>1, <3>2
  <2>2. Watch!Had(t)' \subseteq E /\ \A n \in Watch!Had(t)' : n <= after
    BY <1>7, <1>9 DEF InOrder, E, H
  <2>3. Watch!Had(t)' \cup out' = {n \in E : n <= l}
    <3>1. \A n \in E : n \in Watch!Had(t)' \cup out'
      BY <1>7, <2>1
    <3>2. \A n \in Watch!Had(t)' \cup out' : n \in E /\ n <= l
      BY <1>7, <1>13, <2>2
    <3> QED
      BY <3>1, <3>2
  <2>4. ASSUME NEW n \in out', NEW m \in Watch!Had(t)' PROVE m < n
    <3>1. n \in E /\ m \in E
      BY <1>7, <2>2
    <3>2. n \in Nat /\ m \in Nat /\ after \in Nat
      BY <1>5, <1>7, <3>1
    <3>3. m <= after /\ n > after
      BY <1>7, <2>2
    <3> QED
      BY <3>2, <3>3
  <2> QED
    BY <1>6, <1>13, <2>3, <2>4 DEF ReadUpTo, E
<1>16. Watch!TypeOK'
  <2>1. shown' \in [Tasks -> Seq(Watch!Numbers)]
    BY <1>4, <1>5, <1>8
  <2>2. l \in 0..MaxEvents
    BY <1>5, <1>7, <1>13
  <2>3. out' \subseteq Watch!Numbers
    BY <1>5, <1>7
  <2> QED
    BY <1>5, <1>14, <2>1, <2>2, <2>3 DEF WatchInv, Watch!TypeOK, Watch!Numbers
<1> HIDE DEF old, new, E, H
<1> QED
  BY <1>5, <1>10, <1>11, <1>14, <1>15, <1>16 DEF WatchInv

\* Every step keeps the invariant.
LEMMA WatchStepKeeps ==
  ASSUME WatchInv, [Watch!Next]_(Watch!vars)
  PROVE  WatchInv'
<1>1. CASE UNCHANGED Watch!vars
  <2>1. UNCHANGED <<recorded, handling, command, out, watch, shown>>
    BY <1>1 DEF Watch!vars, Watch!handler
  <2> QED
    BY <2>1 DEF WatchInv, Watch!TypeOK, InOrder, ReadUpTo, Watch!Had, Watch!Events,
                Watch!Numbers
<1>2. CASE Watch!Next
  BY <1>2, RecordKeeps, WatchCommandKeeps, QuietKeeps, BootstrapKeeps, TickKeeps, SendKeeps
     DEF Watch!Next
<1> QED
  BY <1>1, <1>2

\* So it always holds.
LEMMA AlwaysWatchInv == Watch!Spec => []WatchInv
<1>1. WatchInv /\ [Watch!Next]_(Watch!vars) => WatchInv'
  BY WatchStepKeeps
<1> QED
  BY WatchInit, <1>1, PTL DEF Watch!Spec

\* Wherever the socket broke and whatever was recorded meanwhile, the page has
\* the first events of each task, once and in order, and a watch that sent what
\* it read left nothing out (task_watch_bootstrap_data, next_task_watch_tick).
THEOREM WatchIsInOrder == Watch!Spec => []EventsComeOnceInOrder
<1>1. WatchInv => EventsComeOnceInOrder
  BY WatchInvImplies DEF EventsComeOnceInOrder
<1> QED
  BY AlwaysWatchInv, <1>1, PTL

-----------------------------------------------------------------------------
(* All parts together.                                                     *)

\* A behaviour of the whole is one of each part.
LEMMA PartsAreSpecs ==
  PartsSpec => Init /\ [][Next]_vars /\ Web!Spec /\ Stream!Spec /\ Watch!Spec
<1>1. PartsInit => Init /\ Web!Init /\ Stream!Init /\ Watch!Init
  BY DEF PartsInit
<1>2. UNCHANGED web => UNCHANGED Web!vars
  BY DEF web, Web!vars, Web!manager, Web!socket
<1>3. UNCHANGED stream => UNCHANGED Stream!vars
  BY DEF stream, Stream!vars, Stream!worker, Stream!channel, Stream!taking, Stream!page
<1>4. UNCHANGED watching => UNCHANGED Watch!vars
  BY DEF watching, Watch!vars, Watch!handler
<1>5. [PartsNext \/ Rest]_<<part, vars, web, stream, watching>> =>
        /\ [Next]_vars /\ [Web!Next]_(Web!vars)
        /\ [Stream!Next]_(Stream!vars) /\ [Watch!Next]_(Watch!vars)
  BY <1>2, <1>3, <1>4 DEF PartsNext, Rest
<1> QED
  BY <1>1, <1>5, PTL DEF PartsSpec, Web!Spec, Stream!Spec, Watch!Spec

\* Each part keeps its types, and the turns keep their inductive invariant.
THEOREM SessionsStayOK == PartsSpec => []PartsOK
<1>1. Init => IInv
  BY InitHolds
<1>2. IInv /\ [Next]_vars => IInv'
  BY NextKeepsIInv
<1>3. Web!TypeOK /\ [Web!Next]_(Web!vars) => Web!TypeOK'
  BY WebTypesStay
<1>4. StreamInv => Stream!TypeOK
  BY DEF StreamInv, StreamTypes
<1>5. WatchInv => Watch!TypeOK
  BY DEF WatchInv
<1>6. IInv /\ Web!TypeOK /\ Stream!TypeOK /\ Watch!TypeOK => PartsOK
  BY DEF PartsOK
<1> QED
  BY <1>1, <1>2, <1>3, <1>4, <1>5, <1>6, PartsAreSpecs, WebTypesInit, AlwaysStreamInv,
     AlwaysWatchInv, PTL DEF Web!Spec
=============================================================================
