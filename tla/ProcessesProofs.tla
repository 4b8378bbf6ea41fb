---------------------------- MODULE ProcessesProofs ----------------------------
(***************************************************************************)
(* The two parts of MCProcesses.  The language server of a slot is started  *)
(* once, and what its users are told about it agrees, for any number of     *)
(* users, requests and frames.  The shell tool ends what a command started, *)
(* for any set of processes, any of which may ignore TERM.                  *)
(***************************************************************************)
EXTENDS MCProcesses, SequenceTheorems, TLAPS

-----------------------------------------------------------------------------
(* Language servers.                                                       *)

\* The state a slot is created in.
LEMMA InitHolds == Init => IInv
<1> SUFFICES ASSUME Init PROVE IInv
  OBVIOUS
<1>1. TypeOK
  <2>1. out \in Seq(Frames)
    BY DEF Init
  <2>2. pc \in [Users -> {"idle", "acquire", "waiting", "creating"} \cup Holding]
    BY DEF Init
  <2>3. \A u \in Users : io = u <=> pc[u] = "reading"
    BY LspAssumption DEF Init
  <2>4. noise \in 0..MaxNoise
    BY LspAssumption DEF Init
  <2> QED
    BY <2>1, <2>2, <2>3, <2>4 DEF Init, TypeOK
<1>2. FirstUser /\ StartedOnce
  BY DEF Init, FirstUser, StartedOnce, Holding
<1>3. FailureReportedOnce /\ AnswerIsOwn /\ NoServerLeftBehind
  BY DEF Init, FailureReportedOnce, AnswerIsOwn, NoServerLeftBehind
<1> QED
  BY <1>1, <1>2, <1>3 DEF IInv

\* Asking and looking at the slot: the one that sees it idle is to start the
\* server.
LEMMA Looking ==
  ASSUME IInv, NEW u \in Users, Ask(u) \/ Look(u)
  PROVE  IInv'
<1>1. /\ pc[u] \in {"idle", "acquire"}
      /\ UNCHANGED <<starter, io, id, answer, nextId, server, started, reports>>
  BY DEF Ask, Look
<1>2. PICK next \in {"idle", "acquire", "waiting", "creating", "requesting"} :
        /\ pc' = [pc EXCEPT ![u] = next]
        /\ IF next = "creating" THEN slot = "Idle" /\ slot' = "Starting"
                               ELSE slot' = slot
        /\ next = "requesting" => slot = "Ready" /\ starter = NoOne
  BY DEF Ask, Look, Goes, Seen, IInv, TypeOK
<1>3. pc' \in [Users -> {"idle", "acquire", "waiting", "creating"} \cup Holding]
  BY <1>2 DEF IInv, TypeOK, Holding
<1>4. \A v \in Users : pc'[v] = IF v = u THEN next ELSE pc[v]
  BY <1>2 DEF IInv, TypeOK
<1>5. TypeOK'
  <2>1. \A v \in Users : io' = v <=> pc'[v] = "reading"
    BY <1>1, <1>2, <1>4 DEF IInv, TypeOK
  <2> QED
    BY <1>1, <1>2, <1>3, <2>1 DEF IInv, TypeOK, server
<1>6. FirstUser'
  <2>1. \A v \in Users : pc'[v] \in Holding => pc[v] \in Holding \/ slot = "Ready"
    BY <1>2, <1>4 DEF Holding
  <2>2. starter # NoOne => pc'[starter] = pc[starter] /\ slot' = slot
    BY <1>1, <1>2, <1>4 DEF IInv, TypeOK, FirstUser, Holding
  <2> QED
    BY <1>1, <1>2, <1>4, <2>1, <2>2 DEF IInv, FirstUser, server
<1>7. StartedOnce'
  BY <1>1, <1>2, <1>4 DEF IInv, FirstUser, StartedOnce
<1>8. FailureReportedOnce' /\ AnswerIsOwn'
  BY <1>1, <1>2 DEF IInv, FailureReportedOnce, AnswerIsOwn
<1>9. NoServerLeftBehind'
  <2>1. pc[u] \notin Holding
    BY <1>1 DEF Holding
  <2> QED
    BY <1>1, <1>2, <1>4, <2>1 DEF IInv, NoServerLeftBehind, server
<1> QED
  BY <1>5, <1>6, <1>7, <1>8, <1>9 DEF IInv

\* The one user that starts the process, with success or without.
LEMMA Creating ==
  ASSUME IInv, NEW u \in Users, CreateFails(u) \/ Create(u)
  PROVE  IInv'
<1>1. /\ slot = "Starting" /\ started = 0 /\ starter = NoOne /\ ~alive
      /\ pc[u] = "creating"
      /\ \A v \in Users : pc[v] \notin Holding /\ (pc[v] = "creating" => v = u)
  BY DEF IInv, FirstUser, StartedOnce, CreateFails, Create
<1>2. CASE CreateFails(u)
  <2> USE <1>2 DEF CreateFails
  <2>1. \A v \in Users :
          pc'[v] = IF v = u THEN "idle" ELSE IF pc[v] = "waiting" THEN "acquire" ELSE pc[v]
    BY DEF Woken
  <2>2. pc' \in [Users -> {"idle", "acquire", "waiting", "creating"} \cup Holding]
    BY DEF Woken, IInv, TypeOK
  <2>3. \A v \in Users : pc'[v] \notin Holding \cup {"creating", "reading"}
    BY <1>1, <2>1 DEF Holding
  <2>4. TypeOK'
    <3>1. \A v \in Users : io = v <=> pc'[v] = "reading"
      BY <1>1, <2>3 DEF IInv, TypeOK, Holding
    <3> QED
      BY <2>2, <3>1 DEF IInv, TypeOK, server
  <2>5. FirstUser' /\ StartedOnce' /\ NoServerLeftBehind'
    BY <1>1, <2>3 DEF FirstUser, StartedOnce, NoServerLeftBehind, server
  <2>6. FailureReportedOnce' /\ AnswerIsOwn'
    BY <1>1 DEF IInv, FailureReportedOnce, AnswerIsOwn
  <2> QED
    BY <2>4, <2>5, <2>6 DEF IInv
<1>3. CASE Create(u)
  <2> USE <1>3 DEF Create
  <2>1. \A v \in Users : pc'[v] = IF v = u THEN "requesting" ELSE pc[v]
    BY DEF Goes, IInv, TypeOK
  <2>2. pc' \in [Users -> {"idle", "acquire", "waiting", "creating"} \cup Holding]
    BY DEF Goes, IInv, TypeOK, Holding
  <2>3. \A v \in Users : pc'[v] # "creating" /\ pc'[v] # "reading"
    BY <1>1, <2>1 DEF Holding
  <2>4. TypeOK'
    <3>1. \A v \in Users : io = v <=> pc'[v] = "reading"
      BY <1>1, <2>3 DEF IInv, TypeOK, Holding
    <3> QED
      BY <2>2, <3>1 DEF IInv, TypeOK
  <2>5. FirstUser' /\ StartedOnce' /\ NoServerLeftBehind'
    BY <1>1, <2>1, <2>3, LspAssumption
    DEF FirstUser, StartedOnce, NoServerLeftBehind, Holding
  <2>6. FailureReportedOnce' /\ AnswerIsOwn'
    BY <1>1 DEF IInv, FailureReportedOnce, AnswerIsOwn
  <2> QED
    BY <2>4, <2>5, <2>6 DEF IInv
<1> QED
  BY <1>2, <1>3

\* What a step of u, which others may be woken by, does to the users.
LEMMA Moving ==
  ASSUME TypeOK, NEW u \in Users,
         NEW next \in {"idle", "acquire", "waiting", "creating"} \cup Holding,
         pc' = [pc EXCEPT ![u] = next] \/ pc' = Woken(u, next)
  PROVE  /\ pc' \in [Users -> {"idle", "acquire", "waiting", "creating"} \cup Holding]
         /\ pc'[u] = next
         /\ \A v \in Users \ {u} :
              pc'[v] = pc[v] \/ (pc[v] = "waiting" /\ pc'[v] = "acquire")
  BY DEF TypeOK, Woken

\* A step of a user that has the client in its hands: it keeps the slot as it
\* is, or makes the outcome of its initialization or a failure known.
LEMMA Serving ==
  ASSUME IInv, NEW u \in Users, NEW next \in {"idle"} \cup Holding,
         pc[u] \in Holding,
         pc' = [pc EXCEPT ![u] = next] \/ pc' = Woken(u, next),
         next = "reading" => io \in {NoOne, u},
         io' = IF next = "reading" THEN u ELSE IF pc[u] = "reading" THEN NoOne ELSE io,
         \/ /\ UNCHANGED <<slot, starter, reports>>
            /\ starter = u => next \in Holding \ {"failing"}
         \/ /\ starter = u /\ starter' = NoOne /\ slot' \in {"Ready", "Failed"}
            /\ reports' = IF slot' = "Failed" THEN reports + 1 ELSE reports
         \/ /\ pc[u] = "failing" /\ starter' = starter /\ slot' = "Failed"
            /\ reports' = IF slot = "Failed" THEN reports ELSE reports + 1,
         alive' \in BOOLEAN, alive' => alive /\ (Dropped(u) => next \in Holding),
         owed' \subseteq Nat, out' \in Seq(Frames), nextId' \in Nat,
         id' \in [Users -> Nat], answer' \in [Users -> Nat],
         UNCHANGED <<noise, started>>, AnswerIsOwn'
  PROVE  IInv'
<1>1. /\ pc' \in [Users -> {"idle", "acquire", "waiting", "creating"} \cup Holding]
      /\ pc'[u] = next
      /\ \A v \in Users \ {u} :
           pc'[v] = pc[v] \/ (pc[v] = "waiting" /\ pc'[v] = "acquire")
  BY Moving DEF IInv
<1>2. \A v \in Users \ {u} :
        /\ pc'[v] \in Holding <=> pc[v] \in Holding
        /\ pc'[v] = "reading" <=> pc[v] = "reading"
        /\ pc'[v] = "creating" <=> pc[v] = "creating"
  BY <1>1 DEF Holding
<1>3. started # 0 /\ slot # "Idle"
  BY DEF IInv, FirstUser
<1>4. starter \in {NoOne, u}
  BY DEF IInv, FirstUser, TypeOK
<1>5. TypeOK'
  <2>1. \A v \in Users : io' = v <=> pc'[v] = "reading"
    BY <1>1, <1>2, LspAssumption DEF IInv, TypeOK
  <2>2. /\ slot' \in {"Idle", "Starting", "Ready", "Failed"}
        /\ starter' \in Users \cup {NoOne} /\ io' \in Users \cup {NoOne}
    BY DEF IInv, TypeOK
  <2>3. reports' \in Nat
    <3>1. reports \in Nat /\ reports + 1 \in Nat
      BY DEF IInv, TypeOK
    <3> QED
      BY <3>1
  <2>4. started' \in Nat /\ noise' \in 0..MaxNoise
    BY DEF IInv, TypeOK
  <2> QED
    BY <1>1, <2>1, <2>2, <2>3, <2>4 DEF TypeOK
<1>6. FirstUser'
  <2>1. \A v \in Users : pc'[v] = "creating" => v # u /\ pc[v] = "creating"
    BY <1>1, <1>2 DEF Holding
  <2>2. \A v \in Users : pc[v] # "creating"
    BY <1>3 DEF IInv, FirstUser
  <2>3. starter' # NoOne =>
          /\ starter' = u /\ slot' = "Starting" /\ next \in Holding \ {"failing"}
          /\ \A v \in Users : pc'[v] \in Holding => v = u
    BY <1>1, <1>2, <1>4, LspAssumption DEF IInv, FirstUser
  <2> QED
    BY <1>1, <1>3, <2>1, <2>2, <2>3 DEF IInv, FirstUser
<1>7. StartedOnce'
  BY <1>1, <1>2, <1>3 DEF IInv, FirstUser, StartedOnce, Holding
<1>8. FailureReportedOnce'
  BY <1>4, LspAssumption DEF IInv, TypeOK, FirstUser, FailureReportedOnce
<1>9. NoServerLeftBehind'
  BY <1>1, <1>2 DEF IInv, NoServerLeftBehind, Dropped
<1> QED
  BY <1>5, <1>6, <1>7, <1>8, <1>9 DEF IInv

\* The end of a request, "initialize" or any other.
LEMMA Ending ==
  ASSUME IInv, NEW u \in Users, NEW result \in {"ok", "retryable", "terminal"},
         pc[u] \in Holding, Outcome(u, result),
         io' = IF pc[u] = "reading" THEN NoOne ELSE io,
         out' \in Seq(Frames), nextId' \in Nat,
         id' \in [Users -> Nat], answer' \in [Users -> Nat],
         UNCHANGED <<noise, started>>, AnswerIsOwn'
  PROVE  IInv'
<1>1. alive \in BOOLEAN /\ owed \subseteq Nat
  BY DEF IInv, TypeOK
<1>2. CASE starter = u
  <2>1. PICK ok \in {FALSE, result = "ok"} : Initialized(u, ok)
    BY <1>2 DEF Outcome
  <2> DEFINE next == IF ok THEN "requesting" ELSE "idle"
  <2>2. next \in {"idle"} \cup Holding /\ next # "reading"
    BY DEF Holding
  <2>3. pc' = Woken(u, next) /\ starter' = NoOne
    BY <2>1 DEF Initialized
  <2>4. /\ slot' \in {"Ready", "Failed"}
        /\ reports' = IF slot' = "Failed" THEN reports + 1 ELSE reports
    BY <2>1 DEF Initialized
  <2>5. alive' \in BOOLEAN /\ (alive' => alive /\ ~Dropped(u)) /\ owed' \subseteq Nat
    BY <1>1, <2>1 DEF Initialized, Stop
  <2> HIDE DEF next
  <2> QED
    BY <1>2, <2>2, <2>3, <2>4, <2>5, Serving
<1>3. CASE starter # u
  <2> DEFINE next == IF result = "terminal" THEN "failing" ELSE "idle"
  <2>1. UNCHANGED <<slot, starter, reports>> /\ Goes(u, next)
        /\ Stop(result # "terminal" /\ Dropped(u))
    BY <1>3 DEF Outcome
  <2>2. next \in {"idle"} \cup Holding /\ next # "reading"
        /\ (next \notin Holding => result # "terminal")
    BY DEF Holding
  <2>3. pc' = [pc EXCEPT ![u] = next]
    BY <2>1 DEF Goes
  <2>4. /\ alive' \in BOOLEAN /\ (alive' => alive /\ (Dropped(u) => next \in Holding))
        /\ owed' \subseteq Nat
    BY <1>1, <2>1, <2>2 DEF Stop, Holding
  <2> HIDE DEF next
  <2> QED
    BY <1>3, <2>1, <2>2, <2>3, <2>4, Serving
<1> QED
  BY <1>2, <1>3

\* The first stage of a request, outside the I/O lock.
LEMMA Entering ==
  ASSUME IInv, NEW u \in Users, Enter(u) \/ EnterFails(u)
  PROVE  IInv'
<1>1. /\ pc[u] = "requesting" /\ pc[u] \in Holding
      /\ UNCHANGED <<io, id, answer, nextId, out, noise, started>>
  BY DEF Enter, EnterFails, Holding
<1>2. /\ AnswerIsOwn' /\ out' \in Seq(Frames) /\ nextId' \in Nat
      /\ id' \in [Users -> Nat] /\ answer' \in [Users -> Nat]
  BY <1>1 DEF IInv, TypeOK, AnswerIsOwn
<1>3. CASE alive /\ Enter(u)
  <2>1. pc' = [pc EXCEPT ![u] = "queued"] /\ UNCHANGED <<slot, starter, reports, alive, owed>>
    BY <1>3 DEF Enter, Goes
  <2>2. alive' \in BOOLEAN /\ owed' \subseteq Nat /\ "queued" \in Holding
    BY <2>1 DEF IInv, TypeOK, Holding
  <2> QED
    BY <1>1, <1>2, <2>1, <2>2, Serving
<1>4. CASE ~(alive /\ Enter(u))
  <2>1. PICK result \in {"ok", "retryable", "terminal"} : Outcome(u, result)
    BY <1>4 DEF Enter, EnterFails
  <2> QED
    BY <1>1, <1>2, <2>1, Ending
<1> QED
  BY <1>3, <1>4

\* The request is written, with the I/O lock.
LEMMA Sending ==
  ASSUME IInv, NEW u \in Users, Send(u)
  PROVE  IInv'
<1>1. /\ pc[u] = "queued" /\ pc[u] \in Holding /\ io = NoOne
      /\ UNCHANGED <<out, noise, started>>
  BY DEF Send, Holding
<1>2. /\ AnswerIsOwn' /\ out' \in Seq(Frames) /\ nextId' \in Nat
      /\ id' \in [Users -> Nat] /\ answer' \in [Users -> Nat]
  BY DEF Send, IInv, TypeOK, AnswerIsOwn
<1>3. CASE alive
  <2>1. /\ pc' = [pc EXCEPT ![u] = "reading"] /\ io' = u
        /\ UNCHANGED <<slot, starter, reports, alive>>
    BY <1>3 DEF Send, Goes
  <2>2. alive' \in BOOLEAN /\ owed' \subseteq Nat /\ "reading" \in Holding
    BY <1>3 DEF Send, IInv, TypeOK, Holding
  <2> QED
    BY <1>1, <1>2, <1>3, <2>1, <2>2, Serving
<1>4. CASE ~alive
  BY <1>1, <1>2, <1>4, Ending DEF Send
<1> QED
  BY <1>3, <1>4

\* A frame is read, or the output ends.
LEMMA Reading ==
  ASSUME IInv, NEW u \in Users, Read(u) \/ ReadFails(u)
  PROVE  IInv'
<1>1. /\ pc[u] = "reading" /\ pc[u] \in Holding /\ io = u
      /\ UNCHANGED <<nextId, noise, started>>
  BY DEF Read, ReadFails, Holding, IInv, TypeOK
<1>2. out' \in Seq(Frames)
  <2>1. CASE Read(u)
    <3>1. out \in Seq(Frames) /\ out # <<>> /\ out' = Tail(out)
      BY <2>1 DEF Read, IInv, TypeOK
    <3> QED
      BY <3>1, HeadTailProperties
  <2>2. CASE ReadFails(u)
    BY <2>2 DEF ReadFails
  <2> QED
    BY <2>1, <2>2
<1>3. nextId' \in Nat
  BY <1>1 DEF IInv, TypeOK
<1>4. ASSUME NEW result \in {"ok", "retryable", "terminal"}, GiveUp(u, result)
      PROVE  IInv'
  <2>1. /\ AnswerIsOwn' /\ id' \in [Users -> Nat] /\ answer' \in [Users -> Nat]
    BY <1>4 DEF GiveUp, IInv, TypeOK, AnswerIsOwn
  <2>2. io' = NoOne /\ Outcome(u, result)
    BY <1>4 DEF GiveUp
  <2> QED
    BY <1>1, <1>2, <1>3, <2>1, <2>2, Ending
<1>5. CASE Take(u, id[u])
  <2>1. /\ AnswerIsOwn' /\ id' \in [Users -> Nat] /\ answer' \in [Users -> Nat]
    BY <1>5 DEF Take, IInv, TypeOK, AnswerIsOwn
  <2>2. PICK result \in {"ok", "retryable", "terminal"} : Outcome(u, result)
    BY <1>5 DEF Take
  <2>3. io' = NoOne
    BY <1>5 DEF Take
  <2> QED
    BY <1>1, <1>2, <1>3, <2>1, <2>2, <2>3, Ending
<1>6. CASE Skip(u)
  <2>1. UNCHANGED <<slot, starter, io, pc, id, answer, reports, alive, owed, started>>
    BY <1>1, <1>6 DEF Skip, user
  <2>2. TypeOK'
    BY <1>1, <1>2, <2>1 DEF IInv, TypeOK
  <2>3. (FirstUser /\ StartedOnce /\ FailureReportedOnce /\ AnswerIsOwn /\ NoServerLeftBehind)'
    BY <2>1 DEF IInv, FirstUser, StartedOnce, FailureReportedOnce, AnswerIsOwn, NoServerLeftBehind
  <2> QED
    BY <2>2, <2>3 DEF IInv
<1> QED
  BY <1>4, <1>5, <1>6 DEF Read, ReadFails

\* A failure is made known.
LEMMA Failing ==
  ASSUME IInv, NEW u \in Users, MarkFailed(u)
  PROVE  IInv'
<1>1. /\ pc[u] = "failing" /\ pc[u] \in Holding /\ pc' = Woken(u, "idle")
      /\ starter' = starter /\ slot' = "Failed" /\ io' = io
      /\ reports' = IF slot = "Failed" THEN reports ELSE reports + 1
      /\ UNCHANGED <<id, answer, nextId, out, noise, started>>
  BY DEF MarkFailed, Holding
<1>2. /\ AnswerIsOwn' /\ out' \in Seq(Frames) /\ nextId' \in Nat
      /\ id' \in [Users -> Nat] /\ answer' \in [Users -> Nat]
  BY <1>1 DEF IInv, TypeOK, AnswerIsOwn
<1>3. alive' \in BOOLEAN /\ (alive' => alive /\ ~Dropped(u)) /\ owed' \subseteq Nat
  BY DEF MarkFailed, Stop, IInv, TypeOK
<1> QED
  BY <1>1, <1>2, <1>3, Serving

\* What the server does by itself never starts it.
LEMMA Outside ==
  ASSUME IInv, Reply \/ Babble \/ Die
  PROVE  IInv'
<1>1. UNCHANGED <<slot, starter, io, pc, id, answer, nextId, started, reports>>
  BY DEF Reply, Babble, Die, manager, user
<1>2. alive' \in BOOLEAN /\ (alive' => alive)
  <2>1. alive \in BOOLEAN
    BY DEF IInv, TypeOK
  <2>2. CASE Reply
    BY <2>1, <2>2 DEF Reply
  <2>3. CASE Babble
    BY <2>1, <2>3 DEF Babble
  <2>4. CASE Die
    BY <2>1, <2>4 DEF Die
  <2> QED
    BY <2>2, <2>3, <2>4
<1>3. owed' \subseteq Nat /\ out' \in Seq(Frames) /\ noise' \in 0..MaxNoise
  <2>1. CASE Reply
    BY <2>1 DEF Reply, IInv, TypeOK, Frames
  <2>2. CASE Babble
    BY <2>2, LspAssumption DEF Babble, IInv, TypeOK, Frames, Notice
  <2>3. CASE Die
    BY <2>3 DEF Die, IInv, TypeOK
  <2> QED
    BY <2>1, <2>2, <2>3
<1>4. TypeOK'
  BY <1>1, <1>2, <1>3 DEF IInv, TypeOK
<1>5. (FirstUser /\ StartedOnce /\ FailureReportedOnce /\ AnswerIsOwn /\ NoServerLeftBehind)'
  BY <1>1, <1>2
  DEF IInv, FirstUser, StartedOnce, FailureReportedOnce, AnswerIsOwn, NoServerLeftBehind
<1> QED
  BY <1>4, <1>5 DEF IInv

\* Every step keeps the invariant.
THEOREM NextKeepsIInv == IInv /\ [Next]_vars => IInv'
<1> SUFFICES ASSUME IInv, [Next]_vars PROVE IInv'
  OBVIOUS
<1>1. CASE UNCHANGED vars
  <2>1. UNCHANGED <<slot, starter, io, pc, id, answer, nextId, alive, owed, out, noise,
                    started, reports>>
    BY <1>1 DEF vars, user, server
  <2>2. TypeOK'
    BY <2>1 DEF IInv, TypeOK
  <2>3. (FirstUser /\ StartedOnce /\ FailureReportedOnce /\ AnswerIsOwn /\ NoServerLeftBehind)'
    BY <2>1 DEF IInv, FirstUser, StartedOnce, FailureReportedOnce, AnswerIsOwn, NoServerLeftBehind
  <2> QED
    BY <2>2, <2>3 DEF IInv
<1>2. CASE \E u \in Users : Ask(u) \/ Use(u)
  BY <1>2, Looking, Creating, Entering, Sending, Reading, Failing DEF Use
<1>3. CASE Reply \/ Babble \/ Die
  BY <1>3, Outside
<1> QED
  BY <1>1, <1>2, <1>3 DEF Next

\* The inductive invariant holds of every reachable state.
THEOREM InvariantHolds == Spec => []IInv
<1> QED
  BY InitHolds, NextKeepsIInv, PTL DEF Spec

\* acquire_client starts one process for all users of a slot, for ever.
THEOREM OneStart == Spec => []StartedOnce
<1>1. IInv => StartedOnce
  BY DEF IInv
<1> QED
  BY <1>1, InvariantHolds, PTL

\* Of all the users that meet a failure one reports it.
THEOREM OneReport == Spec => []FailureReportedOnce
<1>1. IInv => FailureReportedOnce
  BY DEF IInv
<1> QED
  BY <1>1, InvariantHolds, PTL

\* read_json_rpc_response_for_id gives nobody the answer to another request.
THEOREM OwnAnswer == Spec => []AnswerIsOwn
<1>1. IInv => AnswerIsOwn
  BY DEF IInv
<1> QED
  BY <1>1, InvariantHolds, PTL

\* A process that nobody can use any more is ended.
THEOREM NoneLeftBehind == Spec => []NoServerLeftBehind
<1>1. IInv => NoServerLeftBehind
  BY DEF IInv
<1> QED
  BY <1>1, InvariantHolds, PTL

\* The state of a failed slot is final.
THEOREM FailureIsFinal == Spec => FailureIsTerminal
<1>1. ASSUME IInv, [Next]_vars, slot = "Failed" PROVE slot' = "Failed"
  <2>1. starter = NoOne /\ \A u \in Users : pc[u] # "creating"
    BY <1>1 DEF IInv, FirstUser
  <2>2. \A u \in Users, result \in {"ok", "retryable", "terminal"} :
          Outcome(u, result) => slot' = "Failed"
    BY <1>1, <2>1, LspAssumption DEF Outcome
  <2>3. CASE UNCHANGED vars
    BY <1>1, <2>3 DEF vars
  <2>4. CASE \E u \in Users : Ask(u) \/ Use(u)
    BY <1>1, <2>1, <2>2, <2>4
    DEF Use, Ask, Look, CreateFails, Create, Enter, EnterFails, Send, Read, Skip, Take,
        GiveUp, ReadFails, MarkFailed
  <2>5. CASE Reply \/ Babble \/ Die
    BY <1>1, <2>5 DEF Reply, Babble, Die, manager
  <2> QED
    BY <1>1, <2>3, <2>4, <2>5 DEF Next
<1>2. IInv /\ [Next]_vars => [slot = "Failed" => slot' = "Failed"]_vars
  BY <1>1
<1> QED
  BY <1>2, InvariantHolds, PTL DEF Spec, FailureIsTerminal

-----------------------------------------------------------------------------
(* Commands.                                                               *)

\* What the tool knew of is a process that was started, and what runs of it is
\* what it still knows in the grace period and what remains for KILL; after KILL
\* that is dying.
ShellInv ==
  /\ Sh!TypeOK /\ known \cup remaining \cup seen \subseteq Sh!Procs \ unborn
  /\ at \in {"track", "poll", "collect"} => seen = {}
  /\ at \in {"term", "grace", "graced"} => seen \cap running \subseteq known
  /\ at = "kill" => seen \cap running \subseteq remaining
  /\ at = "round" /\ signals => seen \cap running \subseteq dying
  /\ Sh!SeenIsEnded

LEMMA ShellInit == Sh!Init => ShellInv
  BY ProcessesAssumption
     DEF Sh!Init, ShellInv, Sh!TypeOK, Sh!Procs, Sh!Elder, Sh!SeenIsEnded

\* What a scan finds runs, and a scan forgets nothing that runs.
LEMMA Scans ==
  /\ Sh!Descendants \subseteq running /\ Sh!HoldingCapture \subseteq running
  /\ \A ps : Sh!Collect(ps) \subseteq running /\ ps \cap running \subseteq Sh!Collect(ps)
  BY DEF Sh!Descendants, Sh!HoldingCapture, Sh!Collect

\* The processes: nothing that was seen starts again.
LEMMA Living ==
  ASSUME ShellInv, NEW p \in Sh!Procs,
         \/ Sh!LeaveGroup(p) \/ Sh!CloseCapture(p) \/ Sh!Exit(p)
         \/ \E q \in Others : Sh!Fork(p, q)
  PROVE  ShellInv'
<1>1. CASE Sh!LeaveGroup(p)
  BY <1>1 DEF Sh!LeaveGroup, ShellInv, Sh!TypeOK, Sh!SeenIsEnded, Sh!watch
<1>2. CASE Sh!CloseCapture(p)
  BY <1>2 DEF Sh!CloseCapture, ShellInv, Sh!TypeOK, Sh!SeenIsEnded, Sh!watch
<1>3. CASE Sh!Exit(p)
  BY <1>3 DEF Sh!Exit, ShellInv, Sh!TypeOK, Sh!SeenIsEnded, Sh!watch, Sh!Procs
<1>4. ASSUME NEW q \in Others, Sh!Fork(p, q)
      PROVE  ShellInv'
  BY <1>4 DEF Sh!Fork, ShellInv, Sh!TypeOK, Sh!SeenIsEnded, Sh!watch, Sh!Procs
<1> QED
  BY <1>1, <1>2, <1>3, <1>4

\* The tool up to the moment it ends the command.
LEMMA Watching ==
  ASSUME ShellInv, Sh!Track \/ Sh!Limit \/ Sh!Poll \/ Sh!PollFails \/ Sh!CollectForTerm
  PROVE  ShellInv'
<1>1. CASE Sh!Track
  BY <1>1, Scans DEF Sh!Track, ShellInv, Sh!TypeOK, Sh!SeenIsEnded, Sh!watch, Sh!tree
<1>2. CASE Sh!Limit
  BY <1>2 DEF Sh!Limit, ShellInv, Sh!TypeOK, Sh!SeenIsEnded, Sh!watch, Sh!tree
<1>3. CASE Sh!Poll
  BY <1>3 DEF Sh!Poll, ShellInv, Sh!TypeOK, Sh!SeenIsEnded, Sh!watch, Sh!tree
<1>4. CASE Sh!PollFails
  BY <1>4 DEF Sh!PollFails, ShellInv, Sh!TypeOK, Sh!SeenIsEnded, Sh!watch, Sh!tree
<1>5. CASE Sh!CollectForTerm
  BY <1>5, Scans DEF Sh!CollectForTerm, Sh!Looks, ShellInv, Sh!TypeOK, Sh!SeenIsEnded, Sh!watch, Sh!tree
<1> QED
  BY <1>1, <1>2, <1>3, <1>4, <1>5

\* The tool while it ends the command.
LEMMA Terminating ==
  ASSUME ShellInv,
         \/ Sh!Term \/ Sh!Grace \/ Sh!GraceOver \/ Sh!Kill \/ Sh!Round \/ Sh!RoundsOver \/ Sh!Wait
  PROVE  ShellInv'
<1>1. CASE Sh!Term
  BY <1>1
  DEF Sh!Term, Sh!Signal, Sh!Targets, Sh!ShellGroup, ShellInv, Sh!TypeOK, Sh!SeenIsEnded, Sh!watch
<1>2. CASE Sh!Grace
  BY <1>2, Scans
  DEF Sh!Grace, Sh!Looks, Sh!AllGone, ShellInv, Sh!TypeOK, Sh!SeenIsEnded, Sh!watch, Sh!tree
<1>3. CASE Sh!GraceOver
  BY <1>3, Scans DEF Sh!GraceOver, ShellInv, Sh!TypeOK, Sh!SeenIsEnded, Sh!watch, Sh!tree
<1>4. CASE Sh!Kill
  BY <1>4
  DEF Sh!Kill, Sh!Signal, Sh!Targets, Sh!ShellGroup, ShellInv, Sh!TypeOK, Sh!SeenIsEnded, Sh!watch
<1>5. CASE Sh!Round
  BY <1>5, Scans DEF Sh!Round, Sh!Signal, Sh!Targets, Sh!AllGone, ShellInv, Sh!TypeOK,
                     Sh!SeenIsEnded, Sh!watch
<1>6. CASE Sh!RoundsOver
  BY <1>6 DEF Sh!RoundsOver, ShellInv, Sh!TypeOK, Sh!SeenIsEnded, Sh!watch
<1>7. CASE Sh!Wait
  BY <1>7 DEF Sh!Wait, ShellInv, Sh!TypeOK, Sh!SeenIsEnded, Sh!watch, Sh!tree
<1> QED
  BY <1>1, <1>2, <1>3, <1>4, <1>5, <1>6, <1>7

LEMMA ShellStepKeeps == ShellInv /\ [Sh!Next]_(Sh!vars) => ShellInv'
<1> SUFFICES ASSUME ShellInv, [Sh!Next]_(Sh!vars)
             PROVE  ShellInv'
  OBVIOUS
<1>1. CASE UNCHANGED Sh!vars
  BY <1>1 DEF Sh!vars, Sh!tree, ShellInv, Sh!TypeOK, Sh!SeenIsEnded, Sh!watch
<1>2. CASE Sh!Next
  BY <1>2, Living, Watching, Terminating DEF Sh!Next, Sh!Step
<1> QED
  BY <1>1, <1>2

LEMMA AlwaysShellInv == Sh!Spec => []ShellInv
  BY ShellInit, ShellStepKeeps, PTL DEF Sh!Spec

\* However the processes fork, leave their group or ignore TERM while the tool
\* ends the command: what it saw of it is gone or dies of a signal when it
\* waits for the shell (terminate_shell_process).
THEOREM SeenEnds == Sh!Spec => []SeenIsEnded
<1>1. ShellInv => SeenIsEnded
  BY DEF ShellInv, SeenIsEnded
<1> QED
  BY AlwaysShellInv, <1>1, PTL

-----------------------------------------------------------------------------
(* Both parts together.                                                    *)

\* A behaviour of the whole is one of each part.
LEMMA PartsAreSpecs == PartsSpec => Spec /\ Sh!Spec
<1>1. PartsInit => Init /\ Sh!Init
  BY DEF PartsInit
<1>2. UNCHANGED command => UNCHANGED Sh!vars
  BY DEF command, Sh!vars, Sh!tree, Sh!watch
<1>3. [PartsNext]_<<part, vars, command>> => [Next]_vars /\ [Sh!Next]_(Sh!vars)
  BY <1>2 DEF PartsNext
<1>4. PartsSpec => PartsSteps
  BY DEF PartsSpec
<1> QED
  BY <1>1, <1>3, <1>4, PTL DEF PartsSteps, Spec, Sh!Spec

\* The language server keeps its inductive invariant, and the shell its types.
THEOREM ProcessesStayOK == PartsSpec => []PartsOK
<1>1. IInv /\ ShellInv => PartsOK
  BY DEF ShellInv, PartsOK
<1> QED
  BY <1>1, PartsAreSpecs, InvariantHolds, AlwaysShellInv, PTL
=============================================================================
