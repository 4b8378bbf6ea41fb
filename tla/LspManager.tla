----------------------------- MODULE LspManager -----------------------------
(***************************************************************************)
(* One slot of the LSP manager: the language server that a session uses    *)
(* for a workspace.  The first user starts it and initializes it with the  *)
(* slot's mutex held; the others wait for the outcome, and then all speak  *)
(* to the one process through the client's I/O lock.  There is no timeout  *)
(* anywhere.                                                               *)
(***************************************************************************)
EXTENDS Naturals, Sequences

CONSTANTS
  Users,      \* threads that use the manager
  NoOne,
  Garbage,    \* a frame that is not JSON
  MaxIds,     \* bound: users ask while fewer than MaxIds - 2 requests were sent
  MaxNoise    \* bound: frames the server sends unasked

ASSUME LspAssumption ==
  NoOne \notin Users /\ Garbage \notin Nat /\ MaxIds \in Nat /\ MaxNoise \in Nat

VARIABLES
  slot,      \* ServerSlot::state
  starter,   \* the user that initializes the server, holding the slot's mutex
  io,        \* the user that holds the client's io_lock
  pc,        \* user -> what it does next
  id,        \* user -> the id of its last request
  answer,    \* user -> the frame it took its last answer from, 0 for none
  nextId,    \* StdioLspClient::next_id
  alive,     \* the process runs
  owed,      \* requests that the server has read and not answered
  out,       \* frames the server has written and nobody has read
  noise,     \* number of frames sent unasked
  started,   \* number of processes started
  reports    \* number of failures reported to the browser

user   == <<pc, id, answer>>
server == <<alive, owed, out, noise>>
vars == <<slot, starter, io, user, nextId, server, started, reports>>

Notice == 0  \* a frame with another id than any request's
Frames == {Garbage} \cup Nat

\* Stages in which a user has the client in its hands.
Holding == {"requesting", "queued", "reading", "failing"}

Init ==
  /\ slot = "Idle" /\ starter = NoOne /\ io = NoOne
  /\ pc = [u \in Users |-> "idle"]
  /\ id = [u \in Users |-> 0]
  /\ answer = [u \in Users |-> 0]
  /\ nextId = 1
  /\ alive = FALSE /\ owed = {} /\ out = <<>> /\ noise = 0
  /\ started = 0 /\ reports = 0

-----------------------------------------------------------------------------
(* Acquiring the client.                                                   *)

Goes(u, next) == pc' = [pc EXCEPT ![u] = next]

Ask(u) ==
  /\ pc[u] = "idle" /\ (nextId + 1 < MaxIds \/ slot = "Failed")
  /\ Goes(u, "acquire")
  /\ UNCHANGED <<slot, starter, io, id, answer, nextId, server, started, reports>>

\* What a user does on seeing the slot's state.
Seen ==
  [Ready |-> "requesting", Failed |-> "idle", Starting |-> "waiting", Idle |-> "creating"]

\* One look at the slot, with its mutex.
Look(u) ==
  /\ pc[u] = "acquire" /\ starter = NoOne
  /\ Goes(u, Seen[slot])
  /\ slot' = IF slot = "Idle" THEN "Starting" ELSE slot
  /\ UNCHANGED <<starter, io, id, answer, nextId, server, started, reports>>

\* Wrong variant: those who wait are not told.
WokenNobody(u, next) == [pc EXCEPT ![u] = next]

\* changed.notify_all, while u goes on to next.
Woken(u, next) ==
  [v \in Users |-> IF v = u THEN next ELSE IF pc[v] = "waiting" THEN "acquire" ELSE pc[v]]

\* The process cannot be started.
CreateFails(u) ==
  /\ pc[u] = "creating"
  /\ slot' = "Failed" /\ reports' = reports + 1
  /\ pc' = Woken(u, "idle")
  /\ UNCHANGED <<starter, io, id, answer, nextId, server, started>>

\* The process runs; the slot's mutex is kept until it is initialized.
Create(u) ==
  /\ pc[u] = "creating"
  /\ started' = started + 1 /\ alive' = TRUE
  /\ starter' = u
  /\ Goes(u, "requesting")
  /\ UNCHANGED <<slot, io, id, answer, nextId, owed, out, noise, reports>>

-----------------------------------------------------------------------------
(* A request, "initialize" being the starter's first.                      *)

\* The last holder of a client that the slot has given up ends the process.
Dropped(u) == slot' = "Failed" /\ \A v \in Users \ {u} : pc[v] \notin Holding

Stop(dropped) ==
  /\ alive' = (alive /\ ~dropped)
  /\ owed' = IF dropped THEN {} ELSE owed

\* initialize_client's outcome, known to all.
Initialized(u, ok) ==
  /\ slot' = IF ok THEN "Ready" ELSE "Failed"
  /\ reports' = IF ok THEN reports ELSE reports + 1
  /\ starter' = NoOne
  /\ pc' = Woken(u, IF ok THEN "requesting" ELSE "idle")
  /\ Stop(Dropped(u))

\* The request of u has its result; an initialization can still fail on the
\* position encoding.
Outcome(u, result) ==
  IF starter = u
  THEN \E ok \in {FALSE, result = "ok"} : Initialized(u, ok)
  ELSE /\ UNCHANGED <<slot, starter, reports>>
       /\ Goes(u, IF result = "terminal" THEN "failing" ELSE "idle")
       /\ Stop(result # "terminal" /\ Dropped(u))

\* ensure_running, before the I/O lock.
Enter(u) ==
  /\ pc[u] = "requesting"
  /\ IF alive
     THEN Goes(u, "queued") /\ UNCHANGED <<slot, starter, reports, alive, owed>>
     ELSE Outcome(u, "terminal")
  /\ UNCHANGED <<io, id, answer, nextId, out, noise, started>>

\* The process cannot be looked at.
EnterFails(u) ==
  /\ pc[u] = "requesting" /\ alive
  /\ Outcome(u, "retryable")
  /\ UNCHANGED <<io, id, answer, nextId, out, noise, started>>

\* The request is written with the I/O lock held, which is kept for the
\* answer.
Send(u) ==
  /\ pc[u] = "queued" /\ io = NoOne
  /\ nextId' = nextId + 1
  /\ id' = [id EXCEPT ![u] = nextId]
  /\ answer' = [answer EXCEPT ![u] = 0]
  /\ IF alive
     THEN /\ io' = u /\ owed' = owed \cup {nextId}
          /\ Goes(u, "reading")
          /\ UNCHANGED <<slot, starter, reports, alive>>
     ELSE io' = io /\ Outcome(u, "terminal")
  /\ UNCHANGED <<out, noise, started>>

Skip(u) == UNCHANGED <<slot, starter, io, user, reports, alive, owed>>

\* The answer to u, a result or an error, ends the request.
Take(u, frame) ==
  /\ answer' = [answer EXCEPT ![u] = frame]
  /\ io' = NoOne /\ id' = id
  /\ \E result \in {"ok", "retryable"} : Outcome(u, result)

\* The request is given up; its answer may still come.
GiveUp(u, result) ==
  /\ io' = NoOne /\ UNCHANGED <<id, answer>>
  /\ Outcome(u, result)

\* Wrong variant: the next frame that answers a request is taken for u's.
ReadAny(u) ==
  /\ pc[u] = "reading" /\ out # <<>>
  /\ out' = Tail(out)
  /\ \/ Head(out) = Garbage /\ GiveUp(u, "retryable")
     \/ Head(out) = Notice /\ Skip(u)
     \/ Head(out) \notin {Garbage, Notice} /\ Take(u, Head(out))
  /\ UNCHANGED <<nextId, noise, started>>

\* One frame is read; an answer to a request that was given up is skipped.
Read(u) ==
  /\ pc[u] = "reading" /\ out # <<>>
  /\ out' = Tail(out)
  /\ \/ Head(out) = Garbage /\ GiveUp(u, "retryable")
     \/ Head(out) = id[u] /\ Take(u, id[u])
     \/ Head(out) \notin {Garbage, id[u]} /\ Skip(u)
  /\ UNCHANGED <<nextId, noise, started>>

\* The server's output ends, or cannot be cut into frames.
ReadFails(u) ==
  /\ pc[u] = "reading" /\ (out = <<>> => ~alive)
  /\ GiveUp(u, "terminal")
  /\ out' = <<>>
  /\ UNCHANGED <<nextId, noise, started>>

\* Wrong variant: every user that meets the failure reports it.
MarkFailedLoud(u) ==
  /\ pc[u] = "failing"
  /\ slot' = "Failed" /\ reports' = reports + 1
  /\ pc' = Woken(u, "idle")
  /\ Stop(Dropped(u))
  /\ UNCHANGED <<starter, io, id, answer, nextId, out, noise, started>>

\* mark_failed, and the report of the one that was first.
MarkFailed(u) ==
  /\ pc[u] = "failing"
  /\ slot' = "Failed"
  /\ reports' = IF slot = "Failed" THEN reports ELSE reports + 1
  /\ pc' = Woken(u, "idle")
  /\ Stop(Dropped(u))
  /\ UNCHANGED <<starter, io, id, answer, nextId, out, noise, started>>

-----------------------------------------------------------------------------
(* The language server.                                                    *)

manager == <<slot, starter, io, user, nextId, started, reports>>

Reply ==
  \E r \in owed :
    /\ owed' = owed \ {r} /\ out' = Append(out, r)
    /\ UNCHANGED <<manager, alive, noise>>

Babble ==
  /\ alive /\ noise < MaxNoise
  /\ noise' = noise + 1
  /\ \E frame \in {Notice, Garbage} : out' = Append(out, frame)
  /\ UNCHANGED <<manager, alive, owed>>

Die ==
  /\ alive
  /\ alive' = FALSE /\ owed' = {}
  /\ UNCHANGED <<manager, out, noise>>

-----------------------------------------------------------------------------
Use(u) ==
  \/ Look(u) \/ CreateFails(u) \/ Create(u) \/ Enter(u) \/ EnterFails(u)
  \/ Send(u) \/ Read(u) \/ ReadFails(u) \/ MarkFailed(u)

Next ==
  \/ \E u \in Users : Ask(u) \/ Use(u)
  \/ Reply \/ Babble \/ Die

Spec == Init /\ [][Next]_vars

\* Threads run, and the server answers what it has read or exits.  The code
\* does not see to the latter.
FairSpec == Spec /\ WF_vars(Reply) /\ \A u \in Users : WF_vars(Use(u))

-----------------------------------------------------------------------------
(* Properties.                                                             *)

\* Every variable keeps its type; the locks are held by users at work.
TypeOK ==
  /\ slot \in {"Idle", "Starting", "Ready", "Failed"}
  /\ starter \in Users \cup {NoOne}
  /\ io \in Users \cup {NoOne}
  /\ \A u \in Users : io = u <=> pc[u] = "reading"
  /\ pc \in [Users -> {"idle", "acquire", "waiting", "creating"} \cup Holding]
  /\ id \in [Users -> Nat] /\ answer \in [Users -> Nat] /\ nextId \in Nat
  /\ alive \in BOOLEAN /\ owed \subseteq Nat
  /\ out \in Seq(Frames) /\ noise \in 0..MaxNoise
  /\ started \in Nat /\ reports \in Nat

\* The server is started once for all its users, also when it has failed.
StartedOnce ==
  /\ started <= 1
  /\ \A u, v \in Users : pc[u] = "creating" /\ pc[v] = "creating" => u = v

\* The browser is told of a failure, and once, whoever meets it.
FailureReportedOnce == reports = IF slot = "Failed" THEN 1 ELSE 0

\* A user is never given the answer to another request, although requests
\* are given up with their answers still to come.
AnswerIsOwn == \A u \in Users : answer[u] \in {0, id[u]}

\* A process that nobody can use any more is ended.
NoServerLeftBehind ==
  slot = "Failed" /\ (\A u \in Users : pc[u] \notin Holding) => ~alive

\* The slot and its first user: until there is a process nobody has a client,
\* and one user at most is about to make it or to initialize it.
FirstUser ==
  /\ slot = "Idle" => started = 0 /\ \A u \in Users : pc[u] # "creating"
  /\ started = 0 =>
       ~alive /\ starter = NoOne /\ slot # "Ready" /\ \A u \in Users : pc[u] \notin Holding
  /\ starter # NoOne =>
       /\ slot = "Starting" /\ pc[starter] \in Holding \ {"failing"}
       /\ \A u \in Users : pc[u] \in Holding => u = starter
  /\ \A u \in Users : pc[u] = "creating" => slot = "Starting" /\ started = 0

\* The inductive invariant.
IInv ==
  /\ TypeOK /\ FirstUser /\ StartedOnce /\ FailureReportedOnce /\ AnswerIsOwn
  /\ NoServerLeftBehind

\* Once a user has met the end of the server, those who come later do not
\* try again.
FailureIsTerminal ==
  [][slot = "Failed" => slot' = "Failed"]_vars

\* Everyone who asks is answered, those who wait for the start included.
EveryoneIsAnswered == \A u \in Users : pc[u] # "idle" ~> pc[u] = "idle"
=============================================================================
