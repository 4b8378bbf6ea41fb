----------------------------- MODULE MCSessions -----------------------------
(***************************************************************************)
(* What a session is made of and what a browser sees of it, for TLC: its    *)
(* turns, the sockets that control it, the events of a turn on a page, and  *)
(* the watch of a task's events.  The four share no state, and `part' names *)
(* the one that moves in a behaviour, so that their states add up.          *)
(***************************************************************************)
EXTENDS TurnLifecycle

CONSTANTS
  Sockets, Sessions, Models, Default, MaxUpdates,
  Capacity, MaxStreamed, MaxDeltas, MaxSnapshots,
  Tasks, MaxEvents

VARIABLES
  part,
  rows, inForce, lock, turn, at, wanted, left, read, active, target, updates, chosen,
  step, streamed, pieces, said, running, persisted, answers, queue, missed, socket,
    transcript, since, snapshots, busy, shownRows, history,
  recorded, handling, command, out, watch, shown

web == <<rows, inForce, lock, turn, at, wanted, left, read, active, target, updates, chosen>>
stream == <<step, streamed, pieces, said, running, persisted, answers, queue, missed, socket,
            transcript, since, snapshots, busy, shownRows, history>>
watching == <<recorded, handling, command, out, watch, shown>>

\* What the bounds are, and that the default model is one.
ASSUME SessionsAssumption ==
  /\ Default \in Models
  /\ {MaxUpdates, Capacity, MaxStreamed, MaxDeltas, MaxSnapshots, MaxEvents} \subseteq Nat

Web == INSTANCE WebController
Stream == INSTANCE EventStream WITH
  MaxTurns <- MaxStreamed, stage <- step, turn <- streamed, active <- running, rows <- shownRows
Watch == INSTANCE TaskWatch WITH at <- handling

PartsInit ==
  /\ part \in {"turns", "web", "stream", "watch"}
  /\ Init /\ Web!Init /\ Stream!Init /\ Watch!Init
  /\ part # "web" => rows = [s \in Sessions |-> {}]

PartsNext ==
  \/ part = "turns" /\ Next /\ UNCHANGED <<part, web, stream, watching>>
  \/ part = "web" /\ Web!Next /\ UNCHANGED <<part, vars, stream, watching>>
  \/ part = "stream" /\ Stream!Next /\ UNCHANGED <<part, vars, web, watching>>
  \/ part = "watch" /\ Watch!Next /\ UNCHANGED <<part, vars, web, stream>>

\* The others may come to an end of their bounds; the turns never stop.
Rest == part # "turns" /\ UNCHANGED <<part, vars, web, stream, watching>>

PartsSpec ==
  PartsInit /\ [][PartsNext \/ Rest]_<<part, vars, web, stream, watching>> /\ Fairness

-----------------------------------------------------------------------------
\* The inductive invariant of the turns, and the types of the other parts.
PartsOK == IInv /\ Web!TypeOK /\ Stream!TypeOK /\ Watch!TypeOK

\* A session's lock is held by the sockets that think they hold it (see
\* WebController; RuntimeManager::attach_controller).
LocksFollowSockets == Web!LocksFollowSockets

\* A turn keeps its socket (see WebController; the checks of active_turn).
TurnKeepsSocket == Web!TurnKeepsSocket

\* The page keeps up with the turn (see EventStream; publish_runtime_event).
PageKeepsUp == Stream!PageKeepsUp

\* A watcher has the events of its task once and in order (see TaskWatch;
\* task_watch_bootstrap_data).
EventsComeOnceInOrder == Watch!EventsComeOnceInOrder
=============================================================================
