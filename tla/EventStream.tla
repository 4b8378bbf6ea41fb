----------------------------- MODULE EventStream -----------------------------
(***************************************************************************)
(* What a browser page shows of a session's turns.  The worker publishes   *)
(* runtime events, which update the manager's ActiveTurnReplay and go to a  *)
(* broadcast channel of limited length; the page's socket forwards them    *)
(* one by one.  A snapshot, taken after the socket has subscribed, replaces *)
(* what the page shows while events keep coming.                            *)
(***************************************************************************)
EXTENDS Naturals, Sequences

CONSTANTS
  Capacity,    \* SESSION_EVENT_CHANNEL_CAPACITY, 256 in the code
  MaxTurns,    \* bound: turns of the session
  MaxDeltas,   \* bound: pieces of text of a turn
  MaxSnapshots \* bound: snapshots taken

VARIABLES
  stage,      \* where the worker is in its turn
  turn,       \* number of turns begun; a turn's message has its number
  pieces,     \* number of pieces the turn has said
  said,       \* the pieces since its last tool call
  active,     \* ManagedSession::active_turn's content, {} for none
  persisted,  \* turns whose answer the store holds
  answers,    \* turn -> its answer, {} while there is none
  queue,      \* events the socket's receiver has not taken
  missed,     \* the channel dropped events since the page's snapshot
  socket,     \* what the page's socket does
  transcript, \* turns whose answers the snapshot in the making has read
  since,      \* number of the last turn that was over with its answer on subscribing
  snapshots,  \* number of snapshots taken
  busy,       \* the page shows a turn in progress
  rows,       \* turn -> text of the page's row of its message, {} for none
  history     \* turns whose answers the page shows from the store

worker == <<stage, turn, pieces, said, persisted, answers>>
channel == <<queue, missed>>
taking == <<socket, transcript, since, snapshots>>
page == <<busy, rows, history>>
vars == <<worker, active, channel, taking, page>>

Turns == 1..MaxTurns
NoRows == [t \in Turns |-> {}]

Init ==
  /\ stage = "none" /\ turn = 0 /\ pieces = 0 /\ said = <<>>
  /\ active = {} /\ persisted = {} /\ answers = NoRows
  /\ queue = <<>> /\ missed = FALSE
  /\ socket = "away" /\ transcript = {} /\ since = 0 /\ snapshots = 0
  /\ busy = FALSE /\ rows = NoRows /\ history = {}

-----------------------------------------------------------------------------
(* The worker and the manager.                                             *)

Event(kind, text) == [kind |-> kind, turn |-> turn, text |-> text]

\* publish_runtime_event's send: a full channel drops its oldest event.
\* Without a receiver the event is gone.
Publish(events) ==
  LET all == queue \o events
      over == IF Len(all) > Capacity THEN Len(all) - Capacity ELSE 0
  IN IF socket = "away" THEN UNCHANGED channel
     ELSE /\ queue' = SubSeq(all, over + 1, Len(all))
          /\ missed' = (missed \/ over > 0)

\* prompt.submit from a page that shows no turn: start_active_turn, and the
\* answer, at which the page shows the turn as running.
Submit ==
  /\ socket = "serving" /\ ~busy /\ stage = "none" /\ turn < MaxTurns
  /\ turn' = turn + 1 /\ stage' = "reserved" /\ pieces' = 0 /\ said' = <<>>
  /\ active' = {<<>>} /\ busy' = TRUE
  /\ UNCHANGED <<persisted, answers, channel, taking, rows, history>>

\* turn.started and message.started.
Open ==
  /\ stage = "reserved" /\ stage' = "streaming"
  /\ Publish(<<Event("turn.started", <<>>), Event("message.started", <<>>)>>)
  /\ UNCHANGED <<turn, pieces, said, active, persisted, answers, taking, page>>

Delta ==
  /\ stage = "streaming" /\ pieces < MaxDeltas
  /\ pieces' = pieces + 1 /\ said' = Append(said, pieces')
  /\ active' = {Append(text, pieces') : text \in active}
  /\ Publish(<<Event("message.delta", <<pieces'>>)>>)
  /\ UNCHANGED <<stage, turn, persisted, answers, taking, page>>

\* tool.completed: the text is begun anew.
Tool ==
  /\ stage = "streaming" /\ said # <<>>
  /\ said' = <<>> /\ active' = {<<>> : text \in active}
  /\ Publish(<<Event("tool.completed", <<>>)>>)
  /\ UNCHANGED <<stage, turn, pieces, persisted, answers, taking, page>>

\* message.completed, before the store has the answer.
Answer ==
  /\ stage = "streaming" /\ said # <<>> /\ stage' = "answered"
  /\ answers' = [answers EXCEPT ![turn] = {said}]
  /\ Publish(<<Event("message.completed", said)>>)
  /\ UNCHANGED <<turn, pieces, said, active, persisted, taking, page>>

Persist ==
  /\ stage = "answered" /\ stage' = "persisted"
  /\ persisted' = persisted \cup {turn}
  /\ UNCHANGED <<turn, pieces, said, active, answers, channel, taking, page>>

\* turn.completed; turn.failed of a turn that fails or is aborted, or that
\* finish_prompt reports because the store failed.
EndTurn ==
  /\ stage # "none" /\ stage' = "none" /\ active' = {}
  /\ Publish(<<Event(IF stage = "persisted" THEN "turn.completed" ELSE "turn.failed", <<>>)>>)
  /\ UNCHANGED <<turn, pieces, said, persisted, answers, taking, page>>

-----------------------------------------------------------------------------
(* Snapshots.                                                              *)

Answered == IF stage \in {"reserved", "streaming"} THEN turn - 1 ELSE turn

\* A socket attaches, or the page loads the session again: subscribe comes
\* first, and what the receiver had not taken is dropped.
Subscribe(goal) ==
  /\ IF goal = "connecting" THEN socket = "away" ELSE socket = "serving"
  /\ snapshots < MaxSnapshots /\ snapshots' = snapshots + 1
  /\ socket' = goal /\ queue' = <<>> /\ missed' = FALSE /\ since' = Answered
  /\ UNCHANGED <<worker, active, transcript, page>>

\* snapshot_data reads the turns; the snapshot of a new socket has none.
ReadTurns ==
  /\ socket = "loading" /\ socket' = "read" /\ transcript' = persisted
  /\ UNCHANGED <<worker, active, channel, since, snapshots, page>>

\* Wrong variant: the socket subscribes when the snapshot is sent.
HydrateAndSubscribe ==
  /\ socket \in {"connecting", "read"} /\ socket' = "serving"
  /\ busy' = (active # {}) /\ queue' = <<>>
  /\ rows' = [t \in Turns |-> IF t = turn THEN active ELSE {}]
  /\ history' = transcript /\ transcript' = {}
  /\ UNCHANGED <<worker, active, missed, since, snapshots>>

\* Then the active turn is read, and the page replaces all it shows.
Hydrate ==
  /\ socket \in {"connecting", "read"} /\ socket' = "serving"
  /\ busy' = (active # {})
  /\ rows' = [t \in Turns |-> IF t = turn THEN active ELSE {}]
  /\ history' = transcript /\ transcript' = {}
  /\ UNCHANGED <<worker, active, channel, since, snapshots>>

\* A snapshot cannot be made, or the socket closes; the page keeps its rows.
Leave ==
  /\ socket # "away" /\ socket' = "away" /\ transcript' = {}
  /\ queue' = <<>> /\ missed' = FALSE
  /\ UNCHANGED <<worker, active, since, snapshots, page>>

-----------------------------------------------------------------------------
(* The page.                                                               *)

RowOf(event) ==
  LET row == rows[event.turn]
  IN CASE event.kind = "message.started" -> IF row = {} THEN {<<>>} ELSE row
       [] event.kind = "message.delta" ->
            IF row = {} THEN {event.text} ELSE {text \o event.text : text \in row}
       [] event.kind = "message.completed" -> {event.text}
       [] OTHER -> row

BusyAfter(event) ==
  CASE event.kind \in {"turn.started", "message.delta"} -> TRUE
    [] event.kind \in {"turn.completed", "turn.failed"} -> FALSE
    [] OTHER -> busy

\* next_runtime_event, its event as the page's frame, and what the page does.
Forward ==
  /\ socket = "serving" /\ queue # <<>>
  /\ LET event == Head(queue)
     IN /\ rows' = [rows EXCEPT ![event.turn] = RowOf(event)]
        /\ busy' = BusyAfter(event)
  /\ queue' = Tail(queue)
  /\ UNCHANGED <<worker, active, missed, taking, history>>

Next ==
  \/ Submit \/ Open \/ Delta \/ Tool \/ Answer \/ Persist \/ EndTurn
  \/ Subscribe("connecting") \/ Subscribe("loading") \/ ReadTurns \/ Hydrate \/ Leave
  \/ Forward

Spec == Init /\ [][Next]_vars

-----------------------------------------------------------------------------
(* Properties.                                                             *)

Kinds == {"turn.started", "message.started", "message.delta", "tool.completed",
          "message.completed", "turn.completed", "turn.failed"}
Texts == Seq(1..MaxDeltas)
Events == [kind : Kinds, turn : Turns, text : Texts]

TypeOK ==
  /\ stage \in {"none", "reserved", "streaming", "answered", "persisted"}
  /\ turn \in 0..MaxTurns /\ pieces \in 0..MaxDeltas /\ said \in Texts
  /\ active \subseteq Texts
  /\ persisted \subseteq Turns /\ answers \in [Turns -> SUBSET Texts]
  /\ queue \in Seq(Events) /\ Len(queue) <= Capacity /\ missed \in BOOLEAN
  /\ socket \in {"away", "connecting", "loading", "read", "serving"}
  /\ transcript \subseteq Turns /\ since \in 0..MaxTurns /\ snapshots \in 0..MaxSnapshots
  /\ busy \in BOOLEAN /\ rows \in [Turns -> SUBSET Texts] /\ history \subseteq Turns

\* Wherever a snapshot fell between the events of a turn: once a socket that
\* missed nothing has forwarded what it had, the page shows a turn in progress
\* if one has started, has every piece of its text, and has each answer that
\* was given since the socket subscribed.  (Before turn.started, the
\* end of an earlier turn that was still queued may have hidden the new one.)
PageKeepsUp ==
  socket = "serving" /\ queue = <<>> /\ ~missed =>
    /\ stage # "reserved" => busy = (active # {})
    /\ stage = "streaming" =>
         \A text \in active : \A i \in DOMAIN text :
           \E row \in rows[turn] : \E j \in DOMAIN row : row[j] = text[i]
    /\ \A t \in (since + 1)..turn :
         answers[t] # {} => rows[t] = answers[t] \/ t \in history
=============================================================================
