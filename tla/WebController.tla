---------------------------- MODULE WebController ----------------------------
(***************************************************************************)
(* Browser sockets and the sessions they control.  A socket selects a      *)
(* session that nobody controls, or the one the page asks for, and then    *)
(* serves commands one at a time: load another session, change its model,  *)
(* submit a prompt.  Attaching hands the session row that was read before   *)
(* to the runtime manager, which takes the model from it.  Steps are cut    *)
(* where the code awaits the store or the socket.                          *)
(***************************************************************************)
EXTENDS Naturals, FiniteSets

CONSTANTS
  Sockets,
  Sessions,     \* ids of sessions
  Models,       \* provider and model of a session
  Default,      \* the one of a new session
  MaxUpdates    \* bound: updates of settings

VARIABLES
  rows,      \* session -> its row in the store
  inForce,   \* session -> ManagedSession::runtime's model, {} if not managed
  lock,      \* session -> ManagedSession::controller_id, {} for none
  turn,      \* session -> what its active turn runs with, {} for none
  at,        \* socket -> what it does next
  wanted,    \* socket -> the session the page asked for, {} for none
  left,      \* socket -> the sessions it still has to try
  read,      \* socket -> the rows it has read
  active,    \* socket -> its active session, {} for none
  target,    \* socket -> the session it loads, {} for none
  updates,   \* number of updates of settings
  chosen     \* session -> the model of the last update that was reported, {}

manager == <<inForce, lock>>
socket == <<at, wanted, left, read, active, target>>
vars == <<rows, manager, turn, socket, updates, chosen>>

\* settings is {} in a row that has none yet.
Row == [model : Models, settings : SUBSET Models]
NoRow == [model |-> Default, settings |-> {}]
Existing == {s \in Sessions : rows[s] # {}}

\* refresh_from_session: the settings override the model.
ModelOf(row) == IF row.settings = {} THEN {row.model} ELSE row.settings

Init ==
  /\ rows \in [Sessions -> {{}, {NoRow}, {[NoRow EXCEPT !.settings = {Default}]}}]
  /\ inForce = [s \in Sessions |-> {}] /\ lock = [s \in Sessions |-> {}]
  /\ turn = [s \in Sessions |-> {}]
  /\ at = [c \in Sockets |-> "closed"] /\ wanted = [c \in Sockets |-> {}]
  /\ left = [c \in Sockets |-> {}] /\ read = [c \in Sockets |-> [s \in Sessions |-> {}]]
  /\ active = [c \in Sockets |-> {}] /\ target = [c \in Sockets |-> {}]
  /\ updates = 0 /\ chosen = [s \in Sessions |-> {}]

-----------------------------------------------------------------------------
(* The runtime manager.                                                    *)

Free(s, c) == lock[s] \subseteq {c}

\* ensure_managed_session: the row replaces the runtime's model, even if the
\* session turns out to be controlled by another.
Ensures(s, row) == inForce' = [inForce EXCEPT ![s] = ModelOf(row)]

\* What a socket has read is of no use to it any more.
Unread == [s \in Sessions |-> {}]
Forgets(c) ==
  /\ wanted' = [wanted EXCEPT ![c] = {}] /\ left' = [left EXCEPT ![c] = {}]
  /\ read' = [read EXCEPT ![c] = Unread]

\* Wrong variant: turns are not looked at.
StreamingNever(s) == FALSE

\* active_turn
Streaming(s) == turn[s] # {}

\* release_controller, by a socket that is done with a session.
Released(l, s, c) == [l EXCEPT ![s] = @ \ {c}]

-----------------------------------------------------------------------------
(* Connecting: attach_or_select_session.                                   *)

\* The rows are listed; without any, a session is to be created.
Connect(c, want) ==
  /\ at[c] = "closed"
  /\ wanted' = [wanted EXCEPT ![c] = want]
  /\ read' = [read EXCEPT ![c] = rows] /\ left' = [left EXCEPT ![c] = Existing]
  /\ at' = [at EXCEPT ![c] = IF Existing = {} THEN "creating" ELSE "selecting"]
  /\ UNCHANGED <<rows, manager, turn, active, target, updates, chosen>>

Create(c, s) ==
  /\ at[c] = "creating" /\ rows[s] = {}
  /\ rows' = [rows EXCEPT ![s] = {NoRow}]
  /\ read' = [read EXCEPT ![c][s] = {NoRow}] /\ left' = [left EXCEPT ![c] = {s}]
  /\ at' = [at EXCEPT ![c] = "selecting"]
  /\ UNCHANGED <<manager, turn, wanted, active, target, updates, chosen>>

\* The next session to try: the one asked for comes first.
Candidates(c) ==
  IF wanted[c] \cap left[c] # {} THEN wanted[c] \cap left[c] ELSE left[c]

\* ensure_session_settings: a row without settings gets those of the row read.
Complete(row) == IF row.settings = {} THEN [row EXCEPT !.settings = {row.model}] ELSE row
FillIn(c, s) ==
  /\ \/ at[c] = "selecting" /\ s \in Candidates(c)
     \/ at[c] = "loading" /\ s \in target[c]
  /\ \E row \in read[c][s] :
       /\ row.settings = {}
       /\ rows' = [rows EXCEPT ![s] = {[r EXCEPT !.settings = {row.model}] : r \in @}]
       /\ read' = [read EXCEPT ![c][s] = {Complete(row)}]
  /\ UNCHANGED <<manager, turn, at, wanted, left, active, target, updates, chosen>>

\* attach_controller for a candidate.
Attach(c, s) ==
  /\ at[c] = "selecting" /\ s \in Candidates(c)
  /\ \E row \in read[c][s] : row.settings # {} /\ Ensures(s, row)
  /\ Free(s, c)
  /\ lock' = [lock EXCEPT ![s] = {c}] /\ active' = [active EXCEPT ![c] = {s}]
  /\ at' = [at EXCEPT ![c] = "greeting"] /\ Forgets(c)
  /\ UNCHANGED <<rows, turn, target, updates, chosen>>

\* It is busy: that ends the socket if it was asked for, or is the last.
TryNext(c, s) ==
  /\ at[c] = "selecting" /\ s \in Candidates(c)
  /\ \E row \in read[c][s] : row.settings # {} /\ Ensures(s, row)
  /\ ~Free(s, c)
  /\ IF s \in wanted[c] \/ left[c] = {s}
     THEN Forgets(c) /\ at' = [at EXCEPT ![c] = "closed"]
     ELSE left' = [left EXCEPT ![c] = @ \ {s}] /\ UNCHANGED <<at, wanted, read>>
  /\ UNCHANGED <<rows, lock, turn, active, target, updates, chosen>>

\* The store fails while a session is selected.
SelectFails(c) ==
  /\ at[c] \in {"creating", "selecting"} /\ at' = [at EXCEPT ![c] = "closed"]
  /\ Forgets(c)
  /\ UNCHANGED <<rows, manager, turn, active, target, updates, chosen>>

\* The snapshot is sent, after connecting, loading or an update.
Greet(c) ==
  /\ at[c] = "greeting" /\ at' = [at EXCEPT ![c] = "serving"]
  /\ UNCHANGED <<rows, manager, turn, wanted, left, read, active, target, updates, chosen>>

\* The snapshot cannot be made or sent, a send fails, or the browser closes.
Leave(c) ==
  /\ at[c] \in {"greeting", "serving"} /\ at' = [at EXCEPT ![c] = "closed"]
  /\ active' = [active EXCEPT ![c] = {}]
  /\ \E s \in active[c] : lock' = Released(lock, s, c)
  /\ UNCHANGED <<rows, inForce, turn, wanted, left, read, target, updates, chosen>>

-----------------------------------------------------------------------------
(* Commands.                                                               *)

\* load_session_for_controller reads the row.
Load(c, s) ==
  /\ at[c] = "serving" /\ rows[s] # {}
  /\ at' = [at EXCEPT ![c] = "loading"] /\ target' = [target EXCEPT ![c] = {s}]
  /\ read' = [read EXCEPT ![c][s] = rows[s]]
  /\ UNCHANGED <<rows, manager, turn, wanted, left, active, updates, chosen>>

\* The load is refused: the store fails, a turn of the session that would be
\* left streams, or the other session is busy.
LoadRefused(c) ==
  /\ at[c] = "loading"
  /\ \/ UNCHANGED inForce
     \/ \E s \in target[c], p \in active[c] : \E row \in read[c][s] :
          row.settings # {} /\ (s = p \/ ~Streaming(p)) /\ ~Free(s, c) /\ Ensures(s, row)
  /\ at' = [at EXCEPT ![c] = "serving"] /\ target' = [target EXCEPT ![c] = {}]
  /\ Forgets(c)
  /\ UNCHANGED <<rows, lock, turn, active, updates, chosen>>

\* Wrong variant: the session that is left is not released.
LoadedHeld(c) ==
  /\ at[c] = "loading"
  /\ \E s \in target[c], p \in active[c] : \E row \in read[c][s] :
       /\ row.settings # {} /\ (s = p \/ ~Streaming(p)) /\ Free(s, c)
       /\ Ensures(s, row)
       /\ lock' = [lock EXCEPT ![s] = {c}]
       /\ active' = [active EXCEPT ![c] = {s}]
  /\ at' = [at EXCEPT ![c] = "greeting"] /\ target' = [target EXCEPT ![c] = {}]
  /\ Forgets(c)
  /\ UNCHANGED <<rows, turn, updates, chosen>>

Loaded(c) ==
  /\ at[c] = "loading"
  /\ \E s \in target[c], p \in active[c] : \E row \in read[c][s] :
       /\ row.settings # {} /\ (s = p \/ ~Streaming(p)) /\ Free(s, c)
       /\ Ensures(s, row)
       /\ lock' = LET l == [lock EXCEPT ![s] = {c}]
                  IN IF s = p THEN l ELSE Released(l, p, c)
       /\ active' = [active EXCEPT ![c] = {s}]
  /\ at' = [at EXCEPT ![c] = "greeting"] /\ target' = [target EXCEPT ![c] = {}]
  /\ Forgets(c)
  /\ UNCHANGED <<rows, turn, updates, chosen>>

\* update_session_runtime_selection: the store's row, and then the manager's.
Update(c, m) ==
  /\ at[c] = "serving" /\ updates < MaxUpdates /\ updates' = updates + 1
  /\ \E s \in active[c] :
       /\ ~Streaming(s)
       /\ rows' = [rows EXCEPT ![s] = {[model |-> m, settings |-> {m}]}]
       /\ read' = [read EXCEPT ![c][s] = {[model |-> m, settings |-> {m}]}]
  /\ at' = [at EXCEPT ![c] = "updating"]
  /\ UNCHANGED <<manager, turn, wanted, left, active, target, chosen>>

\* The socket is attached again, which nobody can prevent, and the page told.
Updated(c) ==
  /\ at[c] = "updating"
  /\ \E s \in active[c] : \E row \in read[c][s] :
       /\ Free(s, c) /\ lock' = [lock EXCEPT ![s] = {c}]
       /\ Ensures(s, row)
       /\ chosen' = [chosen EXCEPT ![s] = {row.model}]
  /\ at' = [at EXCEPT ![c] = "greeting"] /\ Forgets(c)
  /\ UNCHANGED <<rows, turn, active, target, updates>>

\* start_active_turn and submit_prompt: the turn runs with the manager's model.
Submit(c) ==
  /\ at[c] = "serving"
  /\ \E s \in active[c] : turn[s] = {} /\ turn' = [turn EXCEPT ![s] = inForce[s]]
  /\ UNCHANGED <<rows, manager, socket, updates, chosen>>

EndTurn(s) ==
  /\ turn[s] # {} /\ turn' = [turn EXCEPT ![s] = {}]
  /\ UNCHANGED <<rows, manager, socket, updates, chosen>>

Next ==
  \/ \E c \in Sockets :
       \/ Connect(c, {}) \/ SelectFails(c) \/ Greet(c) \/ Leave(c)
       \/ LoadRefused(c) \/ Loaded(c) \/ Updated(c) \/ Submit(c)
       \/ \E s \in Sessions :
            \/ Connect(c, {s}) \/ Create(c, s) \/ FillIn(c, s) \/ Attach(c, s)
            \/ TryNext(c, s) \/ Load(c, s)
       \/ \E m \in Models : Update(c, m)
  \/ \E s \in Sessions : EndTurn(s)

Spec == Init /\ [][Next]_vars

-----------------------------------------------------------------------------
(* Properties.                                                             *)

Attached == {"greeting", "serving", "loading", "updating"}

TypeOK ==
  /\ rows \in [Sessions -> SUBSET Row] /\ inForce \in [Sessions -> SUBSET Models]
  /\ lock \in [Sessions -> SUBSET Sockets] /\ turn \in [Sessions -> SUBSET Models]
  /\ at \in [Sockets -> {"closed", "creating", "selecting"} \cup Attached]
  /\ wanted \in [Sockets -> SUBSET Sessions] /\ left \in [Sockets -> SUBSET Sessions]
  /\ read \in [Sockets -> [Sessions -> SUBSET Row]]
  /\ active \in [Sockets -> SUBSET Sessions] /\ target \in [Sockets -> SUBSET Sessions]
  /\ updates \in 0..MaxUpdates /\ chosen \in [Sessions -> SUBSET Models]

\* A session is locked by the one socket whose active session it is: no lock
\* outlives its socket, and no socket serves a session that it lost.
LocksFollowSockets ==
  \A s \in Sessions : lock[s] = {c \in Sockets : at[c] \in Attached /\ active[c] = {s}}

\* While its turn streams, a session keeps the socket that controls it, as long
\* as that lives: whoever started the turn sees its end and can abort it.
TurnKeepsSocket ==
  [][\A s \in Sessions, c \in Sockets :
       turn[s] # {} /\ c \in lock[s] => c \in lock'[s] \/ at'[c] = "closed"]_vars

\* The model that the page was told is the one the session's turns run with.
\* The code does not keep it: a socket attaches with the row it read before,
\* and hands the runtime the model of that row.
SettingsInForce ==
  \A s \in Sessions : chosen[s] # {} /\ turn[s] # {} => turn[s] = chosen[s]
=============================================================================
