------------------------------ MODULE TaskWatch ------------------------------
(***************************************************************************)
(* A page watches a task: it is sent the task's recorded events from a      *)
(* cursor on, and then, every 25 ms, those recorded since.  Events are      *)
(* numbered over all tasks in the order they are recorded.                  *)
(***************************************************************************)
EXTENDS Naturals, Sequences

CONSTANTS Tasks, MaxEvents   \* bound: events recorded

VARIABLES
  recorded,  \* sequence of the tasks whose events were recorded
  at,        \* the socket: "idle", "checked" a command's cursor, or "sending"
  command,   \* the command that is handled, {} for none
  out,       \* numbers of the events still to be sent, the least first
  watch,     \* the socket's TaskWatchState, {} for none
  shown      \* task -> numbers of its events that the page has

handler == <<at, command, out, watch>>
vars == <<recorded, handler, shown>>

Numbers == DOMAIN recorded

\* list_for_task, which orders them by number.
Events(t, after) == {n \in Numbers : recorded[n] = t /\ n > after}

LastOf(numbers) == CHOOSE n \in numbers \cup {0} : \A m \in numbers : m <= n

\* What the page has of a task.
Had(t) == {shown[t][i] : i \in DOMAIN shown[t]}

Init ==
  /\ recorded = <<>> /\ at = "idle" /\ command = {} /\ out = {} /\ watch = {}
  /\ shown = [t \in Tasks |-> <<>>]

\* TaskEventRecord::append
Record(t) ==
  /\ Len(recorded) < MaxEvents /\ recorded' = Append(recorded, t)
  /\ UNCHANGED <<handler, shown>>

\* replay_cursor_state of a task that is there.
ValidCursor(t, after) == after \in {0} \cup {n \in Numbers : recorded[n] = t}

\* A page resumes from an event that it has; it may mistake one of another task
\* for it.
Cursors == {0} \cup UNION {Had(t) : t \in Tasks}
Watch(t, after) ==
  /\ at = "idle" /\ after \in Cursors /\ ValidCursor(t, after)
  /\ at' = "checked" /\ command' = {[task |-> t, after |-> after]}
  /\ UNCHANGED <<recorded, out, watch, shown>>

\* A page that resumes forgets what it has beyond the cursor.
Resumed(c) ==
  \E k \in 0..Len(shown[c.task]) :
    /\ \A i \in DOMAIN shown[c.task] : i <= k <=> shown[c.task][i] <= c.after
    /\ shown' = [shown EXCEPT ![c.task] = SubSeq(@, 1, k)]

\* Wrong variant: the watch goes on from the cursor of the command.
BootstrapFromCursor ==
  /\ at = "checked" /\ at' = "sending" /\ command' = {}
  /\ \E c \in command :
       /\ Resumed(c) /\ out' = Events(c.task, c.after)
       /\ watch' = {[task |-> c.task, last |-> c.after]}
  /\ UNCHANGED recorded

\* task_watch_bootstrap_data: the events after the cursor are sent, and the
\* watch goes on from the last that there is.
Bootstrap ==
  /\ at = "checked" /\ at' = "sending" /\ command' = {}
  /\ \E c \in command :
       /\ Resumed(c) /\ out' = Events(c.task, c.after)
       /\ watch' = {[task |-> c.task, last |-> LastOf(Events(c.task, 0))]}
  /\ UNCHANGED recorded

\* The store fails: the command is refused, and an earlier watch goes on.
BootstrapFails ==
  /\ at = "checked" /\ at' = "idle" /\ command' = {}
  /\ UNCHANGED <<recorded, out, watch, shown>>

\* next_task_watch_tick
Tick ==
  /\ at = "idle"
  /\ \E w \in watch :
       /\ Events(w.task, w.last) # {}
       /\ out' = Events(w.task, w.last)
       /\ watch' = {[w EXCEPT !.last = LastOf(out')]}
  /\ at' = "sending"
  /\ UNCHANGED <<recorded, command, shown>>

\* The store fails, and nobody is told that the watch is over; or the page
\* loads another session.
Unwatch ==
  /\ at = "idle" /\ watch # {} /\ watch' = {}
  /\ UNCHANGED <<recorded, at, command, out, shown>>

\* send_task_event_records: the page gets the next event of those to be sent.
Send ==
  /\ at = "sending"
  /\ \E n \in out, w \in watch :
       /\ \A m \in out : n <= m
       /\ shown' = [shown EXCEPT ![w.task] = Append(@, n)]
       /\ out' = out \ {n}
  /\ UNCHANGED <<recorded, at, command, watch>>

Sent ==
  /\ at = "sending" /\ out = {} /\ at' = "idle"
  /\ UNCHANGED <<recorded, command, out, watch, shown>>

\* The socket breaks, and the page connects again.
Reconnect ==
  /\ at' = "idle" /\ command' = {} /\ out' = {} /\ watch' = {}
  /\ UNCHANGED <<recorded, shown>>

Next ==
  \/ \E t \in Tasks :
       \/ Record(t)
       \/ \E after \in 0..MaxEvents : Watch(t, after)
  \/ Bootstrap \/ BootstrapFails \/ Tick \/ Unwatch \/ Send \/ Sent \/ Reconnect

Spec == Init /\ [][Next]_vars

-----------------------------------------------------------------------------
(* Properties.                                                             *)

TypeOK ==
  /\ recorded \in Seq(Tasks) /\ Len(recorded) <= MaxEvents
  /\ at \in {"idle", "checked", "sending"}
  /\ command \subseteq [task : Tasks, after : 0..MaxEvents]
  /\ out \subseteq Numbers
  /\ watch \subseteq [task : Tasks, last : 0..MaxEvents]
  /\ shown \in [Tasks -> Seq(Numbers)]

\* Wherever the socket broke and whatever was recorded while it was away: what
\* the page has of a task are its first events, each once and in order, and a
\* watch that has sent what it read has left nothing out.
EventsComeOnceInOrder ==
  /\ \A t \in Tasks :
       /\ \A i, j \in DOMAIN shown[t] : i < j => shown[t][i] < shown[t][j]
       /\ Had(t) = {n \in Events(t, 0) : n <= LastOf(Had(t))}
  /\ out = {} => \A w \in watch : w.last = LastOf(Had(w.task))
=============================================================================
