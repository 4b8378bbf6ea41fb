------------------------------ MODULE TaskBoard ------------------------------
(***************************************************************************)
(* What the scheduler promises about delegated tasks, without attempts,    *)
(* leases, loops or a store: a task is worked on by at most one child turn *)
(* at a time, only once everything it depends on is done, and is done only *)
(* when such a turn completed.  Done and cancelled are final; a task is    *)
(* never cancelled under a turn, only asked to close.                      *)
(***************************************************************************)
CONSTANTS Tasks, Deps, Seeded

VARIABLES status, run

board == <<status, run>>

Statuses == {"absent", "open", "closing", "done", "failed", "cancelled"}
Ends     == {"completed", "failed", "interrupted"}
Runs     == {"idle", "turn"} \cup Ends

Init ==
  /\ status = [t \in Tasks |-> IF t \in Seeded THEN "open" ELSE "absent"]
  /\ run = [t \in Tasks |-> "idle"]

Create(t) ==
  /\ status[t] = "absent"
  /\ status' = [status EXCEPT ![t] = "open"]
  /\ UNCHANGED run

\* A child turn may start although the task was asked to close meanwhile.
Begin(t) ==
  /\ run[t] = "idle"
  /\ status[t] \in {"open", "closing"}
  /\ \A d \in Deps[t] : status[d] = "done"
  /\ run' = [run EXCEPT ![t] = "turn"]
  /\ UNCHANGED status

End(t, end) ==
  /\ run[t] = "turn"
  /\ run' = [run EXCEPT ![t] = end]
  /\ UNCHANGED status

\* How the turn ended is reported, or lost: an open task takes over the
\* result, and an interruption undoes a request to close.
Report(t) ==
  /\ run[t] \in Ends
  /\ run' = [run EXCEPT ![t] = "idle"]
  /\ \/ UNCHANGED status
     \/ /\ run[t] \in {"completed", "failed"}
        /\ status[t] = "open"
        /\ status' = [status EXCEPT ![t] = IF run[t] = "completed" THEN "done" ELSE "failed"]
     \/ /\ run[t] = "interrupted"
        /\ status[t] = "closing"
        /\ status' = [status EXCEPT ![t] = "open"]

\* What control calls, failed starts and the recovery of a restarted process
\* may make of a task.
Moved(t) ==
  \/ status'[t] = status[t]
  \/ status[t] = "open" /\ status'[t] = "closing"
  \/ status[t] = "open" /\ status'[t] = "cancelled" /\ run[t] = "idle"
  \/ status[t] = "closing" /\ status'[t] = "open" /\ run[t] = "idle"
  \/ status[t] = "failed" /\ status'[t] = "open"

Move ==
  /\ status' \in [Tasks -> Statuses]
  /\ \A t \in Tasks : Moved(t)
  /\ UNCHANGED run

\* All turns are gone with the process that ran them.
Crash ==
  /\ status' \in [Tasks -> Statuses]
  /\ \A t \in Tasks : Moved(t)
  /\ run' = [t \in Tasks |-> "idle"]

Next ==
  \/ \E t \in Tasks : Create(t) \/ Begin(t) \/ Report(t)
  \/ \E t \in Tasks, end \in Ends : End(t, end)
  \/ Move
  \/ Crash

Spec == Init /\ [][Next]_board
=============================================================================
