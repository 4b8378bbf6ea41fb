---------------------------- MODULE ShellCommand ----------------------------
(***************************************************************************)
(* One command of the shell tool: the tool watches the process tree of the *)
(* shell it started and, when the time or the output is at its limit or    *)
(* the shell cannot be waited for, ends what it finds of the tree: first   *)
(* with TERM, then with rounds of KILL.  The processes fork, leave their   *)
(* group, close the capture files, ignore TERM and exit when they like.    *)
(* A scan of /proc is one step, and an orphan that exits is reaped at once. *)
(***************************************************************************)
EXTENDS Naturals

CONSTANTS
  Shell,    \* the tool's child
  Others,   \* processes there may be below it
  Hardened  \* bound: the sets of processes that may ignore TERM

Procs == {Shell} \cup Others
Elder == 0        \* parent of those whose parent is gone, and of the shell

VARIABLES
  unborn,    \* processes not started yet
  running,   \* processes that run
  parent,    \* process -> its parent
  group,     \* process -> the leader of its process group
  holders,   \* processes with a capture file open
  stubborn,  \* processes that ignore TERM
  dying,     \* processes that a signal ends
  signals,   \* the kill command works
  at,        \* what the tool does next
  reason,    \* why it ends the command
  known,     \* observed_descendants, and then tracked_descendants
  remaining, \* remaining_descendants, between the grace period and KILL
  seen       \* every process that has been in these since the termination began

tree == <<unborn, running, parent, group, holders, stubborn, dying>>
watch == <<known, remaining, seen>>
vars == <<tree, signals, at, reason, watch>>

Init ==
  /\ unborn = Others /\ running = {Shell}
  /\ parent = [p \in Procs |-> Elder] /\ group = [p \in Procs |-> Shell]
  /\ holders = {Shell}
  /\ stubborn \in Hardened /\ dying = {} /\ signals \in BOOLEAN
  /\ at = "track" /\ reason = "none" /\ known = {} /\ remaining = {} /\ seen = {}

-----------------------------------------------------------------------------
(* The processes.                                                          *)

Fork(p, q) ==
  /\ p \in running \ dying /\ q \in unborn
  /\ unborn' = unborn \ {q} /\ running' = running \cup {q}
  /\ parent' = [parent EXCEPT ![q] = p]
  /\ group' = [group EXCEPT ![q] = group[p]]
  /\ holders' = IF p \in holders THEN holders \cup {q} ELSE holders
  /\ UNCHANGED <<stubborn, dying, signals, at, reason, watch>>

\* setsid, or setpgid.
LeaveGroup(p) ==
  /\ p \in running /\ group[p] # p /\ group' = [group EXCEPT ![p] = p]
  /\ UNCHANGED <<unborn, running, parent, holders, stubborn, dying, signals, at, reason,
                 watch>>

CloseCapture(p) ==
  /\ p \in running \cap holders /\ holders' = holders \ {p}
  /\ UNCHANGED <<unborn, running, parent, group, stubborn, dying, signals, at, reason,
                 watch>>

\* A process that is gone has no parent and no group: it is as it was at first.
Exit(p) ==
  /\ p \in running /\ running' = running \ {p}
  /\ parent' = [q \in Procs |-> IF parent[q] = p \/ q = p THEN Elder ELSE parent[q]]
  /\ group' = [group EXCEPT ![p] = Shell]
  /\ holders' = holders \ {p} /\ dying' = dying \ {p}
  /\ UNCHANGED <<unborn, stubborn, signals, at, reason, watch>>

-----------------------------------------------------------------------------
(* What the tool finds in /proc.                                           *)

\* descendant_processes: those a chain of parents leads to the shell from.
Children(ps) == {q \in running : parent[q] \in ps}
Descendants ==
  {p \in running :
     \A ps \in SUBSET running : Children(ps \cup {Shell}) \subseteq ps => p \in ps}

\* processes_holding_capture_files: those with a descriptor of a capture file.
HoldingCapture == {p \in running : p \in holders}

\* Wrong variant: only what still descends from the shell or holds a file.
CollectFresh(ps) == Descendants \cup HoldingCapture

\* collect_termination_candidates
Collect(ps) == (ps \cap running) \cup Descendants \cup HoldingCapture

\* A signal goes to the processes and to their groups, and the first TERM and
\* KILL to the shell's group too.
Targets(ps) == ps \cup {p \in running : \E q \in ps \cap running : group[p] = group[q]}
ShellGroup == {p \in running : group[p] = Shell}

-----------------------------------------------------------------------------
(* The tool.                                                               *)

\* track_observed_descendants
Track ==
  /\ at = "track" /\ at' = "poll"
  /\ known' = (known \cap running) \cup Descendants
  /\ UNCHANGED <<tree, signals, reason, remaining, seen>>

\* The time is over, or the capture files are too large.
Limit ==
  /\ at \in {"track", "poll"} /\ reason = "none" /\ reason' = "limit"
  /\ UNCHANGED <<tree, signals, at, watch>>

\* try_wait, and a look at the files and the clock.
Poll ==
  /\ at = "poll"
  /\ at' = CASE Shell \notin running -> "wait"
             [] Shell \in running /\ reason = "limit" -> "collect"
             [] OTHER -> "track"
  /\ UNCHANGED <<tree, signals, reason, watch>>

PollFails ==
  /\ at = "poll" /\ at' = "collect" /\ reason' = "error"
  /\ UNCHANGED <<tree, signals, watch>>

\* The tool looks for candidates again and goes on to next.
Looks(next) ==
  /\ known' = Collect(known) /\ seen' = seen \cup known \cup known'
  /\ at' = next
  /\ UNCHANGED <<tree, signals, reason, remaining>>

CollectForTerm == at = "collect" /\ Looks("term")

\* A signal ends those of ps, if it is sent.
Signal(ps) ==
  /\ dying' = IF signals THEN dying \cup (ps \cap running) ELSE dying
  /\ UNCHANGED <<unborn, running, parent, group, holders, stubborn, signals>>

Term ==
  /\ at = "term" /\ at' = "grace" /\ Signal((ShellGroup \cup Targets(known)) \ stubborn)
  /\ UNCHANGED <<reason, watch>>

\* child_exited, and no candidate is left.
AllGone == Shell \notin running /\ Collect(known) = {}

\* A look in the grace period; there is at least one.
Grace == at \in {"grace", "graced"} /\ Looks(IF AllGone THEN "wait" ELSE "graced")

\* The last look: what remains is sent KILL, but what of it is new is not kept.
GraceOver ==
  /\ at = "graced" /\ at' = "kill"
  /\ remaining' = Collect(known) /\ seen' = seen \cup remaining'
  /\ UNCHANGED <<tree, signals, reason, known>>

Kill ==
  /\ at = "kill" /\ at' = "round" /\ Signal(ShellGroup \cup Targets(remaining))
  /\ remaining' = {}
  /\ UNCHANGED <<reason, known, seen>>

\* A round: nothing left ends them, and what is left is sent KILL.
Round ==
  /\ at = "round" /\ at' = IF AllGone THEN "wait" ELSE "round"
  /\ known' = Collect(known) /\ seen' = seen \cup known'
  /\ Signal(Targets(known'))
  /\ UNCHANGED <<reason, remaining>>

\* Wrong variant: the rounds are trusted.
RoundsOverTrusting ==
  /\ at = "round" /\ at' = "wait"
  /\ UNCHANGED <<tree, signals, reason, watch>>

\* A child that is still there is killed without the kill command.
RoundsOver ==
  /\ at = "round" /\ at' = "wait"
  /\ dying' = dying \cup ({Shell} \cap running)
  /\ UNCHANGED <<unborn, running, parent, group, holders, stubborn, signals, reason, watch>>

\* child.wait, and the answer; an error of try_wait is answered without waiting.
Wait ==
  /\ at = "wait" /\ (Shell \notin running \/ reason = "error")
  /\ at' = "answered"
  /\ UNCHANGED <<tree, signals, reason, watch>>

Step == Track \/ Poll \/ CollectForTerm \/ Term \/ Grace \/ Kill \/ Round \/ Wait

Next ==
  \/ Step \/ Limit \/ PollFails \/ GraceOver \/ RoundsOver
  \/ \E p \in Procs : at # "answered" /\
       (LeaveGroup(p) \/ CloseCapture(p) \/ Exit(p) \/ \E q \in Others : Fork(p, q))

Spec == Init /\ [][Next]_vars

\* The tool goes on, time passes, and what was signalled dies.
Fairness ==
  /\ WF_vars(Step) /\ WF_vars(Limit) /\ WF_vars(GraceOver) /\ WF_vars(RoundsOver)
  /\ \A p \in Procs : WF_vars(p \in dying /\ Exit(p))

FairSpec == Spec /\ Fairness

-----------------------------------------------------------------------------
(* Properties.                                                             *)

TypeOK ==
  /\ unborn \subseteq Others /\ running \subseteq Procs \ unborn
  /\ parent \in [Procs -> Procs \cup {Elder}] /\ group \in [Procs -> Procs]
  /\ holders \subseteq running /\ dying \subseteq running
  /\ stubborn \subseteq Procs /\ signals \in BOOLEAN
  /\ at \in {"track", "poll", "collect", "term", "grace", "graced", "kill", "round", "wait",
             "answered"}
  /\ reason \in {"none", "limit", "error"}
  /\ known \subseteq Procs /\ remaining \subseteq Procs /\ seen \subseteq Procs

\* A command that is ended leaves nothing of what the tool saw of it: when the
\* tool waits for the shell or has answered, each such process is gone or dies of
\* a signal, though its parent died, it left its group or it ignores TERM.
SeenIsEnded == at \in {"wait", "answered"} /\ signals => seen \cap running \subseteq dying

\* The tool answers, whatever the processes do and even if kill cannot be run.
EveryCommandReturns == <>(at = "answered")
=============================================================================
