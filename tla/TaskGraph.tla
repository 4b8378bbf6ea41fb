------------------------------ MODULE TaskGraph ------------------------------
(***************************************************************************)
(* The store's rows of tasks and of the edges between them, as its         *)
(* operations are called: tasks are created, claimed by a session and      *)
(* overwritten, edges are added one by one or replaced for a task.  A       *)
(* replacement is a row of statements of their own, any of which may be     *)
(* the last.                                                                *)
(***************************************************************************)
EXTENDS Naturals, FiniteSets, FiniteSetsExt

CONSTANTS Tasks, Sessions

VARIABLES
  tasks,      \* task -> its row, {} for none
  edges,      \* pairs of a task and one that it depends on
  replacing,  \* {} or {the task whose edges are being replaced}
  todo        \* the dependencies still to be written for it

vars == <<tasks, edges, replacing, todo>>

Known == {t \in Tasks : tasks[t] # {}}

\* owner_session_id is {} for none, and so is parent_task_id.
Row == [parent : SUBSET Tasks, owner : SUBSET Sessions]

Init ==
  /\ tasks = [t \in Tasks |-> {}] /\ edges = {}
  /\ replacing = {} /\ todo = {}

-----------------------------------------------------------------------------
(* validate_task_graph_acyclic.                                            *)

\* Wrong variant: only the two ends of an edge are looked at.
HasCycleNear(all) == \E e \in all : <<e[2], e[1]>> \in all

\* Where a walk is: at a node, with a path behind it, after other walks.
Place == [node : Tasks, stack : SUBSET Tasks, visited : SUBSET Tasks]

Neighbors(all, node) == {d \in Tasks : <<node, d>> \in all}

\* next comes up on a path: it was walked before, it closes a cycle, or it is
\* walked now.
Visit(walk, path, next, acc) ==
  IF acc.cycle \/ next \in acc.visited THEN acc
  ELSE IF next \in path THEN [acc EXCEPT !.cycle = TRUE]
  ELSE walk[[node |-> next, stack |-> path, visited |-> acc.visited]]

VisitEach(walk, path, visited, nodes) ==
  FoldSet(LAMBDA next, acc : Visit(walk, path, next, acc),
          [cycle |-> FALSE, visited |-> visited], nodes)

\* visit: the node goes on the stack, its neighbors are visited, and it is done.
WalkFrom(all, walk, from) ==
  [VisitEach(walk, from.stack \cup {from.node}, from.visited, Neighbors(all, from.node))
     EXCEPT !.visited = @ \cup {from.node}]

\* A walk from every node that no earlier walk has visited; one that comes upon
\* a node of its own stack has found a cycle.
HasCycle(all) ==
  LET walk[from \in Place] == WalkFrom(all, walk, from)
  IN  VisitEach(walk, {}, {}, Tasks).cycle

-----------------------------------------------------------------------------
(* Operations.                                                             *)

\* TaskRecord::create, whose parent is a task that is there.
Create(t, parent, owner) ==
  /\ replacing = {} /\ tasks[t] = {} /\ parent \subseteq Known
  /\ tasks' = [tasks EXCEPT ![t] = {[parent |-> parent, owner |-> owner]}]
  /\ UNCHANGED <<edges, replacing, todo>>

\* create_or_update of a task that is there; it may be its own parent.
Overwrite(t, parent, owner) ==
  /\ replacing = {} /\ tasks[t] # {} /\ parent \subseteq Known
  /\ tasks' = [tasks EXCEPT ![t] = {[parent |-> parent, owner |-> owner]}]
  /\ UNCHANGED <<edges, replacing, todo>>

\* ensure_owned_by_session of a task without an owner.
Claim(t, s) ==
  /\ replacing = {}
  /\ \E row \in tasks[t] :
       row.owner = {} /\ tasks' = [tasks EXCEPT ![t] = {[row EXCEPT !.owner = {s}]}]
  /\ UNCHANGED <<edges, replacing, todo>>

\* TaskEdgeRecord::create.  The store wants both tasks, and no edge twice.
AddEdge(t, d) ==
  /\ replacing = {} /\ t # d /\ ~HasCycle(edges \cup {<<t, d>>})
  /\ {t, d} \subseteq Known /\ <<t, d>> \notin edges
  /\ edges' = edges \cup {<<t, d>>}
  /\ UNCHANGED <<tasks, replacing, todo>>

Others(t) == {e \in edges : e[1] # t}

\* replace_for_task: the graph to be is checked, and the task's edges deleted.
Replace(t, deps) ==
  /\ replacing = {} /\ t \notin deps
  /\ ~HasCycle(Others(t) \cup ({t} \X deps))
  /\ edges' = Others(t)
  /\ replacing' = (IF deps = {} THEN {} ELSE {t}) /\ todo' = deps
  /\ UNCHANGED tasks

ReplaceOne(d) ==
  /\ d \in todo
  /\ \E t \in replacing : {t, d} \subseteq Known /\ edges' = edges \cup {<<t, d>>}
  /\ todo' = todo \ {d} /\ replacing' = (IF todo' = {} THEN {} ELSE replacing)
  /\ UNCHANGED tasks

\* A statement fails, for a task that is not there or otherwise.
ReplaceFails ==
  /\ replacing # {} /\ replacing' = {} /\ todo' = {}
  /\ UNCHANGED <<tasks, edges>>

Next ==
  \/ \E t \in Tasks :
       \/ \E parent \in {{}} \cup {{p} : p \in Tasks}, owner \in {{}} \cup {{s} : s \in Sessions} :
            Create(t, parent, owner) \/ Overwrite(t, parent, owner)
       \/ \E s \in Sessions : Claim(t, s)
       \/ \E d \in Tasks : AddEdge(t, d)
       \/ \E deps \in SUBSET Tasks : Replace(t, deps)
       \/ ReplaceOne(t)
  \/ ReplaceFails

Spec == Init /\ [][Next]_vars

-----------------------------------------------------------------------------
(* What a watcher of a task is shown of the graph.                         *)

\* TaskRecord::list and TaskEdgeRecord::list, as far as the session owns them.
OwnedBy(s) == {t \in Known : \E row \in tasks[t] : row.owner = {s}}

\* Wrong variant: the children of a task are not looked for.
AdjacentUp(t, s) ==
  {u \in OwnedBy(s) : {<<t, u>>, <<u, t>>} \cap edges # {} /\ t \in OwnedBy(s)}
    \cup (UNION {row.parent : row \in IF t \in OwnedBy(s) THEN tasks[t] ELSE {}})

\* The tasks next to t: by an edge, the parent, or a child.  A parent need not
\* be the session's own.
Adjacent(t, s) ==
  {u \in OwnedBy(s) : {<<t, u>>, <<u, t>>} \cap edges # {} /\ t \in OwnedBy(s)}
    \cup (UNION {row.parent : row \in IF t \in OwnedBy(s) THEN tasks[t] ELSE {}})
    \cup {u \in OwnedBy(s) : \E row \in tasks[u] : row.parent = {t}}

\* collect_related_task_ids, and the nodes of the graph that is shown.
Related(t, s) ==
  {u \in OwnedBy(s) : \A set \in SUBSET Tasks :
     t \in set /\ (\A v \in set : Adjacent(v, s) \subseteq set) => u \in set}

-----------------------------------------------------------------------------
(* Properties.                                                             *)

TypeOK ==
  /\ tasks \in [Tasks -> SUBSET Row] /\ edges \subseteq Tasks \X Tasks
  /\ replacing \subseteq Tasks /\ todo \subseteq Tasks

\* Every set of tasks has one that waits for none of the set, so that no tasks
\* wait for each other for ever: whatever order edges are written in, wherever
\* a replacement stopped.
GraphStaysAcyclic ==
  \A set \in SUBSET Tasks :
    set = {} \/ \E t \in set : \A d \in set : <<t, d>> \notin edges

\* A watcher sees the same graph from each of the graph's tasks.
RelatedIsMutual ==
  \A s \in Sessions : \A t \in OwnedBy(s) : \A u \in Related(t, s) :
    Related(u, s) = Related(t, s)
=============================================================================
