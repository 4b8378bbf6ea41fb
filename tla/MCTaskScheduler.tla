--------------------------- MODULE MCTaskScheduler ---------------------------
(***************************************************************************)
(* Instances of TaskScheduler for TLC: a seeded root, a seeded task that   *)
(* depends on it, and tasks delegated from either.                         *)
(***************************************************************************)
EXTENDS TaskScheduler, TLC

\* Two tasks: a root and one task delegated from it.
PairTasks  == {1, 2}
PairSeeded == {1}
PairParent == (2 :> 1)
PairDeps   == (1 :> {} @@ 2 :> {1})
PairId     == (1 :> 2 @@ 2 :> 1)

\* Three tasks: a root, a task depending on it, and one delegated from it.
ForkTasks  == {1, 2, 3}
ForkSeeded == {1, 2}
ForkParent == (3 :> 1)
ForkDeps   == (1 :> {} @@ 2 :> {1} @@ 3 :> {1})
ForkId     == (1 :> 2 @@ 2 :> 3 @@ 3 :> 1)
=============================================================================
