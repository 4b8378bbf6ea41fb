--------------------------- MODULE SchemaMigration ---------------------------
(***************************************************************************)
(* Processes open the database and bring its schema up to date.  Each       *)
(* statement of a migration commits by itself, and so does the record of    *)
(* its version, so that another process, or death, may come between any     *)
(* two.                                                                     *)
(***************************************************************************)
EXTENDS Naturals

CONSTANTS
  Processes,
  Versions,    \* number of MIGRATIONS
  Statements   \* number of statements of each

VARIABLES
  applied,   \* statements that have changed the schema, as <<version, number>>
  recorded,  \* versions in _schema_version
  at,        \* process -> "closed", "migrating" or "open"
  version,   \* process -> the migration it is in
  next       \* process -> the statement of it that comes next

vars == <<applied, recorded, at, version, next>>

Init ==
  /\ applied = {} /\ recorded = {}
  /\ at = [p \in Processes |-> "closed"]
  /\ version = [p \in Processes |-> 0] /\ next = [p \in Processes |-> 0]

Newest == CHOOSE v \in recorded \cup {0} : \A w \in recorded : w <= v

\* Store::open and the start of migrate: the newest version is read.
Open(p) ==
  /\ at[p] = "closed" /\ at' = [at EXCEPT ![p] = "migrating"]
  /\ version' = [version EXCEPT ![p] = Newest + 1] /\ next' = [next EXCEPT ![p] = 1]
  /\ UNCHANGED <<applied, recorded>>

\* What CREATE and ADD COLUMN would make must not be there.
Apply(p) ==
  /\ at[p] = "migrating" /\ version[p] <= Versions /\ next[p] <= Statements
  /\ <<version[p], next[p]>> \notin applied
  /\ applied' = applied \cup {<<version[p], next[p]>>}
  /\ next' = [next EXCEPT ![p] = @ + 1]
  /\ UNCHANGED <<recorded, at, version>>

\* A statement fails, because it was applied before or otherwise, or the
\* process dies.
Fail(p) ==
  /\ at[p] # "closed" /\ at' = [at EXCEPT ![p] = "closed"]
  /\ UNCHANGED <<applied, recorded, version, next>>

\* Wrong variant: the version is recorded before its last statement.
RecordEarly(p) ==
  /\ at[p] = "migrating" /\ version[p] <= Versions /\ next[p] = Statements
  /\ recorded' = recorded \cup {version[p]}
  /\ version' = [version EXCEPT ![p] = @ + 1] /\ next' = [next EXCEPT ![p] = 1]
  /\ UNCHANGED <<applied, at>>

Record(p) ==
  /\ at[p] = "migrating" /\ version[p] <= Versions /\ next[p] > Statements
  /\ recorded' = recorded \cup {version[p]}
  /\ version' = [version EXCEPT ![p] = @ + 1] /\ next' = [next EXCEPT ![p] = 1]
  /\ UNCHANGED <<applied, at>>

Opened(p) ==
  /\ at[p] = "migrating" /\ version[p] > Versions
  /\ at' = [at EXCEPT ![p] = "open"]
  /\ UNCHANGED <<applied, recorded, version, next>>

Next ==
  \E p \in Processes : Open(p) \/ Apply(p) \/ Fail(p) \/ Record(p) \/ Opened(p)

Spec == Init /\ [][Next]_vars

-----------------------------------------------------------------------------
(* Properties.                                                             *)

All == (1..Versions) \X (1..Statements)

TypeOK ==
  /\ applied \subseteq All /\ recorded \subseteq 1..Versions
  /\ at \in [Processes -> {"closed", "migrating", "open"}]
  /\ version \in [Processes -> 0..(Versions + 1)]
  /\ next \in [Processes -> 0..(Statements + 1)]

\* Whoever else opens the database meanwhile, and wherever earlier attempts
\* died: a process works with a schema only if every statement of every
\* migration was applied.
OpenIsComplete == \A p \in Processes : at[p] = "open" => applied = All

\* "They run in order, once": a database that is not in use by anybody can be
\* brought up to date.
CanBeOpened ==
  (\A p \in Processes : at[p] = "closed") =>
    <<Newest + 1, 1>> \notin applied
=============================================================================
