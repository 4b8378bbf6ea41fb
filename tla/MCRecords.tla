----------------------------- MODULE MCRecords -----------------------------
(***************************************************************************)
(* What the program keeps, for TLC: the history of a session and the answer *)
(* that is streamed into it, the credentials, the schema of the database    *)
(* and the task graph in it, and the files that its tools edit.  The parts  *)
(* share no state, and `part' names the one that moves in a behaviour, so   *)
(* that their states add up.                                                *)
(***************************************************************************)
EXTENDS TurnHistory

CONSTANTS
  MaxSends, MaxTexts, MaxStreamCalls, MaxWire,
  Workers, Tabs, Terminals, AutoReset, MaxFlows, MaxTokens,
  Processes, Versions, Statements,
  Tasks, Sessions,
  Editors, Doubles, Texts, Empty, MaxLines, MaxNew, MaxEdits,
  Files, Outside, Narrow, WideChar, NL, MaxRenameEdits, MaxRenames

ASSUME RecordsAssumption ==
  /\ {MaxSends, MaxTexts, MaxStreamCalls, MaxWire, MaxFlows, MaxTokens,
      Versions, Statements, MaxLines, MaxNew, MaxEdits, MaxRenameEdits, MaxRenames} \subseteq Nat
  /\ Outside \notin Files /\ IsFiniteSet(Tasks) /\ NL \notin {Narrow, WideChar}
  /\ Empty \in Texts /\ Tabs \cap Terminals = {}

VARIABLES
  part,
  provider, wsDisabled, transport, sending, abort, server, wire, buffered, state, shown,
    tooLate, result, sends,
  backend, stored, torn, pc, copy, held, pending, flows, overdue, tokens, stale,
  applied, recorded, at, version, next,
  tasks, edges, replacing, todo,
  file, seen, doing, work, report, editApplied, temps, edited,
  disk, phase, known, changes, modified, errors, outcome, last, renames

stream == <<provider, wsDisabled, transport, sending, abort, server, wire, buffered, state,
            shown, tooLate, result, sends>>
credentials == <<backend, stored, torn, pc, copy, held, pending, flows, overdue, tokens,
                 stale>>
schema == <<applied, recorded, at, version, next>>
graph == <<tasks, edges, replacing, todo>>
editing == <<file, seen, doing, work, report, editApplied, temps, edited>>
rename == <<disk, phase, known, changes, modified, errors, outcome, last, renames>>

\* Documents of one and of two lines, and new texts with and without a break.
Documents == {<<<<Narrow>>>>, <<<<WideChar, Narrow>>, <<Narrow>>>>}
News == {<<>>, <<Narrow, NL>>}

Stream == INSTANCE ProviderStream WITH MaxCalls <- MaxStreamCalls, pc <- sending, late <- tooLate
Cred == INSTANCE Credentials
Schema == INSTANCE SchemaMigration
Graph == INSTANCE TaskGraph
Edits == INSTANCE Editing WITH pc <- doing, applied <- editApplied, calls <- edited
Rename == INSTANCE WorkspaceEdit WITH
  Chars <- {Narrow, WideChar}, Wide <- {WideChar}, MaxEdits <- MaxRenameEdits,
  MaxCalls <- MaxRenames, report <- outcome, calls <- renames, todo <- changes

\* Only one part is in all of its initial states; a file of mixed breaks begins
\* with an lf, and an older store is in the vault.
PartsInit ==
  /\ part \in {"history", "stream", "credentials", "schema", "graph", "editing", "rename"}
  /\ Init /\ Stream!Init /\ Cred!Init /\ Schema!Init /\ Graph!Init /\ Edits!Init /\ Rename!Init
  /\ part # "stream" => provider = "zai"
  /\ part # "credentials" => backend = "vault"
  /\ part # "credentials" \/ backend = "file" => stored = Cred!NoLogin
  /\ part # "editing" => file = <<>>
  /\ file # <<>> /\ file[1].ending = "crlf" => Edits!Preferred(file) = "crlf"
  /\ part # "rename" => disk = [f \in Files |-> <<<<Narrow>>>>]

PartsNext ==
  \/ part = "history" /\ Next
     /\ UNCHANGED <<part, stream, credentials, schema, graph, editing, rename>>
  \/ part = "stream" /\ Stream!Next
     /\ UNCHANGED <<part, vars, credentials, schema, graph, editing, rename>>
  \/ part = "credentials" /\ Cred!Next
     /\ UNCHANGED <<part, vars, stream, schema, graph, editing, rename>>
  \/ part = "schema" /\ Schema!Next
     /\ UNCHANGED <<part, vars, stream, credentials, graph, editing, rename>>
  \/ part = "graph" /\ Graph!Next
     /\ UNCHANGED <<part, vars, stream, credentials, schema, editing, rename>>
  \/ part = "editing" /\ Edits!Next
     /\ UNCHANGED <<part, vars, stream, credentials, schema, graph, rename>>
  \/ part = "rename" /\ Rename!Next
     /\ UNCHANGED <<part, vars, stream, credentials, schema, graph, editing>>

PartsSpec ==
  PartsInit /\ [][PartsNext]_<<part, vars, stream, credentials, schema, graph, editing, rename>>

-----------------------------------------------------------------------------
\* The inductive invariant of the history, and the types of the other parts.
PartsOK ==
  /\ IInv /\ Stream!TypeOK /\ Cred!TypeOK /\ Schema!TypeOK /\ Graph!TypeOK
  /\ Edits!TypeOK /\ Rename!TypeOK

\* An answer is what one stream said (see ProviderStream; OpenAiProvider::send).
AnswerIsOneStream == Stream!AnswerIsOneStream

\* After an abort at most one more delta is shown (see ProviderStream).
LateAtMostOne == Stream!LateAtMostOne

\* The active provider can be used (see Credentials; auth::save).
ActiveIsUsable == Cred!ActiveIsUsable

\* A login that is over stays over, and to complete one ends no other (see
\* Credentials; complete_openai_login, clear_openai_login).
LoginsEndOnce == Cred!LoginsEndOnce

\* An open database has the whole schema (see SchemaMigration; migrate).
OpenIsComplete == Schema!OpenIsComplete

\* Dependencies have no cycle (see TaskGraph; validate_task_graph_acyclic).
GraphStaysAcyclic == Graph!GraphStaysAcyclic

\* Tasks are related to each other (see TaskGraph; collect_related_task_ids).
RelatedIsMutual == Graph!RelatedIsMutual

\* The new content is what the request says (see Editing; HashlineEditEngine).
EditsMatchRequest == Edits!EditsMatchRequest

\* Text edits do not move each other (see WorkspaceEdit; apply_text_edits_to_file).
TextEditsMatch == Rename!TextEditsMatch
=============================================================================
