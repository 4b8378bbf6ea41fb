# kley, in TLA+

A verification project for kley, a coding agent with a browser front end: one
process hosts a session registry, a turn engine that talks to a model provider
and runs tools, a scheduler that runs delegated tasks in child sessions, an LSP
manager, and a SQLite store that outlives the process. Paths below are
relative to the repository.

Run from this directory: `tlc -config Core.cfg MCTaskScheduler.tla`,
`tlc -config Sessions.cfg MCSessions.tla`, `tlapm TaskSchedulerProofs.tla`.

## 1. Inventory

| component | state | operations | what is hard | what makes it correct |
|---|---|---|---|---|
| Task store (`src/store/session.rs`, `schema.rs`) | tasks, edges, attempts with a lease in their checkpoint, an event log from which a task's state is read | create, transition, claim, expire, add edge, list | several writes per operation and no transaction around them; a lease that nobody renews | transition tables; a claim has one winner; replaced attempts are history |
| Task scheduler and controls (`src/runtime/manager.rs`) | none of its own but the loops in flight | select, claim, bootstrap, run, record; cancel, retry, resume, reprioritize; startup sweep | the store mutex is released between steps; loops, web calls and restarts interleave; errors end a loop half-way | one loop per task, dependencies first, results agree with attempts, work that can run is run |
| Delegated child bootstrap (`src/runtime/session.rs`) | child session, checkpoint of the attempt | create or link a child session, mark interrupted | failure after some writes | a failed bootstrap leaves a task that can be resumed |
| Session registry and turn reservation (`src/runtime/manager.rs`) | per session: controllers, worker slot, active turn, active prompt, abort flag, subscribers | attach, detach, start turn, reserve, abort, finish | the turn is registered and reserved in two steps; abort races both | at most one prompt per session; the flags describe the turn that runs |
| Turn engine (`src/runtime/session.rs`) | history in memory, abort flag, session status | submit prompt, provider round, tool round, abort, overflow retry | abort at any await; a call is recorded before it runs, its output after | calls and outputs stay paired; what ran is on record; history and store agree |
| History compaction (`src/compact.rs`, `src/runtime/session.rs`) | - | summarize, shrink a history | calls and outputs must stay paired | pairing; the newest item is kept |
| Delegation policy (`src/runtime/settings.rs`) | policy of a task | narrow for a child, check limits | depth and concurrency at the limit | a child is never allowed more than its parent |
| WebSocket controller (`src/web/ws.rs`, `ws/`) | per connection: attached session, subscription, task watch | submit, abort, attach, task calls, stream | lagging receivers, cursors | the browser learns how every turn ended |
| Web authentication (`src/web/state.rs`, `src/auth/`) | credentials in a vault or a file, one pending login per controller | start, complete, expire, clear, refresh a token | the exchange and the refresh are awaited without a lock; whoever saves writes its whole copy | a login completes only what it started; the active provider has its credentials |
| LSP manager (`src/lsp/`) | one slot per server and root | acquire, request, shut down | concurrent first users, a failing starter | one start per slot, every waiter is answered |
| Shell tool (`src/tools/shell.rs`) | process group, capture files | run, poll, time out, terminate | escalation races forks, lost parents and exits | nothing of what was seen is left behind, and the tool returns |
| Event channel (`src/events.rs`, `manager.rs`) | bounded broadcast per session | send, receive, lag | subscription, snapshot and events overlap | the page shows the turn as it is |
| Editing tools (`src/tools/editing/`, `patch.rs`, `hashline_edit.rs`) | files | edit, patch, read | several edits on moving lines, files that change meanwhile | only the anchored lines change |
| Rename tool (`src/tools/lsp.rs`) | files of the workspace | prepare, request, apply a workspace edit | edits move each other, positions in UTF-16 | each edit changes its own range |
| Turn store (`src/store/turn.rs`) | numbered turns of a session | append, list | a death between two appends | order, pairing |
| Provider clients (`src/provider/`) | whether the WebSocket is disabled | send over WebSocket or SSE | a stream that breaks, falls back or is aborted | an answer is what one stream said |
| Schema (`src/store/schema.rs`) | recorded versions | migrate | no transaction around a version | an open database is complete |
| Front end, remaining tools, mocks | - | - | formatting and external services | - |

Interactions: the browser talks to the controller over a WebSocket; the
controller starts turns in the registry, which hands the session's worker to
a prompt task; the worker calls the provider and the tools. A turn of the owner
session may call `delegate_task`, which writes a task to the store; when the
prompt ends, the registry *kicks* a scheduler loop for the owner session. The
loop selects a task, claims an attempt, bootstraps a child session and runs a
turn in it through the same registry. Every component shares the store behind
one mutex, held for a critical section at a time and never across an await.

## 2. Modules

| module | what it is |
|---|---|
| `TaskLifecycle` | one task row (state and attempts) and every rewrite of it, as functions on rows; transition tables, claim, expiry, cancel, retry/resume, scan, record, sweep, and the prefixes of their writes |
| `TaskScheduler` | the system: loops, control calls, delegation, leases, deaths, restarts over a store of rows; properties and the refinement mapping |
| `TaskBoard` | the abstract specification: what a user may rely on, without attempts, leases and loops |
| `MCTaskScheduler` | instances for TLC |
| `TaskLifecycleProofs` | what each rewrite keeps of a row |
| `TaskSchedulerProofs` | the inductive invariant, one lemma per action, and the theorems |
| `TurnLifecycle` | one managed session: controllers and scheduler loops that register and reserve turns, the worker, the abort flag, the final events |
| `TurnHistory` | what one session remembers: its rows in the store and the worker's history, through rounds of tool calls, compaction, overflow, abort and death |
| `TurnHistoryProofs` | the invariants of the records and of the history, and theorems |
| `LspManager` | one slot of the LSP manager, its users, the client's pipe and the server |
| `WebController` | sockets of browsers and the sessions they select, load, change and lock; the model that is in force |
| `EventStream` | the events of a session's turns, the broadcast, a socket that subscribes, snapshots and forwards, and the page |
| `TaskWatch` | a task's event log, the watch of it and the page's cursors |
| `TaskGraph` | tasks, owners, dependency edges and the graph a watcher is shown |
| `SchemaMigration` | processes that bring a database up to date, statement by statement |
| `Credentials` | the stored credentials, everyone who loads, changes and saves them, and pending logins |
| `ProviderStream` | one request after another to a provider, over WebSocket and SSE |
| `ShellCommand` | a command's processes, and the tool that polls and ends them |
| `Editing` | anchored edits and patches of one file by several editors |
| `EditingProofs` | theorems about what an edit makes of a file |
| `WorkspaceEdit` | the rename tool: a language server's edits applied to files |
| `RenameProofs` | theorems about positions, lines and UTF-16 units, and that the edits of a file do not move each other |
| `MCSessions`, `MCRecords`, `MCProcesses` | the instances for TLC of all but tasks |
| `SessionsProofs` | theorems about turns, with the inductive invariant of `TurnLifecycle`, about sockets and their locks, what a page is shown, and the watch of a task |
| `RecordsProofs` | theorems about credentials, the schema, the graph of tasks, the streamed answer and all parts of `MCRecords` together |
| `ProcessesProofs` | theorems about language servers and about how the shell tool ends a command |

`TurnLifecycle` and `TurnHistory` are two views of the same worker: the first
keeps who may start and stop it and leaves out what it writes, the second the
reverse. The stages have the same names and order. `WebController` and
`EventStream` cut the same socket in two: which session it controls, and what it
forwards of one.

`MCSessions`, `MCRecords` and `MCProcesses` put components that share no state side by side: a
variable `part`, fixed in a behaviour, names the one that moves, so that the state
spaces add up instead of multiplying. Nothing is lost by that, since no
component reads what another writes; where components do interact, they are in
one module (`TaskScheduler` composes the store, the loops and the controls).
`PartsOK` is the inductive invariant of the module that each of them extends, with
the type invariants of the others. The runs name a part's property by a definition
of the same name, for example `LocksFollowSockets == Web!LocksFollowSockets`; the
theorems of section 4 are about the specification of the part itself
(`Web!Spec => []LocksFollowSockets`), and `SessionsStayOK`, `ProcessesStayOK` and
`RecordsStayOK` about the parts side by side.

### Tasks: state and code (`TaskLifecycle`, `TaskScheduler`, `TaskBoard`)

`store[t]` is a task's row: `state` is the newest `task.state.transition`
event (`TaskRecord::current_state`), `tries` its `task_attempts` in creation
order; an attempt is its state and what became of its lease: `none`, `live`, or
`due` once its expiry time has passed. `created` are the rows that exist.
`pc[s]`, `held[s]`, `heldTry[s]` are a scheduler loop: its place in
`execute_scheduler_ready_graph_nodes` and the candidate it holds in local
variables while the mutex is free. `cancelAsked` are cancel calls that passed
`validate_cancelable_task_for_api` and have not reached `cancel_task_graph`,
two critical sections of `cancel_task_via_api`. `kickOwed` says that the prompt
that delegated has not ended. `phase` is the life of the process. `answered` is
history: tasks with a completed child turn since the last start.

One action is one critical section of the store mutex:

| action | code |
|---|---|
| `Select`, `SelectNone` | `select_next_runnable_candidate`, its writes to every row it passes included |
| `Claim`, `Start`, `Boot...`, `Launch...`, `TurnEnd`, `Record` | the successive blocks of `execute_scheduler_ready_graph_nodes` |
| `Kick` | `kick_scheduler_for_owner_session` at the end of an owner prompt |
| `AskCancel`, `CancelGraph` | `cancel_task_via_api`: validation, then `cancel_task_graph` |
| `StartOver` | `retry_task_via_api`, `resume_task_via_api` with `create_fresh_attempt_for_control` |
| `Reprioritize` | `reprioritize_task_via_api` |
| `Delegate` | `execute_delegate_task_entrypoint` in its transaction |
| `Restart`, `RestartRefused` | `reconcile_nonterminal_attempts` at startup, as a whole or up to the error that ends it |
| `Crash`, `...Torn` | a death between two critical sections, or inside one: every prefix of its writes |
| `LeaseRunsOut` | the wall clock passes a lease's expiry time |

What is abstracted: ids, prompts, policies' text, checkpoints except the lease,
the child session itself (a turn has three outcomes), error messages. The data
that the program orders by is kept: tasks are numbered in the order of creation
(the sweep's order), `Id` ranks their ids (the order of cascades and of the
scan within a priority), `priority` is the scan's first key.

Choices worth knowing:

* Root tasks are not created by any product code path, only delegated ones
  are; the tests seed them. `Seeded` tasks are therefore part of `Init`.
* A delegated task's edge is created with the task and its dependency is its
  parent, so a task never *becomes* blocked behind a running task. `blocked` is
  kept in the tables and in the scan because the code has it.
* `latest_or_new_attempt` can create an attempt; a task always has one
  (`TypeOK`), so that branch is unreachable and not modelled.
* `Prompted` tasks are those whose child session a user prompts at the same
  time, which is what makes `start_active_turn` refuse the loop.
* A policy that does not parse, which ends the scan with an error, is not
  modelled: policies are written by the code that reads them.
* `SetTask` is a plain update because each caller has checked the transition;
  the refused transitions are explicit (`CancelFails`, `EnsureRefused`,
  `RecordFails`).

### Turns: state and code (`TurnLifecycle`)

`attached` is the session's controller, `activeTurn` and `activePrompt` the
fields of `ManagedSession`; `pc[c]` and `mine[c]` are a client between
`start_active_turn` and what follows it. `stage[t]`, `flag[t]`, `unsent[t]` are
turn `t`'s worker: its place in `submit_prompt_with_ids`, its abort signal, and a
final event on its way to `publish_runtime_event`. `ends[t]` counts the final
events that browsers were sent.

| action | code |
|---|---|
| `Attach`, `Detach` | `attach_controller`, `release_controller` |
| `Start`, `Reserve`, `Refuse`, `Clear` | `start_active_turn`, `reserve_prompt_execution`, its refusal, `clear_active_turn` |
| `Abort` | `request_abort` |
| `SetupFails`, `Begin`, `Open`, `Check`, `Ask`, `Call`, `Answer` | `submit_prompt_stream` and the stretches of `submit_prompt_with_ids` between two looks at the flag |
| `Publish`, `Finish` | the task that forwards events, and `finish_prompt` |

A WebSocket connection handles one command at a time, so a controller does
nothing else while it is between registering and reserving; a loop does not
attach. The sessions of one process do not interact through this state, so the
module has one.

### History: state and code (`TurnHistory`)

`store` is the session's rows of `turns` in order and `status` its status;
`history`, `flag`, `batch`, `retries` are the worker's memory, `stage` its
place. `ran` (tools that were started) and `late` (those started with the signal
up, in this prompt) are history variables of the model.

| action | code |
|---|---|
| `Load` | `initialize_session_state`, `history_items_from_turns` |
| `Submit`, `Open`, `Check` | `submit_prompt_with_ids` up to the request, with both compactions |
| `AskAborted`, `AskFailed`, `GetText`, `GetCalls`, `Overflow` | what the provider's `send` returns |
| `StoreCall`, `Approve`, `Run`, `Reply` | one tool call of the batch |
| `Answer` | the end of the prompt |
| `StoreFails`, `Die`, `Abort` | an error of the store, the end of the process, `request_abort` |

`Compacted(h)` is the set of what `compact_history_to_budget` may make of `h`:
sizes are not modelled, and each pass has the outcomes its size-dependent
arithmetic allows. `Shrunk(h, retry)` is `force_shrink_history_for_overflow_retry`
exactly; it depends on kinds and positions only. A web worker is dropped after
every prompt and loads its history anew, a chat worker keeps it; `Ends` allows
both. A statement of the store either takes effect or fails without effect.
`Reloaded` leaves out calls and outputs without an id (`Unnamed`, `Nameless`), as
`history_items_from_turns` does: a provider may give none, the worker goes on with the
pair in memory, and a loaded history has neither, so that `HistoryEndsLikeStore` can
only speak of the other items.

Two things the module shows that are not called findings, since the code
nowhere says otherwise: a call whose turn was aborted or died stays in the store
without an output and is sent so at the next prompt, and a compaction may keep
an output whose call is in the summary (`OrphansOnlyInFront` says that this is
the only place).

### Language servers: state and code (`LspManager`)

`slot` is `ServerSlot::state`; `starter` is the user that holds its mutex while
it initializes the server (`acquire_client` keeps the guard over
`initialize_client`), `io` the holder of the client's `io_lock`. `pc[u]`,
`id[u]`, `answer[u]` are a user's request. The process is `alive`, has read
`owed` requests and written the frames `out`.

| action | code |
|---|---|
| `Ask`, `Look` | `LspManager::request`, a pass of `acquire_client`'s loop |
| `CreateFails`, `Create` | the factory, called with the mutex free |
| `Enter`, `EnterFails` | `ensure_running` |
| `Send`, `Read`, `ReadFails` | `StdioLspClient::request` under `io_lock` |
| `MarkFailed` | `mark_failed` after a terminal failure |
| `Reply`, `Babble`, `Die` | the server (external) |

Dropping the last reference to a client of a failed slot ends its process
(`Dropped`, `Stop`). The choice of server and workspace root is not modelled:
slots share nothing.

### Sockets and sessions: state and code (`WebController`)

`rows` are the session rows of the store (model and settings), `inForce` and
`lock` the runtime's model and `controller_id` of `ManagedSession`; `at[c]` is
where socket `c` awaits, `read[c]` the rows it read before, `active[c]` and
`target[c]` its session and the one it loads.

| action | code |
|---|---|
| `Connect`, `Create`, `FillIn`, `Attach`, `TryNext`, `SelectFails` | `attach_or_select_session` between its awaits |
| `Greet`, `Leave` | the bootstrap snapshot, the end of `handle_socket` |
| `Load`, `LoadRefused`, `Loaded` | `load_session_for_controller` |
| `Update`, `Updated` | `update_session_runtime_selection` and the attach that follows |
| `Submit`, `EndTurn` | `start_active_turn`, `clear_active_turn` |

### What a page sees: state and code (`EventStream`, `TaskWatch`)

`EventStream` follows the turns of one session through their events. The worker
is at `stage` in turn `turn`, has said `pieces` of text; `active` is the content of
`active_turn`, `persisted` the turns whose answers the store has. `queue` and
`missed` are the socket's end of the broadcast with `Capacity` places;
`busy`, `rows` and `history` are the page's.

| action | code |
|---|---|
| `Submit`, `Open`, `Delta`, `Tool`, `Answer`, `Persist`, `EndTurn` | a turn, with what `publish_runtime_event` does for each of its events |
| `Subscribe`, `ReadTurns`, `Hydrate` | `subscribe`, and `snapshot_data` in its two readings, with the turn going on in between |
| `Forward` | `next_runtime_event`, and `handleEvent` and `appendMessageDelta` of `templates/index.html` |
| `Leave` | the end of the socket |

`TaskWatch` is the log of a task's events (`recorded`, with numbers shared by all
tasks), the command of a page with the cursor it names, and the socket's watch
with the last number sent. The check of the cursor and the reading of events are
two critical sections of the store. `Cursors`, `Resumed` and `Reconnect` are the
page's side and external: a page resumes from the last event it was shown.

### The graph and the schema (`TaskGraph`, `SchemaMigration`)

`replace_for_task` deletes the edges of a task and inserts them one by one: `Replace`,
`ReplaceOne`, `ReplaceFails`, the store mutex being held over it (no other
action in between except the failure). `Claim` is `ensure_owned_by_session`.
`HasCycle` is the walk of `validate_task_graph_acyclic`: `WalkFrom` puts a node on the
stack and visits its neighbors, `Visit` is the `match` on a neighbor's state, and
`VisitEach` the loop over neighbors or nodes. `Related` is `collect_related_task_ids`, a closure over the edges, parents and
children that the watching session owns.

`SchemaMigration` has one action per statement: SQLite commits each by itself,
and other processes have the file open. A statement whose effect is there already
fails.

### Credentials (`Credentials`)

`stored` is what the backend holds, `torn` that the file has been emptied and not
yet written; `copy[a]` is what actor `a` (a worker that resolves its
authentication, a tab, a terminal) has loaded and changed, `pc[a]` its place. A
login is a number, `pending` the one that each person has begun (a tab's is an entry of
`pending_openai_logins`), `held` the one whose code a person exchanges, a copy of that
entry, and `overdue` are those that ran out, which the next look at the map removes
(`Live`). Tokens are numbers too, `stale` those the service takes no more.
The vault saves in one step, the file in two (`Truncate`, `Write`), with a death
possible between them.

From `Callback` to `Saved` the map is not locked: the flow may run out and be cleaned
away, the exchange or the save may fail (`Fails`), and `Saved` clears whatever its
controller has pending by then. `LoginsEndOnce` says that this is right: a login that is
over, in whatever way, is never taken up again, and completing one ends that one and no
other. It rests on the loop of a socket, which handles one command at a time (the
mutant that starts a login during an exchange breaks it).

### Providers (`ProviderStream`)

`server` is what the service has said in this stream, `wire` the events on their
way, `buffered` how many of them have arrived; several may come in one chunk. `Send`, `Connect`,
`ConnectFails`, `Receive`, `Check`, `Apply`, `Complete`, `ErrorEvent`, `EndOfStream` and
`ReadFails` are the stretches of `send`, `send_ws` and `send_sse` between awaits; the
abort signal is seen where the code selects on it or loads it.

### Commands (`ShellCommand`)

Processes have a parent, a group and perhaps the capture files open; they fork,
leave their group (`setsid`), close the files and exit when they like. The
tool's `Track`, `Poll`, `Collect...`, `Term`, `Grace`, `Kill`, `Round` and
`Wait` are the loop of `execute` and the stages of `terminate_shell_process`.
`seen` are the processes that the tool has found; a signal makes a process
`dying` unless it ignores TERM (`stubborn`). The first TERM and KILL go to the shell's
group too, the rounds after them to what is still tracked and its groups only; what the
last look before KILL adds (`remaining`) is signalled once and not tracked. `signals =
FALSE` is a system on which `kill` cannot be run. A `kill` that succeeds for one
process and fails for another is not modelled.

### Editing (`Editing`, `WorkspaceEdit`)

A line is its text, its ending and an identity that only the properties see, so
that they can tell two equal lines apart. `Requests` are all requests over small
files and anchors from an earlier reading; `Failures`, `First`, `Splice` and
`Rewritten` are `HashlineEditEngine::apply`, `Begin`, `Replace` and
`ReplaceFails` `atomic_replace`. A replacement is a text, given as what stands between
its breaks. The code joins the lines of a request and splits the text again, so that a
break at its end starts no line (`Pieces`); the empty text is one empty line. A last
line that is left empty and without a break is no line of the file that is written
(`Content`), and the file then ends in the break in front of it. `Patch` refuses to look
for an empty text. Texts hold no carriage return and no byte order mark. In `WorkspaceEdit` a character has a width in
UTF-16 units; `Applied` is `apply_text_edits_to_file` and
`TextEditsMatch` compares it with a reference that replaces ranges of the original.

## 3. What the runs check

The two-task instance has a seeded root and a task delegated from it; the
three-task one adds a seeded task that depends on the root, so that a cascade
has several rows and the scan a choice.

| run | instance | shows |
|---|---|---|
| `stalls` | 2 tasks, 2 loops, 2 deaths, 1 control call, 1 cancel in flight, loops may stall | what holds whatever the timing: `IInv`, `OneRunnerPerTask`, `DependenciesFirst`, `TaskNeverAheadOfAttempt`, `NoRerunOfFinishedTask`, `SupersededAttemptsStay`, `LiveLeaseIsRespected`, `RecoveryIsIdempotent` |
| `core` | the same, no stalls | `BoardSpec` (refinement) and `CancelledIsQuiet` |
| `settle` | 3 tasks, 2 loops, no death | `DelegatedWorkSettles` |
| `pick_up` | 2 tasks, 2 loops, refused launches, 2 priorities | `ReadyWorkIsPickedUp` |
| `orphan` | 2 tasks, 1 death | `RestartResumesTasks` is violated (a finding) |
| `refused` | 2 tasks, 1 death, 1 cancel | `RecoveryIsNeverRefused` is violated (a finding) |
| `lost_abort` | 1 controller, 2 turns | `AbortSticks` is violated (a finding) |
| `orphan_output` | 1 prompt, 1 call | `ShrinkAvoidsOrphans` is violated (a finding) |
| `stuck_schema` | 2 processes, 3 versions of 2 statements | `CanBeOpened` is violated (a finding) |
| `sessions`, turns | 2 controllers, 1 loop, 3 turns | `OnePromptAtATime`, `OneEndPerPrompt`; with fair workers `AbortEnds`, `ResultFreesSession` |
| `sessions`, sockets | 2 sockets, 2 sessions, 2 models, 1 update | `LocksFollowSockets`, `TurnKeepsSocket` |
| `sessions`, events | 2 turns of 2 deltas, 2 snapshots, 4 places | `PageKeepsUp` |
| `sessions`, watch | 2 tasks, 4 events | `EventsComeOnceInOrder` |
| `records`, history | 2 prompts, 3 calls, one without an id, batches of 2, 1 death | `StoreIsPaired`, `OrphansOnlyInFront`, `NewestIsSent`, `HistoryEndsLikeStore` |
| `records`, provider | 2 requests, 2 texts, 2 calls, 3 events in flight | `AnswerIsOneStream`, `LateAtMostOne` |
| `records`, credentials | a worker, a tab, a terminal, 2 logins, 2 tokens, any deaths | `ActiveIsUsable`, `LoginsEndOnce` |
| `records`, schema | as `stuck_schema` | `OpenIsComplete` |
| `records`, graph | 3 tasks, 1 session | `GraphStaysAcyclic`, `RelatedIsMutual` |
| `records`, editing | 1 editor, files of up to 3 lines, empty ones too, requests of up to 2 operations, replacements of up to 2 lines | `EditsMatchRequest` |
| `records`, rename | 2 files, wide and narrow characters, 2 edits a file | `TextEditsMatch` |
| `processes`, server | 3 users, who ask until 3 requests were sent, 1 unasked frame | `AnswerIsOwn`; with a server that answers or exits `EveryoneIsAnswered` |
| `processes`, command | the shell and 2 processes; nobody, or the shell and one of them, ignores TERM | `SeenIsEnded`, `EveryCommandReturns` |

`sessions`, `records` and `processes` check `PartsOK` as well: the inductive
invariants of turns, history and language servers, from which the proofs draw
`TurnOfPrompt`, `NoGhostTurn`, `RunsAreOnRecord`, `AbortStopsTools`, `StartedOnce`,
`FailureReportedOnce`, `NoServerLeftBehind` and `FailureIsTerminal` for every
instance; `stalls` checks `IInv` of the tasks likewise, which gives
`RunnerHoldsNewestAttempt` and `TypeOK`. Those need no run of their own.

**Bounds (tasks).** Two loops are enough for every race of the code, which compares
loops pairwise, on one attempt. One death reaches every torn state and the
recovery from it; a second one tears the recovery itself, which is what
`RecoveryIsIdempotent` is about. One accepted control call and one cancel in
flight meet each step of a loop; the proofs remove all these bounds.
`MaxRequests` counts only calls in flight: any number of them may follow.

**Bounds (others).** Three turns let one end, one run and one be registered at
the same time, with two controllers that replace each other and a loop; more
turns only repeat this. In the history, three calls in batches of up to two give
histories of up to nine items, long enough for both retries, for each branch of
the alignment and for a compaction that splits a pair; a batch is cut in the
middle by an abort or a death. The second call has no id, so that calls with one
come before and behind it. `KeepRecent = 20` and `RetryLimit = 2` are the code's values.
Three LSP users are a starter, one that waits and one that comes late; one
garbage frame or notice meets each read.

Two sockets race for each of two sessions and replace each other; one update
meets every step of the other socket. Two turns on a page let the end of one be
queued while the next begins; `Capacity = 4` (the code's is larger) makes
lag reachable with the events of one turn. Two tasks interleave their numbers in
one log, so that a task's events have gaps, a cursor may lie in one, and four events
come before, between and after the critical sections of a watch. A worker, a tab
and a terminal are one of each kind of writer; two logins are two of one person, one
after the other, or one of each. To keep the run short, `PartsInit` starts the
credentials of an older program in the vault only, and has a file with breaks of both
kinds begin with a line feed. Two pieces of a replacement are two lines, or one and a
break, or an empty one among them. Three tasks have a cycle that
is not a pair. Three lines are needed for a span with something on both sides,
two operations for an order and an overlap. Two processes besides the shell are a child and a
grandchild, or a sibling that was left behind; `Hardened` is the bound on who may
ignore TERM.

**Timing.** A loop awaits nothing between the selection of a task and the
bootstrap of its child session, and a lease lasts 60 seconds
(`manager.rs:321`), so a lease does not run out there unless the process is
suspended for a minute. `Stalls = FALSE` says so; with `Stalls = TRUE`
`CancelledIsQuiet` and `BoardSpec` do fail (a second loop interrupts the attempt
of the stalled one, a user resumes and cancels the task, and the stalled loop
goes on with a cancelled task). During the child turn, which lasts minutes, the
lease may run out in every run.

**Fairness.** `Fairness`: weak fairness of each loop (a tokio task that is
runnable is run; a child turn ends, by timeout if need be) and of the kick that
the end of a delegating prompt owes. Nothing is assumed of users, leases,
or deaths. `BusyFairness` adds that the owner session goes on being
prompted (`Kick` without delegation), that a dead process is started again and
that time passes for leases; `pick_up` and `orphan` state in their
comments that this is their premise.

For turns: weak fairness of a worker's steps and of the task that forwards its
events, which are a blocking thread and a tokio task of the process. This
assumes that the provider's request and each tool return, as their timeouts
see to; it does *not* hold of a request to a language server that stays silent
(`service.rs:638` reads without a timeout) nor of a worker that panics. For
language servers: threads run, and the server answers what it has read or exits, which the
code does not enforce. For commands: the tool's thread goes on (`Step`), its deadlines pass
(`Limit`, `GraceOver`, `RoundsOver`: `tools/shell.rs` compares `Instant`s), and a
process that was sent KILL, or TERM it does not ignore, exits. A process that
nobody signalled need not do anything. Nothing is assumed of users or browsers
anywhere.

**Findings.**

* `orphan`: `reconcile_nonterminal_attempts` interrupts a running attempt only
  if its lease has already run out at startup; nothing looks at it later,
  since a scan takes up only `ready` attempts. A process restarted within the
  minute leaves the task `running` with nobody on it, and even the cancel call
  then only makes it `cancel_requested`.
  `restart_recovery_resumes_nonterminal_tasks_automatically`
  (`tests/runtime.rs:2056`) passes because its fixture's lease is in the past.
* `refused`: the sweep passes a closing task's cancellation on to its
  descendants and propagates the error; an `interrupted` descendant can be
  neither cancelled nor asked to cancel, so the startup fails, now and at every
  later try.
* `lost_abort`: `submit_prompt_with_ids` lowers the abort flag as its first
  step (`session.rs:1193`), after `reserve_prompt_execution` has made the turn
  abortable; an abort acknowledged in between is lost and the turn goes on.
* `orphan_output`: a prompt, a call and its output are shortened to the pair
  by the first overflow retry and to the bare output by the second, since
  `tool_pair_safe_remove_count` removes at least one item (`session.rs:2004`).
  The test of that name uses three items.

* `stuck_schema`: `migrate` runs a version's statements and the record of its number
  without a transaction (`schema.rs:159`). When the process ends in between, each later start
  runs the first statement again, and `CREATE TABLE` and `ADD COLUMN` fail on what
  is there: the database cannot be opened any more, although "they run in order,
  once".

Stated in a module, violated by the code and not among the runs:

* `SettingsInForce` (`WebController`): a socket attaches with a row it read before an
  await, and `ensure_managed_session` (`manager.rs:432`) takes the model from it,
  so that an update of another socket's is undone for the turns to come.
* `AnchorsHold` (`Editing`): `hashline_edit` describes itself with "stale or ambiguous
  anchors fail explicitly with no fallback"; an anchor is a line number and a hash of
  the text, so that another line that has come to have both is taken for it.
* `AppliedIsSuccess` (`Editing`): a metric that cannot be written puts
  `telemetry_unavailable` into the edit's observation, which
  `diagnostics_from_edit_observations` makes an error of (`diagnostics.rs:139`), and
  the session reports the call as failed. `tests/hashline_observability.rs:263`,
  "telemetry_failure_does_not_fail_successful_edit", looks at the tool's output only.

Seen while modelling, where no text of the repository promises otherwise:

* on a page: a `turn.failed` of an earlier turn that is still queued hides the next turn's
  start (the exception in `PageKeepsUp`); an answer that is stored between the
  reading of the turns and of the active turn is missing until the next load, and one
  that is both stored and queued is shown twice; after a lag the page may stay busy;
* two insertions of a workspace edit at one position come out in reverse order, and an
  insertion that precedes a replacement with the same start is put in first and then
  taken for the text to be replaced: the sort by start is stable and the edits are
  applied one by one to what the former left (`lsp.rs:1686`). `Apart` keeps such lists
  out of the model, so that `TextEditsMatch` says nothing of them; the version of a document is ignored; a rename that fails in one file leaves the others
  changed;
* a provider's text that comes with tool calls is dropped; `response.failed` and
  `response.incomplete` are ignored, and the stream's end decides; SSE repeats what
  the WebSocket had shown; the body of an error answer is read without looking at
  the abort signal;
* a token refresh writes back the copy it loaded, and undoes a login made meanwhile
  (`auth/mod.rs:480`); `ActiveIsUsable` is what remains true;
* a cancel call on a delegated task whose newest attempt is not claimed leaves both
  in `cancel_requested` until the next kick.

A browser that prompts on receipt of the final event may be refused, because the prompt is
released a little later than the turn (`manager.rs:1186`, `1245`); a second
`start_active_turn` before the reservation replaces the first one's ids
(`manager.rs:623`), and its client then reserves a turn that another registered.

## 4. What is proved

**Tasks**, for every value of the constants allowed by `SchedulerAssumption` (any finite
set of tasks, any dependencies that point to earlier tasks, any set of loops,
any bounds, stalls or not):

| theorem | says |
|---|---|
| `NextKeepsIInv` | `IInv /\ [Next]_vars => IInv'` |
| `InvariantHolds` | `Spec => []IInv` |
| `TypeCorrect` | `Spec => []TypeOK` |
| `OneRunner` | `Spec => []OneRunnerPerTask` |
| `NewestAttempt` | `Spec => []RunnerHoldsNewestAttempt` |
| `DependenciesHold` | `Spec => []DependenciesFirst` |
| `TaskFollowsAttempt` | `Spec => []TaskNeverAheadOfAttempt` |
| `FinishedStaysFinished` | `Spec => []NoRerunOfFinishedTask` |
| `HistoryStays` | `Spec => SupersededAttemptsStay`, an action property |
| `LeaseHolds` | `Spec => LiveLeaseIsRespected`, an action property |
| `RecoveryDoneOnce` | `Spec => RecoveryIsIdempotent`, an action property |
| `CancelledStaysQuiet` | `Spec => []CancelledIsQuiet` if `~Stalls` |
| `SchedulerIsBoard` | `Spec => BoardSpec` if `~Stalls`: the refinement of `TaskBoard` |

**Why an inductive invariant is needed.** `OneRunnerPerTask` alone is not
inductive: a claim succeeds on a `ready` attempt, and nothing in the property
says that an attempt some loop works on is not `ready`. `IInv` adds, for each
row, `RowOK` (only the newest attempt is ever ready or running; the state of the
task bounds the state of that attempt; ready or running work has its
dependencies completed) and, for each working loop, `WorkedOn` (it holds the
newest attempt, which is running, being cancelled or interrupted, of a task
that is ready, running, being cancelled or cancelled). From these:

* a claim wins only on a ready newest attempt, which no working loop holds;
* retry and resume accept only failed, interrupted or retryable tasks, which
  `WorkedOn` excludes, so no attempt is appended under a loop;
* a completed task is never rewritten, so dependencies that were done stay done.

`TaskLifecycleProofs` proves, for each rewrite and each prefix of it, that it
keeps `RowOK` and, where a loop may be present, `WorkedOn`. In
`TaskSchedulerProofs` every action is then a choice of rewrite per row:
`RowsKept` lifts the row facts, `LoopsStay` and `LoopMoves` treat the loops.
`Untouched` (rows of tasks not created yet are empty) is needed by `Delegate`
only and is kept apart from the rest (`Kernel`).

The properties after that speak of rows and loops, not of actions, so every step is
first put into one form (`Framed`): `Written(t)` is all that a step may write to a row,
`Moved(s)` what a loop may do. Then each property looks at the rewrites once:

* a rewrite changes the newest attempt only (`HistoryStays`), and one whose lease lasts
  only in a step of the loop that holds it: other loops, control calls and recovery at
  most ask it to stop (`LeaseHolds`);
* a task whose turn completed is `Parked`: its row is in no state from which a scan,
  a recovery or a control call makes it ready again, and its loop has only the record
  to write (`AnsweredInv`, `FinishedStaysFinished`). A death forgets the turn, and a
  recovered task may run again: the property excepts it, as the code does;
* without stalls a loop that has claimed a ready task has a live lease
  (`QuietInv`), so that no scan interrupts the attempt and no retry opens the task
  to a cancel that nobody tells the loop (`CancelledStaysQuiet`); from this and from
  `OneRunnerPerTask` each step is one of the board's or a stutter
  (`SchedulerIsBoard`);
* what the first sweep did to the rows and passed on to their descendants leaves
  nothing for a second (`RecoveryDoneOnce`): a row that a sweep would cancel is closed
  already, and a recovered row is a fixed point of `RecoverRow`.

**Turns** (`SessionsProofs`), for any controllers, loops and number of
turns under `TurnAssumption`: `InvariantHolds`, and from it `OnePrompt`
(`OnePromptAtATime`), `OwnTurn` (`TurnOfPrompt`), `NoGhost` (`NoGhostTurn`) and
`OneEnd` (`OneEndPerPrompt`). `OnePromptAtATime` is not inductive: a
reservation looks at `activePrompt` and not at workers. `IInv` adds that a
worker is busy exactly while its turn is the reserved one (`ReservedIsBusy`),
what has been published at each stage (`EndsCounted`), and that a turn which
awaits its reservation is new (`TurnsInOrder`), so that no turn is run twice.

**History** (`TurnHistoryProofs`), for any numbers of prompts, calls, batches
and deaths under `HistoryAssumption`. About the store: `InvariantHolds`, `Pairing`
(`StoreIsPaired`), `RunsRecorded` (`RunsAreOnRecord`), `AbortStops`
(`AbortStopsTools`). `IInv` adds that the last record is the call in hand while it
is handled and otherwise a call only in a turn that is over (`OpenCallIsLast`), and
that a turn in which a tool was started under the signal is on its way to the next
look at it (`LateIsLast`).

About the history that is sent: `OrphansAreInFront` (`OrphansOnlyInFront`) and
`NewestSent` (`NewestIsSent`), for any `KeepRecent` and any number of passes and
retries. `ShortOf(g, h)` says what shortening must not do to a history; `Cut` and
`Shrunk` give such a `g` because they keep at least one item and drop at least one
(`KeptIsSome`, `DroppedIsSome`, on each branch of the alignment), and
`CompactedIsShort` follows for any number of passes: the first pass to give another
`g` would have a pass before it. `Compacted` is a recursive function, so that this
argument starts from its existence (`PassesAre`). `HistoryInv` then says that the
history ends with the newest record from the prompt to the request.

That memory and store agree, but for calls without output and items without an id, is
`HistoryEndsAlike` (`HistoryEndsLikeStore`). Its invariant, `MemoryInv`, fixes the items that count by what the *store* holds
(`Recalled`) and not by what the history holds, so that shortening does not move
them. `Recalls(h, s)` then says three things: every item of the history but the
summary is stored; a call whose output is stored is directly followed by it; and the
items that count come in the order of the store, up to its end. A tail of a history
keeps all three (`TailOf`, `RecallsTail`), an appended prompt or answer does
(`RecallsMore`), and a call without output changes none (`RecallsWithoutCall`). A
recorded output makes its call count, which is why `MemoryInv` needs that calls are
numbered once (`Numbered`) and that the call in hand is not in the history yet
(`NotYetKept`): only so is it the last item of both (`RecallsPair`). `Only` is a
recursive function of a sequence; its laws for `Append`, concatenation and two filters
in a row (`OnlyAppend`, `OnlyConcat`, `OnlyOfOnly`) are proved by the least
counterexample (`Climb`, `SequencesAre`).

**Language servers** (`ProcessesProofs`), for any users, requests and frames
under `LspAssumption`: `InvariantHolds`, `OneStart` (`StartedOnce`), `OneReport`
(`FailureReportedOnce`), `OwnAnswer` (`AnswerIsOwn`), `NoneLeftBehind`
(`NoServerLeftBehind`) and, an action property, `FailureIsFinal`
(`FailureIsTerminal`). `IInv` adds `FirstUser`: until there is a process nobody
has a client, at most one user is about to make it, and while one initializes it
nobody else holds it.

**Sockets** (`SessionsProofs`), for any sockets, sessions and models: `LocksHold`
(`LocksFollowSockets`) and, an action property, `SocketStays` (`TurnKeepsSocket`).
The lock of a session is a set of at most one socket, and a load takes the new lock
before it gives back the old one. `WebInv` adds that an attached socket has exactly
one active session (`SocketShape`) and that what it loads is a session (`Targets`),
so that the lock given back is the one held.

**The page** (`SessionsProofs`), for any number of turns, deltas and snapshots and any
capacity under `SessionsAssumption`: `PageShowsTurn` (`PageKeepsUp`). The property
speaks of a page that has nothing left to forward; `StreamInv` says the same of one
that has: what the page does not show yet is in the queue, and nothing queued behind
it undoes it. `BusyTells` says it of the turn in progress (the last queued event that
tells is right), `TextComes` of each piece of text, `AnswersCome` of each answer.
A snapshot is taken in two readings after the subscription, so each of these is also
carried over the gap between them.

**The watch** (`SessionsProofs`), for any tasks and events: `WatchIsInOrder`
(`EventsComeOnceInOrder`). In `WatchInv` the page has the first events of each task in
order, and what a watch has read is what the page has and what is to be sent, all of
it newer (`ReadUpTo`).

`SessionsStayOK` is `PartsSpec => []PartsOK`: the invariant of turns and the types of
the three other parts.

**Commands** (`ProcessesProofs`), for any set of processes, any of which may ignore
TERM: `SeenEnds` (`SeenIsEnded`). `ShellInv` adds that from the first collection on
whatever was seen and still runs is known to the tool, after the last look is among
what remains for KILL, and after KILL is dying. It rests on one fact about scans (`Scans`): they find only what runs and forget
nothing that runs. `ProcessesStayOK` is `PartsSpec => []PartsOK`, for which
`ProcessesAssumption` keeps the shell apart from its processes.

**The schema** (`RecordsProofs`), for any processes, and any numbers of
versions and statements: `OpenComplete` (`OpenIsComplete`). `SchemaInv` adds
that the versions on record are the first ones (`NoGap`: the newest version alone is
read), that each of them was applied (`RecordedApplied`), and that a process on its
way has applied what is behind it (`Progress`).

**Credentials** (`RecordsProofs`), for any workers, tabs, terminals and bounds:
`ActiveHasCredentials` (`ActiveIsUsable`), because whatever an actor holds to write
later is usable as well (`CopiesUsable`) and every change of a usable store gives a
usable one (`ChangesAreUsable`); and, an action property, `LoginsEnd` (`LoginsEndOnce`).
Its invariant `LoginsOwned` says that a login is in one hand: who exchanges a code is
busy, has nothing else pending, and nobody else has that flow, pending or in
exchange; and only a tab's login runs out. A step then does one of three things
(`LoginSteps`): it lets go of logins (`LetsGo`), or somebody idle takes up a pending one
that did not run out (`Takes`) or begins one with a new number (`Opens`).

**The graph** (`RecordsProofs`), for any tasks and sessions: `RelatedToEachOther`
(`RelatedIsMutual`). `Related` is a least closed set; being next to each other is
symmetric because a row has one parent (`OneParent`, `NextToEachOther`), and then the
complement of what `u` reaches is closed as well, so that `u` reaches whatever reaches
it.

For any finite set of tasks, `CheckFindsCycles`: the depth-first walk of
`validate_task_graph_acyclic` refuses a graph just if it has a cycle. The walk is a
recursive function whose body is a fold that calls it, so both must first be shown to
exist: a fold asks for smaller sets (`FoldIsThere`), a walk for places with fewer
tasks off the path (`AheadShrinks`, `WalkLooksAhead`, `WalkIsThere`). Then `FoldRule`
carries over a fold what each visit keeps. What was visited without finding a cycle is
`Done`: closed under dependencies and without a cycle (`WalkFinishes`,
`PassedIsAcyclic`). In the other direction whatever is on the path reaches the node,
so that an edge back to the path is a cycle (`NoWayBack`, `WalkFindsNone`). From it
`DependenciesHaveNoCycle` (`GraphStaysAcyclic`): `AcyclicInv` says that the edges
together with those a replacement has still to write have no cycle, so that it may
stop anywhere. It says nothing of edges that a failed replacement lost.

**Providers** (`RecordsProofs`), for any numbers of texts, calls, requests and events
under way: `OneStreamAnswers` (`AnswerIsOneStream`) and `FewAreLate`
(`LateAtMostOne`). The client and the server are apart by the events under way:
`Telling` says that there is a path from what the client has heard to what the server
has said, each event a step of it. `Receive` takes the first step away and the server
appends one; at the end of the stream the path is empty and both agree.

**Edits** (`EditingProofs`), for any initial file, texts, editors and number of calls:
`EditsDoWhatTheyAsk` (`EditsMatchRequest`), and the fact about files it rests on,
`RewrittenMatches`, both for requests of one or two operations with replacements of any
lines: the code sorts the operations of a request and applies one after
the other to lines that the earlier ones have moved, and still every operation lands
on the line it was made for. A file of n lines is cut into 3n places: each line, what
is in front of it and what is behind it. An operation takes the places from `From` to
`To`; what the request says is the sum of what the places get (`AskedIsSum`), a place
that no operation covers gets what it has (`Stretch`) and an operation alone in its
places brings its text and nothing else (`Through`). On the other side an operation is
a splice (`SpliceIs`), and two splices, the one further down first, are the five pieces
of the file in order (`TwoSplices`). Both meet in `PlacesInOrder`: of two operations
that `validate_overlaps` lets through, the one sorted first lies behind the other, or
both insert at one place and the later one of the request goes first. For the breaks,
`EditInv` adds that every file there is or is going to be is `Whole`: all lines but the
last have a break and no line of the initial file is there twice; what `Content` leaves out of the end is
a line of its own (`Hanging`, `ContentIs`). `FlattenSeq` and
`FoldLeft` are folds over sets, whose value is taken from the existence of a function
that satisfies their recursion (`SumsExist`, `FoldMakes`).

**Renames** (`RenameProofs`), for any files, texts, characters and their widths:
`EditsMoveNoOther` (`TextEditsMatch`), for the one or two edits of a file that
`EditLists` has. The code edits an array of lines, pads it, and finds a position by
walking a line; the property speaks of the UTF-16 units of the whole file. A
document is therefore taken as the text of its joined lines. A position cuts that text
in two (`CutDoc`), and one step of the loop is the text in front of the first cut, the
new text, and the text behind the last one (`EditedCuts`): for an edit within a line
because a line is put between lines (`JoinedAround`), for one over several because
the pieces that `split` makes of a text, joined, are that text (`LinesJoin`). In units
(`FlatEdited`, `PlaceIs`) an edit replaces a range of a sequence. An edit that begins
behind another leaves what is in front of it, so that the other finds its characters
at the same places (`EditedAgrees`, `MarkedAlike`, `PlaceKept`) and both together are
the five pieces of the file in order (`FlatTwo`). The reference `AtOnce` is summed
unit by unit into the same pieces (`LandOne`, `LandTwo`). Edits may touch, and may be
empty; since two edits of a list begin at different positions (`Apart`), the sort has
one result (`OrderedTwo`), and of the two the one sorted first lies behind the other
(`ApartIs`). `TextInv` adds to the property that every file is made of lines
without breaks in them and that the changes still to be applied ask for positions in
the document the server knew (`AskedFor`).

**All records** (`RecordsProofs`): `RecordsStayOK` is `PartsSpec => []PartsOK`, the
history's invariant and the types of the six other parts. The types of the credentials
need that nothing is held which was not given out (`GivenOut`: the flows and tokens
that actors hold are numbered no higher than those made so far), and those of the
rename tool that whatever changes are still to be applied have one of the forms a
server sends (`Fit`).

**Assumptions.** The theorems assume what the modules do of their constants:
`SchedulerAssumption`, `TurnAssumption`, `HistoryAssumption`, `LspAssumption`,
`SessionsAssumption`, `RecordsAssumption`, `ProcessesAssumption` (bounds are numbers,
sets are finite where they are counted or walked, distinguished values are apart or
members; a line break is none of the characters of a name, tabs are not terminals, and
which calls come without an id is any set of numbers).
`CancelledStaysQuiet` and `SchedulerIsBoard` assume `~Stalls` as well.

**Only model-checked**: liveness under fairness and anything about ENABLED (out
of the proof system's reach).
Theorems with an operator parameter cannot be instantiated, so that induction is
done by the least counterexample instead (`Smallest`, `Climb`), where it is needed; closures
(`Related`, `Descendants`, `collect_descendant_task_ids`) are defined as least closed
sets and not recursively.

## 5. Not modelled, and why

* Requests and wire formats of the providers, token exchange, encryption, HTML and formatting: I/O
  whose outcomes are choices in the models.
* The lease's wall-clock arithmetic: a lease is due or not, at any time.
* SQLite itself: a statement is atomic and durable.
* Preflight, the terminal front end, web search, skills and telemetry:
  sequential, without state that another part reads.
* A second `kley` process on the same store: `TaskScheduler` has one, whose mutex makes
  a critical section atomic, and a restart comes after its death. `SchemaMigration` and
  `Credentials` do have several processes.
* Workspace edits with the same start, and more than two edits of a file; edit requests
  of more than two operations.
* The dependencies of a task that a failed `replace_for_task` deleted and did not write
  again: `GraphStaysAcyclic` does not notice that they are gone.
* A `kill` that fails for one of several processes.
* Sizes in characters and tokens: compaction's passes are choices over what
  sizes allow, and the byte arithmetic of `compact.rs:204` has no model.
* `delegation policy` beyond `max_concurrency`: a comparison of lists.
* Panics.

## 6. Plan

Done: every component of section 2 modelled and model-checked, with proofs of all but
the last group of section 4. Next, in this order:

1. `ChildBootstrap`: session, checkpoint and recovery data of a child, composed with
   `TaskScheduler`.
2. `EditsMoveNoOther` for lists of more than two edits: an induction over the list.
