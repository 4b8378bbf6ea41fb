---------------------------- MODULE TurnLifecycle ----------------------------
(***************************************************************************)
(* One managed session: who may prompt it, how a turn is registered and    *)
(* reserved for a prompt, the worker that runs the prompt, and the abort   *)
(* flag they share.  Browsers prompt through the WebSocket controller they *)
(* are attached with; scheduler loops prompt a child session directly.     *)
(*                                                                         *)
(* Every action is one critical section of the session table, or a stretch *)
(* of the worker between two reads or writes of something shared.          *)
(***************************************************************************)
EXTENDS Naturals

CONSTANTS
  Controllers,  \* WebSocket connections that may attach to the session
  Loops,        \* scheduler loops that run a child turn in the session
  NoOne, NoTurn,
  MaxTurns      \* bound: turns that are registered

Clients == Controllers \cup Loops
Turns   == 1..MaxTurns

ASSUME TurnAssumption ==
  /\ Controllers \cap Loops = {}
  /\ NoOne \notin Clients
  /\ MaxTurns \in Nat
  /\ NoTurn \notin Turns

VARIABLES
  attached,      \* the session's controller
  pc,            \* client -> "idle", "started", "refused" or "waiting"
  mine,          \* client -> the turn it registered last
  registered,    \* number of turns registered so far
  activeTurn,    \* ManagedSession::active_turn
  activePrompt,  \* ManagedSession::active_prompt
  prompter,      \* turn -> the client whose prompt runs under it
  stage,         \* turn -> what its worker does next
  flag,          \* turn -> its abort signal
  unsent,        \* turn -> the final event emitted and not yet published
  ends           \* turn -> number of final events published

clients == <<attached, pc, mine>>
entry   == <<activeTurn, activePrompt>>
worker  == <<stage, flag, unsent>>
vars == <<clients, registered, entry, prompter, worker, ends>>

\* The worker's way through submit_prompt_with_ids, up to its result.
Live    == {"opening", "checking", "asking", "calling"}
Results == {"completed", "failed", "aborted", "error"}
Busy    == {"spawned", "answered"} \cup Live \cup Results
Stages  == {"none", "finished"} \cup Busy

Init ==
  /\ attached = NoOne
  /\ pc = [c \in Clients |-> "idle"]
  /\ mine = [c \in Clients |-> NoTurn]
  /\ registered = 0
  /\ activeTurn = NoTurn /\ activePrompt = NoTurn
  /\ prompter = [t \in Turns |-> NoOne]
  /\ stage = [t \in Turns |-> "none"]
  /\ flag = [t \in Turns |-> FALSE]
  /\ unsent = [t \in Turns |-> FALSE]
  /\ ends = [t \in Turns |-> 0]

-----------------------------------------------------------------------------
(* Clients.                                                                *)

Attach(c) ==
  /\ attached = NoOne
  /\ attached' = c
  /\ UNCHANGED <<pc, mine, registered, entry, prompter, worker, ends>>

\* The connection closes, or goes to another session.
Detach(c) ==
  /\ attached = c /\ pc[c] = "idle"
  /\ attached' = NoOne
  /\ UNCHANGED <<pc, mine, registered, entry, prompter, worker, ends>>

MayPrompt(c) == pc[c] = "idle" /\ (c \in Loops \/ attached = c)

\* A new turn, registered in the place of whichever there was.
Register(c) ==
  /\ MayPrompt(c)
  /\ registered < MaxTurns
  /\ registered' = registered + 1
  /\ activeTurn' = registered'
  /\ mine' = [mine EXCEPT ![c] = registered']
  /\ pc' = [pc EXCEPT ![c] = "started"]
  /\ UNCHANGED <<attached, activePrompt, prompter, worker, ends>>

\* start_active_turn looks at the prompt only: a turn that is registered and
\* not yet reserved is replaced.
Start(c) == activePrompt = NoTurn /\ Register(c)

\* reserve_prompt_execution takes whatever turn is registered; a loop then
\* waits for the end, a controller goes on.
Reserve(c) ==
  /\ pc[c] = "started"
  /\ activeTurn # NoTurn /\ activePrompt = NoTurn
  /\ activePrompt' = activeTurn
  /\ prompter' = [prompter EXCEPT ![activeTurn] = c]
  /\ stage' = [stage EXCEPT ![activeTurn] = "spawned"]
  /\ pc' = [pc EXCEPT ![c] = IF c \in Loops THEN "waiting" ELSE "idle"]
  /\ UNCHANGED <<attached, mine, registered, activeTurn, flag, unsent, ends>>

Refuse(c) ==
  /\ pc[c] = "started"
  /\ activeTurn = NoTurn \/ activePrompt # NoTurn
  /\ pc' = [pc EXCEPT ![c] = IF c \in Loops THEN "idle" ELSE "refused"]
  /\ UNCHANGED <<attached, mine, registered, entry, prompter, worker, ends>>

\* clear_active_turn, after a refusal and by controllers only.
Clear(c) ==
  /\ pc[c] = "refused"
  /\ pc' = [pc EXCEPT ![c] = "idle"]
  /\ activeTurn' = IF activeTurn = mine[c] THEN NoTurn ELSE activeTurn
  /\ UNCHANGED <<attached, mine, registered, activePrompt, prompter,
                 worker, ends>>

\* request_abort compares ids with the registered turn and raises the flag
\* of the prompt.
Abort(t) ==
  /\ attached # NoOne
  /\ activeTurn = t /\ activePrompt # NoTurn
  /\ flag' = [flag EXCEPT ![activePrompt] = TRUE]
  /\ UNCHANGED <<clients, registered, entry, prompter, stage, unsent, ends>>

-----------------------------------------------------------------------------
(* The worker of turn t.                                                   *)

\* The worker goes on to next, its flag being up or not; a result other than
\* an error comes with a final event.
Goes(t, next, up) ==
  /\ stage' = [stage EXCEPT ![t] = next]
  /\ flag' = [flag EXCEPT ![t] = up]
  /\ unsent' = [unsent EXCEPT ![t] = next \in Results \ {"error"}]
  /\ UNCHANGED <<clients, registered, entry, prompter, ends>>

\* Authentication or the session's state cannot be loaded.
SetupFails(t) == stage[t] = "spawned" /\ Goes(t, "error", flag[t])

\* The flag is lowered and the prompt stored, which may fail.
Begin(t) ==
  /\ stage[t] = "spawned"
  /\ \E next \in {"opening", "error"} : Goes(t, next, FALSE)

\* finish_aborted_submit; before the turn has opened abort_turn has nothing
\* to store and cannot fail.
GivesUp(t) ==
  \/ Goes(t, "aborted", FALSE)
  \/ stage[t] # "opening" /\ Goes(t, "error", TRUE)

\* The turn's events start after the history is compacted.
Open(t) ==
  /\ stage[t] = "opening"
  /\ IF flag[t] THEN GivesUp(t) ELSE Goes(t, "checking", FALSE)

\* The top of the loop, after another compaction.
Check(t) ==
  /\ stage[t] = "checking"
  /\ IF flag[t] THEN GivesUp(t) ELSE Goes(t, "asking", FALSE)

\* The provider answers with text, tool calls, or an error, or notices the
\* flag; an overflow of the context goes back to the top.
Ask(t) ==
  /\ stage[t] = "asking"
  /\ \/ \E next \in {"answered", "failed"} : Goes(t, next, FALSE)
     \/ \E next \in {"calling", "checking"} : Goes(t, next, flag[t])
     \/ flag[t] /\ GivesUp(t)

\* Wrong variant: tool calls are carried out without looking at the flag, and
\* the flag is lowered for the next round.
CallDeaf(t) ==
  /\ stage[t] = "calling"
  /\ \E next \in {"checking", "error"} : Goes(t, next, FALSE)

\* The flag is looked at before each call; storing a call may fail.
Call(t) ==
  /\ stage[t] = "calling"
  /\ \/ flag[t] /\ GivesUp(t)
     \/ ~flag[t] /\ Goes(t, "checking", FALSE)
     \/ Goes(t, "error", flag[t])

\* The answer is stored, which may fail, and reported.
Answer(t) ==
  /\ stage[t] = "answered"
  /\ \E next \in {"completed", "error"} : Goes(t, next, flag[t])

Work(t) ==
  \/ SetupFails(t) \/ Begin(t) \/ Open(t) \/ Check(t) \/ Ask(t) \/ Call(t)
  \/ Answer(t)

-----------------------------------------------------------------------------
(* The task that forwards the worker's events and finishes the prompt.     *)

\* Wrong variant: the end of the turn frees the session for the next prompt.
PublishFrees(t) ==
  /\ unsent[t]
  /\ unsent' = [unsent EXCEPT ![t] = FALSE]
  /\ ends' = [ends EXCEPT ![t] = @ + 1]
  /\ activeTurn' = NoTurn /\ activePrompt' = NoTurn
  /\ UNCHANGED <<clients, registered, prompter, stage, flag>>

\* A final event unregisters the turn, whichever it is.
Publish(t) ==
  /\ unsent[t]
  /\ unsent' = [unsent EXCEPT ![t] = FALSE]
  /\ ends' = [ends EXCEPT ![t] = @ + 1]
  /\ activeTurn' = NoTurn
  /\ UNCHANGED <<clients, registered, activePrompt, prompter, stage, flag>>

Freed(t) ==
  [c \in Clients |-> IF c = prompter[t] /\ pc[c] = "waiting" THEN "idle" ELSE pc[c]]

\* The prompt of t is over; whether its end is reported now, and what is left
\* registered and reserved, is up to the caller.
Over(t, report, turn, prompt) ==
  /\ stage[t] \in Results /\ ~unsent[t]
  /\ stage' = [stage EXCEPT ![t] = "finished"]
  /\ ends' = [ends EXCEPT ![t] = IF report THEN @ + 1 ELSE @]
  /\ activeTurn' = turn /\ activePrompt' = prompt
  /\ pc' = Freed(t)
  /\ UNCHANGED <<attached, mine, registered, prompter, flag, unsent>>

\* Wrong variants: every failure is reported once more; an error leaves the
\* turn registered; only a completed prompt is released.
FinishTwice(t) == Over(t, stage[t] # "completed", NoTurn, NoTurn)

FinishKeepsTurn(t) ==
  Over(t, stage[t] = "error", IF stage[t] = "error" THEN activeTurn ELSE NoTurn, NoTurn)

FinishKeepsPrompt(t) ==
  Over(t, stage[t] = "error", NoTurn,
       IF stage[t] = "completed" THEN NoTurn ELSE activePrompt)

\* finish_prompt, once all events are out: an error is reported here, and
\* unregisters whatever turn there is.
Finish(t) ==
  Over(t, stage[t] = "error",
       IF activeTurn = t \/ stage[t] = "error" THEN NoTurn ELSE activeTurn, NoTurn)

-----------------------------------------------------------------------------
Prompting == \E c \in Clients : Start(c) \/ Reserve(c) \/ Refuse(c) \/ Clear(c)

Next ==
  \/ \E c \in Controllers : Attach(c) \/ Detach(c)
  \/ Prompting
  \/ \E t \in Turns : Abort(t) \/ Work(t) \/ Publish(t) \/ Finish(t)

Spec == Init /\ [][Next]_vars

\* Workers run, providers answer and tools return, each in the end; events are
\* forwarded.  Nothing is assumed of clients.
Fairness == \A t \in Turns : WF_vars(Work(t)) /\ WF_vars(Publish(t)) /\ WF_vars(Finish(t))

FairSpec == Spec /\ Fairness

-----------------------------------------------------------------------------
(* Properties.                                                             *)

\* Every variable keeps its type; a controller in the middle of a request is
\* the session's, and only loops wait for a prompt.
TypeOK ==
  /\ attached \in Controllers \cup {NoOne}
  /\ pc \in [Clients -> {"idle", "started", "refused", "waiting"}]
  /\ \A c \in Controllers : pc[c] # "idle" => attached = c /\ pc[c] # "waiting"
  /\ mine \in [Clients -> Turns \cup {NoTurn}]
  /\ registered \in 0..MaxTurns
  /\ activeTurn \in Turns \cup {NoTurn} /\ activePrompt \in Turns \cup {NoTurn}
  /\ prompter \in [Turns -> Clients \cup {NoOne}]
  /\ stage \in [Turns -> Stages]
  /\ flag \in [Turns -> BOOLEAN] /\ unsent \in [Turns -> BOOLEAN]
  /\ ends \in [Turns -> Nat]

\* At most one worker is at the session's history and store, from the
\* reservation to the end of finish_prompt, whoever prompts and whenever.
OnePromptAtATime ==
  \A t, u \in Turns : stage[t] \in Busy /\ stage[u] \in Busy => t = u

\* While a prompt is reserved no other turn is registered: abort ids, the
\* final event and finish_prompt's error branch, which clears the turn
\* without looking at its id, all concern the prompt's own turn.
TurnOfPrompt ==
  activePrompt # NoTurn => activeTurn \in {NoTurn, activePrompt}

\* A turn stays registered only while someone is going to reserve it or its
\* prompt runs: no browser shows a turn that nothing will ever end.
NoGhostTurn ==
  activeTurn # NoTurn =>
    activePrompt = activeTurn \/ \E c \in Clients : pc[c] = "started"

\* Of every prompt exactly one final event is published by the time it is
\* finished, by the worker or in its place by finish_prompt.
OneEndPerPrompt ==
  \A t \in Turns : ends[t] <= 1 /\ (stage[t] = "finished" => ends[t] = 1)

\* A prompt is reserved exactly as long as its worker has not been finished.
ReservedIsBusy == \A t \in Turns : stage[t] \in Busy <=> activePrompt = t

\* A final event is emitted with the result, and published once.
EndsCounted ==
  \A t \in Turns :
    /\ stage[t] \in {"none", "spawned", "answered", "error"} \cup Live =>
         ~unsent[t] /\ ends[t] = 0
    /\ stage[t] \in Results \ {"error"} => ends[t] = IF unsent[t] THEN 0 ELSE 1
    /\ stage[t] = "finished" => ~unsent[t] /\ ends[t] = 1

\* Turns are registered in order, and one that awaits its reservation is new.
TurnsInOrder ==
  /\ \A t \in Turns : stage[t] # "none" => t <= registered
  /\ activeTurn # NoTurn => activeTurn <= registered
  /\ activeTurn # NoTurn /\ activePrompt = NoTurn => stage[activeTurn] = "none"

\* The inductive invariant: what ties the session table to the workers.
IInv ==
  /\ TypeOK /\ ReservedIsBusy /\ TurnOfPrompt /\ NoGhostTurn /\ EndsCounted
  /\ TurnsInOrder

\* An abort that the worker has not missed ends the turn, even if the model
\* keeps asking for tools.
AbortEnds ==
  \A t \in Turns :
    flag[t] /\ stage[t] \in Live ~> stage[t] = "finished"

\* A prompt that has its result frees the session.
ResultFreesSession ==
  \A t \in Turns : stage[t] \in Results ~> activePrompt # t

\* Claim of tests/web.rs, "abort_command_emits_turn_failed_and_runtime_stops":
\* an accepted abort is not forgotten while the turn goes on.
AbortSticks ==
  [][\A t \in Turns : flag[t] /\ ~flag'[t] => stage'[t] \notin Live]_vars
=============================================================================
