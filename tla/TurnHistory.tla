----------------------------- MODULE TurnHistory -----------------------------
(***************************************************************************)
(* What one session remembers: the records of its turns in the store, and  *)
(* the history that the worker keeps in memory, shortens and sends to the  *)
(* provider.  A worker loads the history from the store, runs a prompt     *)
(* through any number of rounds of tool calls, and is then dropped (web)   *)
(* or prompted again (chat).  The process may die at any step.             *)
(*                                                                         *)
(* Items are told apart by kind and number; their size is not modelled:    *)
(* whatever depends on it is a choice.                                     *)
(***************************************************************************)
EXTENDS Naturals, Sequences, SequencesExt

CONSTANTS
  KeepRecent,   \* CompactConfig::keep_recent
  RetryLimit,   \* CONTEXT_OVERFLOW_RETRY_LIMIT
  MaxPrompts,   \* bound: prompts that are submitted
  MaxCalls,     \* bound: tool calls that are recorded
  MaxBatch,     \* bound: tool calls in one answer of the provider
  MaxCrashes,   \* bound: deaths of the process
  Unnamed       \* the calls to which the provider gives no id, or a blank one

ASSUME HistoryAssumption ==
  /\ {KeepRecent, RetryLimit, MaxPrompts, MaxCalls, MaxBatch, MaxCrashes} \subseteq Nat
  /\ Unnamed \subseteq Nat

VARIABLES
  store,    \* the session's rows of the table turns
  status,   \* the session's status in the store
  history,  \* SessionRuntime::history
  stage,    \* what the worker does next
  flag,     \* the abort signal
  batch,    \* calls of the provider's last answer still to be carried out
  retries,  \* context_overflow_retries
  prompts, calls, crashes,  \* numbers of prompts, recorded calls and deaths
  ran,      \* calls whose tool was started
  late      \* number of tools started in this prompt with the signal up

records == <<store, status>>
counts  == <<prompts, calls, crashes>>
tools   == <<ran, late>>
vars == <<records, history, stage, flag, batch, retries, counts, tools>>

Kinds == {"user", "assistant", "call", "output", "summary"}
Item(kind, id) == [kind |-> kind, id |-> id]
Summary == Item("summary", 0)
Items == [kind : Kinds, id : Nat]
Nameless == [kind : {"call", "output"}, id : Unnamed]

\* The items of s that are in the set.
Only(s, set) ==
  LET only[n \in 0..Len(s)] ==
        IF n = 0 THEN <<>>
        ELSE IF s[n] \in set THEN Append(only[n - 1], s[n]) ELSE only[n - 1]
  IN  only[Len(s)]

Handling == {"approving", "running", "replying"}
Active   == {"checking", "asking", "calling", "answered"} \cup Handling
Stages   == {"off", "idle", "opening"} \cup Active

Init ==
  /\ store = <<>> /\ status = "active" /\ history = <<>>
  /\ stage = "off" /\ flag = FALSE /\ batch = 0 /\ retries = 0
  /\ prompts = 0 /\ calls = 0 /\ crashes = 0
  /\ ran = {} /\ late = 0

-----------------------------------------------------------------------------
(* Shortening the history.                                                 *)

\* Wrong variant: a short history may be replaced altogether.
KeptOrNone(n, pass) == {0} \cup {k \in 1..(n - 1) : k <= KeepRecent}

\* How many of n items a pass of compact_history_to_budget keeps, depending
\* on by how much the request is too long.
Kept(n, pass) ==
  LET share == IF pass = 0 THEN n ELSE IF pass = 1 THEN n \div 2 ELSE n \div 3
  IN  { Max({1, Min({Max({KeepRecent, 1}), n - 1, part, share})}) :
          part \in {n, n \div 2, (2 * n) \div 3, (3 * n) \div 4} }

\* Wrong variant: the first message stays, and nothing stands for the rest.
CutSilent(h, keep) == <<Head(h)>> \o SubSeq(h, Len(h) - keep + 1, Len(h))

\* maybe_compact: the older items are replaced by a summary, a user message.
Cut(h, keep) == <<Summary>> \o SubSeq(h, Len(h) - keep + 1, Len(h))

Pass(hs, pass) ==
  UNION { {Cut(h, keep) : keep \in Kept(Len(h), pass)} : h \in {g \in hs : Len(g) >= 2} }

\* The results of compact_history_to_budget, which stops after any pass.
Compacted(h) ==
  LET after[n \in 0..(RetryLimit + 1)] ==
        IF n = 0 THEN {h} ELSE Pass(after[n - 1], n - 1)
  IN  UNION {after[n] : n \in 0..(RetryLimit + 1)}

FromUser(item) == item.kind \in {"user", "summary"}

\* exchange_aligned_remove_count: how many items to drop at the front, before
\* a user message if one is near, and not between a call and its output.
Dropped(h, retry) ==
  LET target   == Max({1, Len(h) \div (IF retry <= 1 THEN 4 ELSE 2)})
      last     == Len(h) - 1
      strict   == retry >= 2
      before   == {n \in 1..target : FromUser(h[n + 1])}
      after    == {n \in (target + 1)..last : FromUser(h[n + 1])}
      fallback == IF h[target + 1].kind = "output" THEN Max({target - 1, 1}) ELSE target
      safe     == {n \in target..last : h[n + 1].kind # "output"}
  IN  IF ~strict /\ before # {} THEN Max(before)
      ELSE IF after # {} /\ (strict \/ Min(after) - target <= target) THEN Min(after)
      ELSE IF strict /\ fallback < target /\ safe # {} THEN Min(safe)
      ELSE fallback

\* force_shrink_history_for_overflow_retry.
Shrunk(h, retry) ==
  IF Len(h) < 2 THEN h ELSE SubSeq(h, Dropped(h, retry) + 1, Len(h))

\* After an overflow: a compaction that makes nothing shorter is followed by
\* a forced shrink.
ShrunkOrCompacted(h, retry) ==
  UNION { IF Len(c) # Len(h) THEN {c}
          ELSE IF c = h /\ (h = <<>> \/ h[1] # Summary) THEN {Shrunk(c, retry)}
          ELSE {c, Shrunk(c, retry)} : c \in Compacted(h) }

-----------------------------------------------------------------------------
(* The worker.                                                             *)

\* Wrong variant: stored calls are left out.
ReloadedMessages(s) == SelectSeq(s, LAMBDA item : item.kind # "call")

\* history_items_from_turns: all but the calls and outputs without an id.
Reloaded(s) == Only(s, Items \ Nameless)

Load ==
  /\ stage = "off"
  /\ history' = Reloaded(store) /\ stage' = "idle"
  /\ UNCHANGED <<records, flag, batch, retries, counts, tools>>

\* The worker is gone, and its memory with it.
Off ==
  /\ stage' = "off" /\ history' = <<>>
  /\ flag' = FALSE /\ batch' = 0 /\ retries' = 0

\* The prompt has its result; the worker may be used again, with history h.
Ends(h) ==
  /\ stage' \in {"idle", "off"}
  /\ history' = IF stage' = "off" THEN <<>> ELSE h
  /\ flag' = FALSE /\ batch' = 0 /\ retries' = 0

\* finish_aborted_submit.
GiveUp(h) ==
  /\ status' = IF stage = "opening" THEN status ELSE "aborted"
  /\ Ends(h)
  /\ UNCHANGED <<store, counts, tools>>

\* The abort signal, as the worker finds it.
Stop == flag

Submit ==
  /\ stage = "idle" /\ prompts < MaxPrompts
  /\ prompts' = prompts + 1
  /\ status' = "active"
  /\ store' = Append(store, Item("user", prompts'))
  /\ history' = Append(history, Item("user", prompts'))
  /\ stage' = "opening" /\ flag' = FALSE /\ late' = 0
  /\ UNCHANGED <<batch, retries, calls, crashes, ran>>

\* The history is compacted, then the signal looked at.
Prepare(from, to) ==
  /\ stage = from
  /\ \E h \in Compacted(history) :
       IF Stop THEN GiveUp(h)
       ELSE /\ stage' = to /\ history' = h
            /\ UNCHANGED <<records, flag, batch, retries, counts, tools>>

Open  == Prepare("opening", "checking")
Check == Prepare("checking", "asking")

AskAborted == stage = "asking" /\ flag /\ GiveUp(history)

AskFailed ==
  /\ stage = "asking" /\ Ends(history)
  /\ UNCHANGED <<records, counts, tools>>

Overflow ==
  /\ stage = "asking" /\ retries < RetryLimit
  /\ retries' = retries + 1
  /\ history' \in ShrunkOrCompacted(history, retries')
  /\ stage' = "checking"
  /\ UNCHANGED <<records, flag, batch, counts, tools>>

GetText ==
  /\ stage = "asking"
  /\ stage' = "answered" /\ flag' = FALSE
  /\ UNCHANGED <<records, history, batch, retries, counts, tools>>

GetCalls ==
  /\ stage = "asking"
  /\ batch' \in 1..MaxBatch /\ calls + batch' <= MaxCalls
  /\ stage' = "calling"
  /\ UNCHANGED <<records, history, flag, retries, counts, tools>>

\* Wrong variant: the call is recorded with its output only.
StoreNoCall ==
  /\ stage = "calling"
  /\ IF Stop THEN GiveUp(history)
     ELSE /\ calls' = calls + 1 /\ store' = store
          /\ stage' = "approving"
          /\ UNCHANGED <<status, history, flag, batch, retries, prompts, crashes, tools>>

\* The next call of the batch is recorded.
StoreCall ==
  /\ stage = "calling"
  /\ IF Stop THEN GiveUp(history)
     ELSE /\ calls' = calls + 1
          /\ store' = Append(store, Item("call", calls'))
          /\ stage' = "approving"
          /\ UNCHANGED <<status, history, flag, batch, retries, prompts, crashes, tools>>

\* Wrong variant: a call that is not approved is passed over.
ApproveOrSkip ==
  /\ stage = "approving"
  /\ \/ Stop /\ GiveUp(history)
     \/ /\ \/ ~Stop /\ stage' = "running" /\ batch' = batch
           \/ batch > 1 /\ stage' = "calling" /\ batch' = batch - 1
        /\ UNCHANGED <<records, history, flag, retries, counts, tools>>

\* It is approved or not; the signal matters only if it is.
Approve ==
  /\ stage = "approving"
  /\ \/ Stop /\ GiveUp(history)
     \/ /\ stage' \in {"replying"} \cup (IF Stop THEN {} ELSE {"running"})
        /\ UNCHANGED <<records, history, flag, batch, retries, counts, tools>>

Run ==
  /\ stage = "running"
  /\ stage' = "replying"
  /\ ran' = ran \cup {calls}
  /\ late' = late + IF flag THEN 1 ELSE 0
  /\ UNCHANGED <<records, history, flag, batch, retries, counts>>

\* The output is recorded, and the pair enters the history.
Reply ==
  /\ stage = "replying"
  /\ store' = Append(store, Item("output", calls))
  /\ history' = history \o <<Item("call", calls), Item("output", calls)>>
  /\ batch' = batch - 1
  /\ stage' = IF batch' = 0 THEN "checking" ELSE "calling"
  /\ UNCHANGED <<status, flag, retries, counts, tools>>

Answer ==
  /\ stage = "answered"
  /\ store' = Append(store, Item("assistant", prompts))
  /\ Ends(Append(history, Item("assistant", prompts)))
  /\ UNCHANGED <<status, counts, tools>>

\* Submit writes the status before the prompt.
Half == {status} \cup (IF stage = "idle" THEN {"active"} ELSE {})

\* The store refuses a write: the prompt ends in an error.
StoreFails ==
  /\ \/ stage \in {"idle", "calling", "replying", "answered"}
     \/ stage \in Active /\ Stop
  /\ Off /\ status' \in Half
  /\ UNCHANGED <<store, counts, tools>>

-----------------------------------------------------------------------------
(* Users and the process.                                                  *)

Abort ==
  /\ stage \in {"opening"} \cup Active /\ ~flag
  /\ flag' = TRUE
  /\ UNCHANGED <<records, history, stage, batch, retries, counts, tools>>

Die ==
  /\ stage # "off" /\ crashes < MaxCrashes
  /\ crashes' = crashes + 1
  /\ Off /\ status' \in Half
  /\ UNCHANGED <<store, prompts, calls, tools>>

-----------------------------------------------------------------------------
Ask  == AskAborted \/ AskFailed \/ Overflow \/ GetText \/ GetCalls
Call == StoreCall \/ Approve \/ Run \/ Reply

Next ==
  \/ Load \/ Submit \/ Open \/ Check \/ Ask \/ Call \/ Answer
  \/ StoreFails \/ Abort \/ Die

Spec == Init /\ [][Next]_vars

-----------------------------------------------------------------------------
(* Properties.                                                             *)

\* Every variable keeps its type; calls wait only while a batch is handled.
TypeOK ==
  /\ store \in Seq(Items) /\ history \in Seq(Items)
  /\ status \in {"active", "aborted"}
  /\ stage \in Stages /\ flag \in BOOLEAN
  /\ batch \in Nat /\ (batch > 0 <=> stage \in {"calling"} \cup Handling)
  /\ retries \in 0..RetryLimit
  /\ prompts \in Nat /\ calls \in Nat /\ crashes \in 0..MaxCrashes
  /\ ran \subseteq Nat /\ late \in Nat

\* In the store an output directly follows its call, and a call is followed
\* by its output unless its turn was cut short, when the next record is the
\* next prompt; so every call of a turn that was answered has its output.
StoreIsPaired ==
  /\ \A i \in DOMAIN store :
       store[i].kind = "output" => i > 1 /\ store[i - 1] = Item("call", store[i].id)
  /\ \A i \in 1..(Len(store) - 1) :
       store[i].kind = "call" => store[i + 1] \in {Item("output", store[i].id)} \cup [kind : {"user"}, id : Nat]

\* What the provider is shown never has an output away from its call, except
\* at the front, where older items were cut off.
OrphansOnlyInFront ==
  \A i \in 2..Len(history) :
    history[i].kind = "output" =>
      history[i - 1] = Item("call", history[i].id) \/ (i = 2 /\ history[1] = Summary)

\* However often it was shortened, the history ends with what was recorded
\* last, the prompt itself or the latest output, when the provider is asked.
NewestIsSent ==
  stage = "asking" => history # <<>> /\ history[Len(history)] = store[Len(store)]

Answered(s) ==
  Only(s, {item \in Items : item.kind = "call" => \E i \in DOMAIN s : s[i] = Item("output", item.id)})

\* Memory and store agree from the newest item back to the last cut, but for
\* calls that got no output, and for calls without an id and their outputs,
\* which the worker that made them remembers and a reload leaves out.
HistoryEndsLikeStore ==
  IsSuffix(Answered(Only(history, Items \ (Nameless \cup {Summary}))),
           Answered(Only(store, Items \ Nameless)))

\* A tool is started only when its call is on record, so that after a death
\* the store tells what may have run.
RunsAreOnRecord ==
  \A c \in ran : \E i \in DOMAIN store : store[i] = Item("call", c)

\* After an abort at most one more tool is started, the one whose last look
\* at the signal came just before.
AbortStopsTools == late <= 1

-----------------------------------------------------------------------------
(* The inductive invariant of the records.                                 *)

RecordsOK ==
  /\ store \in Seq(Items)
  /\ stage \in Stages /\ flag \in BOOLEAN
  /\ prompts \in Nat /\ calls \in Nat
  /\ ran \subseteq Nat /\ late \in Nat

\* A call without an output is the last record while it is handled, and when
\* it was left so.
OpenCallIsLast ==
  /\ stage \in Handling => store # <<>> /\ store[Len(store)] = Item("call", calls)
  /\ store # <<>> /\ store[Len(store)].kind = "call" => stage \in Handling \cup {"off", "idle"}

\* A tool that was started under the signal is the turn's last.
LateIsLast ==
  late > 0 => \/ stage \in {"off", "idle"}
              \/ flag /\ stage \in {"replying", "calling", "checking"}

\* Records and the worker's stage agree; this is inductive.
IInv ==
  /\ RecordsOK /\ StoreIsPaired /\ OpenCallIsLast
  /\ RunsAreOnRecord /\ AbortStopsTools /\ LateIsLast

-----------------------------------------------------------------------------
\* Every output follows its call.
Paired(h) ==
  \A i \in DOMAIN h :
    h[i].kind = "output" => i > 1 /\ h[i - 1] = Item("call", h[i].id)

\* Claim of runtime/session.rs, test
\* "force_shrink_history_for_overflow_retry_avoids_orphaning_tool_output":
\* shortening a history after an overflow leaves no output without its call.
ShrinkAvoidsOrphans ==
  stage = "asking" /\ retries < RetryLimit /\ Paired(history) =>
    Paired(Shrunk(history, retries + 1))
=============================================================================
