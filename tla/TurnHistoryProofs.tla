-------------------------- MODULE TurnHistoryProofs --------------------------
(***************************************************************************)
(* The records of a session: calls and outputs stay paired, a tool that    *)
(* was started is on record, and an abort stops the tools.  The history in *)
(* memory: what is sent ends with the newest record, and ends like the     *)
(* store.  For any number of prompts, calls, retries and deaths.           *)
(***************************************************************************)
EXTENDS TurnHistory, SequenceTheorems, WellFoundedInduction, TLAPS

\* A session without records.
LEMMA InitHolds == Init => IInv
<1> SUFFICES ASSUME Init PROVE IInv
  OBVIOUS
<1>1. store = <<>> /\ stage = "off" /\ ran = {} /\ late = 0
  BY DEF Init
<1>2. RecordsOK
  <2>1. store \in Seq(Items) /\ stage \in Stages
    BY <1>1 DEF Stages
  <2>2. ran \subseteq Nat /\ late \in Nat
    BY <1>1
  <2>3. flag \in BOOLEAN /\ prompts \in Nat /\ calls \in Nat
    BY DEF Init
  <2> QED
    BY <2>1, <2>2, <2>3 DEF RecordsOK
<1>3. StoreIsPaired /\ RunsAreOnRecord
  BY <1>1 DEF StoreIsPaired, RunsAreOnRecord
<1>4. OpenCallIsLast /\ AbortStopsTools /\ LateIsLast
  BY <1>1 DEF OpenCallIsLast, AbortStopsTools, LateIsLast, Handling
<1> QED
  BY <1>2, <1>3, <1>4 DEF IInv

\* A step that records nothing and starts no tool: it must not take up a call,
\* leave one behind but by ending the turn, or take the turn to a place where
\* a tool may be started after a late one.
LEMMA Quiet ==
  ASSUME IInv, UNCHANGED <<store, prompts, calls, tools>>,
         stage' \in Stages, flag' \in BOOLEAN,
         stage' \in Handling => stage \in Handling,
         stage \in Handling \cup {"off", "idle"} => stage' \in Handling \cup {"off", "idle"},
         late > 0 => \/ stage' \in {"off", "idle"}
                     \/ flag' /\ stage' \in {"replying", "calling", "checking"}
  PROVE  IInv'
<1>1. RecordsOK'
  BY DEF IInv, RecordsOK, tools
<1>2. StoreIsPaired' /\ RunsAreOnRecord' /\ AbortStopsTools'
  BY DEF IInv, StoreIsPaired, RunsAreOnRecord, AbortStopsTools, tools
<1>3. OpenCallIsLast'
  BY DEF IInv, OpenCallIsLast
<1>4. LateIsLast'
  BY DEF LateIsLast, tools
<1> QED
  BY <1>1, <1>2, <1>3, <1>4 DEF IInv

\* A record is added: an output after its call, and nothing but its output or
\* a prompt after a call.
LEMMA Recorded ==
  ASSUME IInv, NEW item \in Items, store' = Append(store, item), ran' = ran,
         item.kind = "output" =>
           store # <<>> /\ store[Len(store)] = Item("call", item.id),
         store # <<>> /\ store[Len(store)].kind = "call" =>
           item \in {Item("output", store[Len(store)].id)} \cup [kind : {"user"}, id : Nat]
  PROVE  /\ store' \in Seq(Items) /\ Len(store') = Len(store) + 1
         /\ store'[Len(store')] = item
         /\ StoreIsPaired' /\ RunsAreOnRecord'
<1>1. store \in Seq(Items) /\ Len(store) \in Nat
  BY DEF IInv, RecordsOK
<1>2. /\ store' \in Seq(Items) /\ Len(store') = Len(store) + 1
      /\ store'[Len(store) + 1] = item
      /\ \A i \in 1..Len(store) : store'[i] = store[i]
  BY <1>1
<1>3. DOMAIN store = 1..Len(store) /\ DOMAIN store' = 1..(Len(store) + 1)
  BY <1>1, <1>2
<1>4. ASSUME NEW i \in DOMAIN store', store'[i].kind = "output"
      PROVE  i > 1 /\ store'[i - 1] = Item("call", store'[i].id)
  <2>1. CASE i = Len(store) + 1
    <3>1. store # <<>> /\ store[Len(store)] = Item("call", item.id)
      BY <1>2, <1>4, <2>1
    <3>2. Len(store) >= 1
      BY <1>1, <3>1
    <3> QED
      BY <1>1, <1>2, <2>1, <3>1, <3>2
  <2>2. CASE i \in DOMAIN store
    <3>1. i > 1 /\ store[i - 1] = Item("call", store[i].id)
      BY <1>2, <1>3, <1>4, <2>2 DEF IInv, StoreIsPaired
    <3> QED
      BY <1>1, <1>2, <1>3, <2>2, <3>1
  <2> QED
    BY <1>1, <1>3, <2>1, <2>2
<1>5. ASSUME NEW i \in 1..(Len(store') - 1), store'[i].kind = "call"
      PROVE  store'[i + 1] \in {Item("output", store'[i].id)} \cup [kind : {"user"}, id : Nat]
  <2>1. CASE i = Len(store)
    <3>1. store # <<>>
      BY <1>1, <1>5, <2>1
    <3> QED
      BY <1>1, <1>2, <1>5, <2>1, <3>1
  <2>2. CASE i \in 1..(Len(store) - 1)
    <3>1. store[i + 1] \in {Item("output", store[i].id)} \cup [kind : {"user"}, id : Nat]
      BY <1>1, <1>2, <1>5, <2>2 DEF IInv, StoreIsPaired
    <3> QED
      BY <1>1, <1>2, <2>2, <3>1
  <2> QED
    BY <1>1, <1>2, <2>1, <2>2
<1>6. StoreIsPaired'
  BY <1>4, <1>5 DEF StoreIsPaired
<1>7. RunsAreOnRecord'
  <2> SUFFICES ASSUME NEW c \in ran PROVE \E i \in DOMAIN store' : store'[i] = Item("call", c)
    BY DEF RunsAreOnRecord
  <2>1. PICK i \in DOMAIN store : store[i] = Item("call", c)
    BY DEF IInv, RunsAreOnRecord
  <2> QED
    BY <1>1, <1>2, <1>3, <2>1
<1> QED
  BY <1>2, <1>6, <1>7

\* An aborted turn ends, and nothing is recorded.
LEMMA GivingUp ==
  ASSUME IInv, NEW h, GiveUp(h)
  PROVE  IInv'
<1>1. /\ UNCHANGED <<store, prompts, calls, tools>>
      /\ stage' \in {"idle", "off"} /\ flag' = FALSE
  BY DEF GiveUp, Ends, counts
<1> QED
  BY <1>1, Quiet DEF Stages, Handling

\* A prompt is recorded after whatever the last turn left.
LEMMA Submitting ==
  ASSUME IInv, Submit
  PROVE  IInv'
<1> DEFINE item == Item("user", prompts')
<1>1. /\ store' = Append(store, item) /\ stage' = "opening" /\ flag' = FALSE
      /\ late' = 0 /\ ran' = ran /\ calls' = calls /\ prompts' = prompts + 1
  BY DEF Submit
<1>2. prompts' \in Nat
  BY <1>1 DEF IInv, RecordsOK
<1>3. item \in Items /\ item.kind = "user" /\ item \in [kind : {"user"}, id : Nat]
  BY <1>2 DEF Item, Items, Kinds
<1>4. /\ store' \in Seq(Items) /\ store'[Len(store')] = item
      /\ StoreIsPaired' /\ RunsAreOnRecord'
  <2> HIDE DEF item
  <2> QED
    BY <1>1, <1>3, Recorded
<1>5. RecordsOK'
  BY <1>1, <1>2, <1>4 DEF IInv, RecordsOK, Stages
<1>6. OpenCallIsLast'
  BY <1>1, <1>3, <1>4 DEF OpenCallIsLast, Handling
<1>7. LateIsLast' /\ AbortStopsTools'
  BY <1>1 DEF LateIsLast, AbortStopsTools
<1> QED
  BY <1>4, <1>5, <1>6, <1>7 DEF IInv

\* The history is shortened and the signal looked at.
LEMMA Preparing ==
  ASSUME IInv, Open \/ Check
  PROVE  IInv'
<1>1. CASE \E h : GiveUp(h)
  BY <1>1, GivingUp
<1>2. CASE /\ ~flag
           /\ \/ stage = "opening" /\ stage' = "checking"
              \/ stage = "checking" /\ stage' = "asking"
           /\ UNCHANGED <<records, flag, batch, retries, counts, tools>>
  BY <1>2, Quiet DEF IInv, RecordsOK, LateIsLast, Stages, Active, Handling, records, counts
<1> QED
  BY <1>1, <1>2 DEF Open, Check, Prepare, Stop

\* The provider answers, fails or refuses the request; a late tool has kept
\* the turn from getting so far.
LEMMA Asking ==
  ASSUME IInv, Ask
  PROVE  IInv'
<1>1. CASE AskAborted
  BY <1>1, GivingUp DEF AskAborted
<1>2. CASE AskFailed
  <2>1. /\ UNCHANGED <<store, prompts, calls, tools>>
        /\ stage' \in {"idle", "off"} /\ flag' = FALSE
    BY <1>2 DEF AskFailed, Ends, counts, records
  <2> QED
    BY <2>1, Quiet DEF Stages, Handling
<1>3. CASE Overflow \/ GetText \/ GetCalls
  <2>1. /\ UNCHANGED <<store, prompts, calls, tools>>
        /\ stage = "asking" /\ stage' \in {"checking", "answered", "calling"}
        /\ flag' \in {flag, FALSE}
    BY <1>3 DEF Overflow, GetText, GetCalls, counts, records
  <2>2. ~(late > 0) /\ flag \in BOOLEAN
    BY <2>1 DEF IInv, LateIsLast, RecordsOK
  <2> QED
    BY <2>1, <2>2, Quiet DEF Stages, Active, Handling
<1> QED
  BY <1>1, <1>2, <1>3 DEF Ask

\* The next call is recorded; the last record is not a call.
LEMMA Storing ==
  ASSUME IInv, StoreCall
  PROVE  IInv'
<1>1. CASE flag
  BY <1>1, GivingUp DEF StoreCall, Stop
<1>2. CASE ~flag
  <2> DEFINE item == Item("call", calls')
  <2>1. /\ store' = Append(store, item) /\ calls' = calls + 1
        /\ stage = "calling" /\ stage' = "approving"
        /\ UNCHANGED <<flag, prompts, tools>>
    BY <1>2 DEF StoreCall, Stop
  <2>2. calls' \in Nat
    BY <2>1 DEF IInv, RecordsOK
  <2>3. item \in Items /\ item.kind = "call"
    BY <2>2 DEF Item, Items, Kinds
  <2>4. ~(store # <<>> /\ store[Len(store)].kind = "call")
    BY <2>1 DEF IInv, OpenCallIsLast, Handling
  <2>5. /\ store' \in Seq(Items) /\ Len(store') = Len(store) + 1
        /\ store'[Len(store')] = item /\ StoreIsPaired' /\ RunsAreOnRecord'
    <3> HIDE DEF item
    <3> QED
      BY <2>1, <2>3, <2>4, Recorded DEF tools
  <2>6. store' # <<>>
    BY <2>5 DEF IInv, RecordsOK
  <2>7. RecordsOK'
    BY <2>1, <2>2, <2>5 DEF IInv, RecordsOK, Stages, Active, Handling, tools
  <2>8. OpenCallIsLast'
    BY <2>1, <2>5, <2>6 DEF OpenCallIsLast, Handling
  <2>9. LateIsLast' /\ AbortStopsTools'
    BY <1>2, <2>1 DEF IInv, LateIsLast, AbortStopsTools, tools
  <2> QED
    BY <2>5, <2>7, <2>8, <2>9 DEF IInv
<1> QED
  BY <1>1, <1>2

\* A call is approved or not; none is after a late tool.
LEMMA Approving ==
  ASSUME IInv, Approve
  PROVE  IInv'
<1>1. CASE GiveUp(history)
  BY <1>1, GivingUp
<1>2. CASE /\ stage = "approving" /\ stage' \in {"running", "replying"}
           /\ UNCHANGED <<records, history, flag, batch, retries, counts, tools>>
  BY <1>2, Quiet DEF IInv, RecordsOK, LateIsLast, Stages, Active, Handling, records, counts
<1> QED
  BY <1>1, <1>2 DEF Approve

\* A tool is started, the first under the signal if the signal is up.
LEMMA Running ==
  ASSUME IInv, Run
  PROVE  IInv'
<1>1. /\ stage = "running" /\ stage' = "replying" /\ ran' = ran \cup {calls}
      /\ late' = late + IF flag THEN 1 ELSE 0
      /\ UNCHANGED <<store, flag, prompts, calls>>
  BY DEF Run, records, counts
<1>2. late = 0
  BY <1>1 DEF IInv, LateIsLast, RecordsOK
<1>3. store # <<>> /\ store[Len(store)] = Item("call", calls)
  BY <1>1 DEF IInv, OpenCallIsLast, Handling
<1>4. Len(store) \in DOMAIN store
  BY <1>3 DEF IInv, RecordsOK
<1>5. RunsAreOnRecord'
  BY <1>1, <1>3, <1>4 DEF IInv, RunsAreOnRecord
<1>6. RecordsOK' /\ OpenCallIsLast' /\ StoreIsPaired'
  BY <1>1, <1>2, <1>3 DEF IInv, RecordsOK, OpenCallIsLast, StoreIsPaired, Stages, Active, Handling
<1>7. LateIsLast' /\ AbortStopsTools'
  BY <1>1, <1>2 DEF LateIsLast, AbortStopsTools, IInv, RecordsOK
<1> QED
  BY <1>5, <1>6, <1>7 DEF IInv

\* The output is recorded right after its call.
LEMMA Replying ==
  ASSUME IInv, Reply
  PROVE  IInv'
<1> DEFINE item == Item("output", calls)
<1>1. /\ store' = Append(store, item)
      /\ stage = "replying" /\ stage' \in {"checking", "calling"}
      /\ UNCHANGED <<flag, prompts, calls, tools>>
  BY DEF Reply, counts
<1>2. /\ store # <<>> /\ store[Len(store)] = Item("call", calls)
      /\ calls \in Nat /\ item \in Items
  BY <1>1 DEF IInv, RecordsOK, OpenCallIsLast, Handling, Item, Items, Kinds
<1>3. item.id = calls /\ item.kind = "output" /\ item = Item("output", store[Len(store)].id)
  BY <1>2 DEF Item
<1>4. /\ store' \in Seq(Items) /\ store'[Len(store')] = item
      /\ StoreIsPaired' /\ RunsAreOnRecord'
  <2> HIDE DEF item
  <2> QED
    BY <1>1, <1>2, <1>3, Recorded DEF tools
<1>5. RecordsOK'
  BY <1>1, <1>4 DEF IInv, RecordsOK, Stages, Active, tools
<1>6. OpenCallIsLast'
  BY <1>1, <1>3, <1>4 DEF OpenCallIsLast, Handling
<1>7. LateIsLast' /\ AbortStopsTools'
  BY <1>1 DEF IInv, LateIsLast, AbortStopsTools, tools
<1> QED
  BY <1>4, <1>5, <1>6, <1>7 DEF IInv

\* The answer is recorded and the prompt has its result.
LEMMA Answering ==
  ASSUME IInv, Answer
  PROVE  IInv'
<1> DEFINE item == Item("assistant", prompts)
<1>1. /\ store' = Append(store, item) /\ stage = "answered"
      /\ stage' \in {"idle", "off"} /\ flag' = FALSE
      /\ UNCHANGED <<prompts, calls, tools>>
  BY DEF Answer, Ends, counts
<1>2. item \in Items /\ item.kind = "assistant"
  BY DEF IInv, RecordsOK, Item, Items, Kinds
<1>3. ~(store # <<>> /\ store[Len(store)].kind = "call")
  BY <1>1 DEF IInv, OpenCallIsLast, Handling
<1>4. /\ store' \in Seq(Items) /\ store'[Len(store')] = item
      /\ StoreIsPaired' /\ RunsAreOnRecord'
  <2> HIDE DEF item
  <2> QED
    BY <1>1, <1>2, <1>3, Recorded DEF tools
<1>5. RecordsOK'
  BY <1>1, <1>4 DEF IInv, RecordsOK, Stages, tools
<1>6. OpenCallIsLast'
  BY <1>1, <1>2, <1>4 DEF OpenCallIsLast, Handling
<1>7. LateIsLast' /\ AbortStopsTools'
  BY <1>1 DEF IInv, LateIsLast, AbortStopsTools, tools
<1> QED
  BY <1>4, <1>5, <1>6, <1>7 DEF IInv

\* Loading, a refused write, a death and an abort leave the records alone.
LEMMA Breaking ==
  ASSUME IInv, Load \/ StoreFails \/ Die \/ Abort
  PROVE  IInv'
<1>1. CASE Load
  BY <1>1, Quiet DEF IInv, RecordsOK, LateIsLast, Load, Stages, Handling, records, counts
<1>2. CASE StoreFails \/ Die
  <2>1. /\ UNCHANGED <<store, prompts, calls, tools>>
        /\ stage' = "off" /\ flag' = FALSE
    BY <1>2 DEF StoreFails, Die, Off, counts
  <2> QED
    BY <2>1, Quiet DEF Stages, Handling
<1>3. CASE Abort
  <2>1. /\ UNCHANGED <<store, prompts, calls, tools, stage>> /\ flag' = TRUE
    BY <1>3 DEF Abort, records, counts
  <2> QED
    BY <2>1, Quiet DEF IInv, RecordsOK, LateIsLast, Stages, Handling
<1> QED
  BY <1>1, <1>2, <1>3

\* One lemma per action.
LEMMA StepKeepsInvariant == IInv /\ [Next]_vars => IInv'
<1> SUFFICES ASSUME IInv, [Next]_vars PROVE IInv'
  OBVIOUS
<1>1. CASE Load \/ StoreFails \/ Abort \/ Die
  BY <1>1, Breaking
<1>2. CASE Submit
  BY <1>2, Submitting
<1>3. CASE Open \/ Check
  BY <1>3, Preparing
<1>4. CASE Ask
  BY <1>4, Asking
<1>5. CASE Call
  BY <1>5, Storing, Approving, Running, Replying DEF Call
<1>6. CASE Answer
  BY <1>6, Answering
<1>7. CASE UNCHANGED vars
  BY <1>7, Quiet DEF IInv, RecordsOK, LateIsLast, vars, records, counts
<1> QED
  BY <1>1, <1>2, <1>3, <1>4, <1>5, <1>6, <1>7 DEF Next

\* A session's records and its worker's stage always agree.
THEOREM InvariantHolds == Spec => []IInv
<1> QED
  BY InitHolds, StepKeepsInvariant, PTL DEF Spec

\* Whatever is aborted, refused or lost with the process, the records never
\* hold an output away from its call, nor anything but its output or the next
\* prompt after a call.
THEOREM Pairing == Spec => []StoreIsPaired
<1>1. IInv => StoreIsPaired
  BY DEF IInv
<1> QED
  BY <1>1, InvariantHolds, PTL

\* No tool is started whose call is not on record.
THEOREM RunsRecorded == Spec => []RunsAreOnRecord
<1>1. IInv => RunsAreOnRecord
  BY DEF IInv
<1> QED
  BY <1>1, InvariantHolds, PTL

\* After an abort at most one more tool is started.
THEOREM AbortStops == Spec => []AbortStopsTools
<1>1. IInv => AbortStopsTools
  BY DEF IInv
<1> QED
  BY <1>1, InvariantHolds, PTL

-----------------------------------------------------------------------------
(* Least and greatest numbers, and what is built in passes.                *)

LEMMA Smallest ==
  ASSUME NEW S, S \subseteq Nat, S # {}
  PROVE  \E n \in S : \A m \in S : n <= m
<1>1. PICK n \in S : \A m \in S : ~ (<<m, n>> \in OpToRel(<, Nat))
  BY NatLessThanWellFounded, WFMin
<1>2. \A m \in S : ~ (m < n)
  BY <1>1 DEF OpToRel
<1> QED
  BY <1>2

LEMMA MinIsLeast ==
  ASSUME NEW S, S \subseteq Nat, S # {}
  PROVE  Min(S) \in S /\ \A m \in S : Min(S) <= m
BY Smallest DEF Min

LEMMA MaxIsGreatest ==
  ASSUME NEW n \in Nat, NEW S, S \subseteq 0..n, S # {}
  PROVE  Max(S) \in S /\ \A m \in S : Max(S) >= m
<1> DEFINE T == {n - m : m \in S}
<1>1. T \subseteq Nat /\ T # {}
  <2>1. \A m \in S : n - m \in Nat
    OBVIOUS
  <2>2. \E m \in S : n - m \in T
    OBVIOUS
  <2> QED
    BY <2>1, <2>2
<1>2. PICK t \in T : \A u \in T : t <= u
  BY <1>1, Smallest
<1>3. PICK x \in S : t = n - x
  BY <1>2
<1>4. ASSUME NEW m \in S
      PROVE  x >= m
  <2>1. n - m \in T
    OBVIOUS
  <2>2. n - x <= n - m
    BY <1>2, <1>3, <2>1
  <2> QED
    BY <2>2
<1> QED
  BY <1>4 DEF Max

\* How many items a pass keeps: one at least, and not all.
LEMMA KeptIsSome ==
  ASSUME NEW n \in Nat, n >= 2, NEW pass, NEW k \in Kept(n, pass)
  PROVE  k \in 1..(n - 1)
<1>1. PICK share \in Nat, part \in Nat :
        k = Max({1, Min({Max({KeepRecent, 1}), n - 1, part, share})})
  <2>1. n \div 2 \in Nat /\ n \div 3 \in Nat /\ (2 * n) \div 3 \in Nat /\ (3 * n) \div 4 \in Nat
    OBVIOUS
  <2> QED
    BY <2>1 DEF Kept
<1>2. KeepRecent \in Nat
  BY HistoryAssumption
<1>3. Max({KeepRecent, 1}) \in Nat
  BY <1>2, MaxIsGreatest DEF Max
<1> DEFINE all == {Max({KeepRecent, 1}), n - 1, part, share}
<1>4. all \subseteq Nat /\ all # {} /\ n - 1 \in all
  BY <1>3
<1>5. Min(all) \in Nat /\ Min(all) <= n - 1
  BY <1>4, MinIsLeast
<1>6. PICK m \in 0..(n - 1) : m = Min(all)
  BY <1>5
<1>7. Max({1, m}) \in {1, m} /\ Max({1, m}) >= 1
  <2>1. n - 1 \in Nat /\ {1, m} \subseteq 0..(n - 1) /\ {1, m} # {}
    OBVIOUS
  <2>2. Max({1, m}) \in {1, m} /\ \A x \in {1, m} : Max({1, m}) >= x
    BY <2>1, MaxIsGreatest
  <2> QED
    BY <2>2
<1>8. k = Max({1, m})
  BY <1>1, <1>6
<1> QED
  BY <1>7, <1>8

\* What is left after a cut: a summary, and the newest items.
LEMMA CutIs ==
  ASSUME NEW h \in Seq(Items), Len(h) >= 2, NEW keep \in 1..(Len(h) - 1)
  PROVE  /\ Cut(h, keep) \in Seq(Items) /\ Len(Cut(h, keep)) = keep + 1
         /\ Cut(h, keep)[1] = Summary
         /\ \A i \in 2..(keep + 1) : Cut(h, keep)[i] = h[Len(h) - keep + i - 1]
<1> DEFINE old == SubSeq(h, Len(h) - keep + 1, Len(h))
<1>1. /\ old \in Seq(Items) /\ Len(old) = keep
      /\ \A i \in 1..keep : old[i] = h[Len(h) - keep + i]
  OBVIOUS
<1>2. Summary \in Items
  BY DEF Summary, Item, Items, Kinds
<1> HIDE DEF old
<1>3. /\ <<Summary>> \o old \in Seq(Items) /\ Len(<<Summary>> \o old) = keep + 1
      /\ (<<Summary>> \o old)[1] = Summary
      /\ \A i \in 2..(keep + 1) : (<<Summary>> \o old)[i] = old[i - 1]
  BY <1>1, <1>2
<1>4. Cut(h, keep) = <<Summary>> \o old
  BY DEF Cut, old
<1>5. \A i \in 2..(keep + 1) : old[i - 1] = h[Len(h) - keep + i - 1]
  BY <1>1
<1> QED
  BY <1>3, <1>4, <1>5

-----------------------------------------------------------------------------
(* Prefixes and suffixes.                                                  *)

LEMMA PrefixMeans ==
  ASSUME NEW S, NEW s \in Seq(S), NEW t \in Seq(S)
  PROVE  IsPrefix(s, t) <=> Len(s) <= Len(t) /\ \A i \in 1..Len(s) : s[i] = t[i]
<1>1. SubSeq(s, 1, Len(s)) = s
  BY SubSeqFull
<1>2. CASE Len(s) <= Len(t)
  <2>1. /\ SubSeq(t, 1, Len(s)) \in Seq(S) /\ Len(SubSeq(t, 1, Len(s))) = Len(s)
        /\ \A i \in 1..Len(s) : SubSeq(t, 1, Len(s))[i] = t[i]
    BY <1>2
  <2>2. (\A i \in 1..Len(s) : s[i] = t[i]) => s = SubSeq(t, 1, Len(s))
    BY <2>1, SeqEqual
  <2> QED
    BY <1>1, <1>2, <2>1, <2>2 DEF IsPrefix
<1> QED
  BY <1>2 DEF IsPrefix

LEMMA SuffixMeans ==
  ASSUME NEW S, NEW s \in Seq(S), NEW t \in Seq(S)
  PROVE  IsSuffix(s, t) <=>
           Len(s) <= Len(t) /\ \A i \in 1..Len(s) : s[i] = t[Len(t) - Len(s) + i]
<1> DEFINE r == Reverse(s)
           u == Reverse(t)
<1>1. /\ r \in Seq(S) /\ Len(r) = Len(s)
      /\ \A i \in 1..Len(s) : r[i] = s[(Len(s) - i) + 1]
  BY DEF Reverse
<1>2. /\ u \in Seq(S) /\ Len(u) = Len(t)
      /\ \A i \in 1..Len(t) : u[i] = t[(Len(t) - i) + 1]
  BY DEF Reverse
<1>3. IsSuffix(s, t) <=> Len(r) <= Len(u) /\ \A i \in 1..Len(r) : r[i] = u[i]
  BY <1>1, <1>2, PrefixMeans DEF IsSuffix
<1> HIDE DEF r, u
<1>4. ASSUME Len(s) <= Len(t), \A i \in 1..Len(r) : r[i] = u[i], NEW i \in 1..Len(s)
      PROVE  s[i] = t[Len(t) - Len(s) + i]
  <2>1. PICK j \in 1..Len(s) : j = (Len(s) - i) + 1
    <3>1. (Len(s) - i) + 1 \in 1..Len(s)
      OBVIOUS
    <3> QED
      BY <3>1
  <2>2. j \in 1..Len(t) /\ (Len(s) - j) + 1 = i /\ (Len(t) - j) + 1 = Len(t) - Len(s) + i
    BY <1>4, <2>1
  <2>3. r[j] = s[i]
    BY <1>1, <2>1, <2>2
  <2>4. u[j] = t[Len(t) - Len(s) + i]
    BY <1>2, <2>2
  <2>5. r[j] = u[j]
    BY <1>1, <1>4, <2>1
  <2> QED
    BY <2>3, <2>4, <2>5
<1>5. ASSUME Len(s) <= Len(t), \A i \in 1..Len(s) : s[i] = t[Len(t) - Len(s) + i],
             NEW i \in 1..Len(s)
      PROVE  r[i] = u[i]
  <2>1. (Len(s) - i) + 1 \in 1..Len(s) /\ i \in 1..Len(t)
        /\ Len(t) - Len(s) + ((Len(s) - i) + 1) = (Len(t) - i) + 1
    BY <1>5
  <2> QED
    BY <1>1, <1>2, <1>5, <2>1
<1> QED
  BY <1>1, <1>2, <1>3, <1>4, <1>5

LEMMA ItemIs ==
  \A kind \in Kinds, id \in Nat :
    Item(kind, id) \in Items /\ Item(kind, id).kind = kind /\ Item(kind, id).id = id
    /\ kind \in {"user", "assistant", "call", "output", "summary"}
BY DEF Item, Items, Kinds

-----------------------------------------------------------------------------
(* The items of a sequence that are in a set.                              *)

LEMMA Climb ==
  ASSUME NEW k \in Nat, NEW W, 0 \in W, \A n \in 0..k : n \in W /\ n < k => n + 1 \in W
  PROVE  \A n \in 0..k : n \in W
<1> DEFINE outside == (0..k) \ W
<1>1. SUFFICES ASSUME outside # {} PROVE FALSE
  OBVIOUS
<1>2. PICK m \in outside : \A j \in outside : m <= j
  <2>1. outside \subseteq Nat
    OBVIOUS
  <2> QED
    BY <1>1, <2>1, Smallest
<1>3. m \in 0..k /\ m \notin W /\ m # 0
  OBVIOUS
<1>4. PICK p \in 0..k : m = p + 1
  <2>1. m - 1 \in 0..k /\ m = (m - 1) + 1
    BY <1>3
  <2> QED
    BY <2>1
<1>5. p \in W /\ p < k
  BY <1>2, <1>3, <1>4
<1> QED
  BY <1>3, <1>4, <1>5

\* What holds of the empty sequence and survives an Append holds of all.
LEMMA SequencesAre ==
  ASSUME NEW T, NEW W, <<>> \in W, \A s \in Seq(T), e \in T : s \in W => Append(s, e) \in W
  PROVE  Seq(T) \subseteq W
<1> SUFFICES ASSUME NEW s \in Seq(T) PROVE s \in W
  OBVIOUS
<1> DEFINE long == {n \in 0..Len(s) : SubSeq(s, 1, n) \in W}
<1>1. 0 \in long
  <2>1. SubSeq(s, 1, 0) = <<>> /\ 0 \in 0..Len(s)
    OBVIOUS
  <2> QED
    BY <2>1
<1>2. ASSUME NEW n \in 0..Len(s), n \in long, n < Len(s) PROVE n + 1 \in long
  <2>1. /\ SubSeq(s, 1, n) \in Seq(T) /\ s[n + 1] \in T /\ n + 1 \in 0..Len(s)
        /\ SubSeq(s, 1, n + 1) = Append(SubSeq(s, 1, n), s[n + 1])
    BY <1>2
  <2>2. SubSeq(s, 1, n) \in W
    BY <1>2
  <2> QED
    BY <2>1, <2>2
<1> HIDE DEF long
<1>3. Len(s) \in Nat /\ Len(s) \in 0..Len(s)
  OBVIOUS
<1>4. Len(s) \in long
  BY <1>1, <1>2, <1>3, Climb
<1>5. SubSeq(s, 1, Len(s)) \in W
  BY <1>4 DEF long
<1>6. SubSeq(s, 1, Len(s)) = s
  OBVIOUS
<1> QED
  BY <1>5, <1>6

\* The items of s in the set, collected up to each of them, up to the k-th.
Collected(s, set, k, f) ==
  f = [n \in 0..k |-> IF n = 0 THEN <<>>
                      ELSE IF s[n] \in set THEN Append(f[n - 1], s[n]) ELSE f[n - 1]]

LEMMA CollectedIs ==
  ASSUME NEW s, NEW set, NEW k \in Nat
  PROVE  \E f : Collected(s, set, k, f)
<1> DEFINE W == {m \in Nat : \E f : Collected(s, set, m, f)}
<1>1. 0 \in W
  <2>1. PICK f : f = [n \in 0..0 |-> <<>>]
    OBVIOUS
  <2>2. Collected(s, set, 0, f)
    BY <2>1 DEF Collected
  <2> QED
    BY <2>2
<1>2. ASSUME NEW p \in Nat, p \in W PROVE p + 1 \in W
  <2>1. PICK f : Collected(s, set, p, f)
    BY <1>2
  <2> HIDE DEF W
  <2>2. f = [n \in 0..p |-> IF n = 0 THEN <<>>
                            ELSE IF s[n] \in set THEN Append(f[n - 1], s[n]) ELSE f[n - 1]]
    BY <2>1 DEF Collected
  <2>3. PICK m \in Nat : m = p + 1
    OBVIOUS
  <2>4. PICK new : new = IF s[m] \in set THEN Append(f[p], s[m]) ELSE f[p]
    OBVIOUS
  <2>5. PICK g : g = [n \in 0..m |-> IF n = m THEN new ELSE f[n]]
    OBVIOUS
  <2>6. g = [n \in 0..m |-> g[n]] /\ g[m] = new /\ \A n \in 0..p : g[n] = f[n]
    BY <2>3, <2>5
  <2>7. ASSUME NEW n \in 0..m
        PROVE  g[n] = IF n = 0 THEN <<>>
                      ELSE IF s[n] \in set THEN Append(g[n - 1], s[n]) ELSE g[n - 1]
    <3>1. CASE n = m
      <4>1. n # 0 /\ n - 1 = p /\ p \in 0..p
        BY <2>3, <3>1
      <4>2. g[n] = new /\ g[n - 1] = f[p]
        BY <2>6, <3>1, <4>1, Zenon
      <4> QED
        BY <2>4, <3>1, <4>1, <4>2, Zenon
    <3>2. CASE n \in 0..p
      <4>1. f[n] = IF n = 0 THEN <<>>
                   ELSE IF s[n] \in set THEN Append(f[n - 1], s[n]) ELSE f[n - 1]
        BY <2>2, <3>2
      <4>2. n # 0 => n - 1 \in 0..p
        BY <3>2
      <4> QED
        BY <2>6, <3>2, <4>1, <4>2, Zenon
    <3> QED
      BY <2>3, <3>1, <3>2
  <2>8. Collected(s, set, m, g)
    BY <2>6, <2>7, Zenon DEF Collected
  <2> USE DEF W
  <2> QED
    BY <2>3, <2>8
<1> HIDE DEF W
<1>3. k \in 0..k /\ \A n \in 0..k : n \in Nat
  OBVIOUS
<1>4. k \in W
  BY <1>1, <1>2, <1>3, Climb
<1> QED
  BY <1>4 DEF W

LEMMA OnlyIs ==
  ASSUME NEW T, NEW s \in Seq(T), NEW set
  PROVE  \E f : /\ Only(s, set) = f[Len(s)] /\ f[0] = <<>>
                /\ \A n \in 1..Len(s) :
                     f[n] = IF s[n] \in set THEN Append(f[n - 1], s[n]) ELSE f[n - 1]
<1>1. Len(s) \in Nat
  OBVIOUS
<1>2. \E f : Collected(s, set, Len(s), f)
  BY <1>1, CollectedIs
<1>3. \E f : Collected(s, set, Len(s), f) /\ Only(s, set) = f[Len(s)]
  BY <1>2, Zenon DEF Only, Collected
<1>4. PICK f : Collected(s, set, Len(s), f) /\ Only(s, set) = f[Len(s)]
  BY <1>3
<1>5. \A n \in 0..Len(s) : f[n] = IF n = 0 THEN <<>>
        ELSE IF s[n] \in set THEN Append(f[n - 1], s[n]) ELSE f[n - 1]
  BY <1>4 DEF Collected
<1>6. f[0] = <<>> /\ \A n \in 1..Len(s) :
        f[n] = IF s[n] \in set THEN Append(f[n - 1], s[n]) ELSE f[n - 1]
  BY <1>1, <1>5
<1> QED
  BY <1>4, <1>6

LEMMA OnlyEmpty ==
  ASSUME NEW set
  PROVE  Only(<<>>, set) = <<>>
<1>1. PICK s \in Seq(Nat) : s = <<>> /\ Len(s) = 0
  <2>1. <<>> \in Seq(Nat) /\ Len(<<>>) = 0
    OBVIOUS
  <2> QED
    BY <2>1
<1>2. PICK f : Only(s, set) = f[Len(s)] /\ f[0] = <<>>
  BY OnlyIs
<1>3. Only(s, set) = <<>>
  BY <1>1, <1>2
<1> QED
  BY <1>1, <1>3, Zenon

LEMMA OnlyAppend ==
  ASSUME NEW T, NEW s \in Seq(T), NEW e \in T, NEW set
  PROVE  /\ e \in set => Only(Append(s, e), set) = Append(Only(s, set), e)
         /\ e \notin set => Only(Append(s, e), set) = Only(s, set)
<1>1. PICK r \in Seq(T) : r = Append(s, e)
  <2>1. Append(s, e) \in Seq(T)
    OBVIOUS
  <2> QED
    BY <2>1
<1>2. /\ Len(s) \in Nat /\ Len(r) = Len(s) + 1 /\ r[Len(s) + 1] = e
      /\ \A n \in 1..Len(s) : r[n] = s[n]
  BY <1>1
<1>3. PICK f : /\ Only(s, set) = f[Len(s)] /\ f[0] = <<>>
               /\ \A n \in 1..Len(s) :
                    f[n] = IF s[n] \in set THEN Append(f[n - 1], s[n]) ELSE f[n - 1]
  BY OnlyIs
<1>4. PICK g : /\ Only(r, set) = g[Len(r)] /\ g[0] = <<>>
               /\ \A n \in 1..Len(r) :
                    g[n] = IF r[n] \in set THEN Append(g[n - 1], r[n]) ELSE g[n - 1]
  BY OnlyIs
<1> DEFINE W == {n \in 0..Len(s) : g[n] = f[n]}
<1>5. 0 \in W
  BY <1>2, <1>3, <1>4
<1>6. ASSUME NEW n \in 0..Len(s), n \in W, n < Len(s) PROVE n + 1 \in W
  <2>1. n + 1 \in 1..Len(s) /\ n + 1 \in 1..Len(r) /\ n + 1 \in 0..Len(s) /\ (n + 1) - 1 = n
    BY <1>2, <1>6
  <2>2. r[n + 1] = s[n + 1] /\ g[n] = f[n]
    BY <1>2, <1>6, <2>1
  <2>3. g[n + 1] = IF r[n + 1] \in set THEN Append(g[n], r[n + 1]) ELSE g[n]
    BY <1>4, <2>1
  <2>4. f[n + 1] = IF s[n + 1] \in set THEN Append(f[n], s[n + 1]) ELSE f[n]
    BY <1>3, <2>1
  <2> QED
    BY <2>1, <2>2, <2>3, <2>4
<1> HIDE DEF W
<1>7. Len(s) \in W
  <2>1. Len(s) \in 0..Len(s)
    BY <1>2
  <2> QED
    BY <1>2, <1>5, <1>6, <2>1, Climb
<1>8. g[Len(s)] = f[Len(s)]
  BY <1>7 DEF W
<1>9. g[Len(s) + 1] = IF e \in set THEN Append(g[Len(s)], e) ELSE g[Len(s)]
  <2>1. Len(s) + 1 \in 1..Len(r) /\ (Len(s) + 1) - 1 = Len(s)
    BY <1>2
  <2> QED
    BY <1>2, <1>4, <2>1
<1> QED
  BY <1>1, <1>2, <1>3, <1>4, <1>8, <1>9

Has(s, e) == \E i \in DOMAIN s : s[i] = e

LEMMA AppendHas ==
  ASSUME NEW T, NEW s \in Seq(T), NEW e \in T
  PROVE  \A x : Has(Append(s, e), x) <=> x = e \/ Has(s, x)
<1>1. /\ DOMAIN Append(s, e) = 1..(Len(s) + 1) /\ DOMAIN s = 1..Len(s) /\ Len(s) \in Nat
      /\ Append(s, e)[Len(s) + 1] = e
      /\ \A i \in 1..Len(s) : Append(s, e)[i] = s[i]
  OBVIOUS
<1> QED
  BY <1>1 DEF Has

\* What is in it: the items of s that are in the set.
LEMMA OnlyHas ==
  ASSUME NEW T, NEW s \in Seq(T), NEW set
  PROVE  Only(s, set) \in Seq(T) /\ \A e : Has(Only(s, set), e) <=> e \in set /\ Has(s, e)
<1> DEFINE Is(r) == /\ Only(r, set) \in Seq(T)
                    /\ \A e : Has(Only(r, set), e) <=> e \in set /\ Has(r, e)
           W == {r \in Seq(T) : Is(r)}
<1>1. <<>> \in W
  <2>1. <<>> \in Seq(T) /\ DOMAIN <<>> = {}
    OBVIOUS
  <2> QED
    BY <2>1, OnlyEmpty DEF Has
<1>2. ASSUME NEW r \in Seq(T), NEW e \in T, r \in W PROVE Append(r, e) \in W
  <2>1. Only(r, set) \in Seq(T) /\ \A x : Has(Only(r, set), x) <=> x \in set /\ Has(r, x)
    BY <1>2
  <2>2. Append(r, e) \in Seq(T)
    OBVIOUS
  <2>3. \A x : Has(Append(r, e), x) <=> x = e \/ Has(r, x)
    BY AppendHas, Zenon
  <2>4. /\ e \in set => Only(Append(r, e), set) = Append(Only(r, set), e)
        /\ e \notin set => Only(Append(r, e), set) = Only(r, set)
    BY OnlyAppend, Zenon
  <2>5. Is(Append(r, e))
    <3>1. CASE e \in set
      <4>1. PICK p \in Seq(T) : p = Only(r, set)
        BY <2>1
      <4>2. Append(p, e) \in Seq(T)
        OBVIOUS
      <4>3. \A x : Has(Append(p, e), x) <=> x = e \/ Has(p, x)
        BY AppendHas, Zenon
      <4>4. Only(Append(r, e), set) = Append(p, e)
        BY <2>4, <3>1, <4>1
      <4> QED
        BY <2>1, <2>3, <3>1, <4>1, <4>2, <4>3, <4>4, Zenon
    <3>2. CASE e \notin set
      BY <2>1, <2>3, <2>4, <3>2, Zenon
    <3> QED
      BY <3>1, <3>2
  <2> QED
    BY <2>2, <2>5
<1> HIDE DEF W
<1>3. s \in W
  BY <1>1, <1>2, SequencesAre
<1> QED
  BY <1>3 DEF W

\* Two sets that agree on the items give the same.
LEMMA OnlyAgrees ==
  ASSUME NEW T, NEW s \in Seq(T), NEW set, NEW other,
         \A i \in DOMAIN s : s[i] \in set <=> s[i] \in other
  PROVE  Only(s, set) = Only(s, other)
<1> DEFINE Agree(r) == \A i \in DOMAIN r : r[i] \in set <=> r[i] \in other
           W == {r \in Seq(T) : Agree(r) => Only(r, set) = Only(r, other)}
<1>1. <<>> \in W
  <2>1. <<>> \in Seq(T)
    OBVIOUS
  <2> QED
    BY <2>1, OnlyEmpty
<1>2. ASSUME NEW r \in Seq(T), NEW e \in T, r \in W PROVE Append(r, e) \in W
  <2>1. Append(r, e) \in Seq(T)
    OBVIOUS
  <2>2. ASSUME Agree(Append(r, e)) PROVE Only(Append(r, e), set) = Only(Append(r, e), other)
    <3>1. /\ \A i \in DOMAIN r : i \in DOMAIN Append(r, e) /\ Append(r, e)[i] = r[i]
          /\ Len(r) + 1 \in DOMAIN Append(r, e) /\ Append(r, e)[Len(r) + 1] = e
      OBVIOUS
    <3>2. Agree(r) /\ (e \in set <=> e \in other)
      BY <2>2, <3>1
    <3>3. Only(r, set) = Only(r, other)
      BY <1>2, <3>2
    <3>4. /\ e \in set => Only(Append(r, e), set) = Append(Only(r, set), e)
          /\ e \notin set => Only(Append(r, e), set) = Only(r, set)
      BY OnlyAppend, Zenon
    <3>5. /\ e \in other => Only(Append(r, e), other) = Append(Only(r, other), e)
          /\ e \notin other => Only(Append(r, e), other) = Only(r, other)
      BY OnlyAppend, Zenon
    <3> QED
      BY <3>2, <3>3, <3>4, <3>5, Zenon
  <2> QED
    BY <2>1, <2>2
<1> HIDE DEF W
<1>3. s \in W
  BY <1>1, <1>2, SequencesAre
<1> QED
  BY <1>3 DEF W

LEMMA OnlyConcat ==
  ASSUME NEW T, NEW p \in Seq(T), NEW s \in Seq(T), NEW set
  PROVE  Only(p \o s, set) = Only(p, set) \o Only(s, set)
<1> DEFINE W == {r \in Seq(T) : Only(p \o r, set) = Only(p, set) \o Only(r, set)}
<1>1. <<>> \in W
  <2>1. <<>> \in Seq(T) /\ p \o <<>> = p /\ Only(p, set) \in Seq(T)
    BY OnlyHas
  <2>2. Only(p, set) \o <<>> = Only(p, set)
    BY <2>1
  <2> QED
    BY <2>1, <2>2, OnlyEmpty
<1>2. ASSUME NEW r \in Seq(T), NEW e \in T, r \in W PROVE Append(r, e) \in W
  <2>1. /\ Append(r, e) \in Seq(T) /\ p \o r \in Seq(T)
        /\ p \o Append(r, e) = Append(p \o r, e)
    OBVIOUS
  <2>2. PICK a \in Seq(T), b \in Seq(T) : a = Only(p, set) /\ b = Only(r, set)
    BY OnlyHas
  <2>3. Only(p \o r, set) = a \o b
    BY <1>2, <2>2
  <2>4. a \o Append(b, e) = Append(a \o b, e)
    BY <2>2
  <2>5. Only(p \o Append(r, e), set) = a \o Only(Append(r, e), set)
    <3>1. /\ e \in set => Only(Append(p \o r, e), set) = Append(a \o b, e)
          /\ e \notin set => Only(Append(p \o r, e), set) = a \o b
      <4>1. PICK q \in Seq(T) : q = p \o r
        BY <2>1
      <4>2. /\ e \in set => Only(Append(q, e), set) = Append(Only(q, set), e)
            /\ e \notin set => Only(Append(q, e), set) = Only(q, set)
        BY OnlyAppend, Zenon
      <4> QED
        BY <2>3, <4>1, <4>2, Zenon
    <3>2. /\ e \in set => Only(Append(r, e), set) = Append(b, e)
          /\ e \notin set => Only(Append(r, e), set) = b
      BY <2>2, OnlyAppend
    <3> QED
      BY <2>1, <2>4, <3>1, <3>2, Zenon
  <2> QED
    BY <2>1, <2>2, <2>5
<1> HIDE DEF W
<1>3. s \in W
  BY <1>1, <1>2, SequencesAre
<1> QED
  BY <1>3 DEF W

LEMMA OnlyOfOnly ==
  ASSUME NEW T, NEW s \in Seq(T), NEW set, NEW other
  PROVE  Only(Only(s, set), other) = Only(s, set \cap other)
<1> DEFINE W == {r \in Seq(T) : Only(Only(r, set), other) = Only(r, set \cap other)}
<1>1. <<>> \in W
  <2>1. <<>> \in Seq(T)
    OBVIOUS
  <2> QED
    BY <2>1, OnlyEmpty
<1>2. ASSUME NEW r \in Seq(T), NEW e \in T, r \in W PROVE Append(r, e) \in W
  <2>1. Append(r, e) \in Seq(T)
    OBVIOUS
  <2>2. PICK b \in Seq(T) : b = Only(r, set)
    BY OnlyHas
  <2>3. Only(b, other) = Only(r, set \cap other)
    BY <1>2, <2>2
  <2>4. /\ e \in set => Only(Append(r, e), set) = Append(b, e)
        /\ e \notin set => Only(Append(r, e), set) = b
    BY <2>2, OnlyAppend, Zenon
  <2>5. /\ e \in other => Only(Append(b, e), other) = Append(Only(b, other), e)
        /\ e \notin other => Only(Append(b, e), other) = Only(b, other)
    BY OnlyAppend, Zenon
  <2>6. /\ e \in set \cap other =>
             Only(Append(r, e), set \cap other) = Append(Only(r, set \cap other), e)
        /\ e \notin set \cap other =>
             Only(Append(r, e), set \cap other) = Only(r, set \cap other)
    <3>1. PICK both : both = set \cap other
      OBVIOUS
    <3>2. /\ e \in both => Only(Append(r, e), both) = Append(Only(r, both), e)
          /\ e \notin both => Only(Append(r, e), both) = Only(r, both)
      BY OnlyAppend, Zenon
    <3> QED
      BY <3>1, <3>2, Zenon
  <2>7. Only(Only(Append(r, e), set), other) = Only(Append(r, e), set \cap other)
    BY <2>3, <2>4, <2>5, <2>6, Zenon
  <2> QED
    BY <2>1, <2>7
<1> HIDE DEF W
<1>3. s \in W
  BY <1>1, <1>2, SequencesAre
<1> QED
  BY <1>3 DEF W

-----------------------------------------------------------------------------
(* A reload leaves out calls without an id, and their outputs with them.   *)

PairedOutputs(s) ==
  \A i \in DOMAIN s : s[i].kind = "output" => i > 1 /\ s[i - 1] = Item("call", s[i].id)

CallsOnce(s) ==
  \A i, j \in DOMAIN s : s[i].kind = "call" /\ s[j] = s[i] => i = j

\* An item with an id that stands last in s stands last in what is kept of it.
SameLast(s, kept) ==
  s # <<>> /\ s[Len(s)] \notin Nameless => kept # <<>> /\ kept[Len(kept)] = s[Len(s)]

LEMMA AppendPaired ==
  ASSUME NEW r \in Seq(Items), NEW e \in Items
  PROVE  PairedOutputs(Append(r, e)) <=>
           /\ PairedOutputs(r)
           /\ e.kind = "output" => r # <<>> /\ r[Len(r)] = Item("call", e.id)
<1>1. PICK t \in Seq(Items) : t = Append(r, e)
  <2>1. Append(r, e) \in Seq(Items)
    OBVIOUS
  <2> QED
    BY <2>1
<1>2. /\ Len(r) \in Nat /\ Len(t) = Len(r) + 1 /\ t[Len(r) + 1] = e
      /\ \A i \in 1..Len(r) : t[i] = r[i]
      /\ DOMAIN t = 1..(Len(r) + 1) /\ DOMAIN r = 1..Len(r) /\ (r # <<>> <=> Len(r) > 0)
  BY <1>1
<1>3. ASSUME NEW i \in 1..Len(r)
      PROVE  (i > 1 /\ t[i - 1] = Item("call", t[i].id)) <=> (i > 1 /\ r[i - 1] = Item("call", r[i].id))
  <2>1. i > 1 => t[i - 1] = r[i - 1]
    BY <1>2
  <2> QED
    BY <1>2, <2>1, Zenon
<1>4. (Len(r) + 1 > 1 /\ t[Len(r) + 1 - 1] = Item("call", e.id)) <=>
        (r # <<>> /\ r[Len(r)] = Item("call", e.id))
  <2>1. Len(r) + 1 - 1 = Len(r) /\ (Len(r) + 1 > 1 <=> r # <<>>)
    BY <1>2
  <2>2. r # <<>> => t[Len(r)] = r[Len(r)]
    BY <1>2
  <2> QED
    BY <2>1, <2>2, Zenon
<1>5. \A i \in DOMAIN t : i \in 1..Len(r) \/ i = Len(r) + 1
  BY <1>2
<1>6. 1..Len(r) \subseteq DOMAIN t /\ Len(r) + 1 \in DOMAIN t
  BY <1>2
<1>7. PairedOutputs(t) => PairedOutputs(r) /\ (e.kind = "output" => r # <<>> /\ r[Len(r)] = Item("call", e.id))
  <2> SUFFICES ASSUME PairedOutputs(t)
               PROVE  PairedOutputs(r) /\ (e.kind = "output" => r # <<>> /\ r[Len(r)] = Item("call", e.id))
    OBVIOUS
  <2>1. ASSUME NEW i \in DOMAIN r, r[i].kind = "output" PROVE i > 1 /\ r[i - 1] = Item("call", r[i].id)
    BY <1>2, <1>3, <1>6, <2>1, Zenon DEF PairedOutputs
  <2>2. PICK n \in DOMAIN t : n = Len(r) + 1
    BY <1>6
  <2>3. t[n] = e
    BY <1>2, <2>2
  <2>4. e.kind = "output" => n > 1 /\ t[n - 1] = Item("call", t[n].id)
    BY <2>3, Zenon DEF PairedOutputs
  <2>5. e.kind = "output" => r # <<>> /\ r[Len(r)] = Item("call", e.id)
    BY <1>4, <2>2, <2>3, <2>4
  <2>6. PairedOutputs(r)
    BY <2>1, Zenon DEF PairedOutputs
  <2> QED
    BY <2>5, <2>6, Zenon
<1>8. ASSUME PairedOutputs(r), e.kind = "output" => r # <<>> /\ r[Len(r)] = Item("call", e.id)
      PROVE  PairedOutputs(t)
  <2>1. ASSUME NEW i \in DOMAIN t, t[i].kind = "output" PROVE i > 1 /\ t[i - 1] = Item("call", t[i].id)
    <3>1. CASE i \in 1..Len(r)
      BY <1>2, <1>3, <1>8, <2>1, <3>1, Zenon DEF PairedOutputs
    <3>2. CASE i = Len(r) + 1
      <4>1. t[i] = e
        BY <1>2, <3>2
      <4>2. r # <<>> /\ r[Len(r)] = Item("call", e.id)
        BY <1>8, <2>1, <4>1, Zenon
      <4>3. i > 1 /\ t[i - 1] = Item("call", e.id)
        BY <1>4, <3>2, <4>2
      <4> QED
        BY <4>1, <4>3, Zenon
    <3> QED
      BY <1>5, <3>1, <3>2, Zenon
  <2> QED
    BY <2>1, Zenon DEF PairedOutputs
<1> QED
  BY <1>1, <1>7, <1>8, Zenon

LEMMA AppendCallsOnce ==
  ASSUME NEW r \in Seq(Items), NEW e \in Items
  PROVE  CallsOnce(Append(r, e)) <=> CallsOnce(r) /\ (e.kind = "call" => ~ Has(r, e))
<1>1. PICK t \in Seq(Items) : t = Append(r, e)
  <2>1. Append(r, e) \in Seq(Items)
    OBVIOUS
  <2> QED
    BY <2>1
<1>2. /\ Len(r) \in Nat /\ t[Len(r) + 1] = e /\ \A i \in DOMAIN r : t[i] = r[i] /\ i # Len(r) + 1
      /\ DOMAIN r \subseteq DOMAIN t /\ Len(r) + 1 \in DOMAIN t
      /\ \A i \in DOMAIN t : i \in DOMAIN r \/ i = Len(r) + 1
  BY <1>1
<1>3. CallsOnce(t) => CallsOnce(r) /\ (e.kind = "call" => ~ Has(r, e))
  BY <1>2, Zenon DEF CallsOnce, Has
<1>4. ASSUME CallsOnce(r), e.kind = "call" => ~ Has(r, e), NEW i \in DOMAIN t, NEW j \in DOMAIN t,
             t[i].kind = "call", t[j] = t[i]
      PROVE  i = j
  <2>1. CASE i \in DOMAIN r /\ j \in DOMAIN r
    BY <1>2, <1>4, <2>1, Zenon DEF CallsOnce
  <2>2. CASE i \in DOMAIN r /\ j = Len(r) + 1
    BY <1>2, <1>4, <2>2, Zenon DEF Has
  <2>3. CASE i = Len(r) + 1 /\ j \in DOMAIN r
    BY <1>2, <1>4, <2>3, Zenon DEF Has
  <2> QED
    BY <1>2, <2>1, <2>2, <2>3, Zenon
<1>5. CallsOnce(r) /\ (e.kind = "call" => ~ Has(r, e)) => CallsOnce(t)
  BY <1>4, Zenon DEF CallsOnce
<1> QED
  BY <1>1, <1>3, <1>5, Zenon

LEMMA ReloadedIs ==
  ASSUME NEW s \in Seq(Items)
  PROVE  /\ Reloaded(s) \in Seq(Items)
         /\ PairedOutputs(s) => PairedOutputs(Reloaded(s))
         /\ CallsOnce(s) => CallsOnce(Reloaded(s))
<1> DEFINE Is(r) == /\ PairedOutputs(r) => PairedOutputs(Reloaded(r))
                    /\ CallsOnce(r) => CallsOnce(Reloaded(r))
                    /\ SameLast(r, Reloaded(r))
           W == {r \in Seq(Items) : Is(r)}
<1>1. \A r \in Seq(Items) : Reloaded(r) \in Seq(Items) /\ \A e : Has(Reloaded(r), e) => Has(r, e)
  BY OnlyHas, Zenon DEF Reloaded
<1>2. \A r \in Seq(Items) : \A e \in Items :
        Reloaded(Append(r, e)) = IF e \in Nameless THEN Reloaded(r) ELSE Append(Reloaded(r), e)
  <2> TAKE r \in Seq(Items)
  <2> TAKE e \in Items
  <2>1. PICK named : named = Items \ Nameless
    OBVIOUS
  <2>2. /\ e \in named => Only(Append(r, e), named) = Append(Only(r, named), e)
        /\ e \notin named => Only(Append(r, e), named) = Only(r, named)
    BY OnlyAppend, Zenon
  <2>3. e \in named <=> e \notin Nameless
    BY <2>1
  <2> QED
    BY <2>1, <2>2, <2>3, Zenon DEF Reloaded
<1>3. <<>> \in W
  <2>1. <<>> \in Seq(Items) /\ Reloaded(<<>>) = <<>>
    BY OnlyEmpty DEF Reloaded
  <2> QED
    BY <2>1 DEF PairedOutputs, CallsOnce, SameLast
<1>4. ASSUME NEW r \in Seq(Items), NEW e \in Items, r \in W PROVE Append(r, e) \in W
  <2>1. Append(r, e) \in Seq(Items) /\ Append(r, e)[Len(Append(r, e))] = e
    OBVIOUS
  <2>2. PICK kept \in Seq(Items) : kept = Reloaded(r)
    BY <1>1
  <2>3. /\ PairedOutputs(r) => PairedOutputs(kept)
        /\ CallsOnce(r) => CallsOnce(kept)
        /\ SameLast(r, kept)
    BY <1>4, <2>2
  <2>4. PairedOutputs(Append(r, e)) <=>
          PairedOutputs(r) /\ (e.kind = "output" => r # <<>> /\ r[Len(r)] = Item("call", e.id))
    BY AppendPaired
  <2>5. CallsOnce(Append(r, e)) <=> CallsOnce(r) /\ (e.kind = "call" => ~ Has(r, e))
    BY AppendCallsOnce
  <2>6. Has(kept, e) => Has(r, e)
    BY <1>1, <2>2, Zenon
  <2>7. CASE e \in Nameless
    <3>1. Reloaded(Append(r, e)) = kept
      BY <1>2, <2>2, <2>7
    <3>2. SameLast(Append(r, e), kept)
      BY <2>1, <2>7, Zenon DEF SameLast
    <3>3. Is(Append(r, e))
      BY <2>3, <2>4, <2>5, <3>1, <3>2, Zenon
    <3> QED
      BY <2>1, <3>3
  <2>8. CASE e \notin Nameless
    <3>1. Reloaded(Append(r, e)) = Append(kept, e)
      BY <1>2, <2>2, <2>8
    <3>2. Append(kept, e) # <<>> /\ Append(kept, e)[Len(Append(kept, e))] = e
      OBVIOUS
    <3>3. e.kind = "output" => Item("call", e.id) \notin Nameless
      BY <2>8 DEF Nameless, Items, Item
    <3>4. ASSUME PairedOutputs(Append(r, e)) PROVE PairedOutputs(Append(kept, e))
      <4>1. e.kind = "output" => kept # <<>> /\ kept[Len(kept)] = Item("call", e.id)
        BY <2>3, <2>4, <3>3, <3>4, Zenon DEF SameLast
      <4> QED
        BY <2>3, <2>4, <3>4, <4>1, AppendPaired
    <3>5. ASSUME CallsOnce(Append(r, e)) PROVE CallsOnce(Append(kept, e))
      BY <2>3, <2>5, <2>6, <3>5, AppendCallsOnce
    <3>6. SameLast(Append(r, e), Append(kept, e))
      BY <2>1, <3>2, Zenon DEF SameLast
    <3>7. Is(Append(r, e))
      BY <3>1, <3>4, <3>5, <3>6, Zenon
    <3> QED
      BY <2>1, <3>7
  <2> QED
    BY <2>7, <2>8
<1> HIDE DEF W
<1>5. s \in W
  BY <1>3, <1>4, SequencesAre
<1> QED
  BY <1>1, <1>5 DEF W

-----------------------------------------------------------------------------
(* What shortening leaves of the items, and in which order.                *)

EndsLike(t, s) == \E p \in Seq(Items) : s = p \o t

LEMMA EndsLikeItself ==
  ASSUME NEW s \in Seq(Items)
  PROVE  EndsLike(s, s) /\ EndsLike(<<>>, s)
<1>1. <<>> \in Seq(Items) /\ s = <<>> \o s /\ s = s \o <<>>
  OBVIOUS
<1> QED
  BY <1>1, Zenon DEF EndsLike

LEMMA Grouped ==
  \A p, q, r \in Seq(Items) : (p \o q) \o r = p \o (q \o r)
BY ConcatAssociative

LEMMA EndsLikeEnd ==
  ASSUME NEW r \in Seq(Items), NEW s \in Seq(Items), NEW t \in Seq(Items),
         EndsLike(r, s), EndsLike(s, t)
  PROVE  EndsLike(r, t)
<1>1. PICK p \in Seq(Items) : s = p \o r
  BY DEF EndsLike
<1>2. \E q \in Seq(Items) : t = q \o s
  BY Zenon DEF EndsLike
<1>q. PICK q \in Seq(Items) : t = q \o s
  BY <1>2
<1>3. t = (q \o p) \o r /\ q \o p \in Seq(Items)
  <2>1. (q \o p) \o r = q \o (p \o r)
    BY Grouped, Zenon
  <2>2. q \o p \in Seq(Items)
    OBVIOUS
  <2> QED
    BY <1>1, <1>q, <2>1, <2>2, Zenon
<1> QED
  BY <1>3, Zenon DEF EndsLike

LEMMA EndsLikeMore ==
  ASSUME NEW s \in Seq(Items), NEW t \in Seq(Items), NEW r \in Seq(Items), EndsLike(t, s)
  PROVE  EndsLike(t \o r, s \o r)
<1>1. PICK p \in Seq(Items) : s = p \o t
  BY DEF EndsLike
<1>2. (p \o t) \o r = p \o (t \o r)
  BY Grouped, Zenon
<1> QED
  BY <1>1, <1>2, Zenon DEF EndsLike

\* A tail of h, but for the summary, and every item is followed by the same.
TailOf(g, h) ==
  /\ \A set \in SUBSET (Items \ {Summary}) : EndsLike(Only(g, set), Only(h, set))
  /\ \A i \in DOMAIN g : g[i] # Summary =>
       \E j \in DOMAIN h : /\ h[j] = g[i]
                           /\ j < Len(h) => i < Len(g) /\ h[j + 1] = g[i + 1]

LEMMA ItselfIsTail ==
  ASSUME NEW h \in Seq(Items)
  PROVE  TailOf(h, h)
<1>1. \A set \in SUBSET (Items \ {Summary}) : EndsLike(Only(h, set), Only(h, set))
  BY OnlyHas, EndsLikeItself
<1> QED
  BY <1>1 DEF TailOf

LEMMA TailOfTail ==
  ASSUME NEW f \in Seq(Items), NEW g \in Seq(Items), NEW h \in Seq(Items),
         TailOf(f, g), TailOf(g, h)
  PROVE  TailOf(f, h)
<1>1. ASSUME NEW set \in SUBSET (Items \ {Summary})
      PROVE  EndsLike(Only(f, set), Only(h, set))
  <2>1. /\ Only(f, set) \in Seq(Items) /\ Only(g, set) \in Seq(Items)
        /\ Only(h, set) \in Seq(Items)
    BY OnlyHas
  <2>2. EndsLike(Only(f, set), Only(g, set)) /\ EndsLike(Only(g, set), Only(h, set))
    BY DEF TailOf
  <2> QED
    BY <2>1, <2>2, EndsLikeEnd
<1>2. ASSUME NEW i \in DOMAIN f, f[i] # Summary
      PROVE  \E j \in DOMAIN h : /\ h[j] = f[i]
                                 /\ j < Len(h) => i < Len(f) /\ h[j + 1] = f[i + 1]
  <2>1. PICK k \in DOMAIN g : g[k] = f[i] /\ (k < Len(g) => i < Len(f) /\ g[k + 1] = f[i + 1])
    BY <1>2 DEF TailOf
  <2>2. PICK j \in DOMAIN h : h[j] = g[k] /\ (j < Len(h) => k < Len(g) /\ h[j + 1] = g[k + 1])
    BY <1>2, <2>1 DEF TailOf
  <2> QED
    BY <2>1, <2>2, Zenon
<1> QED
  BY <1>1, <1>2, Zenon DEF TailOf

LEMMA CutAt ==
  ASSUME NEW h \in Seq(Items), NEW k \in 0..Len(h)
  PROVE  \E p, t \in Seq(Items) :
           /\ t = SubSeq(h, k + 1, Len(h)) /\ h = p \o t /\ Len(t) = Len(h) - k
           /\ \A i \in 1..Len(t) : t[i] = h[k + i]
<1>1. PICK p \in Seq(Items) : p = SubSeq(h, 1, k)
  <2>1. SubSeq(h, 1, k) \in Seq(Items)
    OBVIOUS
  <2> QED
    BY <2>1
<1>2. PICK t \in Seq(Items) : t = SubSeq(h, k + 1, Len(h))
  <2>1. SubSeq(h, k + 1, Len(h)) \in Seq(Items)
    OBVIOUS
  <2> QED
    BY <2>1
<1>3. /\ Len(p) = k /\ Len(t) = Len(h) - k /\ \A i \in 1..k : p[i] = h[i]
      /\ \A i \in 1..(Len(h) - k) : t[i] = h[k + i]
  BY <1>1, <1>2
<1>4. SubSeq(h, 1, Len(h)) = h
  OBVIOUS
<1>5. SubSeq(h, 1, k) \o SubSeq(h, k + 1, Len(h)) = SubSeq(h, 1, Len(h))
  <2>1. 1 \in 1..(Len(h) + 1) /\ k \in (1 - 1)..Len(h) /\ Len(h) \in k..Len(h)
    OBVIOUS
  <2> QED
    BY <2>1, ConcatAdjacentSubSeq
<1>6. h = p \o t
  BY <1>1, <1>2, <1>4, <1>5, Zenon
<1>7. Len(t) = Len(h) - k /\ \A i \in 1..Len(t) : t[i] = h[k + i]
  BY <1>3
<1> QED
  BY <1>2, <1>6, <1>7, Zenon

LEMMA ShorterIsTail ==
  ASSUME NEW h \in Seq(Items), NEW k \in 0..Len(h)
  PROVE  TailOf(SubSeq(h, k + 1, Len(h)), h)
<1>1. PICK p \in Seq(Items), t \in Seq(Items) :
        /\ t = SubSeq(h, k + 1, Len(h)) /\ h = p \o t /\ Len(t) = Len(h) - k
        /\ \A i \in 1..Len(t) : t[i] = h[k + i]
  BY CutAt
<1>2. ASSUME NEW set \in SUBSET (Items \ {Summary})
      PROVE  EndsLike(Only(t, set), Only(h, set))
  <2>1. Only(p \o t, set) = Only(p, set) \o Only(t, set)
    BY OnlyConcat
  <2>2. Only(p, set) \in Seq(Items)
    BY OnlyHas
  <2> QED
    BY <1>1, <2>1, <2>2, Zenon DEF EndsLike
<1>n. Len(t) = Len(h) - k /\ \A i \in 1..Len(t) : t[i] = h[k + i]
  BY <1>1, Zenon
<1>3. ASSUME NEW i \in DOMAIN t
      PROVE  \E j \in DOMAIN h : /\ h[j] = t[i]
                                 /\ j < Len(h) => i < Len(t) /\ h[j + 1] = t[i + 1]
  <2>1. i \in 1..Len(t) /\ Len(h) \in Nat /\ DOMAIN h = 1..Len(h)
    OBVIOUS
  <2>2. PICK j \in 1..Len(h) : j = k + i
    <3>1. k + i \in 1..Len(h)
      BY <1>n, <2>1
    <3> QED
      BY <3>1
  <2>3. h[j] = t[i]
    BY <1>n, <2>1, <2>2
  <2>4. j < Len(h) => i < Len(t) /\ i + 1 \in 1..Len(t) /\ k + (i + 1) = j + 1
    <3>1. Len(t) = Len(h) - k
      BY <1>n
    <3>2. i \in Nat /\ k \in Nat /\ Len(h) \in Nat /\ i >= 1
      BY <2>1
    <3>3. j < Len(h) => i < Len(h) - k
      BY <2>2, <3>2
    <3>4. k + (i + 1) = j + 1
      BY <2>2, <3>2
    <3>5. i < Len(h) - k => i < Len(t) /\ i + 1 \in 1..Len(t)
      BY <3>1, <3>2
    <3> QED
      BY <3>3, <3>4, <3>5, Zenon
  <2>5. j < Len(h) => i < Len(t) /\ h[j + 1] = t[i + 1]
    <3>1. j < Len(h) => t[i + 1] = h[k + (i + 1)]
      BY <1>n, <2>4, Zenon
    <3> QED
      BY <2>4, <3>1
  <2> QED
    BY <2>1, <2>3, <2>5, Zenon
<1>4. TailOf(t, h)
  BY <1>2, <1>3, Zenon DEF TailOf
<1> QED
  BY <1>1, <1>4

LEMMA SummaryIsTail ==
  ASSUME NEW t \in Seq(Items)
  PROVE  TailOf(<<Summary>> \o t, t)
<1>1. PICK g \in Seq(Items) :
        g = <<Summary>> \o t /\ Len(g) = Len(t) + 1 /\ g[1] = Summary
        /\ \A i \in 1..Len(t) : g[i + 1] = t[i]
  <2>1. Summary \in Items
    BY ItemIs DEF Summary, Kinds
  <2>2. /\ <<Summary>> \o t \in Seq(Items) /\ Len(<<Summary>> \o t) = Len(t) + 1
        /\ (<<Summary>> \o t)[1] = Summary
        /\ \A i \in 1..Len(t) : (<<Summary>> \o t)[i + 1] = t[i]
    BY <2>1
  <2> QED
    BY <2>2
<1>n. Len(g) = Len(t) + 1 /\ g[1] = Summary /\ \A i \in 1..Len(t) : g[i + 1] = t[i]
  BY <1>1, Zenon
<1>2. ASSUME NEW set \in SUBSET (Items \ {Summary})
      PROVE  EndsLike(Only(g, set), Only(t, set))
  <2>1. Summary \in Items /\ <<Summary>> \in Seq(Items)
    <3>1. Summary \in Items
      BY ItemIs DEF Summary, Kinds
    <3> QED
      BY <3>1
  <2>2. Only(<<Summary>> \o t, set) = Only(<<Summary>>, set) \o Only(t, set)
    <3>1. PICK q \in Seq(Items) : q = <<Summary>>
      BY <2>1
    <3>2. Only(q \o t, set) = Only(q, set) \o Only(t, set)
      BY OnlyConcat
    <3> QED
      BY <3>1, <3>2, Zenon
  <2>3. Only(<<Summary>>, set) = <<>>
    <3>1. <<>> \in Seq(Items) /\ Append(<<>>, Summary) = <<Summary>> /\ Summary \notin set
      OBVIOUS
    <3>2. Only(Append(<<>>, Summary), set) = Only(<<>>, set)
      BY <2>1, <3>1, OnlyAppend
    <3> QED
      BY <3>1, <3>2, OnlyEmpty
  <2>4. Only(t, set) \in Seq(Items)
    BY OnlyHas
  <2>5. <<>> \o Only(t, set) = Only(t, set)
    BY <2>4
  <2>6. Only(g, set) = Only(t, set)
    BY <1>1, <2>2, <2>3, <2>5
  <2> QED
    BY <2>4, <2>6, EndsLikeItself
<1>3. ASSUME NEW i \in DOMAIN g, g[i] # Summary
      PROVE  \E j \in DOMAIN t : /\ t[j] = g[i]
                                 /\ j < Len(t) => i < Len(g) /\ t[j + 1] = g[i + 1]
  <2>1. PICK j \in 1..Len(t) : i = j + 1
    <3>1. i \in 2..(Len(t) + 1)
      BY <1>n, <1>3
    <3>2. i - 1 \in 1..Len(t) /\ i = (i - 1) + 1
      BY <3>1
    <3> QED
      BY <3>2
  <2>2. t[j] = g[i]
    BY <1>n, <2>1
  <2>3. DOMAIN t = 1..Len(t) /\ (j < Len(t) => j + 1 \in 1..Len(t) /\ j + 1 < Len(t) + 1)
    OBVIOUS
  <2>4. j < Len(t) => i < Len(g) /\ t[j + 1] = g[i + 1]
    BY <1>n, <2>1, <2>3
  <2> QED
    BY <2>2, <2>3, <2>4, Zenon
<1>4. TailOf(g, t)
  BY <1>2, <1>3, Zenon DEF TailOf
<1> QED
  BY <1>1, <1>4

LEMMA CutIsTail ==
  ASSUME NEW h \in Seq(Items), NEW keep \in 1..(Len(h) - 1)
  PROVE  TailOf(Cut(h, keep), h)
<1>1. PICK k \in 0..Len(h) : k = Len(h) - keep
  <2>1. Len(h) - keep \in 0..Len(h)
    OBVIOUS
  <2> QED
    BY <2>1
<1>2. PICK t \in Seq(Items) : t = SubSeq(h, k + 1, Len(h))
  BY CutAt
<1>3. TailOf(t, h) /\ TailOf(<<Summary>> \o t, t)
  BY <1>2, ShorterIsTail, SummaryIsTail
<1>4. <<Summary>> \o t \in Seq(Items)
  <2>1. Summary \in Items
    BY ItemIs DEF Summary, Kinds
  <2> QED
    BY <2>1
<1>5. Cut(h, keep) = <<Summary>> \o t
  BY <1>1, <1>2 DEF Cut
<1> QED
  BY <1>3, <1>4, <1>5, TailOfTail

-----------------------------------------------------------------------------
(* Shorter histories.                                                      *)

\* Outputs are away from their calls in front only, and the newest item is
\* still the newest; the items that are left are the last ones.
FrontOnly(h) ==
  \A i \in 2..Len(h) :
    h[i].kind = "output" =>
      h[i - 1] = Item("call", h[i].id) \/ (i = 2 /\ h[1] = Summary)

ShortOf(g, h) ==
  /\ g \in Seq(Items) /\ (FrontOnly(h) => FrontOnly(g))
  /\ h # <<>> => g # <<>> /\ g[Len(g)] = h[Len(h)]
  /\ TailOf(g, h)

LEMMA ShortOfShort ==
  ASSUME NEW f, NEW g, NEW h \in Seq(Items), ShortOf(f, g), ShortOf(g, h)
  PROVE  ShortOf(f, h)
<1>1. TailOf(f, h)
  BY TailOfTail DEF ShortOf
<1> QED
  BY <1>1, Zenon DEF ShortOf

LEMMA ItselfIsShort ==
  ASSUME NEW h \in Seq(Items)
  PROVE  ShortOf(h, h)
BY ItselfIsTail DEF ShortOf

LEMMA CutIsShort ==
  ASSUME NEW h \in Seq(Items), Len(h) >= 2, NEW keep \in 1..(Len(h) - 1)
  PROVE  ShortOf(Cut(h, keep), h)
<1>1. PICK g \in Seq(Items) : g = Cut(h, keep)
  BY CutIs
<1>2. /\ Len(g) = keep + 1 /\ g[1] = Summary
      /\ \A i \in 2..(keep + 1) : g[i] = h[Len(h) - keep + i - 1]
  BY <1>1, CutIs
<1>3. g # <<>> /\ g[Len(g)] = h[Len(h)]
  <2>1. keep + 1 \in 2..(keep + 1) /\ Len(h) - keep + (keep + 1) - 1 = Len(h)
    OBVIOUS
  <2> QED
    BY <1>2, <2>1
<1>4. ASSUME FrontOnly(h), NEW i \in 2..Len(g), g[i].kind = "output"
      PROVE  g[i - 1] = Item("call", g[i].id) \/ (i = 2 /\ g[1] = Summary)
  <2>1. CASE i = 2
    BY <1>2, <2>1
  <2>2. CASE i \in 3..(keep + 1)
    <3>1. PICK j \in 3..Len(h) : j = Len(h) - keep + i - 1
      <4>1. Len(h) \in Nat /\ keep \in Nat /\ keep <= Len(h) - 1 /\ i \in Nat
            /\ i >= 3 /\ i <= keep + 1
        BY <2>2
      <4>2. Len(h) - keep + i - 1 \in 3..Len(h)
        BY <4>1
      <4> QED
        BY <4>2
    <3>2. g[i] = h[j] /\ g[i - 1] = h[j - 1]
      <4>1. i \in 2..(keep + 1) /\ i - 1 \in 2..(keep + 1) /\ Len(h) - keep + (i - 1) - 1 = j - 1
        BY <2>2, <3>1
      <4> QED
        BY <1>2, <3>1, <4>1
    <3>3. h[j - 1] = Item("call", h[j].id)
      BY <1>4, <3>1, <3>2 DEF FrontOnly
    <3> QED
      BY <3>2, <3>3, Zenon
  <2> QED
    BY <1>2, <1>4, <2>1, <2>2
<1>5. TailOf(g, h)
  BY <1>1, CutIsTail
<1> QED
  BY <1>1, <1>3, <1>4, <1>5 DEF ShortOf, FrontOnly

\* A forced shrink leaves something, and drops something.
LEMMA DroppedIsSome ==
  ASSUME NEW h \in Seq(Items), Len(h) >= 2, NEW retry \in Nat
  PROVE  Dropped(h, retry) \in 1..(Len(h) - 1)
<1> DEFINE share == Len(h) \div (IF retry <= 1 THEN 4 ELSE 2)
           target == Max({1, share})
           last == Len(h) - 1
           before == {n \in 1..target : FromUser(h[n + 1])}
           after == {n \in (target + 1)..last : FromUser(h[n + 1])}
           fallback == IF h[target + 1].kind = "output" THEN Max({target - 1, 1}) ELSE target
           safe == {n \in target..last : h[n + 1].kind # "output"}
<1>1. share \in 0..last
  OBVIOUS
<1>2. target \in 1..last
  <2>1. PICK m \in 0..last : m = share
    BY <1>1
  <2>2. Max({1, m}) \in {1, m} /\ \A x \in {1, m} : Max({1, m}) >= x
    <3>1. last \in Nat /\ {1, m} \subseteq 0..last /\ {1, m} # {}
      OBVIOUS
    <3> QED
      BY <3>1, MaxIsGreatest
  <2>3. target = Max({1, m})
    BY <2>1
  <2> QED
    BY <2>2, <2>3
<1> HIDE DEF target
<1>3. before # {} => Max(before) \in 1..last
  <2>1. before \subseteq 0..last /\ last \in Nat
    BY <1>2
  <2> HIDE DEF before
  <2>2. before # {} => Max(before) \in before
    BY <2>1, MaxIsGreatest
  <2> USE DEF before
  <2> QED
    BY <1>2, <2>2
<1>4. after # {} => Min(after) \in 1..last
  <2>1. after \subseteq Nat
    BY <1>2
  <2> HIDE DEF after
  <2>2. after # {} => Min(after) \in after
    BY <2>1, MinIsLeast
  <2> USE DEF after
  <2> QED
    BY <1>2, <2>2
<1>5. safe # {} => Min(safe) \in 1..last
  <2>1. safe \subseteq Nat
    BY <1>2
  <2> HIDE DEF safe
  <2>2. safe # {} => Min(safe) \in safe
    BY <2>1, MinIsLeast
  <2> USE DEF safe
  <2> QED
    BY <1>2, <2>2
<1>6. fallback \in 1..last
  <2>1. PICK m \in 0..(last - 1) : m = target - 1
    BY <1>2
  <2>2. Max({m, 1}) \in {m, 1} /\ \A x \in {m, 1} : Max({m, 1}) >= x
    <3>1. last \in Nat /\ {m, 1} \subseteq 0..last /\ {m, 1} # {}
      BY <1>2
    <3> QED
      BY <3>1, MaxIsGreatest
  <2>3. Max({m, 1}) \in 1..last
    BY <1>2, <2>1, <2>2
  <2> QED
    BY <1>2, <2>1, <2>3
<1>7. Dropped(h, retry) =
        IF ~(retry >= 2) /\ before # {} THEN Max(before)
        ELSE IF after # {} /\ (retry >= 2 \/ Min(after) - target <= target) THEN Min(after)
        ELSE IF retry >= 2 /\ fallback < target /\ safe # {} THEN Min(safe)
        ELSE fallback
  BY Zenon DEF Dropped, target
<1> HIDE DEF before, after, safe, fallback
<1> QED
  BY <1>3, <1>4, <1>5, <1>6, <1>7

LEMMA ShrunkIsShort ==
  ASSUME NEW h \in Seq(Items), NEW retry \in Nat
  PROVE  ShortOf(Shrunk(h, retry), h)
<1>1. CASE Len(h) < 2
  BY <1>1, ItselfIsShort DEF Shrunk
<1>2. CASE Len(h) >= 2
  <2>1. PICK d \in 1..(Len(h) - 1) : d = Dropped(h, retry)
    BY <1>2, DroppedIsSome
  <2>2. PICK g \in Seq(Items) : g = SubSeq(h, d + 1, Len(h))
    <3>1. SubSeq(h, d + 1, Len(h)) \in Seq(Items)
      OBVIOUS
    <3> QED
      BY <3>1
  <2>3. Len(g) = Len(h) - d /\ \A i \in 1..(Len(h) - d) : g[i] = h[d + i]
    BY <2>2
  <2>4. g # <<>> /\ g[Len(g)] = h[Len(h)]
    <3>1. Len(h) - d \in 1..(Len(h) - d) /\ d + (Len(h) - d) = Len(h)
      OBVIOUS
    <3> QED
      BY <2>3, <3>1
  <2>5. ASSUME FrontOnly(h), NEW i \in 2..Len(g), g[i].kind = "output"
        PROVE  g[i - 1] = Item("call", g[i].id)
    <3>1. PICK j \in 3..Len(h) : j = d + i
      BY <2>3
    <3>2. g[i] = h[j] /\ g[i - 1] = h[j - 1]
      <4>1. i \in 1..(Len(h) - d) /\ i - 1 \in 1..(Len(h) - d) /\ d + (i - 1) = j - 1
        BY <2>3, <3>1
      <4> QED
        BY <2>3, <3>1, <4>1
    <3>3. h[j - 1] = Item("call", h[j].id)
      BY <2>5, <3>1, <3>2 DEF FrontOnly
    <3> QED
      BY <3>2, <3>3, Zenon
  <2>6. Shrunk(h, retry) = g
    <3>1. ~(Len(h) < 2)
      BY <1>2
    <3>2. Shrunk(h, retry) = SubSeq(h, Dropped(h, retry) + 1, Len(h))
      BY <3>1, Zenon DEF Shrunk
    <3> QED
      BY <2>1, <2>2, <3>2, Zenon
  <2>7. TailOf(g, h)
    <3>1. d \in 0..Len(h)
      OBVIOUS
    <3> QED
      BY <2>2, <3>1, ShorterIsTail
  <2> QED
    BY <2>4, <2>5, <2>6, <2>7 DEF ShortOf, FrontOnly
<1> QED
  BY <1>1, <1>2

\* The passes of a compaction, one after the other, up to the k-th.
Passed(h, k, f) ==
  f = [n \in 0..k |-> IF n = 0 THEN {h} ELSE Pass(f[n - 1], n - 1)]

LEMMA PassesAre ==
  ASSUME NEW h, NEW k \in Nat
  PROVE  \E f : Passed(h, k, f)
<1> DEFINE without == {m \in 0..k : ~ \E f : Passed(h, m, f)}
<1>1. SUFFICES ASSUME without # {} PROVE FALSE
  <2>1. k \in 0..k
    OBVIOUS
  <2> QED
    BY <2>1
<1>2. PICK m \in without : \A j \in without : m <= j
  <2>1. without \subseteq Nat
    OBVIOUS
  <2> QED
    BY <1>1, <2>1, Smallest
<1>3. m \in 0..k /\ ~ \E f : Passed(h, m, f)
  OBVIOUS
<1>4. CASE m = 0
  <2>1. PICK f : f = [n \in 0..0 |-> {h}]
    OBVIOUS
  <2>2. Passed(h, 0, f)
    BY <2>1 DEF Passed
  <2> QED
    BY <1>3, <1>4, <2>2
<1>5. CASE m # 0
  <2>1. PICK p \in 0..k : p = m - 1
    BY <1>3, <1>5
  <2>2. p \notin without
    BY <1>2, <1>3, <2>1
  <2> HIDE DEF without
  <2>3. PICK f : Passed(h, p, f)
    <3> USE DEF without
    <3> QED
      BY <2>2
  <2>4. f = [n \in 0..p |-> IF n = 0 THEN {h} ELSE Pass(f[n - 1], n - 1)]
    BY <2>3 DEF Passed
  <2>5. PICK g : g = [n \in 0..m |-> IF n = m THEN Pass(f[p], p) ELSE f[n]]
    OBVIOUS
  <2>6. /\ g = [n \in 0..m |-> g[n]]
        /\ g[m] = Pass(f[p], p)
        /\ \A n \in 0..p : g[n] = f[n]
    BY <1>3, <2>1, <2>5
  <2>7. ASSUME NEW n \in 0..m
        PROVE  g[n] = IF n = 0 THEN {h} ELSE Pass(g[n - 1], n - 1)
    <3>1. CASE n = m
      <4>1. n # 0 /\ n - 1 = p /\ p \in 0..p
        BY <1>3, <1>5, <2>1, <3>1
      <4>2. g[n] = Pass(f[p], p) /\ g[n - 1] = f[p]
        BY <2>6, <3>1, <4>1, Zenon
      <4> QED
        BY <4>1, <4>2, Zenon
    <3>2. CASE n \in 0..p
      <4>1. f[n] = IF n = 0 THEN {h} ELSE Pass(f[n - 1], n - 1)
        BY <2>4, <3>2
      <4>2. n # 0 => n - 1 \in 0..p
        BY <3>2
      <4> QED
        BY <2>6, <3>2, <4>1, <4>2
    <3> QED
      BY <1>3, <2>1, <3>1, <3>2
  <2>8. Passed(h, m, g)
    BY <2>6, <2>7, Zenon DEF Passed
  <2> QED
    BY <1>3, <2>8
<1> QED
  BY <1>4, <1>5

LEMMA CompactedIs ==
  ASSUME NEW h
  PROVE  \E f : /\ Passed(h, RetryLimit + 1, f)
                /\ Compacted(h) = UNION {f[n] : n \in 0..(RetryLimit + 1)}
<1>1. \E f : f = [n \in 0..(RetryLimit + 1) |-> IF n = 0 THEN {h} ELSE Pass(f[n - 1], n - 1)]
  <2>1. RetryLimit + 1 \in Nat
    BY HistoryAssumption
  <2>2. \E f : Passed(h, RetryLimit + 1, f)
    BY <2>1, PassesAre
  <2> QED
    BY <2>2, Zenon DEF Passed
<1> QED
  BY <1>1, Zenon DEF Passed, Compacted

\* However many passes a compaction takes.
LEMMA CompactedIsShort ==
  ASSUME NEW h \in Seq(Items), NEW g \in Compacted(h)
  PROVE  ShortOf(g, h)
<1>1. PICK f : /\ Passed(h, RetryLimit + 1, f)
               /\ Compacted(h) = UNION {f[n] : n \in 0..(RetryLimit + 1)}
  BY CompactedIs
<1>2. RetryLimit + 1 \in Nat
  BY HistoryAssumption
<1>3. \A n \in 0..(RetryLimit + 1) : f[n] = IF n = 0 THEN {h} ELSE Pass(f[n - 1], n - 1)
  BY <1>1, <1>2 DEF Passed
<1> DEFINE wrong == {n \in 0..(RetryLimit + 1) : ~ \A x \in f[n] : ShortOf(x, h)}
<1>4. wrong = {}
  <2>1. SUFFICES ASSUME wrong # {} PROVE FALSE
    OBVIOUS
  <2>2. PICK m \in wrong : \A j \in wrong : m <= j
    <3>1. wrong \subseteq Nat
      BY <1>2
    <3> QED
      BY <2>1, <3>1, Smallest
  <2>3. m \in 0..(RetryLimit + 1)
    OBVIOUS
  <2>4. PICK x \in f[m] : ~ ShortOf(x, h)
    OBVIOUS
  <2>5. CASE m = 0
    <3>1. x = h
      BY <1>3, <2>3, <2>4, <2>5
    <3> QED
      BY <2>4, <3>1, ItselfIsShort
  <2>6. CASE m # 0
    <3>1. PICK p \in 0..(RetryLimit + 1) : p = m - 1
      BY <1>2, <2>3, <2>6
    <3>2. p \notin wrong
      BY <1>2, <2>2, <2>3, <3>1
    <3>3. \A y \in f[p] : ShortOf(y, h)
      BY <3>2
    <3>4. x \in Pass(f[p], p)
      BY <1>3, <2>3, <2>4, <2>6, <3>1
    <3>5. PICK y \in f[p] : Len(y) >= 2 /\ \E keep \in Kept(Len(y), p) : x = Cut(y, keep)
      BY <3>4 DEF Pass
    <3>keep. PICK keep \in Kept(Len(y), p) : x = Cut(y, keep)
      BY <3>5
    <3>6. y \in Seq(Items) /\ ShortOf(y, h)
      BY <3>3 DEF ShortOf
    <3>7. keep \in 1..(Len(y) - 1)
      BY <3>5, <3>6, <3>keep, KeptIsSome
    <3>8. ShortOf(x, y)
      BY <3>5, <3>6, <3>7, <3>keep, CutIsShort
    <3> QED
      BY <2>4, <3>6, <3>8, ShortOfShort
  <2> QED
    BY <2>5, <2>6
<1>5. PICK n \in 0..(RetryLimit + 1) : g \in f[n]
  BY <1>1
<1> QED
  BY <1>4, <1>5

LEMMA RetryIsShort ==
  ASSUME NEW h \in Seq(Items), NEW retry \in Nat, NEW g \in ShrunkOrCompacted(h, retry)
  PROVE  ShortOf(g, h)
<1>1. PICK c \in Compacted(h) : g = c \/ g = Shrunk(c, retry)
  BY DEF ShrunkOrCompacted
<1>2. ShortOf(c, h) /\ c \in Seq(Items)
  BY CompactedIsShort DEF ShortOf
<1>3. ShortOf(Shrunk(c, retry), c)
  BY <1>2, ShrunkIsShort
<1> QED
  BY <1>1, <1>2, <1>3, ShortOfShort

-----------------------------------------------------------------------------
(* What the provider is shown.                                             *)

\* While a prompt is on its way to the provider, the history ends with the
\* newest record.
EndsWithNewest ==
  stage \in {"opening", "checking", "asking"} =>
    history # <<>> /\ history[Len(history)] = store[Len(store)]

HistoryInv ==
  /\ IInv /\ history \in Seq(Items) /\ retries \in Nat
  /\ FrontOnly(history) /\ EndsWithNewest

\* A prompt that is over leaves a history that is as good as h.
LEMMA EndsKeepHistory ==
  ASSUME NEW h \in Seq(Items), FrontOnly(h), Ends(h)
  PROVE  /\ (history \in Seq(Items))' /\ (retries \in Nat)' /\ FrontOnly(history)' /\ EndsWithNewest'
<1>1. history' = h \/ history' = <<>>
  BY DEF Ends
<1>2. FrontOnly(<<>>) /\ <<>> \in Seq(Items)
  BY DEF FrontOnly
<1>3. history' \in Seq(Items) /\ FrontOnly(history')
  BY <1>1, <1>2
<1>4. FrontOnly(history)'
  BY <1>3 DEF FrontOnly
<1> QED
  BY <1>3, <1>4 DEF Ends, EndsWithNewest

\* What is appended to a history is no output away from its call.
LEMMA AppendedInFront ==
  ASSUME NEW h \in Seq(Items), FrontOnly(h), NEW item \in Items, item.kind # "output"
  PROVE  /\ Append(h, item) \in Seq(Items) /\ FrontOnly(Append(h, item))
         /\ Append(h, item) # <<>> /\ Append(h, item)[Len(Append(h, item))] = item
<1>1. /\ Append(h, item) \in Seq(Items) /\ Len(Append(h, item)) = Len(h) + 1
      /\ Append(h, item)[Len(h) + 1] = item
      /\ \A i \in 1..Len(h) : Append(h, item)[i] = h[i]
  OBVIOUS
<1>2. ASSUME NEW i \in 2..(Len(h) + 1), Append(h, item)[i].kind = "output"
      PROVE  \/ Append(h, item)[i - 1] = Item("call", Append(h, item)[i].id)
             \/ i = 2 /\ Append(h, item)[1] = Summary
  <2>1. i \in 2..Len(h)
    BY <1>1, <1>2
  <2>2. Append(h, item)[i] = h[i] /\ Append(h, item)[i - 1] = h[i - 1]
        /\ Append(h, item)[1] = h[1]
    BY <1>1, <2>1
  <2>3. h[i - 1] = Item("call", h[i].id) \/ (i = 2 /\ h[1] = Summary)
    BY <1>2, <2>1, <2>2 DEF FrontOnly
  <2> QED
    BY <2>2, <2>3, Zenon
<1>3. FrontOnly(Append(h, item))
  BY <1>1, <1>2, Zenon DEF FrontOnly
<1>4. Append(h, item) # <<>> /\ Append(h, item)[Len(Append(h, item))] = item
  BY <1>1
<1> QED
  BY <1>1, <1>3, <1>4

LEMMA LoadKeepsHistory ==
  ASSUME HistoryInv, Load
  PROVE  HistoryInv'
<1>1. IInv'
  BY StepKeepsInvariant DEF HistoryInv, Next
<1>2. history' = Reloaded(store) /\ stage' = "idle" /\ retries' = retries
  BY DEF Load
<1>3. store \in Seq(Items) /\ StoreIsPaired
  BY DEF HistoryInv, IInv, RecordsOK
<1>4. PICK h \in Seq(Items) : h = Reloaded(store) /\ PairedOutputs(h)
  <2>1. PairedOutputs(store)
    BY <1>3 DEF StoreIsPaired, PairedOutputs
  <2> QED
    BY <1>3, <2>1, ReloadedIs
<1>5. FrontOnly(h)
  <2>1. \A i \in 2..Len(h) : i \in DOMAIN h
    OBVIOUS
  <2> QED
    BY <1>4, <2>1 DEF FrontOnly, PairedOutputs
<1>6. FrontOnly(history)' /\ (history \in Seq(Items))'
  BY <1>2, <1>4, <1>5 DEF FrontOnly
<1> QED
  BY <1>1, <1>2, <1>6 DEF HistoryInv, EndsWithNewest

LEMMA SubmitKeepsHistory ==
  ASSUME HistoryInv, Submit
  PROVE  HistoryInv'
<1>1. IInv'
  BY StepKeepsInvariant DEF HistoryInv, Next
<1>2. PICK item \in Items : item = Item("user", prompts') /\ item.kind # "output"
  <2>1. prompts' \in Nat
    BY DEF HistoryInv, IInv, RecordsOK, Submit
  <2> QED
    BY <2>1, ItemIs DEF Kinds
<1>3. history' = Append(history, item) /\ store' = Append(store, item) /\ retries' = retries
  BY <1>2 DEF Submit
<1>4. store \in Seq(Items) /\ store'[Len(store')] = item
  BY <1>3 DEF HistoryInv, IInv, RecordsOK
<1>5. FrontOnly(history') /\ history' \in Seq(Items) /\ history' # <<>>
      /\ history'[Len(history')] = item
  BY <1>2, <1>3, AppendedInFront DEF HistoryInv
<1> QED
  BY <1>1, <1>3, <1>4, <1>5 DEF HistoryInv, EndsWithNewest, FrontOnly

\* An aborted prompt, whatever its history was shortened to.
LEMMA GiveUpKeepsHistory ==
  ASSUME HistoryInv, IInv', NEW h, ShortOf(h, history), GiveUp(h)
  PROVE  HistoryInv'
<1>1. h \in Seq(Items) /\ FrontOnly(h)
  BY DEF HistoryInv, ShortOf
<1> QED
  BY <1>1, EndsKeepHistory DEF HistoryInv, GiveUp

LEMMA PrepareKeepsHistory ==
  ASSUME HistoryInv, Open \/ Check
  PROVE  HistoryInv'
<1>1. IInv'
  BY StepKeepsInvariant DEF HistoryInv, Next
<1>2. PICK h \in Compacted(history) :
        IF Stop THEN GiveUp(h)
        ELSE /\ stage \in {"opening", "checking"} /\ history' = h
             /\ UNCHANGED <<records, retries>>
  BY DEF Open, Check, Prepare
<1>3. ShortOf(h, history)
  BY CompactedIsShort DEF HistoryInv
<1>4. CASE Stop
  BY <1>1, <1>2, <1>3, <1>4, GiveUpKeepsHistory
<1>5. CASE ~Stop
  <2>1. history' = h /\ store' = store /\ retries' = retries /\ stage \in {"opening", "checking"}
    BY <1>2, <1>5 DEF records
  <2>2. h # <<>> /\ h[Len(h)] = store[Len(store)] /\ h \in Seq(Items) /\ FrontOnly(h)
    BY <1>3, <2>1 DEF HistoryInv, EndsWithNewest, ShortOf
  <2> QED
    BY <1>1, <2>1, <2>2 DEF HistoryInv, EndsWithNewest, FrontOnly
<1> QED
  BY <1>4, <1>5

LEMMA AskKeepsHistory ==
  ASSUME HistoryInv, Ask
  PROVE  HistoryInv'
<1>1. IInv'
  BY StepKeepsInvariant DEF HistoryInv, Next
<1>2. history \in Seq(Items) /\ FrontOnly(history) /\ retries \in Nat /\ retries + 1 \in Nat
  BY DEF HistoryInv
<1>3. CASE AskAborted
  BY <1>1, <1>2, <1>3, ItselfIsShort, GiveUpKeepsHistory DEF AskAborted
<1>4. CASE AskFailed
  BY <1>1, <1>2, <1>4, EndsKeepHistory DEF AskFailed, HistoryInv
<1>5. CASE Overflow
  <2>1. /\ stage = "asking" /\ history' \in ShrunkOrCompacted(history, retries + 1)
        /\ store' = store /\ retries' = retries + 1
    BY <1>5 DEF Overflow, records
  <2>2. ShortOf(history', history)
    BY <1>2, <2>1, RetryIsShort
  <2>3. history' # <<>> /\ history'[Len(history')] = store[Len(store)]
        /\ history' \in Seq(Items) /\ FrontOnly(history')
    BY <2>1, <2>2 DEF HistoryInv, EndsWithNewest, ShortOf
  <2> QED
    BY <1>1, <1>2, <2>1, <2>3 DEF HistoryInv, EndsWithNewest, FrontOnly
<1>6. CASE GetText \/ GetCalls
  <2>1. stage' \in {"answered", "calling"} /\ UNCHANGED <<history, retries>>
    BY <1>6 DEF GetText, GetCalls
  <2> QED
    BY <1>1, <2>1 DEF HistoryInv, EndsWithNewest, FrontOnly
<1> QED
  BY <1>3, <1>4, <1>5, <1>6 DEF Ask

LEMMA CallKeepsHistory ==
  ASSUME HistoryInv, Call
  PROVE  HistoryInv'
<1>1. IInv'
  BY StepKeepsInvariant DEF HistoryInv, Next
<1>2. history \in Seq(Items) /\ FrontOnly(history) /\ retries \in Nat
  BY DEF HistoryInv
<1>3. CASE GiveUp(history)
  BY <1>1, <1>2, <1>3, ItselfIsShort, GiveUpKeepsHistory
<1>4. CASE UNCHANGED <<history, retries>> /\ stage' \in {"approving", "replying", "running"}
  BY <1>1, <1>4 DEF HistoryInv, EndsWithNewest, FrontOnly
<1>5. CASE Reply
  <2>1. PICK call \in Items, out \in Items :
          call = Item("call", calls) /\ out = Item("output", calls)
    <3>1. calls \in Nat
      BY DEF HistoryInv, IInv, RecordsOK
    <3> QED
      BY <3>1, ItemIs DEF Kinds
  <2>2. /\ history' = history \o <<call, out>> /\ store' = Append(store, out)
        /\ retries' = retries
    BY <1>5, <2>1 DEF Reply
  <2>3. store' # <<>> /\ store'[Len(store')] = out
    <3>1. store \in Seq(Items)
      BY DEF HistoryInv, IInv, RecordsOK
    <3>2. Append(store, out) # <<>> /\ Append(store, out)[Len(Append(store, out))] = out
      BY <3>1
    <3>3. store' = Append(store, out)
      BY <2>2
    <3> QED
      BY <3>2, <3>3, Zenon
  <2>4. call.kind = "call" /\ out.kind = "output" /\ out.id = calls
    BY <2>1 DEF Item
  <2>5. PICK h \in Seq(Items) : h = Append(history, call)
    <3>1. Append(history, call) \in Seq(Items)
      BY <1>2, <2>1
    <3> QED
      BY <3>1
  <2>6. FrontOnly(h) /\ Len(h) = Len(history) + 1 /\ h[Len(h)] = call
    BY <1>2, <2>4, <2>5, AppendedInFront
  <2>7. history' = Append(h, out)
    BY <1>2, <2>1, <2>2, <2>5
  <2>8. /\ history' \in Seq(Items) /\ Len(history') = Len(h) + 1 /\ history'[Len(h) + 1] = out
        /\ \A i \in 1..Len(h) : history'[i] = h[i]
    BY <2>1, <2>5, <2>7
  <2>9. ASSUME NEW i \in 2..Len(history'), history'[i].kind = "output"
        PROVE  \/ history'[i - 1] = Item("call", history'[i].id)
               \/ i = 2 /\ history'[1] = Summary
    <3>1. CASE i = Len(h) + 1
      <4>1. history'[i - 1] = call /\ history'[i] = out
        BY <2>6, <2>8, <3>1
      <4> QED
        BY <2>1, <2>4, <4>1, Zenon
    <3>2. CASE i \in 2..Len(h)
      <4>1. history'[i] = h[i] /\ history'[i - 1] = h[i - 1] /\ history'[1] = h[1]
        BY <2>8, <3>2
      <4>2. h[i - 1] = Item("call", h[i].id) \/ (i = 2 /\ h[1] = Summary)
        BY <2>6, <2>9, <3>2, <4>1 DEF FrontOnly
      <4> QED
        BY <4>1, <4>2, Zenon
    <3> QED
      BY <2>8, <3>1, <3>2
  <2>10. history' # <<>> /\ history'[Len(history')] = store'[Len(store')]
    BY <2>3, <2>8
  <2> QED
    BY <1>1, <1>2, <2>2, <2>8, <2>9, <2>10 DEF HistoryInv, EndsWithNewest, FrontOnly
<1> QED
  BY <1>3, <1>4, <1>5 DEF Call, StoreCall, Approve, Run

LEMMA OthersKeepHistory ==
  ASSUME HistoryInv, Answer \/ StoreFails \/ Abort \/ Die \/ UNCHANGED vars
  PROVE  HistoryInv'
<1>1. IInv'
  BY StepKeepsInvariant DEF HistoryInv, Next
<1>2. history \in Seq(Items) /\ FrontOnly(history)
  BY DEF HistoryInv
<1>3. CASE Answer
  <2>1. PICK item \in Items : item = Item("assistant", prompts) /\ item.kind # "output"
    <3>1. prompts \in Nat
      BY DEF HistoryInv, IInv, RecordsOK
    <3> QED
      BY <3>1, ItemIs DEF Kinds
  <2>2. Append(history, item) \in Seq(Items) /\ FrontOnly(Append(history, item))
    BY <1>2, <2>1, AppendedInFront
  <2>3. Ends(Append(history, item))
    BY <1>3, <2>1 DEF Answer
  <2> QED
    BY <1>1, <2>2, <2>3, EndsKeepHistory DEF HistoryInv
<1>4. CASE StoreFails \/ Die
  <2>1. history' = <<>> /\ stage' = "off" /\ retries' = 0
    BY <1>4 DEF StoreFails, Die, Off
  <2> QED
    BY <1>1, <2>1 DEF HistoryInv, EndsWithNewest, FrontOnly
<1>5. CASE Abort \/ UNCHANGED vars
  <2>1. UNCHANGED <<history, store, stage, retries>>
    BY <1>5 DEF Abort, vars, records
  <2> QED
    BY <1>1, <2>1 DEF HistoryInv, EndsWithNewest, FrontOnly
<1> QED
  BY <1>3, <1>4, <1>5

LEMMA HistoryStep == HistoryInv /\ [Next]_vars => HistoryInv'
BY LoadKeepsHistory, SubmitKeepsHistory, PrepareKeepsHistory, AskKeepsHistory,
   CallKeepsHistory, OthersKeepHistory DEF Next

LEMMA HistoryStarts == Init => HistoryInv
<1> SUFFICES ASSUME Init PROVE HistoryInv
  OBVIOUS
<1>1. IInv
  BY InitHolds
<1> QED
  BY <1>1 DEF Init, HistoryInv, FrontOnly, EndsWithNewest

\* However often a history was cut or shrunk, an output that is sent away from
\* its call stands at the front, behind the summary.
THEOREM OrphansAreInFront == Spec => []OrphansOnlyInFront
<1>1. HistoryInv => OrphansOnlyInFront
  BY DEF HistoryInv, FrontOnly, OrphansOnlyInFront
<1> QED
  BY HistoryStarts, HistoryStep, <1>1, PTL DEF Spec

\* However often it was cut or shrunk, what is sent ends with the prompt or the
\* latest output.
THEOREM NewestSent == Spec => []NewestIsSent
<1>1. HistoryInv => NewestIsSent
  BY DEF HistoryInv, EndsWithNewest, NewestIsSent
<1> QED
  BY HistoryStarts, HistoryStep, <1>1, PTL DEF Spec

-----------------------------------------------------------------------------
(* A history that ends like a store.                                       *)

\* The items that a store answers for.
Recalled(s) ==
  {item \in Items : item.kind = "call" => Has(s, Item("output", item.id))} \ (Nameless \cup {Summary})

\* Every item of h is in s; a call whose output is in s is followed by it; the
\* order is the same.
Recalls(h, s) ==
  /\ \A i \in DOMAIN h : h[i] # Summary => Has(s, h[i])
  /\ \A i \in DOMAIN h : h[i].kind = "call" /\ Has(s, Item("output", h[i].id)) =>
       i < Len(h) /\ h[i + 1] = Item("output", h[i].id)
  /\ EndsLike(Only(h, Recalled(s)), Only(s, Recalled(s)))

LEMMA RecallsNothing ==
  ASSUME NEW s \in Seq(Items)
  PROVE  Recalls(<<>>, s)
<1>1. <<>> \in Seq(Items) /\ DOMAIN <<>> = {}
  OBVIOUS
<1>2. Only(s, Recalled(s)) \in Seq(Items)
  BY OnlyHas
<1>3. EndsLike(<<>>, Only(s, Recalled(s)))
  BY <1>2, EndsLikeItself
<1> QED
  BY <1>1, <1>3, OnlyEmpty DEF Recalls

LEMMA RecallsReloaded ==
  ASSUME NEW s \in Seq(Items), PairedOutputs(s), CallsOnce(s)
  PROVE  Recalls(Reloaded(s), s)
<1>1. PICK h \in Seq(Items) : h = Reloaded(s) /\ PairedOutputs(h) /\ CallsOnce(h)
  BY ReloadedIs
<1>2. \A e : Has(h, e) <=> e \in Items \ Nameless /\ Has(s, e)
  BY <1>1, OnlyHas, Zenon DEF Reloaded
<1>3. EndsLike(Only(h, Recalled(s)), Only(s, Recalled(s)))
  <2>1. PICK named, set : named = Items \ Nameless /\ set = Recalled(s)
    OBVIOUS
  <2>2. Only(Only(s, named), set) = Only(s, named \cap set)
    BY OnlyOfOnly
  <2>3. named \cap set = set
    BY <2>1 DEF Recalled
  <2>4. Only(s, set) \in Seq(Items)
    BY OnlyHas
  <2>5. Only(h, set) = Only(s, set)
    BY <1>1, <2>1, <2>2, <2>3 DEF Reloaded
  <2> QED
    BY <2>1, <2>4, <2>5, EndsLikeItself
<1>4. ASSUME NEW i \in DOMAIN h, h[i].kind = "call", Has(s, Item("output", h[i].id))
      PROVE  i < Len(h) /\ h[i + 1] = Item("output", h[i].id)
  <2>0. h[i] \in Items \ Nameless
    BY <1>2, Zenon DEF Has
  <2>a. Item("output", h[i].id) \in Items \ Nameless
    BY <1>4, <2>0 DEF Items, Nameless, Item, Kinds
  <2>1. PICK j \in DOMAIN h : h[j] = Item("output", h[i].id)
    BY <1>2, <1>4, <2>a, Zenon DEF Has
  <2>2. h[j].kind = "output" /\ h[j].id = h[i].id
    BY <2>1 DEF Item
  <2>3. j > 1 /\ h[j - 1] = Item("call", h[i].id)
    BY <1>1, <2>2 DEF PairedOutputs
  <2>4. h[i] = Item("call", h[i].id)
    BY <1>4, <2>0 DEF Items, Item
  <2>5. j - 1 \in DOMAIN h /\ j \in 1..Len(h)
    BY <2>3
  <2>6. i = j - 1
    BY <1>1, <1>4, <2>3, <2>4, <2>5, Zenon DEF CallsOnce
  <2>7. i < Len(h) /\ i + 1 = j
    BY <2>5, <2>6
  <2> QED
    BY <2>1, <2>7
<1>5. \A i \in DOMAIN h : Has(s, h[i])
  BY <1>2, Zenon DEF Has
<1>6. Recalls(h, s)
  BY <1>3, <1>4, <1>5, Zenon DEF Recalls
<1> QED
  BY <1>1, <1>6

LEMMA RecallsTail ==
  ASSUME NEW s \in Seq(Items), NEW h \in Seq(Items), NEW g \in Seq(Items),
         Recalls(h, s), TailOf(g, h)
  PROVE  Recalls(g, s)
<1>1. ASSUME NEW i \in DOMAIN g, g[i] # Summary
      PROVE  /\ Has(s, g[i])
             /\ g[i].kind = "call" /\ Has(s, Item("output", g[i].id)) =>
                  i < Len(g) /\ g[i + 1] = Item("output", g[i].id)
  <2>1. PICK j \in DOMAIN h : h[j] = g[i] /\ (j < Len(h) => i < Len(g) /\ h[j + 1] = g[i + 1])
    BY <1>1 DEF TailOf
  <2>2. /\ Has(s, h[j])
        /\ h[j].kind = "call" /\ Has(s, Item("output", h[j].id)) =>
                  j < Len(h) /\ h[j + 1] = Item("output", h[j].id)
    BY <1>1, <2>1, Zenon DEF Recalls
  <2> QED
    BY <2>1, <2>2, Zenon
<1>2. Summary.kind # "call"
  BY DEF Summary, Item
<1>3. EndsLike(Only(g, Recalled(s)), Only(s, Recalled(s)))
  <2>1. Recalled(s) \in SUBSET (Items \ {Summary})
    BY DEF Recalled
  <2>2. /\ EndsLike(Only(g, Recalled(s)), Only(h, Recalled(s)))
        /\ EndsLike(Only(h, Recalled(s)), Only(s, Recalled(s)))
    BY <2>1, Zenon DEF Recalls, TailOf
  <2>3. /\ Only(g, Recalled(s)) \in Seq(Items) /\ Only(h, Recalled(s)) \in Seq(Items)
        /\ Only(s, Recalled(s)) \in Seq(Items)
    BY OnlyHas
  <2> QED
    BY <2>2, <2>3, EndsLikeEnd
<1> QED
  BY <1>1, <1>2, <1>3, Zenon DEF Recalls

\* A record that is no output leaves the items that the store answers for.
LEMMA RecalledStays ==
  ASSUME NEW s \in Seq(Items), NEW e \in Items, e.kind # "output"
  PROVE  /\ Recalled(Append(s, e)) = Recalled(s)
         /\ \A x : Has(Append(s, e), Item("output", x)) <=> Has(s, Item("output", x))
<1>1. \A x : Has(Append(s, e), x) <=> x = e \/ Has(s, x)
  BY AppendHas, Zenon
<1>2. \A x : Item("output", x) # e
  BY DEF Item
<1>3. \A x : Has(Append(s, e), Item("output", x)) <=> Has(s, Item("output", x))
  BY <1>1, <1>2, Zenon
<1>4. Recalled(Append(s, e)) = Recalled(s)
  BY <1>3, Zenon DEF Recalled
<1> QED
  BY <1>3, <1>4

\* A prompt or an answer that enters both.
LEMMA RecallsMore ==
  ASSUME NEW s \in Seq(Items), NEW h \in Seq(Items), Recalls(h, s),
         NEW e \in Items, e.kind \in {"user", "assistant"}
  PROVE  Recalls(Append(h, e), Append(s, e))
<1>1. /\ Recalled(Append(s, e)) = Recalled(s)
      /\ \A x : Has(Append(s, e), Item("output", x)) <=> Has(s, Item("output", x))
  BY RecalledStays
<1>2. PICK set : set = Recalled(s)
  OBVIOUS
<1>3. e \in set
  BY <1>2 DEF Recalled, Nameless, Summary, Item
<1>4. Only(Append(h, e), set) = Append(Only(h, set), e)
  BY <1>3, OnlyAppend
<1>5. Only(Append(s, e), set) = Append(Only(s, set), e)
  BY <1>3, OnlyAppend
<1>6. EndsLike(Only(Append(h, e), set), Only(Append(s, e), set))
  <2>1. PICK a \in Seq(Items), b \in Seq(Items) : a = Only(h, set) /\ b = Only(s, set)
    BY OnlyHas
  <2>2. EndsLike(a, b)
    BY <1>2, <2>1 DEF Recalls
  <2>3. <<e>> \in Seq(Items) /\ Append(a, e) = a \o <<e>> /\ Append(b, e) = b \o <<e>>
    OBVIOUS
  <2>4. EndsLike(a \o <<e>>, b \o <<e>>)
    BY <2>2, <2>3, EndsLikeMore
  <2> QED
    BY <1>4, <1>5, <2>1, <2>3, <2>4
<1>7. PICK g \in Seq(Items) : g = Append(h, e)
  <2>1. Append(h, e) \in Seq(Items)
    OBVIOUS
  <2> QED
    BY <2>1
<1>8. Len(g) = Len(h) + 1 /\ g[Len(h) + 1] = e /\ \A i \in 1..Len(h) : g[i] = h[i]
  BY <1>7
<1>9. ASSUME NEW i \in DOMAIN g
      PROVE  /\ g[i] # Summary => Has(Append(s, e), g[i])
             /\ g[i].kind = "call" /\ Has(Append(s, e), Item("output", g[i].id)) =>
                  i < Len(g) /\ g[i + 1] = Item("output", g[i].id)
  <2>1. \A x : Has(Append(s, e), x) <=> x = e \/ Has(s, x)
    BY AppendHas, Zenon
  <2>2. CASE i = Len(h) + 1
    BY <1>8, <2>1, <2>2
  <2>3. CASE i \in 1..Len(h)
    <3>1. g[i] = h[i] /\ i \in DOMAIN h /\ (i < Len(h) => i < Len(g) /\ g[i + 1] = h[i + 1])
      BY <1>8, <2>3
    <3>2. /\ h[i] # Summary => Has(s, h[i])
          /\ h[i].kind = "call" /\ Has(s, Item("output", h[i].id)) =>
                  i < Len(h) /\ h[i + 1] = Item("output", h[i].id)
      BY <3>1, Zenon DEF Recalls
    <3> QED
      BY <1>1, <2>1, <3>1, <3>2, Zenon
  <2> QED
    BY <1>8, <2>2, <2>3
<1>10. EndsLike(Only(g, Recalled(Append(s, e))), Only(Append(s, e), Recalled(Append(s, e))))
  BY <1>1, <1>2, <1>6, <1>7
<1>11. Recalls(g, Append(s, e))
  BY <1>9, <1>10, Zenon DEF Recalls
<1> QED
  BY <1>7, <1>11

\* A call that has no output yet.
LEMMA RecallsWithoutCall ==
  ASSUME NEW s \in Seq(Items), NEW h \in Seq(Items), Recalls(h, s),
         NEW e \in Items, e.kind = "call", ~ Has(s, Item("output", e.id))
  PROVE  Recalls(h, Append(s, e))
<1>1. /\ Recalled(Append(s, e)) = Recalled(s)
      /\ \A x : Has(Append(s, e), Item("output", x)) <=> Has(s, Item("output", x))
  BY RecalledStays
<1>2. PICK set : set = Recalled(s)
  OBVIOUS
<1>3. e \notin set
  BY <1>2 DEF Recalled
<1>4. Only(Append(s, e), set) = Only(s, set)
  BY <1>3, OnlyAppend
<1>5. \A x : Has(Append(s, e), x) <=> x = e \/ Has(s, x)
  BY AppendHas, Zenon
<1>6. EndsLike(Only(h, Recalled(Append(s, e))), Only(Append(s, e), Recalled(Append(s, e))))
  BY <1>1, <1>2, <1>4 DEF Recalls
<1> QED
  BY <1>1, <1>5, <1>6, Zenon DEF Recalls

\* A call whose output does enter both.
LEMMA RecallsPair ==
  ASSUME NEW s \in Seq(Items), NEW h \in Seq(Items), Recalls(h, s),
         PairedOutputs(s), CallsOnce(s),
         NEW call \in Items, NEW out \in Items,
         call.kind = "call", out = Item("output", call.id),
         s # <<>>, s[Len(s)] = call, ~ Has(h, call)
  PROVE  Recalls(Append(Append(h, call), out), Append(s, out))
<1> DEFINE old == Recalled(s)
           new == Recalled(Append(s, out))
<1>1. out.kind = "output" /\ out.id = call.id /\ call = Item("call", call.id)
      /\ out # Summary /\ call # Summary
  <2>1. call = Item("call", call.id)
    BY DEF Items, Item
  <2>2. out.kind = "output" /\ out.id = call.id /\ Summary.kind = "summary"
    BY DEF Item, Summary
  <2>3. out # Summary
    BY <2>2
  <2>4. call # Summary
    BY <2>2
  <2> QED
    BY <2>1, <2>2, <2>3, <2>4, Zenon
<1>2. \A x : Has(Append(s, out), x) <=> x = out \/ Has(s, x)
  <2>1. \A e \in Items : \A x : Has(Append(s, e), x) <=> x = e \/ Has(s, x)
    BY AppendHas, Zenon
  <2> QED
    BY <2>1
<1>3. ~ Has(s, out)
  <2>1. SUFFICES ASSUME NEW j \in DOMAIN s, s[j] = out PROVE FALSE
    BY DEF Has
  <2>2. j > 1 /\ s[j - 1] = call
    BY <1>1, <2>1, Zenon DEF PairedOutputs
  <2>3. j - 1 \in DOMAIN s /\ Len(s) \in DOMAIN s /\ j - 1 # Len(s)
    BY <2>2
  <2> QED
    BY <2>2, <2>3, Zenon DEF CallsOnce
<1>n. call \in Nameless <=> out \in Nameless
  BY <1>1 DEF Nameless, Items, Item
<1>4. /\ call \notin Nameless => call \in new /\ out \in new
      /\ call \in Nameless => call \notin new /\ out \notin new
      /\ call \notin old
  BY <1>1, <1>2, <1>3, <1>n, Zenon DEF Recalled
<1>5. \A x \in Items : x # call => (x \in new <=> x \in old)
  <2>1. ASSUME NEW x \in Items, x.kind = "call", x # call
        PROVE  Item("output", x.id) # out
    BY <1>1, <2>1 DEF Item, Items
  <2> QED
    BY <1>2, <2>1, Zenon DEF Recalled
<1> HIDE DEF old, new
<1>6. Only(h, new) = Only(h, old)
  <2>1. \A i \in DOMAIN h : h[i] \in Items /\ h[i] # call
    BY DEF Has
  <2>2. \A i \in DOMAIN h : h[i] \in new <=> h[i] \in old
    BY <1>5, <2>1
  <2> QED
    BY <2>2, OnlyAgrees
<1>a. \A r \in Seq(Items) : \A e \in Items : e \in new =>
        Only(Append(r, e), new) = Append(Only(r, new), e)
  BY OnlyAppend, Zenon
<1>b. \A r \in Seq(Items) : \A e \in Items : e \notin new => Only(Append(r, e), new) = Only(r, new)
  BY OnlyAppend, Zenon
<1>7. /\ call \notin Nameless => Only(Append(Append(h, call), out), new) = Only(h, old) \o <<call, out>>
      /\ call \in Nameless => Only(Append(Append(h, call), out), new) = Only(h, old)
  <2>1. PICK a \in Seq(Items) : a = Only(h, old)
    BY OnlyHas
  <2>2. PICK g \in Seq(Items) : g = Append(h, call)
    <3>1. Append(h, call) \in Seq(Items)
      OBVIOUS
    <3> QED
      BY <3>1
  <2>3. /\ call \notin Nameless => Only(g, new) = Append(a, call)
        /\ call \in Nameless => Only(g, new) = a
    BY <1>4, <1>6, <1>a, <1>b, <2>1, <2>2
  <2>4. /\ call \notin Nameless => Only(Append(g, out), new) = Append(Only(g, new), out)
        /\ call \in Nameless => Only(Append(g, out), new) = Only(g, new)
    BY <1>4, <1>a, <1>b
  <2>5. Append(Append(a, call), out) = a \o <<call, out>>
    OBVIOUS
  <2> QED
    BY <2>1, <2>2, <2>3, <2>4, <2>5
<1>8. /\ call \notin Nameless => Only(Append(s, out), new) = Only(s, old) \o <<call, out>>
      /\ call \in Nameless => Only(Append(s, out), new) = Only(s, old)
  <2>1. PICK t \in Seq(Items) : s = Append(t, call) /\ \A i \in DOMAIN t : t[i] # call
    <3>0. PICK n \in Nat : Len(s) = n + 1
      <4>1. Len(s) \in Nat \ {0} /\ Len(s) - 1 \in Nat /\ Len(s) = (Len(s) - 1) + 1
        OBVIOUS
      <4> QED
        BY <4>1
    <3>1. PICK t \in Seq(Items) : t = SubSeq(s, 1, n) /\ Len(t) = n /\ \A i \in 1..n : t[i] = s[i]
      <4>1. /\ SubSeq(s, 1, n) \in Seq(Items) /\ Len(SubSeq(s, 1, n)) = n
            /\ \A i \in 1..n : SubSeq(s, 1, n)[i] = s[i]
        BY <3>0
      <4> QED
        BY <4>1
    <3>2. Len(t) = Len(s) - 1 /\ \A i \in 1..(Len(s) - 1) : t[i] = s[i]
      BY <3>0, <3>1
    <3>3. s = Append(t, call)
      <4>1. /\ Append(t, call) \in Seq(Items) /\ Len(Append(t, call)) = n + 1
            /\ Append(t, call)[n + 1] = call /\ \A i \in 1..n : Append(t, call)[i] = t[i]
        BY <3>1
      <4>2. \A i \in 1..Len(s) : s[i] = Append(t, call)[i]
        BY <3>0, <3>1, <4>1
      <4> QED
        BY <3>0, <4>1, <4>2, SeqEqual
    <3>4. ASSUME NEW i \in DOMAIN t PROVE t[i] # call
      <4>1. i \in 1..(Len(s) - 1) /\ i \in DOMAIN s /\ Len(s) \in DOMAIN s /\ i # Len(s)
        BY <3>2
      <4>2. s[i] # call
        BY <4>1, Zenon DEF CallsOnce
      <4> QED
        BY <3>2, <4>1, <4>2
    <3> QED
      BY <3>3, <3>4
  <2>2. PICK a \in Seq(Items) : a = Only(t, old)
    BY OnlyHas
  <2>3. Only(t, new) = a
    <3>1. \A i \in DOMAIN t : t[i] \in Items /\ t[i] # call
      BY <2>1
    <3>2. \A i \in DOMAIN t : t[i] \in new <=> t[i] \in old
      BY <1>5, <3>1
    <3> QED
      BY <2>2, <3>2, OnlyAgrees
  <2>4. /\ call \notin Nameless => Only(Append(t, call), new) = Append(Only(t, new), call)
        /\ call \in Nameless => Only(Append(t, call), new) = Only(t, new)
    BY <1>4, <1>a, <1>b
  <2>5. Only(Append(t, call), old) = Only(t, old)
    BY <1>4, OnlyAppend
  <2>6. /\ call \notin Nameless => Only(Append(s, out), new) = Append(Only(s, new), out)
        /\ call \in Nameless => Only(Append(s, out), new) = Only(s, new)
    BY <1>4, <1>a, <1>b
  <2>7. Append(Append(a, call), out) = a \o <<call, out>>
    OBVIOUS
  <2> QED
    BY <2>1, <2>2, <2>3, <2>4, <2>5, <2>6, <2>7, Zenon
<1>9. EndsLike(Only(Append(Append(h, call), out), new), Only(Append(s, out), new))
  <2>1. PICK a \in Seq(Items), b \in Seq(Items) : a = Only(h, old) /\ b = Only(s, old)
    BY OnlyHas
  <2>2. EndsLike(a, b)
    BY <2>1 DEF Recalls, old
  <2>3. EndsLike(a \o <<call, out>>, b \o <<call, out>>)
    <3>1. <<call, out>> \in Seq(Items)
      OBVIOUS
    <3> QED
      BY <2>2, <3>1, EndsLikeMore
  <2> QED
    BY <1>7, <1>8, <2>1, <2>2, <2>3, Zenon
<1>10. PICK g \in Seq(Items) : g = Append(Append(h, call), out)
  <2>1. Append(Append(h, call), out) \in Seq(Items)
    OBVIOUS
  <2> QED
    BY <2>1
<1>11. /\ Len(g) = Len(h) + 2 /\ g[Len(h) + 1] = call /\ g[Len(h) + 2] = out
       /\ \A i \in 1..Len(h) : g[i] = h[i]
  BY <1>10
<1>12. ASSUME NEW i \in DOMAIN g
       PROVE  /\ g[i] # Summary => Has(Append(s, out), g[i])
              /\ g[i].kind = "call" /\ Has(Append(s, out), Item("output", g[i].id)) =>
                   i < Len(g) /\ g[i + 1] = Item("output", g[i].id)
  <2>1. CASE i = Len(h) + 1
    <3>1. Has(s, call)
      BY DEF Has
    <3>2. i < Len(g) /\ g[i] = call /\ g[i + 1] = out
      BY <1>11, <2>1
    <3> QED
      BY <1>1, <1>2, <3>1, <3>2, Zenon
  <2>2. CASE i = Len(h) + 2
    <3>1. g[i] = out
      BY <1>11, <2>2
    <3> QED
      BY <1>1, <1>2, <3>1
  <2>3. CASE i \in 1..Len(h)
    <3>1. g[i] = h[i] /\ i \in DOMAIN h /\ (i < Len(h) => i < Len(g) /\ g[i + 1] = h[i + 1])
      BY <1>11, <2>3
    <3>2. /\ h[i] # Summary => Has(s, h[i])
          /\ h[i].kind = "call" /\ Has(s, Item("output", h[i].id)) =>
                  i < Len(h) /\ h[i + 1] = Item("output", h[i].id)
      BY <3>1, Zenon DEF Recalls
    <3>3. h[i].kind = "call" => Item("output", h[i].id) # out
      <4>1. h[i] \in Items /\ h[i] # call
        BY <3>1 DEF Has
      <4> QED
        BY <1>1, <4>1 DEF Item, Items
    <3> QED
      BY <1>2, <3>1, <3>2, <3>3, Zenon
  <2> QED
    BY <1>11, <2>1, <2>2, <2>3
<1>13. Recalls(g, Append(s, out))
  BY <1>9, <1>10, <1>12, Zenon DEF Recalls, new
<1> QED
  BY <1>10, <1>13

\* What the property says of it.
LEMMA RecallsAnswered ==
  ASSUME NEW s \in Seq(Items), NEW h \in Seq(Items), Recalls(h, s), ~ Has(s, Summary)
  PROVE  EndsLike(Answered(Only(h, Items \ (Nameless \cup {Summary}))), Answered(Reloaded(s)))
<1> DEFINE set == Recalled(s)
           ours == Items \ (Nameless \cup {Summary})
           kept == Only(h, ours)
           Told(r) == {item \in Items : item.kind = "call" => Has(r, Item("output", item.id))}
<1>1. \A r : Answered(r) = Only(r, Told(r))
  <2> QED
    BY Zenon DEF Answered, Has
<1>2. Answered(Reloaded(s)) = Only(s, set)
  <2>1. PICK r \in Seq(Items) : r = Reloaded(s)
    BY ReloadedIs
  <2>2. \A e : Has(r, e) <=> e \in Items \ Nameless /\ Has(s, e)
    BY <2>1, OnlyHas, Zenon DEF Reloaded
  <2>3. ASSUME NEW i \in DOMAIN s PROVE s[i] \in (Items \ Nameless) \cap Told(r) <=> s[i] \in set
    <3>1. s[i] # Summary /\ s[i] \in Items
      BY DEF Has
    <3>2. s[i].kind = "call" /\ s[i] \notin Nameless => Item("output", s[i].id) \in Items \ Nameless
      BY <3>1 DEF Items, Kinds, Nameless, Item
    <3> QED
      BY <2>2, <3>1, <3>2, Zenon DEF Recalled
  <2> HIDE DEF set, Told
  <2>4. Only(s, (Items \ Nameless) \cap Told(r)) = Only(s, set)
    BY <2>3, OnlyAgrees
  <2>5. PICK named : named = Items \ Nameless
    OBVIOUS
  <2>6. Only(Only(s, named), Told(r)) = Only(s, named \cap Told(r))
    BY OnlyOfOnly
  <2>7. r = Only(s, named)
    BY <2>1, <2>5 DEF Reloaded
  <2> QED
    BY <1>1, <2>1, <2>4, <2>5, <2>6, <2>7, Zenon
<1>3. kept \in Seq(Items) /\ \A e : Has(kept, e) <=> e \in ours /\ Has(h, e)
  <2> HIDE DEF ours
  <2> QED
    BY OnlyHas
<1>4. Answered(kept) = Only(h, ours \cap Told(kept))
  <2>1. Only(Only(h, ours), Told(kept)) = Only(h, ours \cap Told(kept))
    <3> HIDE DEF ours, Told
    <3> QED
      BY OnlyOfOnly
  <2> QED
    BY <1>1, <2>1, Zenon
<1>5. ASSUME NEW i \in DOMAIN h PROVE h[i] \in ours \cap Told(kept) <=> h[i] \in set
  <2>1. h[i] \in Items
    OBVIOUS
  <2>2. ASSUME h[i].kind = "call", h[i] \notin Nameless
        PROVE  Has(kept, Item("output", h[i].id)) <=> Has(s, Item("output", h[i].id))
    <3>1. PICK out \in ours : out = Item("output", h[i].id)
      <4>1. h[i].id \in Nat /\ h[i].id \notin Unnamed
        BY <2>1, <2>2 DEF Items, Nameless
      <4> QED
        BY <4>1, ItemIs DEF Kinds, Summary, Item, Nameless
    <3>2. Has(h, out) => Has(s, out)
      BY DEF Has, Recalls
    <3>3. Has(s, out) => Has(h, out)
      <4>1. ASSUME Has(s, out) PROVE i < Len(h) /\ h[i + 1] = out
        BY <2>2, <3>1, <4>1, Zenon DEF Recalls
      <4>2. i < Len(h) => i + 1 \in DOMAIN h
        OBVIOUS
      <4> QED
        BY <4>1, <4>2, Zenon DEF Has
    <3> QED
      BY <1>3, <3>1, <3>2, <3>3, Zenon
  <2> HIDE DEF kept
  <2> QED
    BY <2>1, <2>2, Zenon DEF Recalled
<1> HIDE DEF set, ours, kept, Told
<1>6. Only(h, ours \cap Told(kept)) = Only(h, set)
  BY <1>5, OnlyAgrees
<1>7. EndsLike(Only(h, set), Only(s, set))
  BY DEF Recalls, set
<1> QED
  BY <1>2, <1>4, <1>6, <1>7 DEF kept, ours

LEMMA AnsweredIs ==
  ASSUME NEW s \in Seq(Items)
  PROVE  Answered(s) \in Seq(Items)
<1>1. PICK set : Answered(s) = Only(s, set)
  BY Zenon DEF Answered
<1> QED
  BY <1>1, OnlyHas

LEMMA EndsLikeIsSuffix ==
  ASSUME NEW s \in Seq(Items), NEW t \in Seq(Items), EndsLike(t, s)
  PROVE  IsSuffix(t, s)
<1>1. PICK p \in Seq(Items) : s = p \o t
  BY DEF EndsLike
<1>2. Len(s) = Len(p) + Len(t) /\ \A i \in 1..Len(t) : s[Len(p) + i] = t[i]
  BY <1>1
<1>3. Len(p) \in Nat /\ Len(t) \in Nat /\ Len(s) - Len(t) = Len(p) /\ Len(t) <= Len(s)
  BY <1>2
<1>4. \A i \in 1..Len(t) : t[i] = s[Len(s) - Len(t) + i]
  BY <1>2, <1>3
<1> QED
  BY <1>3, <1>4, SuffixMeans

-----------------------------------------------------------------------------
(* Memory and store.                                                       *)

\* No summary is stored, and calls are numbered up to n.
Numbered(s, n) ==
  /\ ~ Has(s, Summary) /\ CallsOnce(s)
  /\ \A i \in DOMAIN s : s[i].kind = "call" => s[i].id <= n

LEMMA NumberedMore ==
  ASSUME NEW s \in Seq(Items), NEW n \in Nat, Numbered(s, n),
         NEW e \in Items, e.kind \in {"user", "assistant", "output"}
  PROVE  Numbered(Append(s, e), n)
<1>1. PICK t \in Seq(Items) : t = Append(s, e)
  <2>1. Append(s, e) \in Seq(Items)
    OBVIOUS
  <2> QED
    BY <2>1
<1>2. /\ DOMAIN t = 1..(Len(s) + 1) /\ DOMAIN s = 1..Len(s) /\ Len(s) \in Nat
      /\ t[Len(s) + 1] = e /\ \A i \in 1..Len(s) : t[i] = s[i]
  BY <1>1
<1>3. ASSUME NEW i \in DOMAIN t
      PROVE  (i \in DOMAIN s /\ t[i] = s[i]) \/ t[i] = e
  BY <1>2
<1>4. Summary.kind = "summary"
  BY DEF Summary, Item
<1>5. ~ Has(t, Summary)
  BY <1>3, <1>4 DEF Numbered, Has
<1>6. CallsOnce(t)
  <2>1. SUFFICES ASSUME NEW i \in DOMAIN t, NEW j \in DOMAIN t, t[i].kind = "call", t[j] = t[i]
                 PROVE  i = j
    BY DEF CallsOnce
  <2>2. i \in DOMAIN s /\ t[i] = s[i] /\ j \in DOMAIN s /\ t[j] = s[j]
    BY <1>3, <2>1
  <2> QED
    BY <2>1, <2>2, Zenon DEF Numbered, CallsOnce
<1>7. \A i \in DOMAIN t : t[i].kind = "call" => t[i].id <= n
  BY <1>3 DEF Numbered
<1> QED
  BY <1>1, <1>5, <1>6, <1>7 DEF Numbered

LEMMA NumberedCall ==
  ASSUME NEW s \in Seq(Items), NEW n \in Nat, Numbered(s, n),
         NEW e \in Items, e.kind = "call", e.id = n + 1
  PROVE  Numbered(Append(s, e), n + 1)
<1>1. PICK t \in Seq(Items) : t = Append(s, e)
  <2>1. Append(s, e) \in Seq(Items)
    OBVIOUS
  <2> QED
    BY <2>1
<1>2. /\ DOMAIN t = 1..(Len(s) + 1) /\ DOMAIN s = 1..Len(s) /\ Len(s) \in Nat
      /\ t[Len(s) + 1] = e /\ \A i \in 1..Len(s) : t[i] = s[i]
  BY <1>1
<1>3. ASSUME NEW i \in DOMAIN t
      PROVE  (i \in DOMAIN s /\ t[i] = s[i]) \/ (i = Len(s) + 1 /\ t[i] = e)
  BY <1>2
<1>4. Summary.kind = "summary"
  BY DEF Summary, Item
<1>5. ~ Has(t, Summary)
  BY <1>3, <1>4 DEF Numbered, Has
<1>6. \A i \in DOMAIN s : s[i].kind = "call" => s[i].id \in Nat /\ s[i].id <= n
  <2>1. \A item \in Items : item.id \in Nat
    BY DEF Items
  <2>2. \A i \in DOMAIN s : s[i] \in Items
    OBVIOUS
  <2> QED
    BY <2>1, <2>2 DEF Numbered
<1>7. \A i \in DOMAIN s : s[i].kind = "call" => s[i] # e
  <2>1. \A m \in Nat : m <= n => m # n + 1
    OBVIOUS
  <2> QED
    BY <1>6, <2>1, Zenon
<1>8. CallsOnce(t)
  <2>1. SUFFICES ASSUME NEW i \in DOMAIN t, NEW j \in DOMAIN t, t[i].kind = "call", t[j] = t[i]
                 PROVE  i = j
    BY DEF CallsOnce
  <2>2. CASE i \in DOMAIN s /\ t[i] = s[i] /\ j \in DOMAIN s /\ t[j] = s[j]
    BY <2>1, <2>2, Zenon DEF Numbered, CallsOnce
  <2>3. CASE i = Len(s) + 1 /\ t[i] = e /\ j = Len(s) + 1 /\ t[j] = e
    BY <2>3
  <2> QED
    BY <1>3, <1>7, <2>1, <2>2, <2>3, Zenon
<1>9. \A i \in DOMAIN t : t[i].kind = "call" => t[i].id <= n + 1
  <2>1. ASSUME NEW i \in DOMAIN t, t[i].kind = "call" PROVE t[i].id \in Nat /\ t[i].id <= n + 1
    <3>1. CASE i \in DOMAIN s /\ t[i] = s[i]
      <4>1. t[i].id \in Nat /\ t[i].id <= n
        BY <1>6, <2>1, <3>1
      <4> QED
        BY <4>1
    <3>2. CASE t[i] = e
      BY <3>2
    <3> QED
      BY <1>3, <3>1, <3>2
  <2> QED
    BY <2>1
<1> QED
  BY <1>1, <1>5, <1>8, <1>9 DEF Numbered

\* The call that is handled enters the history with its output only.
NotYetKept == stage \in Handling => ~ Has(history, Item("call", calls))

MemoryInv ==
  /\ HistoryInv /\ Numbered(store, calls)
  /\ Recalls(history, store) /\ NotYetKept

\* A record that is no call, and a history that goes with it.
LEMMA MemoryEnds ==
  ASSUME MemoryInv, NEW h, Recalls(h, store'), Ends(h), store' \in Seq(Items),
         Numbered(store', calls'), HistoryInv'
  PROVE  MemoryInv'
<1>1. Recalls(history', store')
  <2>1. history' = h \/ history' = <<>>
    BY DEF Ends
  <2> QED
    BY <2>1, RecallsNothing
<1>2. stage' \notin Handling
  BY DEF Ends, Handling
<1> QED
  BY <1>1, <1>2 DEF MemoryInv, NotYetKept, Recalls, Numbered

LEMMA MemoryTyped ==
  ASSUME MemoryInv
  PROVE  /\ store \in Seq(Items) /\ history \in Seq(Items) /\ calls \in Nat /\ prompts \in Nat
         /\ PairedOutputs(store) /\ CallsOnce(store) /\ Numbered(store, calls)
         /\ Recalls(history, store)
<1>1. StoreIsPaired /\ RecordsOK
  BY DEF MemoryInv, HistoryInv, IInv
<1>2. PairedOutputs(store)
  BY <1>1 DEF StoreIsPaired, PairedOutputs
<1> QED
  BY <1>1, <1>2 DEF MemoryInv, HistoryInv, RecordsOK, Numbered

LEMMA LoadKeepsMemory ==
  ASSUME MemoryInv, Load
  PROVE  MemoryInv'
<1>1. HistoryInv'
  BY HistoryStep DEF MemoryInv, Next
<1>2. history' = Reloaded(store) /\ store' = store /\ stage' = "idle" /\ calls' = calls
  BY DEF Load, records, counts
<1>3. Recalls(Reloaded(store), store) /\ Numbered(store, calls)
  BY MemoryTyped, RecallsReloaded
<1>4. Recalls(history, store)' /\ Numbered(store, calls)'
  <2>1. Recalls(history', store') /\ Numbered(store', calls')
    BY <1>2, <1>3
  <2> QED
    BY <2>1, Zenon DEF Recalls, Numbered
<1> QED
  BY <1>1, <1>2, <1>4 DEF MemoryInv, NotYetKept, Handling

LEMMA SubmitKeepsMemory ==
  ASSUME MemoryInv, Submit
  PROVE  MemoryInv'
<1>1. HistoryInv'
  BY HistoryStep DEF MemoryInv, Next
<1>2. PICK item \in Items : item = Item("user", prompts') /\ item.kind = "user"
  <2>1. prompts' \in Nat
    BY MemoryTyped DEF Submit
  <2> QED
    BY <2>1, ItemIs DEF Kinds
<1>3. /\ history' = Append(history, item) /\ store' = Append(store, item)
      /\ stage' = "opening" /\ calls' = calls
  BY <1>2 DEF Submit
<1>4. Recalls(Append(history, item), Append(store, item)) /\ Numbered(Append(store, item), calls)
  BY <1>2, MemoryTyped, RecallsMore, NumberedMore
<1>5. Recalls(history, store)' /\ Numbered(store, calls)'
  <2>1. Recalls(history', store') /\ Numbered(store', calls')
    BY <1>3, <1>4
  <2> QED
    BY <2>1, Zenon DEF Recalls, Numbered
<1> QED
  BY <1>1, <1>3, <1>5 DEF MemoryInv, NotYetKept, Handling

\* Whatever the history was shortened to.
LEMMA ShortRecalls ==
  ASSUME MemoryInv, NEW h, ShortOf(h, history)
  PROVE  Recalls(h, store)
BY MemoryTyped, RecallsTail DEF ShortOf

LEMMA GiveUpKeepsMemory ==
  ASSUME MemoryInv, NEW h, ShortOf(h, history), GiveUp(h), HistoryInv'
  PROVE  MemoryInv'
<1>1. store' = store /\ calls' = calls /\ Ends(h)
  BY DEF GiveUp, counts
<1>2. Recalls(h, store') /\ Numbered(store', calls') /\ store' \in Seq(Items)
  BY <1>1, ShortRecalls, MemoryTyped
<1> QED
  BY <1>1, <1>2, MemoryEnds

\* Nothing is recorded, and the history is the same or shorter.
LEMMA ShorterKeepsMemory ==
  ASSUME MemoryInv, HistoryInv', store' = store, calls' = calls,
         ShortOf(history', history), stage' \in Handling => stage \in Handling /\ history' = history
  PROVE  MemoryInv'
<1>1. Recalls(history', store') /\ Numbered(store', calls')
  BY ShortRecalls, MemoryTyped
<1>2. NotYetKept'
  BY DEF MemoryInv, NotYetKept, Has
<1>3. Recalls(history, store)' /\ Numbered(store, calls)'
  BY <1>1, Zenon DEF Recalls, Numbered
<1> QED
  BY <1>2, <1>3 DEF MemoryInv

LEMMA PrepareKeepsMemory ==
  ASSUME MemoryInv, Open \/ Check
  PROVE  MemoryInv'
<1>1. HistoryInv'
  BY HistoryStep DEF MemoryInv, Next
<1>2. PICK h \in Compacted(history) :
        IF Stop THEN GiveUp(h)
        ELSE /\ stage' \in {"checking", "asking"} /\ history' = h
             /\ UNCHANGED <<records, counts>>
  BY DEF Open, Check, Prepare
<1>3. ShortOf(h, history)
  BY MemoryTyped, CompactedIsShort
<1>4. CASE Stop
  BY <1>1, <1>2, <1>3, <1>4, GiveUpKeepsMemory
<1>5. CASE ~Stop
  <2>1. history' = h /\ store' = store /\ calls' = calls /\ stage' \notin Handling
    BY <1>2, <1>5 DEF records, counts, Handling
  <2>2. ShortOf(history', history)
    BY <1>3, <2>1
  <2> QED
    BY <1>1, <2>1, <2>2, ShorterKeepsMemory
<1> QED
  BY <1>4, <1>5

LEMMA AskKeepsMemory ==
  ASSUME MemoryInv, Ask
  PROVE  MemoryInv'
<1>1. HistoryInv'
  BY HistoryStep DEF MemoryInv, Next
<1>2. ShortOf(history, history) /\ history \in Seq(Items) /\ retries + 1 \in Nat
  <2>1. retries \in Nat
    BY DEF MemoryInv, HistoryInv
  <2> QED
    BY <2>1, MemoryTyped, ItselfIsShort
<1>3. CASE AskAborted
  BY <1>1, <1>2, <1>3, GiveUpKeepsMemory DEF AskAborted
<1>4. CASE AskFailed
  <2>1. Ends(history) /\ store' = store /\ calls' = calls
    BY <1>4 DEF AskFailed, records, counts
  <2>2. Recalls(history, store') /\ Numbered(store', calls') /\ store' \in Seq(Items)
    BY <2>1, MemoryTyped
  <2> QED
    BY <1>1, <2>1, <2>2, MemoryEnds
<1>5. CASE Overflow
  <2>1. /\ history' \in ShrunkOrCompacted(history, retries + 1) /\ stage' \notin Handling
        /\ store' = store /\ calls' = calls
    BY <1>5 DEF Overflow, records, counts, Handling
  <2>2. ShortOf(history', history)
    BY <1>2, <2>1, RetryIsShort
  <2> QED
    BY <1>1, <2>1, <2>2, ShorterKeepsMemory
<1>6. CASE GetText \/ GetCalls
  <2>1. history' = history /\ store' = store /\ calls' = calls /\ stage' \notin Handling
    BY <1>6 DEF GetText, GetCalls, records, counts, Handling
  <2>2. ShortOf(history', history)
    BY <1>2, <2>1
  <2> QED
    BY <1>1, <2>1, <2>2, ShorterKeepsMemory
<1> QED
  BY <1>3, <1>4, <1>5, <1>6 DEF Ask

\* The number of the next call is new.
LEMMA NextCallIsNew ==
  ASSUME MemoryInv, NEW e \in Items, e.kind = "call", e.id = calls + 1
  PROVE  ~ Has(store, e) /\ ~ Has(history, e) /\ ~ Has(store, Item("output", e.id))
<1>1. ~ Has(store, e)
  <2>1. SUFFICES ASSUME NEW i \in DOMAIN store, store[i] = e PROVE FALSE
    BY DEF Has
  <2>2. e.id <= calls /\ calls \in Nat
    BY <2>1, MemoryTyped DEF Numbered
  <2> QED
    BY <2>2
<1>2. ~ Has(history, e)
  <2>1. e # Summary
    BY DEF Summary, Item
  <2> QED
    BY <1>1, <2>1, MemoryTyped, Zenon DEF Recalls, Has
<1>3. ~ Has(store, Item("output", e.id))
  <2>1. SUFFICES ASSUME NEW j \in DOMAIN store, store[j] = Item("output", e.id) PROVE FALSE
    BY DEF Has
  <2>2. store[j].kind = "output" /\ store[j].id = e.id
    BY <2>1 DEF Item
  <2>3. j > 1 /\ store[j - 1] = Item("call", e.id)
    BY <2>2, MemoryTyped DEF PairedOutputs
  <2>4. e = Item("call", e.id)
    BY DEF Items, Item
  <2>5. j - 1 \in DOMAIN store
    BY <2>3, MemoryTyped
  <2> QED
    BY <1>1, <2>3, <2>4, <2>5, Zenon DEF Has
<1> QED
  BY <1>1, <1>2, <1>3

LEMMA StoreCallKeepsMemory ==
  ASSUME MemoryInv, StoreCall, ~Stop
  PROVE  MemoryInv'
<1>1. HistoryInv'
  BY HistoryStep DEF MemoryInv, Next, Call
<1>2. PICK call \in Items : call = Item("call", calls + 1) /\ call.kind = "call" /\ call.id = calls + 1
  <2>1. calls + 1 \in Nat
    BY MemoryTyped
  <2> QED
    BY <2>1, ItemIs DEF Kinds
<1>3. history' = history /\ store' = Append(store, call) /\ calls' = calls + 1
  BY <1>2 DEF StoreCall
<1>4. ~ Has(history, call) /\ ~ Has(store, Item("output", call.id))
  BY <1>2, NextCallIsNew, Zenon
<1>5. Recalls(history, Append(store, call))
  BY <1>2, <1>4, MemoryTyped, RecallsWithoutCall
<1>6. Numbered(Append(store, call), calls + 1)
  BY <1>2, MemoryTyped, NumberedCall
<1>7. Recalls(history, store)' /\ Numbered(store, calls)'
  <2>1. Recalls(history', store') /\ Numbered(store', calls')
    BY <1>3, <1>5, <1>6
  <2> QED
    BY <2>1, Zenon DEF Recalls, Numbered
<1>8. NotYetKept'
  <2>1. ~ Has(history', Item("call", calls'))
    BY <1>2, <1>3, <1>4
  <2> QED
    BY <2>1 DEF NotYetKept, Has
<1> QED
  BY <1>1, <1>7, <1>8 DEF MemoryInv

LEMMA ReplyKeepsMemory ==
  ASSUME MemoryInv, Reply
  PROVE  MemoryInv'
<1>1. HistoryInv'
  BY HistoryStep DEF MemoryInv, Next, Call
<1>2. PICK call \in Items, out \in Items :
        /\ call = Item("call", calls) /\ call.kind = "call" /\ call.id = calls
        /\ out = Item("output", calls) /\ out.kind = "output"
  <2>1. calls \in Nat
    BY MemoryTyped
  <2> QED
    BY <2>1, ItemIs DEF Kinds
<1>3. /\ history' = history \o <<call, out>> /\ store' = Append(store, out) /\ calls' = calls
      /\ stage' \notin Handling
  BY <1>2 DEF Reply, counts, Handling
<1>4. history \o <<call, out>> = Append(Append(history, call), out)
  BY MemoryTyped
<1>5. store # <<>> /\ store[Len(store)] = call /\ ~ Has(history, call)
  <2>1. stage \in Handling
    BY DEF Reply, Handling
  <2> QED
    BY <1>2, <2>1 DEF MemoryInv, HistoryInv, IInv, OpenCallIsLast, NotYetKept
<1>6. Recalls(Append(Append(history, call), out), Append(store, out))
  BY <1>2, <1>5, MemoryTyped, RecallsPair
<1>7. Numbered(Append(store, out), calls)
  BY <1>2, MemoryTyped, NumberedMore
<1>8. Recalls(history, store)' /\ Numbered(store, calls)'
  <2>1. Recalls(history', store') /\ Numbered(store', calls')
    BY <1>3, <1>4, <1>6, <1>7, Zenon
  <2> QED
    BY <2>1, Zenon DEF Recalls, Numbered
<1> QED
  BY <1>1, <1>3, <1>8 DEF MemoryInv, NotYetKept

LEMMA CallKeepsMemory ==
  ASSUME MemoryInv, Call
  PROVE  MemoryInv'
<1>1. HistoryInv'
  BY HistoryStep DEF MemoryInv, Next
<1>2. ShortOf(history, history)
  BY MemoryTyped, ItselfIsShort
<1>3. CASE GiveUp(history)
  BY <1>1, <1>2, <1>3, GiveUpKeepsMemory
<1>4. CASE UNCHANGED <<history, records, counts>> /\ stage \in Handling
  <2>1. history' = history /\ store' = store /\ calls' = calls
    BY <1>4 DEF records, counts
  <2>2. ShortOf(history', history)
    BY <1>2, <2>1
  <2> QED
    BY <1>1, <1>4, <2>1, <2>2, ShorterKeepsMemory
<1> QED
  BY <1>3, <1>4, StoreCallKeepsMemory, ReplyKeepsMemory
     DEF Call, StoreCall, Approve, Run, Handling

LEMMA OthersKeepMemory ==
  ASSUME MemoryInv, Answer \/ StoreFails \/ Abort \/ Die \/ UNCHANGED vars
  PROVE  MemoryInv'
<1>1. HistoryInv'
  BY HistoryStep DEF MemoryInv, Next
<1>2. CASE Answer
  <2>1. PICK item \in Items : item = Item("assistant", prompts) /\ item.kind = "assistant"
    <3>1. prompts \in Nat
      BY MemoryTyped
    <3> QED
      BY <3>1, ItemIs DEF Kinds
  <2>2. /\ Ends(Append(history, item)) /\ store' = Append(store, item) /\ calls' = calls
    BY <1>2, <2>1 DEF Answer, counts
  <2>3. /\ Recalls(Append(history, item), Append(store, item))
        /\ Numbered(Append(store, item), calls)
    BY <2>1, MemoryTyped, RecallsMore, NumberedMore
  <2>4. Append(store, item) \in Seq(Items)
    BY MemoryTyped
  <2>5. /\ Recalls(Append(history, item), store') /\ Numbered(store', calls')
        /\ store' \in Seq(Items)
    BY <2>2, <2>3, <2>4
  <2> QED
    BY <1>1, <2>2, <2>5, MemoryEnds
<1>3. CASE StoreFails \/ Die
  <2>1. history' = <<>> /\ store' = store /\ stage' \notin Handling /\ calls' = calls
    BY <1>3 DEF StoreFails, Die, Off, counts, Handling
  <2>2. Recalls(history', store') /\ Numbered(store', calls')
    BY <2>1, MemoryTyped, RecallsNothing
  <2>3. Recalls(history, store)' /\ Numbered(store, calls)'
    BY <2>2, Zenon DEF Recalls, Numbered
  <2> QED
    BY <1>1, <2>1, <2>3 DEF MemoryInv, NotYetKept
<1>4. CASE Abort \/ UNCHANGED vars
  <2>1. history' = history /\ store' = store /\ stage' = stage /\ calls' = calls
    BY <1>4 DEF Abort, vars, records, counts
  <2>2. ShortOf(history', history)
    BY <2>1, MemoryTyped, ItselfIsShort
  <2> QED
    BY <1>1, <2>1, <2>2, ShorterKeepsMemory
<1> QED
  BY <1>2, <1>3, <1>4

LEMMA MemoryStep == MemoryInv /\ [Next]_vars => MemoryInv'
BY LoadKeepsMemory, SubmitKeepsMemory, PrepareKeepsMemory, AskKeepsMemory,
   CallKeepsMemory, OthersKeepMemory DEF Next

LEMMA MemoryStarts == Init => MemoryInv
<1> SUFFICES ASSUME Init PROVE MemoryInv
  OBVIOUS
<1>1. HistoryInv
  BY HistoryStarts
<1>2. store = <<>> /\ history = <<>> /\ stage = "off"
  BY DEF Init
<1>3. <<>> \in Seq(Items) /\ DOMAIN <<>> = {}
  OBVIOUS
<1>4. Recalls(history, store)
  BY <1>2, <1>3, RecallsNothing
<1>5. Numbered(store, calls)
  BY <1>2, <1>3 DEF Numbered, Has, CallsOnce
<1> QED
  BY <1>1, <1>2, <1>4, <1>5 DEF MemoryInv, NotYetKept, Handling

\* Whatever was cut, retried, aborted, crashed and loaded again, the history
\* ends like the store, but for summaries, for calls that got no output and for
\* calls without an id and their outputs.
THEOREM HistoryEndsAlike == Spec => []HistoryEndsLikeStore
<1>1. ASSUME MemoryInv PROVE HistoryEndsLikeStore
  <2>typed. /\ history \in Seq(Items) /\ store \in Seq(Items)
            /\ Recalls(history, store) /\ ~ Has(store, Summary)
    BY <1>1, MemoryTyped DEF Numbered
  <2>1. PICK kept \in Seq(Items), said \in Seq(Items) :
          kept = Only(history, Items \ (Nameless \cup {Summary})) /\ said = Reloaded(store)
    BY <2>typed, OnlyHas, ReloadedIs
  <2>2. EndsLike(Answered(kept), Answered(said))
    BY <2>typed, <2>1, RecallsAnswered
  <2>3. Answered(kept) \in Seq(Items) /\ Answered(said) \in Seq(Items)
    BY <2>1, AnsweredIs
  <2> QED
    BY <2>1, <2>2, <2>3, EndsLikeIsSuffix DEF HistoryEndsLikeStore, Reloaded
<1> QED
  BY MemoryStarts, MemoryStep, <1>1, PTL DEF Spec
=============================================================================
