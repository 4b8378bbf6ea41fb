----------------------------- MODULE RecordsProofs -----------------------------
(***************************************************************************)
(* The parts of MCRecords that TurnHistoryProofs and EditingProofs do not   *)
(* treat: the credentials, the schema of the database, the graph of the     *)
(* tasks, the answer that is streamed and the files a rename changes, for   *)
(* any values of the constants; and all parts together.                     *)
(***************************************************************************)
EXTENDS MCRecords, EditingProofs

-----------------------------------------------------------------------------
(* The credentials.                                                        *)

\* What anybody may come to write can be used: the copies are usable as well.
CopiesUsable == \A a \in Cred!Actors : Cred!Usable(copy[a])

StoreInv ==
  /\ stored \in Cred!Credentials /\ copy \in [Cred!Actors -> Cred!Credentials] /\ tokens \in Nat
  /\ Cred!ActiveIsUsable /\ CopiesUsable

\* The empty store, and what a login or a refresh makes of a usable one.
LEMMA ChangesAreUsable ==
  /\ Cred!NoLogin \in Cred!Credentials /\ Cred!Usable(Cred!NoLogin)
  /\ Cred!OlderStore \in Cred!Credentials /\ Cred!Usable(Cred!OlderStore)
  /\ \A c \in Cred!Credentials, t \in Nat \ {0} :
       /\ Cred!WithOpenAi(c, t) \in Cred!Credentials /\ Cred!Usable(Cred!WithOpenAi(c, t))
       /\ Cred!Usable(c) => /\ Cred!WithZai(c) \in Cred!Credentials /\ Cred!Usable(Cred!WithZai(c))
                       /\ [c EXCEPT !.openai = t] \in Cred!Credentials
                       /\ Cred!Usable([c EXCEPT !.openai = t])
<1>1. Cred!NoLogin \in Cred!Credentials /\ Cred!Usable(Cred!NoLogin)
  BY DEF Cred!NoLogin, Cred!Credentials, Cred!Providers, Cred!Usable
<1>2. Cred!OlderStore \in Cred!Credentials /\ Cred!Usable(Cred!OlderStore)
  BY DEF Cred!OlderStore, Cred!Credentials, Cred!Providers, Cred!Usable
<1>3. ASSUME NEW c \in Cred!Credentials, NEW t \in Nat \ {0}
      PROVE  Cred!WithOpenAi(c, t) \in Cred!Credentials /\ Cred!Usable(Cred!WithOpenAi(c, t))
  BY <1>3 DEF Cred!WithOpenAi, Cred!Credentials, Cred!Providers, Cred!Usable
<1>4. ASSUME NEW c \in Cred!Credentials
      PROVE  Cred!WithZai(c) \in Cred!Credentials /\ Cred!Usable(Cred!WithZai(c))
  BY <1>4 DEF Cred!WithZai, Cred!Credentials, Cred!Providers, Cred!Usable
<1>5. ASSUME NEW c \in Cred!Credentials, NEW t \in Nat \ {0}, Cred!Usable(c)
      PROVE  [c EXCEPT !.openai = t] \in Cred!Credentials /\ Cred!Usable([c EXCEPT !.openai = t])
  BY <1>5 DEF Cred!Credentials, Cred!Providers, Cred!Usable
<1> QED
  BY <1>1, <1>2, <1>3, <1>4, <1>5

\* A step that gives one actor a usable copy.
LEMMA CopyKeeps ==
  ASSUME StoreInv, NEW a \in Cred!Actors, NEW c \in Cred!Credentials, Cred!Usable(c),
         copy' = [copy EXCEPT ![a] = c], UNCHANGED stored, tokens' \in Nat
  PROVE  StoreInv'
  BY DEF StoreInv, Cred!ActiveIsUsable, CopiesUsable, Cred!Usable

\* The end of what an actor does.
LEMMA EndsKeepStore ==
  ASSUME StoreInv, NEW a \in Cred!Actors, Cred!Ends(a), UNCHANGED <<stored, tokens>>
  PROVE  StoreInv'
  BY CopyKeeps, ChangesAreUsable DEF Cred!Ends, StoreInv

\* The steps of a save.
LEMMA SaveKeeps ==
  ASSUME StoreInv, NEW a \in Cred!Actors,
         Cred!Truncate(a) \/ Cred!Write(a) \/ Cred!VaultSave(a) \/ Cred!SaveFails(a) \/ Cred!Saved(a)
  PROVE  StoreInv'
<1>1. CASE Cred!Truncate(a)
  BY <1>1 DEF Cred!Truncate, StoreInv, Cred!ActiveIsUsable, CopiesUsable
<1>2. stored' \in {stored, copy[a]} /\ copy' \in {copy, [copy EXCEPT ![a] = Cred!NoLogin]}
        /\ UNCHANGED tokens => StoreInv'
  <2> SUFFICES ASSUME stored' \in {stored, copy[a]}, UNCHANGED tokens,
                      copy' \in {copy, [copy EXCEPT ![a] = Cred!NoLogin]}
               PROVE  StoreInv'
    OBVIOUS
  <2>1. stored' \in Cred!Credentials /\ Cred!ActiveIsUsable'
    BY DEF StoreInv, Cred!ActiveIsUsable, CopiesUsable, Cred!Usable
  <2>2. copy' \in [Cred!Actors -> Cred!Credentials] /\ CopiesUsable'
    BY ChangesAreUsable DEF StoreInv, CopiesUsable, Cred!Usable
  <2> QED
    BY <2>1, <2>2 DEF StoreInv
<1>3. CASE Cred!Write(a)
  BY <1>2, <1>3 DEF Cred!Write, Cred!Fails, Cred!Ends
<1>4. CASE Cred!VaultSave(a)
  BY <1>2, <1>4 DEF Cred!VaultSave, Cred!Fails, Cred!Ends
<1>5. CASE Cred!SaveFails(a)
  BY <1>2, <1>5 DEF Cred!SaveFails, Cred!Fails, Cred!Ends, Cred!store
<1>6. CASE Cred!Saved(a)
  BY <1>2, <1>6 DEF Cred!Saved, Cred!Ends, Cred!store
<1> QED
  BY <1>1, <1>3, <1>4, <1>5, <1>6

\* A worker refreshes its tokens.
LEMMA RefreshKeeps ==
  ASSUME StoreInv, NEW w \in Workers, Cred!Refresh(w) \/ Cred!Refreshed(w) \/ Cred!RefreshFails(w)
  PROVE  StoreInv'
<1>1. w \in Cred!Actors
  BY DEF Cred!Actors
<1>2. CASE Cred!Refresh(w)
  BY <1>1, <1>2, CopyKeeps DEF Cred!Refresh, StoreInv, Cred!ActiveIsUsable, Cred!store
<1>3. CASE Cred!Refreshed(w)
  <2>1. copy[w] \in Cred!Credentials /\ Cred!Usable(copy[w]) /\ tokens' \in Nat \ {0}
    BY <1>1, <1>3 DEF Cred!Refreshed, StoreInv, CopiesUsable
  <2>2. [copy[w] EXCEPT !.openai = tokens'] \in Cred!Credentials
        /\ Cred!Usable([copy[w] EXCEPT !.openai = tokens'])
    BY <2>1, ChangesAreUsable
  <2> QED
    BY <1>1, <1>3, <2>1, <2>2, CopyKeeps DEF Cred!Refreshed, Cred!Saves, Cred!store
<1>4. CASE Cred!RefreshFails(w)
  BY <1>1, <1>4, EndsKeepStore DEF Cred!RefreshFails, Cred!store
<1> QED
  BY <1>2, <1>3, <1>4

\* Somebody logs in, or a tab replaces a store that cannot be read.
LEMMA LoginKeeps ==
  ASSUME StoreInv, NEW p \in Cred!People, Cred!Exchanged(p) \/ Cred!LoginZai(p) \/ Cred!ResetStore(p)
  PROVE  StoreInv'
<1>1. p \in Cred!Actors
  BY DEF Cred!Actors
<1>2. CASE Cred!Exchanged(p)
  <2>1. stored \in Cred!Credentials /\ tokens' \in Nat \ {0}
    BY <1>2 DEF Cred!Exchanged, StoreInv
  <2>2. Cred!WithOpenAi(stored, tokens') \in Cred!Credentials /\ Cred!Usable(Cred!WithOpenAi(stored, tokens'))
    BY <2>1, ChangesAreUsable
  <2> QED
    BY <1>1, <1>2, <2>1, <2>2, CopyKeeps DEF Cred!Exchanged, Cred!Saves, Cred!store
<1>3. CASE Cred!LoginZai(p)
  <2>1. Cred!WithZai(stored) \in Cred!Credentials /\ Cred!Usable(Cred!WithZai(stored))
    <3>1. stored \in Cred!Credentials /\ Cred!Usable(stored)
      BY DEF StoreInv, Cred!ActiveIsUsable
    <3>2. 1 \in Nat \ {0}
      OBVIOUS
    <3> QED
      BY <3>1, <3>2, ChangesAreUsable
  <2> QED
    BY <1>1, <1>3, <2>1, CopyKeeps DEF Cred!LoginZai, Cred!Saves, Cred!store, StoreInv
<1>4. CASE Cred!ResetStore(p)
  BY <1>1, <1>4, CopyKeeps, ChangesAreUsable DEF Cred!ResetStore, Cred!Saves, Cred!store, StoreInv
<1> QED
  BY <1>2, <1>3, <1>4

\* Everything else leaves the store and the copies alone, or drops copies.
LEMMA OthersKeep ==
  ASSUME StoreInv,
         \/ \E p \in Cred!People :
              \/ Cred!StartLogin(p) \/ Cred!ExchangeFails(p) \/ Cred!Close(p)
              \/ \E flow \in 1..flows, url \in BOOLEAN :
                   Cred!Callback(p, flow, url) \/ Cred!Heard(p, flow, url)
         \/ Cred!Overdue \/ Cred!TokensEnd \/ Cred!Die \/ UNCHANGED Cred!vars
  PROVE  StoreInv'
<1>1. UNCHANGED <<stored, copy, tokens>> => StoreInv'
  BY DEF StoreInv, Cred!ActiveIsUsable, CopiesUsable
<1>2. ASSUME NEW p \in Cred!People,
             \/ Cred!StartLogin(p) \/ Cred!ExchangeFails(p) \/ Cred!Close(p)
             \/ \E flow \in 1..flows, url \in BOOLEAN :
                  Cred!Callback(p, flow, url) \/ Cred!Heard(p, flow, url)
      PROVE  StoreInv'
  <2>1. CASE Cred!ExchangeFails(p)
    <3>1. Cred!Ends(p) /\ p \in Cred!Actors /\ UNCHANGED <<stored, tokens>>
      BY <2>1 DEF Cred!ExchangeFails, Cred!Fails, Cred!Actors, Cred!store
    <3> QED
      BY <3>1, EndsKeepStore
  <2>2. CASE ~Cred!ExchangeFails(p)
    BY <1>1, <1>2, <2>2
    DEF Cred!StartLogin, Cred!Close, Cred!Callback, Cred!Heard, Cred!Exchange, Cred!store, Cred!actors
  <2> QED
    BY <2>1, <2>2
<1>3. CASE Cred!Overdue \/ Cred!TokensEnd \/ UNCHANGED Cred!vars
  BY <1>1, <1>3 DEF Cred!Overdue, Cred!TokensEnd, Cred!vars, Cred!store, Cred!actors
<1>4. CASE Cred!Die
  <2>1. copy' = [a \in Cred!Actors |-> IF a \in Terminals THEN copy[a] ELSE Cred!NoLogin]
        /\ UNCHANGED <<stored, tokens>>
    BY <1>4 DEF Cred!Die, Cred!store
  <2>2. copy' \in [Cred!Actors -> Cred!Credentials] /\ CopiesUsable'
    BY <2>1, ChangesAreUsable DEF StoreInv, CopiesUsable, Cred!Usable
  <2> QED
    BY <2>1, <2>2 DEF StoreInv, Cred!ActiveIsUsable
<1> QED
  BY <1>2, <1>3, <1>4

\* Every step keeps the invariant.
LEMMA StoreStepKeeps ==
  ASSUME StoreInv, [Cred!Next]_(Cred!vars)
  PROVE  StoreInv'
  BY SaveKeeps, RefreshKeeps, LoginKeeps, OthersKeep DEF Cred!Next

\* It holds at first.
LEMMA StoreInitHolds == Cred!Init => StoreInv
  BY ChangesAreUsable DEF Cred!Init, StoreInv, Cred!ActiveIsUsable, CopiesUsable

\* However old the copy that was written last, the provider the store names has
\* its credentials there (resolve_auth, CredentialStore::save).
THEOREM ActiveHasCredentials == Cred!Spec => []ActiveIsUsable
<1>1. StoreInv /\ [Cred!Next]_(Cred!vars) => StoreInv'
  BY StoreStepKeeps
<1>2. StoreInv => ActiveIsUsable
  BY DEF StoreInv, ActiveIsUsable
<1> QED
  BY StoreInitHolds, <1>1, <1>2, PTL DEF Cred!Spec

\* Nothing is held that has not been given out.
GivenOut ==
  /\ \A p \in Cred!People : pending[p] <= flows
  /\ stored.openai <= tokens /\ \A a \in Cred!Actors : copy[a].openai <= tokens

LEMMA CredTypesStart == Cred!Init => Cred!TypeOK /\ GivenOut
<1> SUFFICES ASSUME Cred!Init PROVE Cred!TypeOK /\ GivenOut
  OBVIOUS
<1>1. Cred!NoLogin \in Cred!Credentials /\ Cred!OlderStore \in Cred!Credentials
  BY DEF Cred!NoLogin, Cred!OlderStore, Cred!Credentials, Cred!Providers
<1>2. MaxFlows \in Nat /\ MaxTokens \in Nat
  BY RecordsAssumption
<1>3. /\ stored \in Cred!Credentials /\ copy \in [Cred!Actors -> Cred!Credentials]
      /\ pc \in [Cred!Actors -> {"idle", "refreshing", "exchanging", "refused", "saving",
                                 "writing", "saved"}]
  BY <1>1 DEF Cred!Init
<1>4. 0 \in 0..MaxFlows /\ 0 \in 0..MaxTokens
  BY <1>2
<1>5. held \in [Cred!Actors -> 0..MaxFlows] /\ pending \in [Cred!People -> 0..MaxFlows]
  BY <1>4 DEF Cred!Init
<1>6. GivenOut
  BY DEF Cred!Init, GivenOut, Cred!NoLogin, Cred!OlderStore
<1> QED
  BY <1>3, <1>4, <1>5, <1>6 DEF Cred!Init, Cred!TypeOK

LEMMA CredEndsKeeps ==
  ASSUME Cred!TypeOK, NEW a \in Cred!Actors, Cred!Ends(a)
  PROVE  /\ pc' \in [Cred!Actors -> {"idle", "refreshing", "exchanging", "refused", "saving",
                                     "writing", "saved"}]
         /\ copy' \in [Cred!Actors -> Cred!Credentials]
         /\ held' \in [Cred!Actors -> 0..MaxFlows]
<1>1. Cred!NoLogin \in Cred!Credentials
  BY DEF Cred!NoLogin, Cred!Credentials, Cred!Providers
<1>2. 0 \in 0..MaxFlows
  BY RecordsAssumption
<1> QED
  BY <1>1, <1>2 DEF Cred!TypeOK, Cred!Ends, Cred!Goes

\* What fails ends, and a terminal's flow with it.
LEMMA CredFailsKeeps ==
  ASSUME Cred!TypeOK, NEW a \in Cred!Actors, Cred!Fails(a)
  PROVE  Cred!Ends(a) /\ pending' \in [Cred!People -> 0..MaxFlows]
<1>1. 0 \in 0..MaxFlows
  BY RecordsAssumption
<1>2. pending' \in {pending, [pending EXCEPT ![a] = 0]}
  BY DEF Cred!Fails
<1> QED
  BY <1>1, <1>2 DEF Cred!Fails, Cred!TypeOK

LEMMA CredTypesStay ==
  ASSUME Cred!TypeOK, GivenOut, [Cred!Next]_(Cred!vars)
  PROVE  Cred!TypeOK'
<1> DEFINE Steps == {"idle", "refreshing", "exchanging", "refused", "saving", "writing", "saved"}
<1>1. MaxFlows \in Nat /\ MaxTokens \in Nat
  BY RecordsAssumption
<1>2. Cred!NoLogin \in Cred!Credentials
  BY DEF Cred!NoLogin, Cred!Credentials, Cred!Providers
<1>3. Cred!People \subseteq Cred!Actors /\ Workers \subseteq Cred!Actors
  BY DEF Cred!Actors
<1>4. \A c \in Cred!Credentials : \A n \in Nat :
        /\ [c EXCEPT !.openai = n] \in Cred!Credentials
        /\ Cred!WithOpenAi(c, n) \in Cred!Credentials /\ Cred!WithZai(c) \in Cred!Credentials
  BY DEF Cred!Credentials, Cred!Providers, Cred!WithOpenAi, Cred!WithZai
<1>5. ASSUME NEW a \in Cred!Actors, NEW c \in Cred!Credentials, Cred!Saves(a, c)
      PROVE  pc' \in [Cred!Actors -> Steps] /\ copy' \in [Cred!Actors -> Cred!Credentials]
  BY <1>5 DEF Cred!Saves, Cred!Goes, Cred!TypeOK
<1>6. ASSUME NEW a \in Cred!Actors,
             Cred!Truncate(a) \/ Cred!Write(a) \/ Cred!VaultSave(a) \/ Cred!SaveFails(a)
      PROVE  Cred!TypeOK'
  <2>1. \/ Cred!Fails(a)
        \/ UNCHANGED <<copy, held, pending>> /\ \E n \in Steps : Cred!Goes(a, n)
    BY <1>6 DEF Cred!Truncate, Cred!Write, Cred!VaultSave, Cred!SaveFails, Cred!logins
  <2>2. /\ pc' \in [Cred!Actors -> Steps] /\ copy' \in [Cred!Actors -> Cred!Credentials]
        /\ held' \in [Cred!Actors -> 0..MaxFlows] /\ pending' \in [Cred!People -> 0..MaxFlows]
    BY <2>1, CredFailsKeeps, CredEndsKeeps DEF Cred!TypeOK, Cred!Goes
  <2>3. stored' \in {stored, copy[a]} /\ torn' \in BOOLEAN
    BY <1>6 DEF Cred!Truncate, Cred!Write, Cred!VaultSave, Cred!SaveFails, Cred!store, Cred!TypeOK
  <2>4. UNCHANGED <<backend, flows, overdue, tokens, stale>>
    BY <1>6 DEF Cred!Truncate, Cred!Write, Cred!VaultSave, Cred!SaveFails, Cred!store, Cred!logins
  <2> QED
    BY <2>2, <2>3, <2>4 DEF Cred!TypeOK
<1>7. ASSUME NEW a \in Cred!Actors, Cred!Saved(a) PROVE Cred!TypeOK'
  <2>1. pending' \in [Cred!People -> 0..MaxFlows]
    <3>1. 0 \in 0..MaxFlows /\ pending \in [Cred!People -> 0..MaxFlows]
      BY <1>1 DEF Cred!TypeOK
    <3>2. [pending EXCEPT ![a] = 0] \in [Cred!People -> 0..MaxFlows]
      BY <3>1
    <3>3. pending' \in {pending, [pending EXCEPT ![a] = 0]}
      BY <1>7 DEF Cred!Saved
    <3> QED
      BY <3>1, <3>2, <3>3
  <2> QED
    BY <1>7, <2>1, CredEndsKeeps DEF Cred!Saved, Cred!TypeOK, Cred!store
<1>8. ASSUME NEW w \in Workers, Cred!Refresh(w) \/ Cred!Refreshed(w) \/ Cred!RefreshFails(w)
      PROVE  Cred!TypeOK'
  <2>1. CASE Cred!Refresh(w)
    BY <1>3, <2>1 DEF Cred!Refresh, Cred!Goes, Cred!TypeOK, Cred!store, Cred!logins
  <2>2. CASE Cred!Refreshed(w)
    <3>1. tokens' \in 0..MaxTokens /\ tokens' \in Nat /\ stale \subseteq 1..tokens'
      BY <1>1, <2>2 DEF Cred!Refreshed, Cred!TypeOK
    <3>2. [copy[w] EXCEPT !.openai = tokens'] \in Cred!Credentials
      BY <1>3, <1>4, <3>1 DEF Cred!TypeOK
    <3>3. Cred!Saves(w, [copy[w] EXCEPT !.openai = tokens'])
      BY <2>2 DEF Cred!Refreshed
    <3>4. pc' \in [Cred!Actors -> Steps] /\ copy' \in [Cred!Actors -> Cred!Credentials]
      BY <1>3, <1>5, <3>2, <3>3
    <3> QED
      BY <2>2, <3>1, <3>4 DEF Cred!Refreshed, Cred!TypeOK, Cred!store, Cred!logins
  <2>3. CASE Cred!RefreshFails(w)
    <3>1. Cred!Ends(w)
      BY <2>3 DEF Cred!RefreshFails
    <3> QED
      BY <1>3, <2>3, <3>1, CredEndsKeeps
      DEF Cred!RefreshFails, Cred!TypeOK, Cred!store, Cred!logins
  <2> QED
    BY <1>8, <2>1, <2>2, <2>3
<1>9. ASSUME NEW p \in Cred!People, Cred!StartLogin(p) PROVE Cred!TypeOK'
  <2>1. /\ flows' \in 1..MaxFlows /\ overdue \subseteq 1..flows'
    BY <1>1, <1>9 DEF Cred!StartLogin, Cred!TypeOK
  <2>2. Cred!Live(pending) \in [Cred!People -> 0..MaxFlows]
    BY <1>1 DEF Cred!Live, Cred!TypeOK
  <2>3. pending' \in [Cred!People -> 0..MaxFlows]
    BY <1>1, <1>9, <2>1, <2>2 DEF Cred!StartLogin, Cred!Begun
  <2>4. flows' \in 0..MaxFlows
    BY <1>1, <2>1
  <2> QED
    BY <1>9, <2>1, <2>3, <2>4 DEF Cred!StartLogin, Cred!TypeOK, Cred!store, Cred!actors
<1>10. ASSUME NEW p \in Cred!People, Cred!ExchangeFails(p) \/ Cred!Close(p) PROVE Cred!TypeOK'
  <2>1. 0 \in 0..MaxFlows /\ p \in Cred!Actors
    BY <1>1, <1>3
  <2>2. CASE Cred!ExchangeFails(p)
    <3>1. Cred!Fails(p)
      BY <2>2 DEF Cred!ExchangeFails
    <3>2. /\ pc' \in [Cred!Actors -> Steps] /\ copy' \in [Cred!Actors -> Cred!Credentials]
          /\ held' \in [Cred!Actors -> 0..MaxFlows] /\ pending' \in [Cred!People -> 0..MaxFlows]
      BY <2>1, <3>1, CredFailsKeeps, CredEndsKeeps
    <3> QED
      BY <2>2, <3>2 DEF Cred!ExchangeFails, Cred!store, Cred!TypeOK
  <2>3. CASE Cred!Close(p)
    <3>1. pending' \in [Cred!People -> 0..MaxFlows]
      BY <2>1, <2>3 DEF Cred!Close, Cred!TypeOK
    <3> QED
      BY <2>3, <3>1 DEF Cred!Close, Cred!store, Cred!actors, Cred!TypeOK
  <2> QED
    BY <1>10, <2>2, <2>3
<1>11. ASSUME NEW p \in Cred!People,
              Cred!Exchanged(p) \/ Cred!LoginZai(p) \/ Cred!ResetStore(p)
       PROVE  Cred!TypeOK'
  <2>1. tokens' \in 0..MaxTokens /\ tokens' \in Nat /\ stale \subseteq 1..tokens'
    BY <1>1, <1>11 DEF Cred!Exchanged, Cred!LoginZai, Cred!ResetStore, Cred!TypeOK
  <2>2. \E c \in Cred!Credentials : Cred!Saves(p, c)
    BY <1>2, <1>4, <1>11, <2>1 DEF Cred!Exchanged, Cred!LoginZai, Cred!ResetStore, Cred!TypeOK
  <2>3. pc' \in [Cred!Actors -> Steps] /\ copy' \in [Cred!Actors -> Cred!Credentials]
    BY <1>3, <1>5, <2>2
  <2> QED
    BY <1>11, <2>1, <2>3
    DEF Cred!Exchanged, Cred!LoginZai, Cred!ResetStore, Cred!TypeOK, Cred!store, Cred!logins
<1>12. ASSUME NEW p \in Cred!People, NEW flow \in 1..flows, NEW url \in BOOLEAN,
              Cred!Callback(p, flow, url) \/ Cred!Heard(p, flow, url)
       PROVE  Cred!TypeOK'
  <2>1. Cred!Exchange(p, flow) /\ pending' \in {pending, Cred!Live(pending)}
    BY <1>12 DEF Cred!Callback, Cred!Heard
  <2>2. pending' \in [Cred!People -> 0..MaxFlows]
    BY <1>1, <2>1 DEF Cred!Live, Cred!TypeOK
  <2> QED
    <3>1. held' \in [Cred!Actors -> 0..MaxFlows]
      BY <1>3, <2>1 DEF Cred!Exchange, Cred!TypeOK
    <3>2. pc' \in [Cred!Actors -> Steps]
      BY <1>3, <2>1 DEF Cred!Exchange, Cred!Goes, Cred!TypeOK
    <3> QED
      BY <2>1, <2>2, <3>1, <3>2 DEF Cred!Exchange, Cred!TypeOK, Cred!store
<1>13. CASE Cred!Overdue \/ Cred!TokensEnd
  <2>1. overdue' \subseteq 1..flows /\ stale' \subseteq 1..tokens
    <3>1. \A p \in Cred!People : pending[p] # 0 => pending[p] \in 1..flows
      BY <1>1 DEF Cred!TypeOK, GivenOut
    <3>2. stored.openai # 0 => stored.openai \in 1..tokens
      BY <1>1 DEF Cred!TypeOK, GivenOut, Cred!Credentials
    <3>3. overdue \subseteq 1..flows /\ stale \subseteq 1..tokens
      BY <1>1 DEF Cred!TypeOK
    <3>4. CASE Cred!Overdue
      BY <3>1, <3>3, <3>4 DEF Cred!Overdue, Cred!People
    <3>5. CASE Cred!TokensEnd
      BY <3>2, <3>3, <3>5 DEF Cred!TokensEnd, Cred!logins
    <3> QED
      BY <1>13, <3>4, <3>5
  <2> QED
    BY <1>13, <2>1
    DEF Cred!Overdue, Cred!TokensEnd, Cred!TypeOK, Cred!store, Cred!actors, Cred!logins
<1>14. CASE Cred!Die
  BY <1>1, <1>2, <1>14 DEF Cred!Die, Cred!TypeOK, Cred!store
<1>15. CASE UNCHANGED Cred!vars
  BY <1>15 DEF Cred!vars, Cred!store, Cred!actors, Cred!logins, Cred!TypeOK
<1> QED
  BY <1>6, <1>7, <1>8, <1>9, <1>10, <1>11, <1>12, <1>13, <1>14, <1>15 DEF Cred!Next

LEMMA GivenOutStays ==
  ASSUME Cred!TypeOK, GivenOut, [Cred!Next]_(Cred!vars)
  PROVE  GivenOut'
<1>1. MaxFlows \in Nat /\ MaxTokens \in Nat /\ flows \in Nat /\ tokens \in Nat
  BY RecordsAssumption DEF Cred!TypeOK
<1>2. Cred!NoLogin.openai = 0 /\ Cred!People \subseteq Cred!Actors /\ Workers \subseteq Cred!Actors
  BY DEF Cred!NoLogin, Cred!Actors
<1>3. \A c \in Cred!Credentials : Cred!WithZai(c).openai = c.openai
  BY DEF Cred!Credentials, Cred!WithZai
<1>4. \A c \in Cred!Credentials : \A n \in Nat :
        [c EXCEPT !.openai = n].openai = n /\ Cred!WithOpenAi(c, n).openai = n
  BY DEF Cred!Credentials, Cred!WithOpenAi
<1>5. stored.openai \in Nat /\ \A a \in Cred!Actors : copy[a].openai \in Nat
  BY DEF Cred!TypeOK, Cred!Credentials
\* A credential that is kept, emptied or has new tokens; more tokens may be issued.
<1>6. ASSUME tokens' \in Nat, tokens <= tokens',
             stored' = stored \/ \E a \in Cred!Actors : stored' = copy[a],
             \A a \in Cred!Actors : copy'[a] \in {copy[a], Cred!NoLogin}
                                      \/ copy'[a].openai <= tokens',
             \A p \in Cred!People : pending'[p] \in {pending[p], 0} \/ pending'[p] <= flows',
             flows' \in Nat, flows <= flows'
      PROVE  GivenOut'
  <2>1. \A p \in Cred!People : pending[p] \in Nat
    BY <1>1 DEF Cred!TypeOK
  <2>2. \A p \in Cred!People : pending'[p] <= flows'
    BY <1>1, <1>6, <2>1 DEF GivenOut
  <2>3. stored'.openai <= tokens'
    BY <1>1, <1>5, <1>6 DEF GivenOut
  <2>4. \A a \in Cred!Actors : copy'[a].openai <= tokens'
    BY <1>1, <1>2, <1>5, <1>6 DEF GivenOut
  <2> QED
    BY <2>2, <2>3, <2>4 DEF GivenOut
<1>7. ASSUME NEW a \in Cred!Actors, Cred!Ends(a)
      PROVE  \A b \in Cred!Actors : copy'[b] \in {copy[b], Cred!NoLogin}
  BY <1>7 DEF Cred!Ends, Cred!TypeOK
<1>8. ASSUME NEW a \in Cred!Actors, NEW c, Cred!Saves(a, c), c.openai <= tokens'
      PROVE  \A b \in Cred!Actors : copy'[b] \in {copy[b], Cred!NoLogin}
                                      \/ copy'[b].openai <= tokens'
  BY <1>8 DEF Cred!Saves, Cred!TypeOK
<1>9. ASSUME NEW a \in Cred!Actors,
             Cred!Truncate(a) \/ Cred!Write(a) \/ Cred!VaultSave(a) \/ Cred!SaveFails(a)
      PROVE  GivenOut'
  <2>1. Cred!Ends(a) \/ UNCHANGED copy
    BY <1>9 DEF Cred!Truncate, Cred!Write, Cred!VaultSave, Cred!SaveFails, Cred!Fails
  <2>2. \A b \in Cred!Actors : copy'[b] \in {copy[b], Cred!NoLogin}
    BY <1>7, <2>1
  <2>3. stored' = stored \/ stored' = copy[a]
    BY <1>9 DEF Cred!Truncate, Cred!Write, Cred!VaultSave, Cred!SaveFails, Cred!store
  <2>4. UNCHANGED <<flows, tokens>>
    BY <1>9 DEF Cred!Truncate, Cred!Write, Cred!VaultSave, Cred!SaveFails, Cred!logins
  <2>5. \A p \in Cred!People : pending'[p] \in {pending[p], 0}
    <3>1. pending' \in {pending, [pending EXCEPT ![a] = 0]}
      BY <1>9 DEF Cred!Truncate, Cred!Write, Cred!VaultSave, Cred!SaveFails, Cred!Fails, Cred!logins
    <3> QED
      BY <3>1 DEF Cred!TypeOK
  <2> QED
    BY <1>1, <1>6, <2>2, <2>3, <2>4, <2>5
<1>10. ASSUME NEW a \in Cred!Actors, Cred!Saved(a) PROVE GivenOut'
  <2>1. \A p \in Cred!People : pending'[p] \in {pending[p], 0}
    BY <1>10 DEF Cred!Saved, Cred!TypeOK
  <2>2. \A b \in Cred!Actors : copy'[b] \in {copy[b], Cred!NoLogin}
    BY <1>7, <1>10 DEF Cred!Saved
  <2>3. UNCHANGED <<stored, flows, tokens>>
    BY <1>10 DEF Cred!Saved, Cred!store
  <2> QED
    BY <1>1, <1>6, <2>1, <2>2, <2>3
<1>11. ASSUME NEW w \in Workers, Cred!Refresh(w) \/ Cred!Refreshed(w) \/ Cred!RefreshFails(w)
       PROVE  GivenOut'
  <2>1. UNCHANGED <<stored, pending, flows>> /\ tokens' \in {tokens, tokens + 1}
    BY <1>11
    DEF Cred!Refresh, Cred!Refreshed, Cred!RefreshFails, Cred!store, Cred!logins
  <2>2. CASE Cred!Refresh(w)
    <3>1. \A b \in Cred!Actors : copy'[b] \in {copy[b], Cred!NoLogin}
                                   \/ copy'[b].openai <= tokens'
      BY <2>2 DEF Cred!Refresh, Cred!TypeOK, GivenOut
    <3> QED
      BY <1>1, <1>6, <2>1, <3>1
  <2>3. CASE Cred!Refreshed(w)
    <3>1. tokens' = tokens + 1 /\ Cred!Saves(w, [copy[w] EXCEPT !.openai = tokens'])
      BY <2>3 DEF Cred!Refreshed
    <3>2. [copy[w] EXCEPT !.openai = tokens'].openai <= tokens'
      <4>1. copy[w] \in Cred!Credentials /\ tokens' \in Nat
        BY <1>1, <1>2, <3>1 DEF Cred!TypeOK
      <4>2. [copy[w] EXCEPT !.openai = tokens'].openai = tokens'
        BY <1>4, <4>1
      <4> QED
        BY <4>1, <4>2
    <3>3. \A b \in Cred!Actors : copy'[b] \in {copy[b], Cred!NoLogin}
                                   \/ copy'[b].openai <= tokens'
      BY <1>2, <1>8, <3>1, <3>2
    <3> QED
      BY <1>1, <1>6, <2>1, <3>3
  <2>4. CASE Cred!RefreshFails(w)
    <3>1. \A b \in Cred!Actors : copy'[b] \in {copy[b], Cred!NoLogin}
      BY <1>2, <1>7, <2>4 DEF Cred!RefreshFails
    <3> QED
      BY <1>1, <1>6, <2>1, <3>1
  <2> QED
    BY <1>11, <2>2, <2>3, <2>4
<1>12. ASSUME NEW p \in Cred!People,
              Cred!StartLogin(p) \/ Cred!ExchangeFails(p) \/ Cred!Close(p)
       PROVE  GivenOut'
  <2>1. UNCHANGED <<stored, tokens>> /\ flows' \in {flows, flows + 1}
    BY <1>12 DEF Cred!StartLogin, Cred!ExchangeFails, Cred!Close, Cred!store, Cred!actors
  <2>3. \A b \in Cred!Actors : copy'[b] \in {copy[b], Cred!NoLogin}
    <3>1. Cred!Ends(p) \/ UNCHANGED copy
      BY <1>12 DEF Cred!StartLogin, Cred!ExchangeFails, Cred!Fails, Cred!Close, Cred!actors
    <3> QED
      BY <1>2, <1>7, <3>1
  <2>2. \A q \in Cred!People : pending'[q] \in {pending[q], 0} \/ pending'[q] <= flows'
    <3>1. CASE Cred!StartLogin(p)
      <4>1. flows' <= flows' /\ flows' = flows + 1
        BY <1>1, <3>1 DEF Cred!StartLogin
      <4>2. \A q \in Cred!People : pending'[q] \in {pending[q], 0, flows'}
        BY <3>1 DEF Cred!StartLogin, Cred!Begun, Cred!Live
      <4> QED
        BY <4>1, <4>2
    <3>2. CASE Cred!ExchangeFails(p) \/ Cred!Close(p)
      BY <3>2 DEF Cred!ExchangeFails, Cred!Fails, Cred!Close, Cred!TypeOK
    <3> QED
      BY <1>12, <3>1, <3>2
  <2> QED
    BY <1>1, <1>6, <2>1, <2>2, <2>3
<1>13. ASSUME NEW p \in Cred!People,
              Cred!Exchanged(p) \/ Cred!LoginZai(p) \/ Cred!ResetStore(p)
       PROVE  GivenOut'
  <2>1. UNCHANGED <<stored, pending, flows>> /\ tokens' \in {tokens, tokens + 1}
    BY <1>13
    DEF Cred!Exchanged, Cred!LoginZai, Cred!ResetStore, Cred!store, Cred!logins
  <2>2. tokens' \in Nat /\ tokens <= tokens' /\ stored \in Cred!Credentials
    BY <1>1, <2>1 DEF Cred!TypeOK
  <2>3. \E c : Cred!Saves(p, c) /\ c.openai <= tokens'
    <3>1. CASE Cred!Exchanged(p)
      <4>1. Cred!WithOpenAi(stored, tokens').openai <= tokens'
        BY <1>4, <2>2
      <4> QED
        BY <3>1, <4>1 DEF Cred!Exchanged
    <3>2. CASE Cred!LoginZai(p)
      <4>1. Cred!WithZai(stored).openai <= tokens'
        BY <1>1, <1>3, <1>5, <2>2 DEF GivenOut
      <4> QED
        BY <3>2, <4>1 DEF Cred!LoginZai
    <3>3. CASE Cred!ResetStore(p)
      <4>1. Cred!NoLogin.openai <= tokens'
        BY <1>2, <2>2
      <4> QED
        BY <3>3, <4>1 DEF Cred!ResetStore
    <3> QED
      BY <1>13, <3>1, <3>2, <3>3
  <2>4. \A b \in Cred!Actors : copy'[b] \in {copy[b], Cred!NoLogin}
                                 \/ copy'[b].openai <= tokens'
    BY <1>2, <1>8, <2>3
  <2> QED
    BY <1>1, <1>6, <2>1, <2>2, <2>4
<1>14. ASSUME NEW p \in Cred!People, NEW flow \in 1..flows, NEW url \in BOOLEAN,
              Cred!Callback(p, flow, url) \/ Cred!Heard(p, flow, url)
       PROVE  GivenOut'
  <2>1. UNCHANGED <<stored, copy, tokens, flows>>
    BY <1>14 DEF Cred!Callback, Cred!Heard, Cred!Exchange, Cred!store
  <2>2. \A q \in Cred!People : pending'[q] \in {pending[q], 0}
    BY <1>14 DEF Cred!Callback, Cred!Heard, Cred!Live
  <2> QED
    BY <1>1, <1>6, <2>1, <2>2
<1>15. CASE Cred!Overdue \/ Cred!TokensEnd \/ UNCHANGED Cred!vars
  <2>1. UNCHANGED <<stored, copy, tokens, flows, pending>>
    BY <1>15
    DEF Cred!Overdue, Cred!TokensEnd, Cred!vars, Cred!store, Cred!actors, Cred!logins
  <2> QED
    BY <2>1 DEF GivenOut
<1>16. CASE Cred!Die
  <2>1. UNCHANGED <<stored, tokens, flows>>
    BY <1>16 DEF Cred!Die, Cred!store
  <2>2. /\ \A q \in Cred!People : pending'[q] \in {pending[q], 0}
        /\ \A b \in Cred!Actors : copy'[b] \in {copy[b], Cred!NoLogin}
    BY <1>16 DEF Cred!Die
  <2> QED
    BY <1>1, <1>6, <2>1, <2>2
<1> QED
  BY <1>9, <1>10, <1>11, <1>12, <1>13, <1>14, <1>15, <1>16 DEF Cred!Next

\* A login is in one hand: who exchanges the code of a flow is busy, has nothing
\* else pending, and nobody else has that flow.  Only a tab's login runs out.
LoginsOwned ==
  /\ \A a \in Cred!Actors : held[a] # 0 => a \in Cred!People /\ pc[a] # "idle" /\ held[a] <= flows
  /\ \A p \in Cred!People : held[p] # 0 => pending[p] \in {0, held[p]}
  /\ \A p, q \in Cred!People : p # q =>
       /\ pending[p] # 0 => pending[p] # pending[q] /\ pending[p] # held[q]
       /\ held[p] # 0 => held[p] # held[q]
  /\ \A p \in Terminals : pending[p] \notin overdue

\* What a step does to the logins: it lets go of some of them, or somebody idle
\* begins one, or takes up a pending one.
LetsGo ==
  /\ flows' = flows /\ overdue \subseteq overdue' /\ \A p \in Terminals : pending[p] \notin overdue'
  /\ \A a \in Cred!Actors : held'[a] \in {held[a], 0} /\ (held'[a] # 0 => pc'[a] # "idle")
  /\ \A p \in Cred!People : pending'[p] \in {pending[p], 0}
Takes(p) ==
  /\ pc[p] = "idle" /\ pending[p] \notin overdue \cup {0} /\ UNCHANGED <<flows, overdue>>
  /\ held' = [held EXCEPT ![p] = pending[p]] /\ pending'[p] = pending[p]
  /\ pc'[p] # "idle" /\ \A a \in Cred!Actors : a # p => pc'[a] = pc[a]
  /\ \A q \in Cred!People : pending'[q] \in {pending[q], 0}
Opens(p) ==
  /\ pc[p] = "idle" /\ UNCHANGED <<held, pc, overdue>> /\ flows' = flows + 1
  /\ pending'[p] = flows' /\ \A q \in Cred!People : q # p => pending'[q] \in {pending[q], 0}

\* Every step does one of these.
LEMMA LoginSteps ==
  ASSUME Cred!TypeOK, LoginsOwned, [Cred!Next]_(Cred!vars)
  PROVE  LetsGo \/ \E p \in Cred!People : Takes(p) \/ Opens(p)
<1>1. /\ Cred!People \subseteq Cred!Actors /\ Workers \subseteq Cred!Actors
      /\ Terminals \subseteq Cred!People /\ Tabs \subseteq Cred!People
  BY DEF Cred!Actors, Cred!People
<1>2. /\ DOMAIN held = Cred!Actors /\ DOMAIN pc = Cred!Actors /\ DOMAIN pending = Cred!People
      /\ \A a \in Cred!Actors : held[a] # 0 => pc[a] # "idle"
      /\ \A p \in Terminals : pending[p] \notin overdue
  BY DEF Cred!TypeOK, LoginsOwned
<1>3. ASSUME NEW a \in Cred!Actors, Cred!Ends(a), UNCHANGED <<flows, overdue>>,
             pending' \in {pending, [pending EXCEPT ![a] = 0]}
      PROVE  LetsGo
  BY <1>2, <1>3 DEF Cred!Ends, Cred!Goes, LetsGo
<1>4. ASSUME NEW a \in Cred!Actors, NEW n, n # "idle", Cred!Goes(a, n),
             UNCHANGED <<held, pending, flows, overdue>>
      PROVE  LetsGo
  BY <1>2, <1>4 DEF Cred!Goes, LetsGo
<1>5. ASSUME NEW a \in Cred!Actors,
             Cred!Truncate(a) \/ Cred!Write(a) \/ Cred!VaultSave(a) \/ Cred!SaveFails(a) \/ Cred!Saved(a)
      PROVE  LetsGo
  <2>1. \/ /\ Cred!Ends(a) /\ UNCHANGED <<flows, overdue>>
           /\ pending' \in {pending, [pending EXCEPT ![a] = 0]}
        \/ \E n \in {"writing", "saved"} : Cred!Goes(a, n) /\ UNCHANGED <<held, pending, flows, overdue>>
    BY <1>5
    DEF Cred!Truncate, Cred!Write, Cred!VaultSave, Cred!SaveFails, Cred!Saved, Cred!Fails, Cred!logins
  <2> QED
    BY <1>3, <1>4, <2>1
<1>6. ASSUME NEW w \in Workers, Cred!Refresh(w) \/ Cred!Refreshed(w) \/ Cred!RefreshFails(w)
      PROVE  LetsGo
  <2>1. \/ Cred!Ends(w) /\ UNCHANGED <<flows, overdue>> /\ pending' = pending
        \/ \E n \in {"refreshing", "saving"} : Cred!Goes(w, n) /\ UNCHANGED <<held, pending, flows, overdue>>
    BY <1>6 DEF Cred!Refresh, Cred!Refreshed, Cred!RefreshFails, Cred!Saves, Cred!logins
  <2> QED
    BY <1>1, <1>3, <1>4, <2>1
<1>7. ASSUME NEW p \in Cred!People, Cred!StartLogin(p) PROVE Opens(p)
  <2>1. pending' = [Cred!Live(pending) EXCEPT ![p] = flows'] /\ flows' = flows + 1
    BY <1>7 DEF Cred!StartLogin, Cred!Begun
  <2>2. \A q \in Cred!People : pending'[q] = IF q = p THEN flows' ELSE Cred!Live(pending)[q]
    BY <2>1 DEF Cred!Live
  <2> QED
    BY <1>7, <2>1, <2>2 DEF Cred!StartLogin, Cred!actors, Cred!Live, Opens
<1>8. ASSUME NEW p \in Cred!People,
             Cred!ExchangeFails(p) \/ Cred!Exchanged(p) \/ Cred!LoginZai(p) \/ Cred!ResetStore(p)
      PROVE  LetsGo
  <2>1. \/ /\ Cred!Ends(p) /\ UNCHANGED <<flows, overdue>>
           /\ pending' \in {pending, [pending EXCEPT ![p] = 0]}
        \/ Cred!Goes(p, "saving") /\ UNCHANGED <<held, pending, flows, overdue>>
    BY <1>8
    DEF Cred!ExchangeFails, Cred!Exchanged, Cred!LoginZai, Cred!ResetStore, Cred!Saves, Cred!Fails,
        Cred!logins
  <2> QED
    BY <1>1, <1>3, <1>4, <2>1
<1>9. ASSUME NEW p \in Cred!People, NEW flow \in 1..flows, NEW url \in BOOLEAN,
             Cred!Callback(p, flow, url) \/ Cred!Heard(p, flow, url)
      PROVE  Takes(p)
  <2>1. /\ Cred!Exchange(p, flow) /\ pc[p] = "idle" /\ pending' \in {pending, Cred!Live(pending)}
        /\ pending[p] \notin overdue \cup {0}
    BY <1>2, <1>9 DEF Cred!Callback, Cred!Heard, Cred!Live
  <2>2. \A q \in Cred!People : pending'[q] \in {pending[q], 0}
    BY <2>1 DEF Cred!Live
  <2>3. pending'[p] = pending[p]
    BY <2>1 DEF Cred!Live
  <2>4. pc'[p] # "idle" /\ \A a \in Cred!Actors : a # p => pc'[a] = pc[a]
    BY <1>1, <1>2, <2>1 DEF Cred!Exchange, Cred!Goes
  <2> QED
    BY <2>1, <2>2, <2>3, <2>4 DEF Cred!Exchange, Takes
<1>10. ASSUME NEW p \in Cred!People, Cred!Close(p) PROVE LetsGo
  BY <1>2, <1>10 DEF Cred!Close, Cred!actors, LetsGo
<1>11. CASE Cred!Overdue
  <2>1. PICK p \in Tabs : pending[p] # 0 /\ overdue' = overdue \cup {pending[p]}
    BY <1>11 DEF Cred!Overdue
  <2>2. \A q \in Terminals : pending[q] # pending[p]
    BY <1>1, <2>1, RecordsAssumption DEF LoginsOwned
  <2> QED
    BY <1>2, <1>11, <2>1, <2>2 DEF Cred!Overdue, Cred!actors, LetsGo
<1>12. CASE Cred!TokensEnd \/ UNCHANGED Cred!vars
  BY <1>2, <1>12 DEF Cred!TokensEnd, Cred!vars, Cred!actors, Cred!logins, LetsGo
<1>13. CASE Cred!Die
  BY <1>2, <1>13 DEF Cred!Die, LetsGo
<1> QED
  BY <1>5, <1>6, <1>7, <1>8, <1>9, <1>10, <1>11, <1>12, <1>13 DEF Cred!Next

\* And keeps every login in one hand.
LEMMA LoginsStayOwned ==
  ASSUME Cred!TypeOK, GivenOut, LoginsOwned, [Cred!Next]_(Cred!vars)
  PROVE  LoginsOwned'
<1>1. /\ Cred!People \subseteq Cred!Actors /\ Terminals \subseteq Cred!People
      /\ flows \in Nat /\ overdue \subseteq 1..flows
      /\ held \in [Cred!Actors -> Nat] /\ pending \in [Cred!People -> Nat]
      /\ \A p \in Cred!People : pending[p] <= flows
  BY RecordsAssumption DEF Cred!TypeOK, GivenOut, Cred!Actors, Cred!People
<1>2. CASE LetsGo
  <2>1. 0 \notin overdue'
    BY CredTypesStay, <1>1, <1>2 DEF Cred!TypeOK, LetsGo
  <2>2. \A a \in Cred!Actors : held'[a] # 0 =>
          a \in Cred!People /\ pc'[a] # "idle" /\ held'[a] <= flows'
    BY <1>2 DEF LetsGo, LoginsOwned
  <2>3. \A p \in Cred!People : held'[p] # 0 => pending'[p] \in {0, held'[p]}
    BY <1>1, <1>2 DEF LetsGo, LoginsOwned
  <2>4. \A p, q \in Cred!People : p # q =>
          /\ pending'[p] # 0 => pending'[p] # pending'[q] /\ pending'[p] # held'[q]
          /\ held'[p] # 0 => held'[p] # held'[q]
    BY <1>1, <1>2 DEF LetsGo, LoginsOwned
  <2>5. \A p \in Terminals : pending'[p] \notin overdue'
    BY <1>1, <1>2, <2>1 DEF LetsGo
  <2> QED
    BY <2>2, <2>3, <2>4, <2>5 DEF LoginsOwned
<1>3. ASSUME NEW p \in Cred!People, Takes(p) PROVE LoginsOwned'
  <2>1. \A a \in Cred!Actors : held'[a] = IF a = p THEN pending[p] ELSE held[a]
    BY <1>1, <1>3 DEF Takes
  <2> QED
    BY <1>1, <1>3, <2>1 DEF Takes, LoginsOwned
<1>4. ASSUME NEW p \in Cred!People, Opens(p) PROVE LoginsOwned'
  <2>1. /\ held[p] = 0 /\ flows' = flows + 1 /\ flows' # 0
        /\ \A n \in Nat : n <= flows => n # flows' /\ n <= flows'
    BY <1>1, <1>4 DEF Opens, LoginsOwned
  <2>2. \A a \in Cred!Actors : held[a] # flows'
    BY <1>1, <2>1 DEF LoginsOwned
  <2>3. flows' \notin overdue /\ 0 \notin overdue
    BY <1>1, <2>1
  <2> QED
    BY <1>1, <1>4, <2>1, <2>2, <2>3 DEF Opens, LoginsOwned
<1> QED
  BY <1>2, <1>3, <1>4, LoginSteps

\* What LoginsEndOnce says of one step.
EndsOnce ==
  \A flow \in 1..flows :
    /\ Cred!Over(flow) => Cred!Over(flow)'
    /\ \A p \in Cred!People : Cred!Saved(p) /\ held[p] # 0 =>
         (Cred!Over(flow)' <=> Cred!Over(flow) \/ flow = held[p])

\* It is so of every step.
LEMMA StepEndsOnce ==
  ASSUME Cred!TypeOK, GivenOut, LoginsOwned, [Cred!Next]_(Cred!vars)
  PROVE  EndsOnce
<1>1. /\ Cred!People \subseteq Cred!Actors /\ flows \in Nat
      /\ held \in [Cred!Actors -> Nat] /\ pending \in [Cred!People -> Nat]
  BY RecordsAssumption DEF Cred!TypeOK, Cred!Actors
<1>2. ASSUME NEW flow \in 1..flows, Cred!Over(flow) PROVE Cred!Over(flow)'
  <2>1. \A p \in Cred!People : held[p] # flow /\ (pending[p] = flow => flow \in overdue)
    BY <1>2 DEF Cred!Over
  <2>2. flow # 0 /\ flow # flows + 1
    BY <1>1
  <2>3. /\ overdue \subseteq overdue'
        /\ \A p \in Cred!People : held'[p] # flow /\ (pending'[p] = flow => flow \in overdue)
    <3>1. CASE LetsGo
      BY <1>1, <2>1, <2>2, <3>1 DEF LetsGo
    <3>2. ASSUME NEW q \in Cred!People, Takes(q)
          PROVE  /\ overdue \subseteq overdue'
                 /\ \A p \in Cred!People : held'[p] # flow /\ (pending'[p] = flow => flow \in overdue)
      <4>1. \A p \in Cred!People : held'[p] = IF p = q THEN pending[q] ELSE held[p]
        BY <1>1, <3>2 DEF Takes
      <4> QED
        BY <2>1, <2>2, <3>2, <4>1 DEF Takes
    <3>3. ASSUME NEW q \in Cred!People, Opens(q)
          PROVE  /\ overdue \subseteq overdue'
                 /\ \A p \in Cred!People : held'[p] # flow /\ (pending'[p] = flow => flow \in overdue)
      BY <2>1, <2>2, <3>3 DEF Opens
    <3> QED
      BY <3>1, <3>2, <3>3, LoginSteps
  <2> QED
    BY <2>3 DEF Cred!Over
<1>3. ASSUME NEW flow \in 1..flows, NEW p \in Cred!People, Cred!Saved(p), held[p] # 0
      PROVE  Cred!Over(flow)' <=> Cred!Over(flow) \/ flow = held[p]
  <2>1. /\ \A q \in Cred!People : held'[q] = IF q = p THEN 0 ELSE held[q]
        /\ \A q \in Cred!People : pending'[q] = IF q = p THEN 0 ELSE pending[q]
        /\ overdue' = overdue
    BY <1>1, <1>3 DEF Cred!Saved, Cred!Ends
  <2>2. flow # 0
    OBVIOUS
  <2>3. pending[p] \in {0, held[p]}
    BY <1>3 DEF LoginsOwned
  <2>4. CASE flow = held[p]
    <3>1. \A q \in Cred!People : q # p => held[q] # flow /\ pending[q] # flow
      BY <1>3, <2>2, <2>4 DEF LoginsOwned
    <3>2. Cred!Over(flow)'
      BY <2>1, <2>2, <3>1 DEF Cred!Over
    <3> QED
      BY <2>4, <3>2
  <2>5. CASE flow # held[p]
    <3>1. \A q \in Cred!People :
            /\ held'[q] # flow <=> held[q] # flow
            /\ pending'[q] = flow <=> pending[q] = flow
      BY <2>1, <2>2, <2>3, <2>5
    <3> QED
      BY <2>1, <2>5, <3>1 DEF Cred!Over
  <2> QED
    BY <2>4, <2>5
<1> QED
  BY <1>2, <1>3 DEF EndsOnce

\* At first nobody has a login.
LEMMA LoginsStartOwned == Cred!Init => LoginsOwned
<1> SUFFICES ASSUME Cred!Init PROVE LoginsOwned
  OBVIOUS
<1>1. /\ \A a \in Cred!Actors : held[a] = 0
      /\ \A p \in Cred!People : held[p] = 0 /\ pending[p] = 0
      /\ overdue = {} /\ Terminals \subseteq Cred!People
  BY DEF Cred!Init, Cred!Actors, Cred!People
<1> QED
  BY <1>1 DEF LoginsOwned

\* A login that ran out, was completed, was begun anew or lost its tab is never
\* taken up again, whatever the awaited exchanges and saves do meanwhile; and to
\* complete one ends that one and no other, though what is cleared is whatever
\* its controller has pending (complete_openai_login, clear_openai_login,
\* cleanup_expired_logins).
THEOREM LoginsEnd == Cred!Spec => LoginsEndOnce
<1> DEFINE I == Cred!TypeOK /\ GivenOut /\ LoginsOwned
<1>1. Cred!Init => I
  BY CredTypesStart, LoginsStartOwned
<1>2. I /\ [Cred!Next]_(Cred!vars) => I'
  BY CredTypesStay, GivenOutStays, LoginsStayOwned
<1>3. I /\ [Cred!Next]_(Cred!vars) => [EndsOnce]_(Cred!vars)
  BY StepEndsOnce
<1>4. Cred!Spec => [][EndsOnce]_(Cred!vars)
  <2> HIDE DEF I
  <2> QED
    BY <1>1, <1>2, <1>3, PTL DEF Cred!Spec
<1> QED
  BY <1>4 DEF LoginsEndOnce, Cred!LoginsEndOnce, EndsOnce

-----------------------------------------------------------------------------
(* The schema of the database.                                             *)

LEMMA Lengths == Versions \in Nat /\ Statements \in Nat
  BY RecordsAssumption

Statement(v) == {<<v, n>> : n \in 1..Statements}

\* The versions on record are the first ones, without a gap.
NoGap == \E n \in 0..Versions : recorded = 1..n

\* What is on record has been applied.
RecordedApplied == \A v \in recorded : Statement(v) \subseteq applied

\* A process has left nothing out on its way, and what is behind it is on record.
OnItsWay(p) ==
  /\ next[p] >= 1
  /\ version[p] \in 1..(Versions + 1) /\ 1..(version[p] - 1) \subseteq recorded
  /\ \A n \in 1..Statements : n < next[p] => <<version[p], n>> \in applied
  /\ at[p] = "open" => version[p] = Versions + 1

Progress == \A p \in Processes : at[p] # "closed" => OnItsWay(p)

SchemaInv == Schema!TypeOK /\ NoGap /\ RecordedApplied /\ Progress

\* The newest version is the last of them, so that a process begins behind it.
LEMMA NewestIsLast ==
  ASSUME NEW n \in 0..Versions, recorded = 1..n
  PROVE  Schema!Newest = n
<1>1. n \in recorded \cup {0} /\ \A w \in recorded \cup {0} : w <= n
  BY Lengths
<1>2. \A v \in recorded \cup {0} : (\A w \in recorded : w <= v) => v = n
  BY <1>1, Lengths
<1>3. \E v \in recorded \cup {0} : \A w \in recorded : w <= v
  BY <1>1
<1> QED
  BY <1>2, <1>3 DEF Schema!Newest

\* An opening process starts behind what is on record.
LEMMA OpenKeeps ==
  ASSUME SchemaInv, NEW p \in Processes, Schema!Open(p)
  PROVE  SchemaInv'
<1>1. PICK n \in 0..Versions : recorded = 1..n
  BY DEF SchemaInv, NoGap
<1>2. version' = [version EXCEPT ![p] = n + 1] /\ next' = [next EXCEPT ![p] = 1]
  BY <1>1, NewestIsLast DEF Schema!Open
<1>3. at' = [at EXCEPT ![p] = "migrating"] /\ UNCHANGED <<applied, recorded>>
  BY DEF Schema!Open
<1>4. Schema!TypeOK'
  <2>1. n + 1 \in 0..(Versions + 1) /\ 1 \in 0..(Statements + 1)
    BY Lengths
  <2> QED
    BY <1>2, <1>3, <2>1 DEF SchemaInv, Schema!TypeOK
<1>5. NoGap' /\ RecordedApplied'
  BY <1>3 DEF SchemaInv, NoGap, RecordedApplied, Statement
<1>6. OnItsWay(p)'
  BY <1>1, <1>2, <1>3, Lengths DEF OnItsWay, SchemaInv, Schema!TypeOK
<1>7. \A q \in Processes \ {p} : at'[q] # "closed" => OnItsWay(q)'
  BY <1>2, <1>3 DEF OnItsWay, SchemaInv, Schema!TypeOK, Progress
<1> QED
  BY <1>4, <1>5, <1>6, <1>7 DEF SchemaInv, Progress

\* A statement takes effect for everybody.
LEMMA ApplyKeeps ==
  ASSUME SchemaInv, NEW p \in Processes, Schema!Apply(p)
  PROVE  SchemaInv'
<1>1. /\ applied' = applied \cup {<<version[p], next[p]>>}
      /\ next' = [next EXCEPT ![p] = @ + 1] /\ at[p] = "migrating"
      /\ UNCHANGED <<recorded, at, version>> /\ version[p] <= Versions
  BY DEF Schema!Apply
<1>2. Schema!TypeOK'
  <2>1. OnItsWay(p) /\ next[p] <= Statements
    BY <1>1 DEF Schema!Apply, SchemaInv, Progress
  <2>2. <<version[p], next[p]>> \in Schema!All
    BY <1>1, <2>1, Lengths DEF OnItsWay, SchemaInv, Schema!TypeOK, Schema!All
  <2>3. next[p] + 1 \in 0..(Statements + 1)
    BY <2>1, Lengths DEF SchemaInv, Schema!TypeOK
  <2> QED
    BY <1>1, <2>2, <2>3 DEF SchemaInv, Schema!TypeOK
<1>3. NoGap' /\ RecordedApplied'
  BY <1>1 DEF SchemaInv, NoGap, RecordedApplied
<1>4. OnItsWay(p)'
  <2>1. OnItsWay(p)
    BY <1>1 DEF SchemaInv, Progress
  <2>2. next'[p] = next[p] + 1 /\ next[p] \in Nat
    BY <1>1 DEF SchemaInv, Schema!TypeOK
  <2>3. \A n \in 1..Statements : n < next'[p] => <<version[p], n>> \in applied'
    BY <1>1, <2>1, <2>2, Lengths DEF OnItsWay
  <2> QED
    BY <1>1, <2>1, <2>2, <2>3 DEF OnItsWay
<1>5. \A q \in Processes \ {p} : at'[q] # "closed" => OnItsWay(q)'
  BY <1>1 DEF OnItsWay, SchemaInv, Schema!TypeOK, Progress
<1> QED
  BY <1>2, <1>3, <1>4, <1>5 DEF SchemaInv, Progress

\* A version is recorded behind its last statement, and next to those on record.
LEMMA RecordKeeps ==
  ASSUME SchemaInv, NEW p \in Processes, Schema!Record(p)
  PROVE  SchemaInv'
<1>1. /\ recorded' = recorded \cup {version[p]} /\ at[p] = "migrating"
      /\ version' = [version EXCEPT ![p] = @ + 1] /\ next' = [next EXCEPT ![p] = 1]
      /\ UNCHANGED <<applied, at>> /\ version[p] <= Versions /\ next[p] > Statements
  BY DEF Schema!Record
<1>2. OnItsWay(p) /\ version[p] \in Nat /\ next[p] \in Nat
  BY <1>1 DEF SchemaInv, Progress, Schema!TypeOK
<1>3. Schema!TypeOK'
  <2>1. version[p] + 1 \in 0..(Versions + 1) /\ 1 \in 0..(Statements + 1)
    BY <1>1, <1>2, Lengths
  <2>2. version[p] \in 1..Versions
    BY <1>1, <1>2, Lengths DEF OnItsWay
  <2> QED
    BY <1>1, <2>1, <2>2 DEF SchemaInv, Schema!TypeOK
<1>4. NoGap'
  <2>1. PICK n \in 0..Versions : recorded = 1..n
    BY DEF SchemaInv, NoGap
  <2>2. version[p] \in 1..Versions /\ 1..(version[p] - 1) \subseteq 1..n
    BY <1>1, <1>2, <2>1, Lengths DEF OnItsWay
  <2>3. version[p] <= n + 1
    <3>1. version[p] = 1 \/ version[p] - 1 \in 1..(version[p] - 1)
      BY <2>2, Lengths
    <3> QED
      BY <2>2, <3>1, Lengths
  <2>4. CASE version[p] <= n
    BY <1>1, <2>1, <2>2, <2>4, Lengths DEF NoGap
  <2>5. CASE version[p] = n + 1
    <3>1. recorded' = 1..(n + 1) /\ n + 1 \in 0..Versions
      BY <1>1, <2>1, <2>2, <2>5, Lengths
    <3> QED
      BY <3>1 DEF NoGap
  <2> QED
    BY <2>2, <2>3, <2>4, <2>5, Lengths
<1>5. RecordedApplied'
  <2>1. \A n \in 1..Statements : <<version[p], n>> \in applied
    BY <1>1, <1>2, Lengths DEF OnItsWay
  <2> QED
    BY <1>1, <2>1 DEF SchemaInv, RecordedApplied, Statement
<1>6. OnItsWay(p)'
  <2>1. version'[p] = version[p] + 1 /\ next'[p] = 1
    BY <1>1 DEF SchemaInv, Schema!TypeOK
  <2>2. 1..(version'[p] - 1) \subseteq recorded'
    BY <1>1, <1>2, <2>1, Lengths DEF OnItsWay
  <2> QED
    BY <1>1, <1>2, <2>1, <2>2, Lengths DEF OnItsWay
<1>7. \A q \in Processes \ {p} : at'[q] # "closed" => OnItsWay(q)'
  BY <1>1 DEF OnItsWay, SchemaInv, Schema!TypeOK, Progress
<1> QED
  BY <1>3, <1>4, <1>5, <1>6, <1>7 DEF SchemaInv, Progress

\* A process that opens the database is behind the last version, and one that
\* ends leaves its effects.
LEMMA EndKeepsSchema ==
  ASSUME SchemaInv, NEW p \in Processes, Schema!Fail(p) \/ Schema!Opened(p)
  PROVE  SchemaInv'
<1>1. UNCHANGED <<applied, recorded, version, next>>
  BY DEF Schema!Fail, Schema!Opened
<1>2. Schema!TypeOK' /\ NoGap' /\ RecordedApplied'
  BY <1>1 DEF Schema!Fail, Schema!Opened, SchemaInv, Schema!TypeOK, NoGap, RecordedApplied
<1>3. CASE Schema!Fail(p)
  BY <1>1, <1>2, <1>3 DEF Schema!Fail, SchemaInv, Progress, OnItsWay, Schema!TypeOK
<1>4. CASE Schema!Opened(p)
  <2>1. /\ at[p] = "migrating" /\ version[p] > Versions
        /\ at' = [at EXCEPT ![p] = "open"]
    BY <1>4 DEF Schema!Opened
  <2>2. version[p] = Versions + 1
    BY <2>1, Lengths DEF SchemaInv, Progress, OnItsWay
  <2> QED
    BY <1>1, <1>2, <2>1, <2>2 DEF SchemaInv, Progress, OnItsWay, Schema!TypeOK
<1> QED
  BY <1>3, <1>4

\* A database that is open has every version on record, and so everything.
LEMMA SchemaInvComplete ==
  ASSUME SchemaInv
  PROVE  Schema!OpenIsComplete
<1> SUFFICES ASSUME NEW p \in Processes, at[p] = "open"
             PROVE  applied = Schema!All
  BY DEF Schema!OpenIsComplete
<1>1. OnItsWay(p) /\ version[p] = Versions + 1
  BY DEF SchemaInv, Progress, OnItsWay
<1>2. 1..Versions \subseteq recorded
  BY <1>1, Lengths DEF OnItsWay
<1>3. \A v \in 1..Versions, n \in 1..Statements : <<v, n>> \in applied
  BY <1>2 DEF SchemaInv, RecordedApplied, Statement
<1> QED
  BY <1>3 DEF SchemaInv, Schema!TypeOK, Schema!All

\* Every step keeps the invariant.
LEMMA SchemaStepKeeps ==
  ASSUME SchemaInv, [Schema!Next]_(Schema!vars)
  PROVE  SchemaInv'
<1>1. CASE UNCHANGED Schema!vars
  BY <1>1 DEF Schema!vars, SchemaInv, Schema!TypeOK, NoGap, RecordedApplied, Progress, OnItsWay
<1>2. CASE Schema!Next
  BY <1>2, OpenKeeps, ApplyKeeps, RecordKeeps, EndKeepsSchema DEF Schema!Next
<1> QED
  BY <1>1, <1>2

\* It holds of an empty database.
LEMMA SchemaInitHolds ==
  ASSUME Schema!Init
  PROVE  SchemaInv
<1>1. Schema!TypeOK /\ RecordedApplied /\ Progress
  BY Lengths DEF Schema!Init, Schema!TypeOK, RecordedApplied, Progress
<1>2. recorded = 1..0 /\ 0 \in 0..Versions
  BY Lengths DEF Schema!Init
<1> QED
  BY <1>1, <1>2 DEF SchemaInv, NoGap

\* A process works with a database only if every statement of every migration
\* was applied, though the statements of a version and the record of it are
\* committed one by one (migrate).
THEOREM OpenComplete == Schema!Spec => []OpenIsComplete
<1>1. Schema!Init => SchemaInv
  BY SchemaInitHolds
<1>2. SchemaInv /\ [Schema!Next]_(Schema!vars) => SchemaInv'
  BY SchemaStepKeeps
<1>3. SchemaInv => OpenIsComplete
  BY SchemaInvComplete DEF OpenIsComplete
<1> QED
  BY <1>1, <1>2, <1>3, PTL DEF Schema!Spec

-----------------------------------------------------------------------------
(* The task graph.                                                         *)

\* A row has at most one parent, as it is written.
OneParent ==
  \A t \in Tasks : tasks[t] = {} \/ \E row \in Graph!Row :
    tasks[t] = {row} /\ \A p, q \in row.parent : p = q

GraphInv == Graph!TypeOK /\ OneParent

\* The three ways to be next to a task.
LEMMA AdjacentMeans ==
  ASSUME NEW s, NEW t, NEW u
  PROVE  u \in Graph!Adjacent(t, s) <=>
           \/ /\ u \in Graph!OwnedBy(s) /\ t \in Graph!OwnedBy(s)
              /\ <<t, u>> \in edges \/ <<u, t>> \in edges
           \/ t \in Graph!OwnedBy(s) /\ \E row \in tasks[t] : u \in row.parent
           \/ u \in Graph!OwnedBy(s) /\ \E row \in tasks[u] : row.parent = {t}
<1>1. u \in UNION {row.parent : row \in IF t \in Graph!OwnedBy(s) THEN tasks[t] ELSE {}} <=>
        t \in Graph!OwnedBy(s) /\ \E row \in tasks[t] : u \in row.parent
  OBVIOUS
<1> QED
  BY <1>1 DEF Graph!Adjacent

\* Whoever is next to a task has that task next to it.
LEMMA NextToEachOther ==
  ASSUME GraphInv, NEW s \in Sessions, NEW t \in Tasks, NEW u \in Graph!Adjacent(t, s)
  PROVE  u \in Tasks /\ t \in Graph!Adjacent(u, s)
<1>1. \A v \in Graph!OwnedBy(s) : v \in Tasks /\ \E row \in Graph!Row : tasks[v] = {row}
  BY DEF GraphInv, OneParent, Graph!OwnedBy, Graph!Known
<1>2. CASE /\ u \in Graph!OwnedBy(s) /\ t \in Graph!OwnedBy(s)
           /\ <<t, u>> \in edges \/ <<u, t>> \in edges
  BY <1>1, <1>2, AdjacentMeans
<1>3. CASE t \in Graph!OwnedBy(s) /\ \E row \in tasks[t] : u \in row.parent
  <2>1. PICK row \in Graph!Row : tasks[t] = {row} /\ \A p, q \in row.parent : p = q
    BY <1>1, <1>3 DEF GraphInv, OneParent
  <2>2. u \in row.parent /\ row.parent = {u} /\ u \in Tasks
    BY <1>3, <2>1 DEF Graph!Row
  <2> QED
    BY <1>3, <2>1, <2>2, AdjacentMeans
<1>4. CASE u \in Graph!OwnedBy(s) /\ \E row \in tasks[u] : row.parent = {t}
  BY <1>1, <1>4, AdjacentMeans
<1> QED
  BY <1>2, <1>3, <1>4, AdjacentMeans

\* What is reached from t.
Reached(t, s) ==
  {u \in Tasks : \A set \in SUBSET Tasks :
     t \in set /\ (\A v \in set : Graph!Adjacent(v, s) \subseteq set) => u \in set}

LEMMA ReachedIsClosed ==
  ASSUME GraphInv, NEW s \in Sessions, NEW t \in Tasks
  PROVE  /\ Reached(t, s) \subseteq Tasks /\ t \in Reached(t, s)
         /\ \A v \in Reached(t, s) : Graph!Adjacent(v, s) \subseteq Reached(t, s)
<1>1. \A v \in Tasks : Graph!Adjacent(v, s) \subseteq Tasks
  BY NextToEachOther
<1> QED
  BY <1>1 DEF Reached

\* The reached are reached from each other: what u does not reach is closed too.
LEMMA ReachedIsMutual ==
  ASSUME GraphInv, NEW s \in Sessions, NEW t \in Tasks, NEW u \in Reached(t, s)
  PROVE  Reached(u, s) = Reached(t, s)
<1>1. u \in Tasks
  BY DEF Reached
<1>2. Reached(u, s) \subseteq Reached(t, s)
  BY <1>1, ReachedIsClosed DEF Reached
<1>3. t \in Reached(u, s)
  <2> SUFFICES ASSUME t \notin Reached(u, s)
               PROVE  FALSE
    OBVIOUS
  <2>1. \A v \in Tasks \ Reached(u, s) : Graph!Adjacent(v, s) \subseteq Tasks \ Reached(u, s)
    BY <1>1, ReachedIsClosed, NextToEachOther
  <2>2. u \in Tasks \ Reached(u, s)
    BY <2>1 DEF Reached
  <2> QED
    BY <1>1, <2>2, ReachedIsClosed
<1>4. Reached(t, s) \subseteq Reached(u, s)
  BY <1>1, <1>3, ReachedIsClosed DEF Reached
<1> QED
  BY <1>2, <1>4

LEMMA GraphInvMutual == GraphInv => Graph!RelatedIsMutual
<1> SUFFICES ASSUME GraphInv, NEW s \in Sessions, NEW t \in Graph!OwnedBy(s),
                    NEW u \in Graph!Related(t, s)
             PROVE  Graph!Related(u, s) = Graph!Related(t, s)
  BY DEF Graph!RelatedIsMutual
<1>1. Graph!OwnedBy(s) \subseteq Tasks
  BY DEF Graph!OwnedBy, Graph!Known
<1>2. \A v \in Tasks : Graph!Related(v, s) = Reached(v, s) \cap Graph!OwnedBy(s)
  BY <1>1 DEF Graph!Related, Reached
<1> QED
  BY <1>1, <1>2, ReachedIsMutual

\* Rows are written with one parent or none, and a claim keeps it.
LEMMA GraphStepKeeps ==
  ASSUME GraphInv, [Graph!Next]_(Graph!vars)
  PROVE  GraphInv'
<1>1. ASSUME NEW t \in Tasks, NEW father \in {{}} \cup {{p} : p \in Tasks},
             NEW owner \in {{}} \cup {{s} : s \in Sessions},
             Graph!Create(t, father, owner) \/ Graph!Overwrite(t, father, owner)
      PROVE  GraphInv'
  <2>1. [parent |-> father, owner |-> owner] \in Graph!Row
    BY DEF Graph!Row
  <2>2. /\ tasks' = [tasks EXCEPT ![t] = {[parent |-> father, owner |-> owner]}]
        /\ UNCHANGED <<edges, replacing, todo>>
    BY <1>1 DEF Graph!Create, Graph!Overwrite
  <2> QED
    BY <2>1, <2>2 DEF GraphInv, Graph!TypeOK, OneParent
<1>2. ASSUME NEW t \in Tasks, NEW s \in Sessions, Graph!Claim(t, s)
      PROVE  GraphInv'
  <2>1. PICK row \in tasks[t] : tasks' = [tasks EXCEPT ![t] = {[row EXCEPT !.owner = {s}]}]
    BY <1>2 DEF Graph!Claim
  <2>2. UNCHANGED <<edges, replacing, todo>>
    BY <1>2 DEF Graph!Claim
  <2>3. row \in Graph!Row /\ \A p, q \in row.parent : p = q
    BY DEF GraphInv, OneParent
  <2>4. /\ [row EXCEPT !.owner = {s}] \in Graph!Row
        /\ [row EXCEPT !.owner = {s}].parent = row.parent
    BY <2>3 DEF Graph!Row
  <2> DEFINE new == [row EXCEPT !.owner = {s}]
  <2>5. new \in Graph!Row /\ \A p, q \in new.parent : p = q
    BY <2>3, <2>4
  <2> HIDE DEF new
  <2>6. tasks' = [tasks EXCEPT ![t] = {new}]
    BY <2>1 DEF new
  <2> QED
    BY <2>2, <2>5, <2>6 DEF GraphInv, Graph!TypeOK, OneParent
<1>3. UNCHANGED tasks /\ Graph!TypeOK' => GraphInv'
  BY DEF GraphInv, OneParent
<1>4. ASSUME NEW t \in Tasks, NEW d \in Tasks, Graph!AddEdge(t, d)
      PROVE  GraphInv'
  BY <1>3, <1>4 DEF Graph!AddEdge, GraphInv, Graph!TypeOK
<1>5. ASSUME NEW t \in Tasks, NEW deps \in SUBSET Tasks, Graph!Replace(t, deps)
      PROVE  GraphInv'
  BY <1>3, <1>5 DEF Graph!Replace, Graph!Others, GraphInv, Graph!TypeOK
<1>6. ASSUME NEW d \in Tasks, Graph!ReplaceOne(d)
      PROVE  GraphInv'
  BY <1>3, <1>6 DEF Graph!ReplaceOne, GraphInv, Graph!TypeOK
<1>7. CASE Graph!ReplaceFails \/ UNCHANGED Graph!vars
  BY <1>3, <1>7 DEF Graph!ReplaceFails, Graph!vars, GraphInv, Graph!TypeOK
<1> QED
  BY <1>1, <1>2, <1>4, <1>5, <1>6, <1>7 DEF Graph!Next

\* Whatever rows and edges were written, a watcher sees the same graph from each
\* of its tasks (collect_related_task_ids).
THEOREM RelatedToEachOther == Graph!Spec => []RelatedIsMutual
<1>1. Graph!Init => GraphInv
  BY DEF Graph!Init, GraphInv, Graph!TypeOK, OneParent
<1>2. GraphInv /\ [Graph!Next]_(Graph!vars) => GraphInv'
  BY GraphStepKeeps
<1>3. GraphInv => RelatedIsMutual
  BY GraphInvMutual DEF RelatedIsMutual
<1> QED
  BY <1>1, <1>2, <1>3, PTL DEF Graph!Spec

-----------------------------------------------------------------------------
(* validate_task_graph_acyclic.                                            *)

Pick(s) == CHOOSE x \in s : TRUE

\* What holds of the empty set, and of a set when it holds of the set without its
\* first element, holds of every subset of a finite set.
LEMMA SubsetsAre ==
  ASSUME NEW S, IsFiniteSet(S), NEW W, {} \in W,
         \A s \in SUBSET S : s # {} /\ s \ {Pick(s)} \in W => s \in W
  PROVE  SUBSET S \subseteq W
<1> DEFINE k == Cardinality(S)
           small == {n \in 0..k : \A s \in SUBSET S : Cardinality(s) <= n => s \in W}
<1>1. k \in Nat
  BY FS_CardinalityType
<1>2. \A s \in SUBSET S : IsFiniteSet(s) /\ Cardinality(s) \in Nat /\ Cardinality(s) <= k
  BY FS_Subset, FS_CardinalityType
<1>3. 0 \in small
  <2>1. ASSUME NEW s \in SUBSET S, Cardinality(s) <= 0 PROVE s = {}
    <3>1. Cardinality(s) = 0
      BY <1>2, <2>1
    <3> QED
      BY <1>2, <3>1, FS_EmptySet
  <2> QED
    BY <1>1, <2>1
<1>4. ASSUME NEW n \in 0..k, n \in small, n < k PROVE n + 1 \in small
  <2>1. ASSUME NEW s \in SUBSET S, Cardinality(s) <= n + 1 PROVE s \in W
    <3>1. CASE s = {}
      BY <3>1
    <3>2. CASE s # {}
      <4>1. Pick(s) \in s
        BY <3>2 DEF Pick
      <4>2. Cardinality(s \ {Pick(s)}) = Cardinality(s) - 1
        BY <1>2, <4>1, FS_RemoveElement
      <4>3. s \ {Pick(s)} \in SUBSET S
        OBVIOUS
      <4>4. Cardinality(s \ {Pick(s)}) <= n
        BY <1>2, <2>1, <4>2
      <4>5. s \ {Pick(s)} \in W
        BY <1>4, <4>3, <4>4
      <4> QED
        BY <3>2, <4>5
    <3> QED
      BY <3>1, <3>2
  <2>2. n + 1 \in 0..k
    BY <1>1, <1>4
  <2> QED
    BY <2>1, <2>2
<1>5. \A n \in 0..k : n \in small
  <2> HIDE DEF small, k
  <2> QED
    BY <1>1, <1>3, <1>4, Climb
<1>6. k \in small
  BY <1>1, <1>5
<1> QED
  BY <1>2, <1>6

Start(visited) == [cycle |-> FALSE, visited |-> visited]

\* f is what a fold over the subsets of S computes.
FoldStep(f, w, path, visited, s) ==
  IF s = {} THEN Start(visited)
  ELSE Graph!Visit(w, path, Pick(s), f[s \ {Pick(s)}])

IsFold(f, w, path, visited, S) == f = [s \in SUBSET S |-> FoldStep(f, w, path, visited, s)]

LEMMA FoldIsThere ==
  ASSUME NEW w, NEW path, NEW visited, NEW S, IsFiniteSet(S)
  PROVE  \E f : IsFold(f, w, path, visited, S)
<1> DEFINE k == Cardinality(S)
           Step(f, s) == FoldStep(f, w, path, visited, s)
           upTo == {n \in 0..k : \E f : \A s \in SUBSET S : Cardinality(s) <= n => f[s] = Step(f, s)}
<1>1. k \in Nat
  BY FS_CardinalityType
<1>2. \A s \in SUBSET S : IsFiniteSet(s) /\ Cardinality(s) \in Nat /\ Cardinality(s) <= k
  BY FS_Subset, FS_CardinalityType
<1>3. ASSUME NEW f, NEW g, NEW n \in Nat, NEW s \in SUBSET S, Cardinality(s) <= n + 1,
             \A r \in SUBSET S : Cardinality(r) <= n => f[r] = g[r]
      PROVE  Step(f, s) = Step(g, s)
  <2>1. CASE s = {}
    BY <2>1 DEF FoldStep
  <2>2. CASE s # {}
    <3>1. Pick(s) \in s
      BY <2>2 DEF Pick
    <3>2. Cardinality(s \ {Pick(s)}) = Cardinality(s) - 1
      BY <1>2, <3>1, FS_RemoveElement
    <3>3. s \ {Pick(s)} \in SUBSET S
      OBVIOUS
    <3>4. Cardinality(s \ {Pick(s)}) <= n
      BY <1>2, <1>3, <3>2
    <3>5. f[s \ {Pick(s)}] = g[s \ {Pick(s)}]
      BY <1>3, <3>3, <3>4
    <3> QED
      BY <3>5 DEF FoldStep
  <2> QED
    BY <2>1, <2>2
<1>4. 0 \in upTo
  <2> DEFINE f == [s \in SUBSET S |-> Start(visited)]
  <2>1. ASSUME NEW s \in SUBSET S, Cardinality(s) <= 0 PROVE f[s] = Step(f, s)
    <3>1. Cardinality(s) = 0
      BY <1>2, <2>1
    <3>2. s = {}
      BY <1>2, <3>1, FS_EmptySet
    <3> QED
      BY <3>2 DEF FoldStep
  <2> HIDE DEF f
  <2> QED
    BY <1>1, <2>1
<1>5. ASSUME NEW n \in 0..k, n \in upTo, n < k PROVE n + 1 \in upTo
  <2>1. PICK f : \A s \in SUBSET S : Cardinality(s) <= n => f[s] = Step(f, s)
    BY <1>5
  <2> DEFINE g == [s \in SUBSET S |-> Step(f, s)]
  <2>2. \A s \in SUBSET S : g[s] = Step(f, s)
    OBVIOUS
  <2> HIDE DEF g, Step
  <2>3. \A s \in SUBSET S : Cardinality(s) <= n => f[s] = g[s]
    BY <2>1, <2>2
  <2>4. \A s \in SUBSET S : Cardinality(s) <= n + 1 => g[s] = Step(g, s)
    BY <1>3, <2>2, <2>3
  <2>5. n + 1 \in 0..k
    BY <1>1, <1>5
  <2> QED
    BY <2>4, <2>5
<1>6. k \in upTo
  <2>1. \A n \in 0..k : n \in upTo
    <3> HIDE DEF upTo, k
    <3> QED
      BY <1>1, <1>4, <1>5, Climb
  <2> QED
    BY <1>1, <2>1
<1>7. PICK f : \A s \in SUBSET S : f[s] = Step(f, s)
  BY <1>2, <1>6
<1> DEFINE g == [s \in SUBSET S |-> Step(f, s)]
<1>8. \A s \in SUBSET S : g[s] = Step(f, s)
  OBVIOUS
<1>9. \A s \in SUBSET S : f[s] = g[s]
  BY <1>7, <1>8
<1>10. \A s \in SUBSET S : Step(f, s) = Step(g, s)
  <2> HIDE DEF g, Step
  <2>1. \A r \in SUBSET S : Cardinality(r) <= k => f[r] = g[r]
    BY <1>9
  <2>2. \A s \in SUBSET S : Cardinality(s) <= k + 1
    BY <1>1, <1>2
  <2> QED
    BY <1>1, <1>3, <2>1, <2>2
<1>11. g = [s \in SUBSET S |-> Step(g, s)]
  BY <1>10
<1> QED
  BY <1>11 DEF IsFold

\* The fold of the model, and what it does with one more element.
LEMMA FoldIs ==
  ASSUME NEW w, NEW path, NEW visited, NEW S, IsFiniteSet(S)
  PROVE  \E f : IsFold(f, w, path, visited, S) /\ Graph!VisitEach(w, path, visited, S) = f[S]
<1> DEFINE f == CHOOSE g : g =
             [s \in SUBSET S |->
                IF s = {} THEN [cycle |-> FALSE, visited |-> visited]
                ELSE Graph!Visit(w, path, CHOOSE x \in s : TRUE, g[s \ {CHOOSE x \in s : TRUE}])]
<1>1. Graph!VisitEach(w, path, visited, S) = f[S]
  BY DEF Graph!VisitEach, Graph!FoldSet, Graph!MapThenFoldSet
<1>2. f = CHOOSE g : IsFold(g, w, path, visited, S)
  BY Zenon DEF IsFold, FoldStep, Start, Pick
<1> HIDE DEF f
<1>3. IsFold(f, w, path, visited, S)
  BY <1>2, FoldIsThere
<1> QED
  BY <1>1, <1>3

LEMMA FoldMeans ==
  ASSUME NEW w, NEW path, NEW visited, NEW S, NEW f, IsFold(f, w, path, visited, S)
  PROVE  /\ f[{}] = Start(visited)
         /\ \A s \in SUBSET S : s # {} =>
              Pick(s) \in s /\ f[s] = Graph!Visit(w, path, Pick(s), f[s \ {Pick(s)}])
<1>1. \A s \in SUBSET S : f[s] = FoldStep(f, w, path, visited, s)
  BY DEF IsFold
<1>2. \A s \in SUBSET S : s # {} => Pick(s) \in s
  BY DEF Pick
<1> QED
  BY <1>1, <1>2 DEF FoldStep

\* What holds before the first node and after every visit holds after the fold.
LEMMA FoldRule ==
  ASSUME NEW w, NEW path, NEW visited, NEW S, IsFiniteSet(S), NEW K,
         Start(visited) \in K[{}],
         \A s \in SUBSET S, x \in S : \A acc \in K[s] :
           Graph!Visit(w, path, x, acc) \in K[s \cup {x}]
  PROVE  Graph!VisitEach(w, path, visited, S) \in K[S]
<1>1. PICK f : IsFold(f, w, path, visited, S) /\ Graph!VisitEach(w, path, visited, S) = f[S]
  BY FoldIs
<1>3. /\ f[{}] = Start(visited)
      /\ \A s \in SUBSET S : s # {} =>
           Pick(s) \in s /\ f[s] = Graph!Visit(w, path, Pick(s), f[s \ {Pick(s)}])
  BY <1>1, FoldMeans
<1> DEFINE W == {s \in SUBSET S : f[s] \in K[s]}
<1>4. {} \in W
  BY <1>3
<1>5. ASSUME NEW s \in SUBSET S, s # {}, s \ {Pick(s)} \in W
      PROVE  s \in W
  <2>1. s \ {Pick(s)} \in SUBSET S /\ Pick(s) \in S /\ (s \ {Pick(s)}) \cup {Pick(s)} = s
    BY <1>3, <1>5
  <2>2. f[s \ {Pick(s)}] \in K[s \ {Pick(s)}]
    BY <1>5
  <2>3. Graph!Visit(w, path, Pick(s), f[s \ {Pick(s)}]) \in K[(s \ {Pick(s)}) \cup {Pick(s)}]
    BY <2>1, <2>2
  <2> QED
    BY <1>3, <1>5, <2>1, <2>3
<1>6. S \in W
  <2> HIDE DEF W
  <2>1. SUBSET S \subseteq W
    BY <1>4, <1>5, SubsetsAre
  <2> QED
    BY <2>1
<1> QED
  BY <1>1, <1>6

Accs == [cycle : BOOLEAN, visited : SUBSET Tasks]

\* Walks that agree about the next nodes make the same of a fold over them.
LEMMA FoldsAgree ==
  ASSUME NEW w, NEW u, NEW path, NEW visited \in SUBSET Tasks,
         NEW S \in SUBSET Tasks, IsFiniteSet(S),
         \A x \in S \ path, before \in SUBSET Tasks :
           LET from == [node |-> x, stack |-> path, visited |-> before]
           IN  w[from] = u[from] /\ w[from] \in Accs
  PROVE  /\ Graph!VisitEach(w, path, visited, S) = Graph!VisitEach(u, path, visited, S)
         /\ Graph!VisitEach(w, path, visited, S) \in Accs
<1>0. \A x \in S \ path, before \in SUBSET Tasks :
        /\ w[[node |-> x, stack |-> path, visited |-> before]]
             = u[[node |-> x, stack |-> path, visited |-> before]]
        /\ w[[node |-> x, stack |-> path, visited |-> before]] \in Accs
  OBVIOUS
<1>1. PICK f : IsFold(f, w, path, visited, S) /\ Graph!VisitEach(w, path, visited, S) = f[S]
  BY FoldIs
<1>2. PICK g : IsFold(g, u, path, visited, S) /\ Graph!VisitEach(u, path, visited, S) = g[S]
  BY FoldIs
<1>3. /\ f[{}] = Start(visited)
      /\ \A s \in SUBSET S : s # {} =>
           Pick(s) \in s /\ f[s] = Graph!Visit(w, path, Pick(s), f[s \ {Pick(s)}])
  BY <1>1, FoldMeans
<1>4. /\ g[{}] = Start(visited)
      /\ \A s \in SUBSET S : s # {} =>
           Pick(s) \in s /\ g[s] = Graph!Visit(u, path, Pick(s), g[s \ {Pick(s)}])
  BY <1>2, FoldMeans
<1> DEFINE W == {s \in SUBSET S : f[s] = g[s] /\ f[s] \in Accs}
<1>5. {} \in W
  <2>1. Start(visited) \in Accs
    BY DEF Start, Accs
  <2> QED
    BY <1>3, <1>4, <2>1
<1>6. ASSUME NEW acc \in Accs, NEW x \in S
      PROVE  /\ Graph!Visit(w, path, x, acc) = Graph!Visit(u, path, x, acc)
             /\ Graph!Visit(w, path, x, acc) \in Accs
  <2>1. CASE acc.cycle \/ x \in acc.visited
    BY <2>1 DEF Graph!Visit
  <2>2. CASE ~ (acc.cycle \/ x \in acc.visited) /\ x \in path
    <3>1. [acc EXCEPT !.cycle = TRUE] \in Accs
      BY DEF Accs
    <3> QED
      BY <2>2, <3>1 DEF Graph!Visit
  <2>3. CASE ~ (acc.cycle \/ x \in acc.visited) /\ x \notin path
    <3>1. acc.visited \in SUBSET Tasks
      BY DEF Accs
    <3> QED
      BY <1>0, <2>3, <3>1 DEF Graph!Visit
  <2> QED
    BY <2>1, <2>2, <2>3
<1>7. ASSUME NEW s \in SUBSET S, s # {}, s \ {Pick(s)} \in W
      PROVE  s \in W
  <2>1. Pick(s) \in S
    BY <1>3, <1>7
  <2>2. f[s \ {Pick(s)}] = g[s \ {Pick(s)}] /\ f[s \ {Pick(s)}] \in Accs
    BY <1>7
  <2>3. /\ f[s] = Graph!Visit(w, path, Pick(s), f[s \ {Pick(s)}])
        /\ g[s] = Graph!Visit(u, path, Pick(s), f[s \ {Pick(s)}])
    BY <1>3, <1>4, <1>7, <2>2
  <2> QED
    BY <1>6, <2>1, <2>2, <2>3
<1>8. S \in W
  <2> HIDE DEF W
  <2>1. SUBSET S \subseteq W
    BY <1>5, <1>7, SubsetsAre
  <2> QED
    BY <2>1
<1> QED
  BY <1>1, <1>2, <1>8

-----------------------------------------------------------------------------
\* The tasks that are not on the path of a walk.
Ahead(from) == Cardinality(Tasks \ (from.stack \cup {from.node}))

LEMMA AheadShrinks ==
  ASSUME IsFiniteSet(Tasks), NEW from \in Graph!Place
  PROVE  /\ Ahead(from) \in Nat /\ Ahead(from) <= Cardinality(Tasks)
         /\ \A x \in Tasks \ (from.stack \cup {from.node}), visited \in SUBSET Tasks :
              LET there == [node |-> x, stack |-> from.stack \cup {from.node}, visited |-> visited]
              IN  there \in Graph!Place /\ Ahead(there) < Ahead(from)
<1> DEFINE path == from.stack \cup {from.node}
<1>1. path \in SUBSET Tasks
  BY DEF Graph!Place
<1>2. IsFiniteSet(Tasks \ path) /\ Cardinality(Tasks \ path) <= Cardinality(Tasks)
  BY FS_Subset
<1>3. Ahead(from) = Cardinality(Tasks \ path) /\ Cardinality(Tasks \ path) \in Nat
  BY <1>2, FS_CardinalityType DEF Ahead
<1> HIDE DEF path
<1>4. ASSUME NEW x \in Tasks \ path, NEW visited \in SUBSET Tasks
      PROVE  /\ [node |-> x, stack |-> path, visited |-> visited] \in Graph!Place
             /\ Ahead([node |-> x, stack |-> path, visited |-> visited]) < Ahead(from)
  <2>1. Tasks \ (path \cup {x}) = (Tasks \ path) \ {x}
    OBVIOUS
  <2>2. Cardinality((Tasks \ path) \ {x}) = Cardinality(Tasks \ path) - 1
    BY <1>2, FS_RemoveElement
  <2>3. Ahead([node |-> x, stack |-> path, visited |-> visited]) = Ahead(from) - 1
    BY <1>3, <2>1, <2>2 DEF Ahead
  <2> QED
    BY <1>1, <1>3, <2>3 DEF Graph!Place
<1> QED
  BY <1>2, <1>3, <1>4 DEF path

\* w is the walk of the model over the edges of all.
WalksOver(w, all) == w = [from \in Graph!Place |-> Graph!WalkFrom(all, w, from)]

LEMMA NeighborsAreTasks ==
  ASSUME IsFiniteSet(Tasks), NEW all, NEW x
  PROVE  Graph!Neighbors(all, x) \in SUBSET Tasks /\ IsFiniteSet(Graph!Neighbors(all, x))
<1>1. Graph!Neighbors(all, x) \in SUBSET Tasks
  BY DEF Graph!Neighbors
<1> QED
  BY <1>1, FS_Subset

\* A walk looks only ahead.
LEMMA WalkLooksAhead ==
  ASSUME IsFiniteSet(Tasks), NEW all, NEW w, NEW u, NEW from \in Graph!Place,
         \A p \in Graph!Place : Ahead(p) < Ahead(from) => w[p] = u[p] /\ w[p] \in Accs
  PROVE  /\ Graph!WalkFrom(all, w, from) = Graph!WalkFrom(all, u, from)
         /\ Graph!WalkFrom(all, w, from) \in Accs
<1> DEFINE path == from.stack \cup {from.node}
           S == Graph!Neighbors(all, from.node)
<1>1. from.visited \in SUBSET Tasks /\ from.node \in Tasks
  BY DEF Graph!Place
<1>2. S \in SUBSET Tasks /\ IsFiniteSet(S)
  BY NeighborsAreTasks
<1>3. ASSUME NEW x \in S \ path, NEW visited \in SUBSET Tasks
      PROVE  LET p == [node |-> x, stack |-> path, visited |-> visited]
             IN  w[p] = u[p] /\ w[p] \in Accs
  BY <1>2, AheadShrinks
<1> HIDE DEF path, S
<1>4. /\ Graph!VisitEach(w, path, from.visited, S) = Graph!VisitEach(u, path, from.visited, S)
      /\ Graph!VisitEach(w, path, from.visited, S) \in Accs
  BY <1>1, <1>2, <1>3, FoldsAgree
<1>5. \A acc \in Accs : [acc EXCEPT !.visited = @ \cup {from.node}] \in Accs
  BY <1>1 DEF Accs
<1> QED
  BY <1>4, <1>5 DEF Graph!WalkFrom, path, S

LEMMA WalkIsThere ==
  ASSUME IsFiniteSet(Tasks), NEW all
  PROVE  \E w : WalksOver(w, all)
<1> DEFINE k == Cardinality(Tasks)
           Step(w, p) == Graph!WalkFrom(all, w, p)
           Upto(w, n) == \A p \in Graph!Place : Ahead(p) < n => w[p] = Step(w, p) /\ w[p] \in Accs
           upTo == {n \in 0..(k + 1) : \E w : Upto(w, n)}
<1>1. k \in Nat
  BY FS_CardinalityType
<1>2. \A p \in Graph!Place : Ahead(p) \in Nat /\ Ahead(p) <= k
  BY AheadShrinks
<1>3. \A p \in Graph!Place : ~ (Ahead(p) < 0)
  BY <1>2
<1>4. 0 \in upTo
  BY <1>1, <1>3
<1>5. ASSUME NEW n \in 0..(k + 1), n \in upTo, n < k + 1 PROVE n + 1 \in upTo
  <2>1. PICK w : Upto(w, n)
    BY <1>5
  <2> DEFINE u == [p \in Graph!Place |-> Step(w, p)]
  <2>2. \A p \in Graph!Place : u[p] = Step(w, p)
    OBVIOUS
  <2> HIDE DEF u
  <2>3. ASSUME NEW p \in Graph!Place, Ahead(p) < n + 1
        PROVE  u[p] = Step(u, p) /\ u[p] \in Accs
    <3>1. \A q \in Graph!Place : Ahead(q) < Ahead(p) => w[q] = u[q] /\ w[q] \in Accs
      <4> SUFFICES ASSUME NEW q \in Graph!Place, Ahead(q) < Ahead(p)
                   PROVE  w[q] = u[q] /\ w[q] \in Accs
        OBVIOUS
      <4>1. Ahead(q) < n
        BY <1>2, <2>3
      <4> QED
        BY <2>1, <2>2, <4>1
    <3>2. Step(w, p) = Step(u, p) /\ Step(w, p) \in Accs
      BY <3>1, WalkLooksAhead
    <3> QED
      BY <2>2, <3>2
  <2>4. Upto(u, n + 1)
    BY <2>3
  <2>5. n + 1 \in 0..(k + 1)
    BY <1>1, <1>5
  <2> QED
    BY <2>4, <2>5
<1>6. \E w : Upto(w, k + 1)
  <2>1. \A n \in 0..(k + 1) : n \in upTo
    <3> HIDE DEF upTo, k
    <3>1. k + 1 \in Nat
      BY <1>1
    <3> QED
      BY <3>1, <1>4, <1>5, Climb
  <2> QED
    BY <1>1, <2>1
<1>7. PICK w : Upto(w, k + 1)
  BY <1>6
<1> DEFINE u == [p \in Graph!Place |-> Step(w, p)]
<1>8. \A p \in Graph!Place : u[p] = w[p] /\ w[p] \in Accs
  <2>1. \A p \in Graph!Place : Ahead(p) < k + 1
    BY <1>1, <1>2
  <2> QED
    BY <1>7, <2>1
<1>9. \A p \in Graph!Place : Step(w, p) = Step(u, p)
  <2> HIDE DEF u, Step
  <2>1. \A p \in Graph!Place : Graph!WalkFrom(all, w, p) = Graph!WalkFrom(all, u, p)
    BY <1>8, WalkLooksAhead
  <2> QED
    BY <2>1 DEF Step
<1>10. u = [p \in Graph!Place |-> Step(u, p)]
  BY <1>9
<1> QED
  BY <1>10 DEF WalksOver

\* The check is a fold over all tasks with the walk of the model.
LEMMA CheckIs ==
  ASSUME IsFiniteSet(Tasks), NEW all
  PROVE  \E w : /\ WalksOver(w, all)
                /\ Graph!HasCycle(all) = Graph!VisitEach(w, {}, {}, Tasks).cycle
<1>1. \E w : WalksOver(w, all)
  BY WalkIsThere
<1> QED
  BY <1>1, Zenon DEF Graph!HasCycle, WalksOver

LEMMA WalkMeans ==
  ASSUME NEW all, NEW w, WalksOver(w, all), NEW from \in Graph!Place
  PROVE  w[from] = Graph!WalkFrom(all, w, from)
BY DEF WalksOver

LEMMA WalkHasType ==
  ASSUME IsFiniteSet(Tasks), NEW all, NEW w, WalksOver(w, all)
  PROVE  \A p \in Graph!Place : w[p] \in Accs
<1> DEFINE k == Cardinality(Tasks)
           typed == {n \in 0..(k + 1) : \A p \in Graph!Place : Ahead(p) < n => w[p] \in Accs}
<1>1. k \in Nat
  BY FS_CardinalityType
<1>2. \A p \in Graph!Place : Ahead(p) \in Nat /\ Ahead(p) <= k
  BY AheadShrinks
<1>3. \A p \in Graph!Place : ~ (Ahead(p) < 0)
  BY <1>2
<1>4. 0 \in typed
  BY <1>1, <1>3
<1>5. ASSUME NEW n \in 0..(k + 1), n \in typed, n < k + 1 PROVE n + 1 \in typed
  <2>1. ASSUME NEW p \in Graph!Place, Ahead(p) < n + 1 PROVE w[p] \in Accs
    <3>1. \A q \in Graph!Place : Ahead(q) < Ahead(p) => w[q] = w[q] /\ w[q] \in Accs
      <4> SUFFICES ASSUME NEW q \in Graph!Place, Ahead(q) < Ahead(p)
                   PROVE  w[q] \in Accs
        OBVIOUS
      <4>1. Ahead(q) < n
        BY <1>2, <2>1
      <4> QED
        BY <1>5, <4>1
    <3>2. Graph!WalkFrom(all, w, p) \in Accs
      BY <3>1, WalkLooksAhead
    <3> QED
      BY <3>2, WalkMeans
  <2>2. n + 1 \in 0..(k + 1)
    BY <1>1, <1>5
  <2> QED
    BY <2>1, <2>2
<1>6. \A n \in 0..(k + 1) : n \in typed
  <2> HIDE DEF typed, k
  <2>1. k + 1 \in Nat
    BY <1>1
  <2> QED
    BY <2>1, <1>4, <1>5, Climb
<1>7. k + 1 \in typed /\ \A p \in Graph!Place : Ahead(p) < k + 1
  BY <1>1, <1>2, <1>6
<1> QED
  BY <1>7

\* Every set of tasks has one that waits for none of the set.
Acyclic(all) ==
  \A set \in SUBSET Tasks : set = {} \/ \E t \in set : \A d \in set : <<t, d>> \notin all

\* What was visited: all that its tasks depend on, without a cycle.
Done(all, visited) ==
  /\ visited \in SUBSET Tasks
  /\ \A t \in visited : Graph!Neighbors(all, t) \subseteq visited
  /\ \A set \in SUBSET visited : set = {} \/ \E t \in set : \A d \in set : <<t, d>> \notin all

\* A task whose dependencies are done is done as well.
LEMMA OneMoreDone ==
  ASSUME NEW all, NEW visited, Done(all, visited), NEW node \in Tasks,
         Graph!Neighbors(all, node) \subseteq visited
  PROVE  Done(all, visited \cup {node})
<1> DEFINE more == visited \cup {node}
<1>1. visited \in SUBSET Tasks
  BY DEF Done
<1>2. \A t \in visited, d \in Tasks : <<t, d>> \in all => d \in visited
  BY DEF Done, Graph!Neighbors
<1>3. \A d \in Tasks : <<node, d>> \in all => d \in visited
  BY DEF Graph!Neighbors
<1>4. ASSUME NEW set \in SUBSET more, set # {}
      PROVE  \E t \in set : \A d \in set : <<t, d>> \notin all
  <2>1. CASE set \cap visited = {}
    <3>1. set = {node} /\ node \notin visited
      BY <1>4, <2>1
    <3> QED
      BY <1>3, <3>1
  <2>2. CASE set \cap visited # {}
    <3>1. PICK t \in set \cap visited : \A d \in set \cap visited : <<t, d>> \notin all
      <4>1. set \cap visited \in SUBSET visited
        OBVIOUS
      <4> QED
        BY <2>2, <4>1 DEF Done
    <3>2. \A d \in set : <<t, d>> \notin all
      BY <1>1, <1>2, <3>1
    <3> QED
      BY <3>1, <3>2
  <2> QED
    BY <2>1, <2>2
<1>5. \A t \in more : Graph!Neighbors(all, t) \subseteq more
  BY <1>2 DEF Done
<1> QED
  BY <1>1, <1>4, <1>5 DEF Done

\* What a walk or a fold makes of visited: it is done, more was visited, and so
\* were the nodes, unless a cycle was found.
Finishes(all, visited, nodes, acc) ==
  /\ acc \in Accs
  /\ Done(all, visited) /\ ~acc.cycle =>
       Done(all, acc.visited) /\ visited \subseteq acc.visited /\ nodes \subseteq acc.visited

LEMMA FoldFinishes ==
  ASSUME NEW all, NEW w, NEW path, NEW visited \in SUBSET Tasks,
         NEW S \in SUBSET Tasks, IsFiniteSet(S),
         \A x \in S \ path, v \in SUBSET Tasks :
           Finishes(all, v, {x}, w[[node |-> x, stack |-> path, visited |-> v]])
  PROVE  Finishes(all, visited, S, Graph!VisitEach(w, path, visited, S))
<1> DEFINE K == [s \in SUBSET S |-> {acc \in Accs : Finishes(all, visited, s, acc)}]
<1>0. \A s \in SUBSET S : \A acc : acc \in K[s] <=> acc \in Accs /\ Finishes(all, visited, s, acc)
  OBVIOUS
<1> HIDE DEF K
<1>1. Start(visited) \in K[{}]
  <2>1. Start(visited) \in Accs /\ Start(visited).visited = visited
    BY DEF Start, Accs
  <2>2. Finishes(all, visited, {}, Start(visited))
    BY <2>1 DEF Finishes
  <2> QED
    BY <1>0, <2>1, <2>2
<1>2. ASSUME NEW s \in SUBSET S, NEW x \in S, NEW acc \in K[s]
      PROVE  Graph!Visit(w, path, x, acc) \in K[s \cup {x}]
  <2>1. Finishes(all, visited, s, acc) /\ acc \in Accs
    BY <1>0, <1>2
  <2>2. SUFFICES Finishes(all, visited, s \cup {x}, Graph!Visit(w, path, x, acc))
    <3>1. s \cup {x} \in SUBSET S
      OBVIOUS
    <3>2. Graph!Visit(w, path, x, acc) \in Accs
      BY <2>2 DEF Finishes
    <3> QED
      BY <1>0, <2>2, <3>1, <3>2
  <2>3. CASE acc.cycle \/ x \in acc.visited
    <3>1. Graph!Visit(w, path, x, acc) = acc
      BY <2>3 DEF Graph!Visit
    <3> QED
      BY <2>1, <2>3, <3>1 DEF Finishes
  <2>4. CASE ~ (acc.cycle \/ x \in acc.visited) /\ x \in path
    <3> DEFINE new == [acc EXCEPT !.cycle = TRUE]
    <3>1. Graph!Visit(w, path, x, acc) = new
      BY <2>4 DEF Graph!Visit
    <3>2. new \in Accs /\ new.cycle
      BY <2>1 DEF Accs
    <3> QED
      BY <3>1, <3>2 DEF Finishes
  <2>5. CASE ~ (acc.cycle \/ x \in acc.visited) /\ x \notin path
    <3> DEFINE new == w[[node |-> x, stack |-> path, visited |-> acc.visited]]
    <3>1. Graph!Visit(w, path, x, acc) = new
      BY <2>5 DEF Graph!Visit
    <3>2. acc.visited \in SUBSET Tasks
      BY <2>1 DEF Accs
    <3>3. Finishes(all, acc.visited, {x}, new)
      BY <2>5, <3>2
    <3> HIDE DEF new
    <3> QED
      BY <2>1, <2>5, <3>1, <3>3 DEF Finishes
  <2> QED
    BY <2>3, <2>4, <2>5
<1>3. Graph!VisitEach(w, path, visited, S) \in K[S]
  BY <1>1, <1>2, FoldRule, Zenon
<1> QED
  BY <1>0, <1>3

\* A walk that finds no cycle has finished its node.
LEMMA WalkFinishes ==
  ASSUME IsFiniteSet(Tasks), NEW all, NEW w, WalksOver(w, all)
  PROVE  \A p \in Graph!Place : Finishes(all, p.visited, {p.node}, w[p])
<1> DEFINE k == Cardinality(Tasks)
           W == {n \in 0..(k + 1) : \A p \in Graph!Place :
                   Ahead(p) < n => Finishes(all, p.visited, {p.node}, w[p])}
<1>1. k \in Nat
  BY FS_CardinalityType
<1>2. \A p \in Graph!Place : Ahead(p) \in Nat /\ Ahead(p) <= k
  BY AheadShrinks
<1>3. \A p \in Graph!Place : ~ (Ahead(p) < 0)
  BY <1>2
<1>4. 0 \in W
  BY <1>1, <1>3
<1>5. ASSUME NEW n \in 0..(k + 1), n \in W, n < k + 1 PROVE n + 1 \in W
  <2>1. ASSUME NEW p \in Graph!Place, Ahead(p) < n + 1
        PROVE  Finishes(all, p.visited, {p.node}, w[p])
    <3> DEFINE path == p.stack \cup {p.node}
               S == Graph!Neighbors(all, p.node)
               acc == Graph!VisitEach(w, path, p.visited, S)
    <3>1. p.node \in Tasks /\ p.visited \in SUBSET Tasks
      BY DEF Graph!Place
    <3>2. S \in SUBSET Tasks /\ IsFiniteSet(S)
      BY NeighborsAreTasks
    <3>3. ASSUME NEW x \in S \ path, NEW v \in SUBSET Tasks
          PROVE  Finishes(all, v, {x}, w[[node |-> x, stack |-> path, visited |-> v]])
      <4> DEFINE q == [node |-> x, stack |-> path, visited |-> v]
      <4>1. q \in Graph!Place /\ Ahead(q) < Ahead(p)
        BY <3>2, AheadShrinks
      <4>2. q.node = x /\ q.visited = v
        OBVIOUS
      <4> HIDE DEF q
      <4>3. Ahead(q) < n
        BY <1>2, <2>1, <4>1
      <4>4. Finishes(all, q.visited, {q.node}, w[q])
        BY <1>5, <4>1, <4>3
      <4> QED
        BY <4>2, <4>4 DEF q
    <3>4. Finishes(all, p.visited, S, acc)
      <4> HIDE DEF path, S
      <4> QED
        BY <3>1, <3>2, <3>3, FoldFinishes
    <3>5. w[p] = [acc EXCEPT !.visited = @ \cup {p.node}]
      BY WalkMeans DEF Graph!WalkFrom
    <3> HIDE DEF acc
    <3>6. /\ acc \in Accs /\ w[p] \in Accs /\ w[p].cycle = acc.cycle
          /\ w[p].visited = acc.visited \cup {p.node}
      BY <3>1, <3>4, <3>5 DEF Finishes, Accs
    <3>7. Done(all, acc.visited) /\ S \subseteq acc.visited =>
            Done(all, acc.visited \cup {p.node})
      BY <3>1, OneMoreDone
    <3> QED
      BY <3>4, <3>6, <3>7 DEF Finishes
  <2>2. n + 1 \in 0..(k + 1)
    BY <1>1, <1>5
  <2> QED
    BY <2>1, <2>2
<1>6. \A n \in 0..(k + 1) : n \in W
  <2> HIDE DEF W, k
  <2>1. k + 1 \in Nat
    BY <1>1
  <2> QED
    BY <2>1, <1>4, <1>5, Climb
<1>7. k + 1 \in W /\ \A p \in Graph!Place : Ahead(p) < k + 1
  BY <1>1, <1>2, <1>6
<1> QED
  BY <1>7

\* A graph that passes the check has no cycle.
LEMMA PassedIsAcyclic ==
  ASSUME IsFiniteSet(Tasks), NEW all, ~Graph!HasCycle(all)
  PROVE  Acyclic(all)
<1>1. PICK w : /\ WalksOver(w, all)
               /\ Graph!HasCycle(all) = Graph!VisitEach(w, {}, {}, Tasks).cycle
  BY CheckIs
<1> DEFINE acc == Graph!VisitEach(w, {}, {}, Tasks)
<1>2. ASSUME NEW x \in Tasks, NEW v \in SUBSET Tasks
      PROVE  Finishes(all, v, {x}, w[[node |-> x, stack |-> {}, visited |-> v]])
  <2> DEFINE q == [node |-> x, stack |-> {}, visited |-> v]
  <2>1. q \in Graph!Place /\ q.node = x /\ q.visited = v
    BY DEF Graph!Place
  <2> HIDE DEF q
  <2>2. Finishes(all, q.visited, {q.node}, w[q])
    BY <1>1, <2>1, WalkFinishes
  <2> QED
    BY <2>1, <2>2 DEF q
<1>3. Finishes(all, {}, Tasks, acc)
  BY <1>2, FoldFinishes
<1>4. Done(all, {})
  BY DEF Done
<1>5. ~acc.cycle
  BY <1>1
<1> HIDE DEF acc
<1>6. Done(all, acc.visited) /\ Tasks \subseteq acc.visited
  BY <1>3, <1>4, <1>5 DEF Finishes
<1> QED
  BY <1>6 DEF Done, Acyclic

-----------------------------------------------------------------------------
\* y comes after x in every closed set: x depends on it, maybe by others.
Reaches(all, x, y) ==
  \A set \in SUBSET Tasks :
    x \in set /\ (\A t \in set : Graph!Neighbors(all, t) \subseteq set) => y \in set

LEMMA ReachesFurther ==
  ASSUME NEW all, NEW x, NEW y, Reaches(all, x, y), NEW z \in Graph!Neighbors(all, y)
  PROVE  Reaches(all, x, z)
BY DEF Reaches

\* An edge back to where one came from closes a cycle.
LEMMA NoWayBack ==
  ASSUME NEW all, Acyclic(all), NEW x \in Tasks, NEW y \in Tasks,
         Reaches(all, x, y), x \in Graph!Neighbors(all, y)
  PROVE  FALSE
<1> DEFINE between == {t \in Tasks : Reaches(all, x, t) /\ Reaches(all, t, y)}
<1>1. x \in between
  BY DEF Reaches
<1>2. ASSUME NEW t \in between
      PROVE  \E d \in between : <<t, d>> \in all
  <2>1. CASE t = y
    BY <1>1, <2>1 DEF Graph!Neighbors
  <2>2. CASE t # y
    <3>1. SUFFICES \E d \in Graph!Neighbors(all, t) : Reaches(all, d, y)
      <4>1. \A d \in Graph!Neighbors(all, t) : d \in Tasks /\ <<t, d>> \in all
        BY DEF Graph!Neighbors
      <4>2. \A d \in Graph!Neighbors(all, t) : Reaches(all, x, d)
        BY ReachesFurther
      <4> QED
        BY <3>1, <4>1, <4>2
    <3>2. SUFFICES ASSUME \A d \in Graph!Neighbors(all, t) : ~Reaches(all, d, y) PROVE FALSE
      OBVIOUS
    <3> DEFINE set == {u \in Tasks : ~Reaches(all, u, y)} \cup {t}
    <3>3. y \notin set
      BY <2>2 DEF Reaches
    <3>4. \A u \in Tasks : \A d \in Graph!Neighbors(all, u) : d \in Tasks /\
            (Reaches(all, d, y) => Reaches(all, u, y))
      BY DEF Graph!Neighbors, Reaches
    <3>5. \A u \in set : Graph!Neighbors(all, u) \subseteq set
      BY <3>2, <3>4
    <3>6. Reaches(all, t, y) /\ t \in set /\ set \in SUBSET Tasks
      OBVIOUS
    <3> HIDE DEF set, between
    <3> QED
      BY <3>3, <3>5, <3>6 DEF Reaches
  <2> QED
    BY <2>1, <2>2
<1>3. between \in SUBSET Tasks /\ between # {}
  BY <1>1
<1> HIDE DEF between
<1> QED
  BY <1>2, <1>3 DEF Acyclic

\* In a graph without a cycle a walk finds none, whatever was visited before it.
LEMMA WalkFindsNone ==
  ASSUME IsFiniteSet(Tasks), NEW all, Acyclic(all), NEW w, WalksOver(w, all)
  PROVE  \A p \in Graph!Place :
           (\A x \in p.stack : Reaches(all, x, p.node)) => ~w[p].cycle
<1> DEFINE k == Cardinality(Tasks)
           Way(p) == \A x \in p.stack : Reaches(all, x, p.node)
           W == {n \in 0..(k + 1) : \A p \in Graph!Place : Ahead(p) < n /\ Way(p) => ~w[p].cycle}
<1>1. k \in Nat
  BY FS_CardinalityType
<1>2. \A p \in Graph!Place : Ahead(p) \in Nat /\ Ahead(p) <= k
  BY AheadShrinks
<1>3. \A p \in Graph!Place : ~ (Ahead(p) < 0)
  BY <1>2
<1>4. 0 \in W
  BY <1>1, <1>3
<1>5. ASSUME NEW n \in 0..(k + 1), n \in W, n < k + 1 PROVE n + 1 \in W
  <2>1. ASSUME NEW p \in Graph!Place, Ahead(p) < n + 1, Way(p)
        PROVE  ~w[p].cycle
    <3> DEFINE path == p.stack \cup {p.node}
               S == Graph!Neighbors(all, p.node)
               acc == Graph!VisitEach(w, path, p.visited, S)
               K == [s \in SUBSET S |-> {a \in Accs : ~a.cycle}]
    <3>1. p.node \in Tasks /\ p.visited \in SUBSET Tasks /\ p.stack \in SUBSET Tasks
      BY DEF Graph!Place
    <3>2. S \in SUBSET Tasks /\ IsFiniteSet(S)
      BY NeighborsAreTasks
    <3>3. \A x \in path : x \in Tasks /\ Reaches(all, x, p.node)
      BY <2>1, <3>1 DEF Reaches
    <3>4. \A x \in S : x \notin path
      BY <3>1, <3>2, <3>3, NoWayBack
    <3>5. ASSUME NEW x \in S, NEW v \in SUBSET Tasks
          PROVE  LET a == w[[node |-> x, stack |-> path, visited |-> v]]
                 IN  a \in Accs /\ ~a.cycle
      <4> DEFINE q == [node |-> x, stack |-> path, visited |-> v]
      <4>1. q \in Graph!Place /\ Ahead(q) < Ahead(p)
        BY <3>2, <3>4, AheadShrinks
      <4>2. Way(q)
        BY <3>3, ReachesFurther
      <4> HIDE DEF q
      <4>3. Ahead(q) < n
        BY <1>2, <2>1, <4>1
      <4>4. ~w[q].cycle
        BY <1>5, <4>1, <4>2, <4>3
      <4>5. w[q] \in Accs
        BY <4>1, WalkHasType
      <4> QED
        BY <4>4, <4>5 DEF q
    <3>6. acc \in Accs /\ ~acc.cycle
      <4>1. \A s \in SUBSET S : \A a : a \in K[s] <=> a \in Accs /\ ~a.cycle
        OBVIOUS
      <4> HIDE DEF K, path, S
      <4>2. Start(p.visited) \in K[{}]
        <5>1. Start(p.visited) \in Accs /\ ~Start(p.visited).cycle
          BY <3>1 DEF Start, Accs
        <5> QED
          BY <4>1, <5>1
      <4>3. ASSUME NEW s \in SUBSET S, NEW x \in S, NEW a \in K[s]
            PROVE  Graph!Visit(w, path, x, a) \in K[s \cup {x}]
        <5>1. a \in Accs /\ ~a.cycle /\ a.visited \in SUBSET Tasks
          BY <4>1 DEF Accs
        <5>2. \/ Graph!Visit(w, path, x, a) = a
              \/ Graph!Visit(w, path, x, a) = w[[node |-> x, stack |-> path, visited |-> a.visited]]
          BY <3>4, <5>1 DEF Graph!Visit
        <5>3. Graph!Visit(w, path, x, a) \in Accs /\ ~Graph!Visit(w, path, x, a).cycle
          BY <3>5, <5>1, <5>2
        <5>4. s \cup {x} \in SUBSET S
          OBVIOUS
        <5> QED
          BY <4>1, <5>3, <5>4
      <4>4. acc \in K[S]
        BY <3>2, <4>2, <4>3, FoldRule, Zenon
      <4> QED
        BY <4>1, <4>4
    <3>7. w[p] = [acc EXCEPT !.visited = @ \cup {p.node}]
      BY WalkMeans DEF Graph!WalkFrom
    <3> HIDE DEF acc
    <3> QED
      BY <3>6, <3>7 DEF Accs
  <2>2. n + 1 \in 0..(k + 1)
    BY <1>1, <1>5
  <2> QED
    BY <2>1, <2>2
<1>6. \A n \in 0..(k + 1) : n \in W
  <2> HIDE DEF W, k
  <2>1. k + 1 \in Nat
    BY <1>1
  <2> QED
    BY <2>1, <1>4, <1>5, Climb
<1>7. k + 1 \in W /\ \A p \in Graph!Place : Ahead(p) < k + 1
  BY <1>1, <1>2, <1>6
<1> QED
  BY <1>7

\* validate_task_graph_acyclic refuses the graphs that have a cycle and no other,
\* whatever the order it comes upon nodes and neighbors in.
THEOREM CheckFindsCycles ==
  ASSUME NEW all
  PROVE  Graph!HasCycle(all) <=> ~Acyclic(all)
<1>0. IsFiniteSet(Tasks)
  BY RecordsAssumption
<1>1. ASSUME Acyclic(all) PROVE ~Graph!HasCycle(all)
  <2>1. PICK w : /\ WalksOver(w, all)
                 /\ Graph!HasCycle(all) = Graph!VisitEach(w, {}, {}, Tasks).cycle
    BY <1>0, CheckIs
  <2> DEFINE acc == Graph!VisitEach(w, {}, {}, Tasks)
             K == [s \in SUBSET Tasks |-> {a \in Accs : ~a.cycle}]
  <2>2. \A s \in SUBSET Tasks : \A a : a \in K[s] <=> a \in Accs /\ ~a.cycle
    OBVIOUS
  <2>3. Start({}) \in K[{}]
    BY DEF Start, Accs
  <2> HIDE DEF K
  <2>4. ASSUME NEW s \in SUBSET Tasks, NEW x \in Tasks, NEW a \in K[s]
        PROVE  Graph!Visit(w, {}, x, a) \in K[s \cup {x}]
    <3>1. a \in Accs /\ ~a.cycle /\ a.visited \in SUBSET Tasks
      BY <2>2 DEF Accs
    <3> DEFINE q == [node |-> x, stack |-> {}, visited |-> a.visited]
    <3>2. q \in Graph!Place /\ q.stack = {}
      BY <3>1 DEF Graph!Place
    <3>3. Graph!Visit(w, {}, x, a) = a \/ Graph!Visit(w, {}, x, a) = w[q]
      BY <3>1 DEF Graph!Visit
    <3> HIDE DEF q
    <3>4. ~w[q].cycle /\ w[q] \in Accs
      BY <1>0, <1>1, <2>1, <3>2, WalkFindsNone, WalkHasType
    <3>5. Graph!Visit(w, {}, x, a) \in Accs /\ ~Graph!Visit(w, {}, x, a).cycle
      BY <3>1, <3>3, <3>4
    <3>6. s \cup {x} \in SUBSET Tasks
      OBVIOUS
    <3> QED
      BY <2>2, <3>5, <3>6
  <2>5. acc \in K[Tasks]
    BY <1>0, <2>3, <2>4, FoldRule, Zenon
  <2> QED
    BY <2>1, <2>2, <2>5
<1> QED
  BY <1>0, <1>1, PassedIsAcyclic

-----------------------------------------------------------------------------
\* What is written, and what a replacement has still to write, has no cycle.
AcyclicInv == GraphInv /\ Acyclic(edges \cup (replacing \X todo))

LEMMA FewerEdgesKeep ==
  ASSUME NEW all, Acyclic(all), NEW some, some \subseteq all
  PROVE  Acyclic(some)
BY DEF Acyclic

LEMMA AcyclicStepKeeps ==
  ASSUME AcyclicInv, [Graph!Next]_(Graph!vars)
  PROVE  AcyclicInv'
<1> DEFINE written == edges' \cup (replacing' \X todo')
<1>1. SUFFICES Acyclic(written)
  <2>1. GraphInv'
    BY GraphStepKeeps DEF AcyclicInv
  <2> QED
    BY <1>1, <2>1 DEF AcyclicInv, Acyclic
<1>2. ASSUME written \subseteq edges \cup (replacing \X todo) PROVE Acyclic(written)
  BY <1>2, FewerEdgesKeep DEF AcyclicInv
<1>3. ASSUME UNCHANGED <<edges, replacing, todo>> PROVE Acyclic(written)
  BY <1>2, <1>3
<1>4. ASSUME NEW t \in Tasks, NEW d \in Tasks, Graph!AddEdge(t, d) PROVE Acyclic(written)
  <2>1. /\ ~Graph!HasCycle(edges \cup {<<t, d>>}) /\ edges' = edges \cup {<<t, d>>}
        /\ replacing' = {}
    BY <1>4 DEF Graph!AddEdge
  <2>2. written = edges \cup {<<t, d>>}
    BY <2>1
  <2> QED
    BY <2>1, <2>2, CheckFindsCycles
<1>5. ASSUME NEW t \in Tasks, NEW deps \in SUBSET Tasks, Graph!Replace(t, deps)
      PROVE  Acyclic(written)
  <2>1. /\ ~Graph!HasCycle(Graph!Others(t) \cup ({t} \X deps)) /\ edges' = Graph!Others(t)
        /\ replacing' = (IF deps = {} THEN {} ELSE {t}) /\ todo' = deps
    BY <1>5 DEF Graph!Replace
  <2>2. Acyclic(Graph!Others(t) \cup ({t} \X deps))
    BY <2>1, CheckFindsCycles
  <2>3. written \subseteq Graph!Others(t) \cup ({t} \X deps)
    BY <2>1
  <2> QED
    BY <2>2, <2>3, FewerEdgesKeep
<1>6. ASSUME NEW d \in Tasks, Graph!ReplaceOne(d) PROVE Acyclic(written)
  <2>1. PICK t \in replacing : edges' = edges \cup {<<t, d>>}
    BY <1>6 DEF Graph!ReplaceOne
  <2>2. /\ d \in todo /\ todo' = todo \ {d}
        /\ replacing' = (IF todo' = {} THEN {} ELSE replacing)
    BY <1>6 DEF Graph!ReplaceOne
  <2>3. written \subseteq edges \cup (replacing \X todo)
    BY <2>1, <2>2
  <2> QED
    BY <1>2, <2>3
<1>7. ASSUME Graph!ReplaceFails PROVE Acyclic(written)
  <2>1. written \subseteq edges
    BY <1>7 DEF Graph!ReplaceFails
  <2> QED
    BY <1>2, <2>1
<1> HIDE DEF written
<1> QED
  BY <1>3, <1>4, <1>5, <1>6, <1>7
  DEF Graph!Next, Graph!Create, Graph!Overwrite, Graph!Claim, Graph!vars

\* Whatever order edges are written in, and wherever a replacement stopped, no
\* tasks wait for each other for ever (TaskEdgeRecord, replace_for_task).
THEOREM DependenciesHaveNoCycle == Graph!Spec => []GraphStaysAcyclic
<1>1. Graph!Init => AcyclicInv
  <2> SUFFICES ASSUME Graph!Init PROVE AcyclicInv
    OBVIOUS
  <2>1. GraphInv /\ edges \cup (replacing \X todo) = {}
    BY DEF Graph!Init, GraphInv, Graph!TypeOK, OneParent
  <2> QED
    BY <2>1 DEF AcyclicInv, Acyclic
<1>2. AcyclicInv /\ [Graph!Next]_(Graph!vars) => AcyclicInv'
  BY AcyclicStepKeeps
<1>3. AcyclicInv => GraphStaysAcyclic
  BY FewerEdgesKeep DEF AcyclicInv, Acyclic, GraphStaysAcyclic, Graph!GraphStaysAcyclic
<1> QED
  BY <1>1, <1>2, <1>3, PTL DEF Graph!Spec

-----------------------------------------------------------------------------
(* The answer that is streamed.                                            *)

\* What a server has said up to an event, and what the client makes of it.
Deltas == {"ws", "sse"} \X Nat
Pieces == Nat \X Nat
ToolCalls == [id : Nat, args : Seq(Pieces)]
Talks == [texts : Seq(Deltas), calls : Seq(ToolCalls), open : Nat, args : Seq(Pieces)]
Servers == [texts : Seq(Deltas), calls : Seq(ToolCalls), open : Nat, args : Seq(Pieces),
            over : {"no", "completed", "error", "closed", "broken"}]
States == [text : Seq(Deltas), calls : Seq(ToolCalls), id : Nat, args : Seq(Pieces)]
StreamEvents ==
  [type : {"text", "added", "arguments", "done", "done_repeated", "completed", "error"},
   n : Nat, arg : Seq(Pieces)]

ACall(id, args) == [id |-> id, args |-> args]
Talk(s) == [texts |-> s.texts, calls |-> s.calls, open |-> s.open, args |-> s.args]

\* The client has heard as much.
Hears(s, p) ==
  /\ s.text = p.texts /\ s.calls = p.calls /\ s.id = p.open
  /\ p.open # 0 => s.args = p.args

\* An event leads from what was said before it to what is said with it.
TellsText(t, p, e, q) ==
  e.type = "text" /\ q = [p EXCEPT !.texts = Append(@, <<t, e.n>>)]
TellsAdded(p, e, q) ==
  e.type = "added" /\ p.open = 0 /\ e.n # 0 /\ q = [p EXCEPT !.open = e.n, !.args = <<>>]
TellsPart(p, e, q) ==
  /\ e.type = "arguments" /\ p.open # 0
  /\ \E piece \in Pieces : e.arg = <<piece>> /\ q = [p EXCEPT !.args = Append(@, piece)]
TellsDone(p, e, q) ==
  /\ e.type \in {"done", "done_repeated"} /\ p.open # 0 /\ e.n = p.open /\ e.arg = p.args
  /\ q = [p EXCEPT !.open = 0, !.calls = Append(@, ACall(p.open, p.args))]
TellsEnd(p, e, q) == e.type \in {"completed", "error"} /\ q = p

Tells(t, p, e, q) ==
  \/ TellsText(t, p, e, q) \/ TellsAdded(p, e, q) \/ TellsPart(p, e, q) \/ TellsDone(p, e, q)
  \/ TellsEnd(p, e, q)

\* The events that are on their way lead from what the client has heard to what
\* the server has said.
Leads(path) ==
  /\ path \in [0..Len(wire) -> Talks]
  /\ Hears(state, path[0]) /\ path[Len(wire)] = Talk(server)
  /\ \A i \in 1..Len(wire) : Tells(transport, path[i - 1], wire[i], path[i])
  /\ \A i \in 0..Len(wire) :
       IsPrefix(path[i].texts, server.texts) /\ IsPrefix(path[i].calls, server.calls)

Telling == \E path : Leads(path)

StreamTypes ==
  /\ Stream!TypeOK /\ wire \in Seq(StreamEvents) /\ server \in Servers /\ state \in States
  /\ server.open \in {0, Len(server.calls) + 1} /\ shown \in Seq(Deltas) /\ tooLate \in Nat

\* Nothing is said behind the end.
EndIsLast ==
  \A i \in 1..Len(wire) :
    wire[i].type \in {"completed", "error"} => i = Len(wire) /\ server.over = wire[i].type

\* A delta that is late was on its way through the hook.
LateSteps ==
  /\ ~abort \/ sending = "checked" => tooLate = 0
  /\ tooLate <= 1
  /\ sending = "checked" => buffered > 0

AnswerInv ==
  /\ StreamTypes /\ Telling /\ EndIsLast /\ LateSteps
  /\ IsSuffix(state.text, shown)
  /\ sending # "idle" => result.kind = "none"
  /\ Stream!AnswerIsOneStream

-----------------------------------------------------------------------------
(* Prefixes and suffixes.                                                  *)

\* A sequence is a prefix of what is appended to it, and of what that is one of.
LEMMA PrefixGrows ==
  ASSUME NEW S, NEW s \in Seq(S), NEW t \in Seq(S), NEW x \in S, IsPrefix(s, t)
  PROVE  IsPrefix(s, Append(t, x))
<1>1. /\ Append(t, x) \in Seq(S) /\ Len(Append(t, x)) = Len(t) + 1
      /\ \A i \in 1..Len(t) : Append(t, x)[i] = t[i]
  OBVIOUS
<1>2. Len(s) <= Len(t) /\ \A i \in 1..Len(s) : s[i] = t[i]
  BY PrefixMeans
<1>3. \A u \in Seq(S) :
        Len(s) <= Len(u) /\ (\A i \in 1..Len(s) : s[i] = u[i]) => IsPrefix(s, u)
  BY PrefixMeans
<1>4. Append(t, x) \in Seq(S) /\ Len(s) <= Len(Append(t, x))
  BY <1>1, <1>2
<1>5. \A i \in 1..Len(s) : s[i] = Append(t, x)[i]
  BY <1>1, <1>2
<1> QED
  BY <1>3, <1>4, <1>5, Zenon

LEMMA PrefixOfItself ==
  ASSUME NEW S, NEW s \in Seq(S)
  PROVE  IsPrefix(s, s) /\ IsPrefix(<<>>, s) /\ IsSuffix(<<>>, s)
<1>1. <<>> \in Seq(S) /\ Len(<<>>) = 0
  OBVIOUS
<1>2. \A u \in Seq(S) : Len(u) <= Len(s) /\ (\A i \in 1..Len(u) : u[i] = s[i]) => IsPrefix(u, s)
  BY PrefixMeans
<1>3. \A u \in Seq(S) :
        Len(u) <= Len(s) /\ (\A i \in 1..Len(u) : u[i] = s[Len(s) - Len(u) + i]) => IsSuffix(u, s)
  BY SuffixMeans
<1>4. Len(<<>>) <= Len(s) /\ Len(s) <= Len(s)
  BY <1>1
<1>5. \A i \in 1..Len(<<>>) : <<>>[i] = s[i] /\ <<>>[i] = s[Len(s) - Len(<<>>) + i]
  BY <1>1
<1>6. IsPrefix(s, s)
  BY <1>2, <1>4, Zenon
<1>7. IsPrefix(<<>>, s) /\ IsSuffix(<<>>, s)
  BY <1>1, <1>2, <1>3, <1>4, <1>5, Zenon
<1> QED
  BY <1>6, <1>7

LEMMA SuffixGrows ==
  ASSUME NEW S, NEW s \in Seq(S), NEW t \in Seq(S), NEW x \in S, IsSuffix(s, t)
  PROVE  IsSuffix(Append(s, x), Append(t, x))
<1>1. /\ Append(t, x) \in Seq(S) /\ Len(Append(t, x)) = Len(t) + 1
      /\ \A i \in 1..Len(t) : Append(t, x)[i] = t[i]
      /\ Append(t, x)[Len(t) + 1] = x
  OBVIOUS
<1>2. /\ Append(s, x) \in Seq(S) /\ Len(Append(s, x)) = Len(s) + 1
      /\ \A i \in 1..Len(s) : Append(s, x)[i] = s[i]
      /\ Append(s, x)[Len(s) + 1] = x
  OBVIOUS
<1>3. Len(s) <= Len(t) /\ \A i \in 1..Len(s) : s[i] = t[Len(t) - Len(s) + i]
  BY SuffixMeans
<1>4. ASSUME NEW i \in 1..(Len(s) + 1)
      PROVE  Append(s, x)[i] = Append(t, x)[(Len(t) + 1) - (Len(s) + 1) + i]
  <2>1. CASE i = Len(s) + 1
    BY <1>1, <1>2, <1>3, <2>1
  <2>2. CASE i \in 1..Len(s)
    <3>1. (Len(t) + 1) - (Len(s) + 1) + i = Len(t) - Len(s) + i
          /\ Len(t) - Len(s) + i \in 1..Len(t)
      BY <1>3, <2>2
    <3> QED
      BY <1>1, <1>2, <1>3, <2>2, <3>1
  <2>3. i = Len(s) + 1 \/ i \in 1..Len(s)
    OBVIOUS
  <2> QED
    BY <2>1, <2>2, <2>3
<1>5. \A u, v \in Seq(S) :
        Len(u) <= Len(v) /\ (\A i \in 1..Len(u) : u[i] = v[Len(v) - Len(u) + i]) => IsSuffix(u, v)
  BY SuffixMeans
<1>6. Len(Append(s, x)) <= Len(Append(t, x))
  BY <1>1, <1>2, <1>3
<1>7. \A i \in 1..Len(Append(s, x)) :
        Append(s, x)[i] = Append(t, x)[Len(Append(t, x)) - Len(Append(s, x)) + i]
  BY <1>1, <1>2, <1>4
<1> QED
  BY <1>1, <1>2, <1>5, <1>6, <1>7, Zenon

LEMMA PrefixOfPrefix ==
  ASSUME NEW S, NEW s \in Seq(S), NEW t \in Seq(S), NEW u \in Seq(S),
         IsPrefix(s, t), IsPrefix(t, u)
  PROVE  IsPrefix(s, u)
<1>1. Len(s) <= Len(t) /\ \A i \in 1..Len(s) : s[i] = t[i]
  BY PrefixMeans
<1>2. Len(t) <= Len(u) /\ \A i \in 1..Len(t) : t[i] = u[i]
  BY PrefixMeans
<1>3. Len(s) <= Len(u) /\ \A i \in 1..Len(s) : s[i] = u[i]
  BY <1>1, <1>2
<1> QED
  BY <1>3, PrefixMeans, Zenon

-----------------------------------------------------------------------------
(* What is said, heard and under way.                                      *)

NothingYet == wire = <<>> /\ server = Stream!Silent /\ state = Stream!Blank

\* A stream begins.
LEMMA NothingSaid ==
  NothingYet => /\ Telling /\ EndIsLast /\ server \in Servers /\ state \in States
                /\ server.open = 0
<1> SUFFICES ASSUME NothingYet
             PROVE  /\ Telling /\ EndIsLast /\ server \in Servers /\ state \in States
                    /\ server.open = 0
  OBVIOUS
<1>1. server \in Servers /\ state \in States /\ Talk(server) \in Talks
  BY DEF NothingYet, Stream!Silent, Stream!Blank, Servers, States, Talks, Talk
<1>2. Hears(state, Talk(server))
  BY DEF NothingYet, Stream!Silent, Stream!Blank, Hears, Talk
<1>3. IsPrefix(Talk(server).texts, server.texts) /\ IsPrefix(Talk(server).calls, server.calls)
  BY <1>1, PrefixOfItself DEF Talk, Servers
<1>4. wire = <<>> /\ Len(wire) = 0
  BY DEF NothingYet
<1> DEFINE path == [i \in 0..0 |-> Talk(server)]
<1>5. Leads(path)
  BY <1>1, <1>2, <1>3, <1>4 DEF Leads
<1> QED
  BY <1>1, <1>4, <1>5 DEF Telling, EndIsLast, NothingYet, Stream!Silent

\* The server says something more.
LEMMA SayKeeps ==
  ASSUME StreamTypes, Telling, NEW e \in StreamEvents, NEW q \in Talks,
         wire' = Append(wire, e), UNCHANGED <<state, transport>>,
         Tells(transport, Talk(server), e, q), Talk(server') = q,
         IsPrefix(server.texts, q.texts), IsPrefix(server.calls, q.calls)
  PROVE  Telling'
<1>1. PICK path : Leads(path)
  BY DEF Telling
<1>2. /\ wire \in Seq(StreamEvents) /\ Len(wire) \in Nat /\ server \in Servers
      /\ wire' \in Seq(StreamEvents) /\ Len(wire') = Len(wire) + 1
      /\ wire'[Len(wire) + 1] = e /\ \A i \in 1..Len(wire) : wire'[i] = wire[i]
  BY DEF StreamTypes
<1>3. /\ server'.texts = q.texts /\ server'.calls = q.calls
  BY DEF Talk
<1>new. PICK new : new = [i \in 0..(Len(wire) + 1) |-> IF i = Len(wire) + 1 THEN q ELSE path[i]]
  OBVIOUS
<1>4. /\ path \in [0..Len(wire) -> Talks] /\ Hears(state, path[0])
      /\ path[Len(wire)] = Talk(server)
      /\ \A i \in 1..Len(wire) : Tells(transport, path[i - 1], wire[i], path[i])
  BY <1>1 DEF Leads
<1>5. new \in [0..Len(wire') -> Talks] /\ new[Len(wire')] = q
      /\ \A i \in 0..Len(wire) : new[i] = path[i]
  BY <1>2, <1>4, <1>new
<1>6. Hears(state', new[0])
  BY <1>2, <1>4, <1>5
<1>7. ASSUME NEW i \in 1..Len(wire')
      PROVE  Tells(transport, new[i - 1], wire'[i], new[i])
  <2>1. CASE i = Len(wire')
    BY <1>2, <1>4, <1>5, <2>1
  <2>2. CASE i \in 1..Len(wire)
    <3>1. i - 1 \in 0..Len(wire) /\ i \in 0..Len(wire)
      BY <1>2, <2>2
    <3> QED
      BY <1>2, <1>4, <1>5, <2>2, <3>1
  <2> QED
    BY <1>2, <2>1, <2>2
<1>8. ASSUME NEW i \in 0..Len(wire')
      PROVE  IsPrefix(new[i].texts, q.texts) /\ IsPrefix(new[i].calls, q.calls)
  <2>1. CASE i = Len(wire')
    BY <1>5, <2>1, PrefixOfItself DEF Talks
  <2>2. CASE i \in 0..Len(wire)
    <3>1. IsPrefix(new[i].texts, server.texts) /\ IsPrefix(new[i].calls, server.calls)
      BY <1>1, <1>5, <2>2 DEF Leads
    <3>2. /\ new[i].texts \in Seq(Deltas) /\ new[i].calls \in Seq(ToolCalls)
          /\ server.texts \in Seq(Deltas) /\ server.calls \in Seq(ToolCalls)
          /\ q.texts \in Seq(Deltas) /\ q.calls \in Seq(ToolCalls)
      BY <1>2, <1>5 DEF Talks, Servers
    <3> QED
      BY <3>1, <3>2, PrefixOfPrefix
  <2> QED
    BY <1>2, <2>1, <2>2
<1>9. Leads(new)'
  BY <1>3, <1>5, <1>6, <1>7, <1>8 DEF Leads
<1> QED
  BY <1>9 DEF Telling

\* An event has the same effect on who hears it.
LEMMA StepHears ==
  ASSUME NEW p \in Talks, NEW q \in Talks, NEW e \in StreamEvents, NEW s \in States,
         Hears(s, p), Tells(transport, p, e, q), e.type \notin {"completed", "error"}
  PROVE  Hears(Stream!Step(s, e), q) /\ Stream!Step(s, e) \in States
<1>1. CASE TellsText(transport, p, e, q)
  <2>1. Stream!Step(s, e) = [s EXCEPT !.text = Append(@, <<transport, e.n>>)]
    BY <1>1 DEF TellsText, Stream!Step
  <2>2. <<transport, e.n>> \in Deltas
    BY <1>1 DEF TellsText, StreamEvents, Deltas, Talks
  <2> QED
    BY <1>1, <2>1, <2>2 DEF TellsText, Hears, States, Talks
<1>2. CASE TellsAdded(p, e, q)
  <2>1. Stream!Step(s, e) = [s EXCEPT !.id = e.n, !.args = <<>>]
    BY <1>2 DEF TellsAdded, Stream!Step
  <2> QED
    BY <1>2, <2>1 DEF TellsAdded, Hears, States, Talks, StreamEvents
<1>3. CASE TellsPart(p, e, q)
  <2>1. Stream!Step(s, e) = [s EXCEPT !.args = @ \o e.arg]
    BY <1>3 DEF TellsPart, Stream!Step
  <2>2. PICK piece \in Pieces : e.arg = <<piece>> /\ q = [p EXCEPT !.args = Append(@, piece)]
    BY <1>3 DEF TellsPart
  <2>3. s.args = p.args /\ s.args \in Seq(Pieces) /\ s.args \o <<piece>> = Append(s.args, piece)
    BY <1>3, AppendIsConcat DEF TellsPart, Hears, States
  <2> QED
    BY <1>3, <2>1, <2>2, <2>3 DEF TellsPart, Hears, States, Talks
<1>4. CASE TellsDone(p, e, q)
  <2>1. s.args = p.args /\ s.id = p.open /\ e.n = p.open /\ e.arg = p.args
    BY <1>4 DEF TellsDone, Hears
  <2>2. Stream!Step(s, e) =
          [s EXCEPT !.calls = Append(@, [id |-> p.open, args |-> p.args]), !.id = 0, !.args = <<>>]
    BY <1>4, <2>1 DEF TellsDone, Stream!Step
  <2>3. [id |-> p.open, args |-> p.args] \in ToolCalls
    BY DEF ToolCalls, Talks
  <2> DEFINE call == [id |-> p.open, args |-> p.args]
  <2>4. s.calls = p.calls /\ s.calls \in Seq(ToolCalls) /\ Append(s.calls, call) \in Seq(ToolCalls)
    BY <2>3 DEF Hears, States
  <2>5. q = [p EXCEPT !.open = 0, !.calls = Append(@, call)]
    BY <1>4 DEF TellsDone, ACall
  <2>6. Stream!Step(s, e) = [s EXCEPT !.calls = Append(@, call), !.id = 0, !.args = <<>>]
    BY <2>2
  <2> HIDE DEF call
  <2>7. Stream!Step(s, e) \in States
    <3>1. /\ s.text \in Seq(Deltas) /\ 0 \in Nat /\ <<>> \in Seq(Pieces)
          /\ s = [text |-> s.text, calls |-> s.calls, id |-> s.id, args |-> s.args]
      BY DEF States
    <3>2. Stream!Step(s, e) =
            [text |-> s.text, calls |-> Append(s.calls, call), id |-> 0, args |-> <<>>]
      BY <2>6, <3>1
    <3> QED
      BY <2>4, <3>1, <3>2 DEF States
  <2>8. /\ Stream!Step(s, e).text = s.text /\ Stream!Step(s, e).calls = Append(s.calls, call)
        /\ Stream!Step(s, e).id = 0
    BY <2>6 DEF States
  <2>9. q.texts = p.texts /\ q.calls = Append(p.calls, call) /\ q.open = 0
    BY <2>5 DEF Talks
  <2> QED
    BY <2>4, <2>7, <2>8, <2>9 DEF Hears
<1> QED
  BY <1>1, <1>2, <1>3, <1>4 DEF Tells, TellsEnd

\* The client takes the next event.
LEMMA HearKeeps ==
  ASSUME StreamTypes, Telling, Len(wire) > 0, wire[1].type \notin {"completed", "error"},
         wire' = Tail(wire), state' = Stream!Step(state, wire[1]), UNCHANGED <<server, transport>>
  PROVE  Telling' /\ state' \in States
<1>1. PICK path : Leads(path)
  BY DEF Telling
<1>2. /\ wire \in Seq(StreamEvents) /\ Len(wire) \in Nat \ {0} /\ wire # <<>>
      /\ server \in Servers /\ state \in States
  BY DEF StreamTypes
<1>3. /\ Len(wire') = Len(wire) - 1 /\ \A i \in 1..(Len(wire) - 1) : wire'[i] = wire[i + 1]
  BY <1>2, HeadTailProperties
<1>4. /\ path \in [0..Len(wire) -> Talks] /\ Hears(state, path[0])
      /\ path[Len(wire)] = Talk(server)
      /\ \A i \in 1..Len(wire) : Tells(transport, path[i - 1], wire[i], path[i])
      /\ \A i \in 0..Len(wire) :
           IsPrefix(path[i].texts, server.texts) /\ IsPrefix(path[i].calls, server.calls)
  BY <1>1 DEF Leads
<1>5. Hears(state', path[1]) /\ state' \in States
  <2>1. path[0] \in Talks /\ path[1] \in Talks /\ wire[1] \in StreamEvents
    <3>1. 0 \in 0..Len(wire) /\ 1 \in 0..Len(wire) /\ 1 \in 1..Len(wire)
      BY <1>2
    <3> QED
      BY <1>2, <1>4, <3>1
  <2>2. Tells(transport, path[0], wire[1], path[1])
    <3>1. 1 \in 1..Len(wire) /\ 1 - 1 = 0
      BY <1>2
    <3> QED
      BY <1>4, <3>1
  <2> QED
    BY <1>2, <1>4, <2>1, <2>2, StepHears
<1>new. PICK new : new = [i \in 0..(Len(wire) - 1) |-> path[i + 1]]
  OBVIOUS
<1>6. /\ new \in [0..Len(wire') -> Talks] /\ new[0] = path[1] /\ new[Len(wire')] = path[Len(wire)]
      /\ \A i \in 0..Len(wire') : new[i] = path[i + 1] /\ i + 1 \in 0..Len(wire)
  BY <1>2, <1>3, <1>4, <1>new
<1>7. ASSUME NEW i \in 1..Len(wire')
      PROVE  Tells(transport, new[i - 1], wire'[i], new[i])
  <2>1. /\ i - 1 \in 0..Len(wire') /\ (i - 1) + 1 = i /\ i \in 0..Len(wire')
        /\ i + 1 \in 1..Len(wire) /\ (i + 1) - 1 = i /\ i \in 1..(Len(wire) - 1)
    BY <1>2, <1>3
  <2>2. Tells(transport, path[(i + 1) - 1], wire[i + 1], path[i + 1])
    BY <1>4, <2>1
  <2> QED
    BY <1>3, <1>6, <2>1, <2>2
<1>8. Leads(new)'
  BY <1>4, <1>5, <1>6, <1>7 DEF Leads
<1> QED
  BY <1>5, <1>8 DEF Telling

-----------------------------------------------------------------------------
(* The steps.                                                              *)

\* The server says e, which makes q of what it said.
LEMMA SaidKeeps ==
  ASSUME AnswerInv, sending \in {"reading", "checked"},
         NEW e \in StreamEvents, NEW q \in Talks, Stream!Says(e), server' \in Servers,
         server'.open \in {0, Len(server'.calls) + 1},
         Tells(transport, Talk(server), e, q), Talk(server') = q,
         IsPrefix(server.texts, q.texts), IsPrefix(server.calls, q.calls),
         e.type \in {"completed", "error"} => server'.over = e.type,
         UNCHANGED <<provider, wsDisabled, transport, sending, abort, buffered, state, shown,
                     tooLate, result, sends>>
  PROVE  AnswerInv'
<1>1. /\ Len(wire) < MaxWire /\ server.over = "no" /\ wire' = Append(wire, e)
      /\ wire \in Seq(StreamEvents) /\ wire' \in Seq(StreamEvents) /\ Len(wire) \in Nat
      /\ Len(wire') = Len(wire) + 1 /\ wire'[Len(wire) + 1] = e
      /\ \A i \in 1..Len(wire) : wire'[i] = wire[i]
  BY DEF Stream!Says, AnswerInv, StreamTypes
<1>2. Telling'
  BY <1>1, SayKeeps DEF AnswerInv
<1>3. StreamTypes'
  <2>1. buffered' \in 0..Len(wire') /\ Len(wire') <= MaxWire
    <3>1. buffered' = buffered /\ buffered \in 0..Len(wire)
      BY DEF AnswerInv, StreamTypes, Stream!TypeOK
    <3>2. MaxWire \in Nat
      BY RecordsAssumption
    <3>3. Len(wire) \in Nat /\ Len(wire) < MaxWire /\ Len(wire') = Len(wire) + 1
      BY <1>1
    <3>4. Len(wire') <= MaxWire /\ Len(wire') \in Nat
      BY <3>2, <3>3
    <3>5. buffered' \in 0..Len(wire')
      BY <3>1, <3>3
    <3> QED
      BY <3>4, <3>5
  <2>2. Stream!TypeOK'
    BY <2>1 DEF AnswerInv, StreamTypes, Stream!TypeOK
  <2> QED
    BY <1>1, <2>2 DEF AnswerInv, StreamTypes
<1>4. EndIsLast'
  <2>1. \A i \in 1..Len(wire) : wire[i].type \notin {"completed", "error"}
    BY <1>1 DEF AnswerInv, EndIsLast
  <2> QED
    BY <1>1, <2>1 DEF EndIsLast
<1> QED
  BY <1>2, <1>3, <1>4 DEF AnswerInv, LateSteps, Stream!AnswerIsOneStream

LEMMA ServerFields ==
  ASSUME StreamTypes
  PROVE  /\ server.texts \in Seq(Deltas) /\ server.calls \in Seq(ToolCalls) /\ server.open \in Nat
         /\ server.args \in Seq(Pieces)
         /\ server.over \in {"no", "completed", "error", "closed", "broken"}
         /\ server = [texts |-> server.texts, calls |-> server.calls, open |-> server.open,
                      args |-> server.args, over |-> server.over]
         /\ IsPrefix(server.texts, server.texts) /\ IsPrefix(server.calls, server.calls)
         /\ Len(server.texts) \in Nat /\ Len(server.calls) \in Nat /\ Len(server.args) \in Nat
         /\ server.open \in {0, Len(server.calls) + 1}
<1>1. server \in Servers /\ server.open \in {0, Len(server.calls) + 1}
  BY DEF StreamTypes
<1>2. /\ server.texts \in Seq(Deltas) /\ server.calls \in Seq(ToolCalls) /\ server.open \in Nat
      /\ server.args \in Seq(Pieces)
      /\ server.over \in {"no", "completed", "error", "closed", "broken"}
      /\ server = [texts |-> server.texts, calls |-> server.calls, open |-> server.open,
                   args |-> server.args, over |-> server.over]
  BY <1>1 DEF Servers
<1> QED
  BY <1>1, <1>2, PrefixOfItself

\* Nothing but what the server says changes.
SaidOnly ==
  UNCHANGED <<provider, wsDisabled, transport, sending, abort, buffered, state, shown,
              tooLate, result, sends>>

Said(texts, made, open, args) ==
  [texts |-> texts, calls |-> made, open |-> open, args |-> args]

\* The server says e, after which it has said these.
LEMMA SaidRecordKeeps ==
  ASSUME AnswerInv, sending \in {"reading", "checked"}, SaidOnly, NEW e \in StreamEvents,
         Stream!Says(e), e.type \notin {"completed", "error"},
         NEW texts \in Seq(Deltas), NEW made \in Seq(ToolCalls),
         NEW open \in {0, Len(made) + 1}, NEW args \in Seq(Pieces),
         server' = [texts |-> texts, calls |-> made, open |-> open, args |-> args,
                    over |-> server.over],
         IsPrefix(server.texts, texts), IsPrefix(server.calls, made),
         Tells(transport, Talk(server), e, Said(texts, made, open, args))
  PROVE  AnswerInv'
<1>1. PICK q : q = Said(texts, made, open, args)
  OBVIOUS
<1>2. StreamTypes /\ open \in Nat
  BY DEF AnswerInv
<1>3. server.over \in {"no", "completed", "error", "closed", "broken"}
  BY <1>2, ServerFields
<1>4. server' \in Servers /\ server'.open \in {0, Len(server'.calls) + 1}
  BY <1>2, <1>3 DEF Servers
<1>5. q \in Talks /\ q.texts = texts /\ q.calls = made
  BY <1>1, <1>2 DEF Talks, Said
<1>6. Talk(server') = q
  BY <1>1 DEF Talk, Said
<1>7. Tells(transport, Talk(server), e, q)
  BY <1>1
<1> QED
  BY <1>4, <1>5, <1>6, <1>7, SaidKeeps DEF SaidOnly

\* A call begins.
LEMMA AddedIs ==
  ASSUME NEW p \in Talks, NEW e, e.type = "added", e.n # 0, p.open = 0
  PROVE  TellsAdded(p, e, Said(p.texts, p.calls, e.n, <<>>))
<1>1. p = [texts |-> p.texts, calls |-> p.calls, open |-> p.open, args |-> p.args]
  BY DEF Talks
<1>2. PICK u : u = [p EXCEPT !.open = e.n, !.args = <<>>]
  OBVIOUS
<1>3. u = [texts |-> p.texts, calls |-> p.calls, open |-> e.n, args |-> <<>>]
  BY <1>1, <1>2
<1>4. TellsAdded(p, e, u)
  BY <1>2 DEF TellsAdded
<1> QED
  BY <1>3, <1>4, Zenon DEF Said

\* A call ends.
LEMMA DoneIs ==
  ASSUME NEW p \in Talks, NEW e, NEW type \in {"done", "done_repeated"}, e.type = type, p.open # 0,
         e.n = p.open, e.arg = p.args,
         NEW q, q = Said(p.texts, Append(p.calls, ACall(p.open, p.args)), 0, p.args)
  PROVE  TellsDone(p, e, q)
<1>1. p = [texts |-> p.texts, calls |-> p.calls, open |-> p.open, args |-> p.args]
  BY DEF Talks
<1>made. PICK made : made = Append(p.calls, ACall(p.open, p.args))
  OBVIOUS
<1>2. PICK u : u = [p EXCEPT !.open = 0, !.calls = made]
  OBVIOUS
<1>3. u = [texts |-> p.texts, calls |-> made, open |-> 0, args |-> p.args]
  BY <1>1, <1>2
<1>4. TellsDone(p, e, u)
  BY <1>2, <1>made DEF TellsDone
<1>5. u = q
  BY <1>3, <1>made, Zenon DEF Said
<1> QED
  BY <1>4, <1>5

LEMMA TalkIs ==
  ASSUME StreamTypes
  PROVE  /\ Talk(server) \in Talks
         /\ Talk(server).texts = server.texts /\ Talk(server).calls = server.calls
         /\ Talk(server).open = server.open /\ Talk(server).args = server.args
BY ServerFields DEF Talk, Talks

LEMMA SaysTextKeeps ==
  ASSUME AnswerInv, sending \in {"reading", "checked"}, Stream!SaysText, SaidOnly
  PROVE  AnswerInv'
<1>1. PICK n \in Nat : n = Len(server.texts) + 1
  <2>1. StreamTypes
    BY DEF AnswerInv
  <2> QED
    BY <2>1, ServerFields
<1>2. PICK texts : texts = Append(server.texts, <<transport, n>>)
  OBVIOUS
<1>3. PICK e : e = [type |-> "text", n |-> n, arg |-> <<>>]
  OBVIOUS
<1>4. Stream!Says(e) /\ server' = [server EXCEPT !.texts = texts]
  BY <1>1, <1>2, <1>3 DEF Stream!SaysText, Stream!Event
<1>5. StreamTypes /\ transport \in {"ws", "sse"}
  BY DEF AnswerInv, StreamTypes, Stream!TypeOK
<1>6. texts \in Seq(Deltas) /\ IsPrefix(server.texts, texts)
  <2>1. <<transport, n>> \in Deltas
    BY <1>5 DEF Deltas
  <2> QED
    BY <1>2, <1>5, <2>1, ServerFields, PrefixGrows
<1>7. e \in StreamEvents /\ e.type = "text" /\ e.n = n
  BY <1>3 DEF StreamEvents
<1>8. server' = [texts |-> texts, calls |-> server.calls, open |-> server.open,
                 args |-> server.args, over |-> server.over]
  BY <1>4, <1>5, ServerFields
<1>9. Tells(transport, Talk(server), e, Said(texts, server.calls, server.open, server.args))
  <2>1. Said(texts, server.calls, server.open, server.args) = [Talk(server) EXCEPT !.texts = texts]
    BY DEF Said, Talk
  <2>2. texts = Append(Talk(server).texts, <<transport, e.n>>)
    BY <1>2, <1>7 DEF Talk
  <2> QED
    BY <1>7, <2>1, <2>2 DEF Tells, TellsText
<1>10. e.type \notin {"completed", "error"}
  BY <1>7
<1> QED
  BY <1>4, <1>5, <1>6, <1>7, <1>8, <1>9, <1>10, SaidRecordKeeps, ServerFields, Zenon

\* A call begins, goes on or ends.
LEMMA SaysAddedKeeps ==
  ASSUME AnswerInv, sending \in {"reading", "checked"}, SaidOnly,
         NEW n \in Nat, n = Len(server.calls) + 1, server.open = 0,
         Stream!Says([type |-> "added", n |-> n, arg |-> <<>>]),
         server' = [server EXCEPT !.open = n, !.args = <<>>]
  PROVE  AnswerInv'
<1>1. PICK e : e = [type |-> "added", n |-> n, arg |-> <<>>]
  OBVIOUS
<1>2. StreamTypes /\ <<>> \in Seq(Pieces) /\ n # 0
  <2>1. StreamTypes
    BY DEF AnswerInv
  <2> QED
    BY <2>1, ServerFields
<1>3. e \in StreamEvents /\ e.type = "added" /\ e.n = n
  BY <1>1, <1>2 DEF StreamEvents
<1>4. server' = [texts |-> server.texts, calls |-> server.calls, open |-> n, args |-> <<>>,
                 over |-> server.over]
  BY <1>2, ServerFields
<1>5. Tells(transport, Talk(server), e, Said(server.texts, server.calls, n, <<>>))
  <2>1. PICK p \in Talks : p = Talk(server)
    BY <1>2, TalkIs
  <2>2. p.texts = server.texts /\ p.calls = server.calls /\ p.open = 0
    BY <1>2, <2>1, TalkIs
  <2>3. e.type = "added" /\ e.n # 0
    BY <1>2, <1>3
  <2>4. TellsAdded(p, e, Said(p.texts, p.calls, e.n, <<>>))
    BY <2>2, <2>3, AddedIs
  <2> QED
    BY <1>3, <2>1, <2>2, <2>4, Zenon DEF Tells
<1>6. e.type \notin {"completed", "error"} /\ n \in {0, Len(server.calls) + 1} /\ Stream!Says(e)
  BY <1>1, <1>3
<1> QED
  BY <1>2, <1>3, <1>4, <1>5, <1>6, SaidRecordKeeps, ServerFields, Zenon

LEMMA SaysPartKeeps ==
  ASSUME AnswerInv, sending \in {"reading", "checked"}, SaidOnly,
         NEW n \in Nat, NEW piece \in Pieces, server.open # 0,
         Stream!Says([type |-> "arguments", n |-> n, arg |-> <<piece>>]),
         server' = [server EXCEPT !.args = Append(@, piece)]
  PROVE  AnswerInv'
<1>1. PICK e : e = [type |-> "arguments", n |-> n, arg |-> <<piece>>]
  OBVIOUS
<1>2. PICK args : args = Append(server.args, piece)
  OBVIOUS
<1>3. StreamTypes /\ <<piece>> \in Seq(Pieces)
  BY DEF AnswerInv
<1>4. e \in StreamEvents /\ e.type = "arguments" /\ e.arg = <<piece>>
  BY <1>1, <1>3 DEF StreamEvents
<1>5. args \in Seq(Pieces)
  BY <1>2, <1>3, ServerFields
<1>6. server' = [texts |-> server.texts, calls |-> server.calls, open |-> server.open,
                 args |-> args, over |-> server.over]
  BY <1>2, <1>3, ServerFields
<1>7. Tells(transport, Talk(server), e, Said(server.texts, server.calls, server.open, args))
  <2>1. Said(server.texts, server.calls, server.open, args) = [Talk(server) EXCEPT !.args = args]
    BY DEF Said, Talk
  <2>2. Talk(server).open # 0 /\ args = Append(Talk(server).args, piece)
    BY <1>2 DEF Talk
  <2> QED
    BY <1>4, <2>1, <2>2 DEF Tells, TellsPart
<1>8. e.type \notin {"completed", "error"} /\ Stream!Says(e)
  BY <1>1, <1>4
<1> QED
  BY <1>3, <1>4, <1>5, <1>6, <1>7, <1>8, SaidRecordKeeps, ServerFields, Zenon

LEMMA SaysDoneKeeps ==
  ASSUME AnswerInv, sending \in {"reading", "checked"}, SaidOnly,
         NEW type \in {"done", "done_repeated"}, NEW n \in Nat, n = server.open, server.open # 0,
         Stream!Says([type |-> type, n |-> n, arg |-> server.args]),
         server' = [server EXCEPT !.open = 0,
                      !.calls = Append(@, [id |-> n, args |-> server.args])]
  PROVE  AnswerInv'
<1>1. PICK e : e = [type |-> type, n |-> n, arg |-> server.args]
  OBVIOUS
<1>2. PICK call : call = [id |-> n, args |-> server.args]
  OBVIOUS
<1>3. PICK made : made = Append(server.calls, call)
  OBVIOUS
<1>4. StreamTypes
  BY DEF AnswerInv
<1>5. e \in StreamEvents /\ e.type = type /\ e.n = n /\ e.arg = server.args
  BY <1>1, <1>4, ServerFields DEF StreamEvents
<1>6. call \in ToolCalls
  BY <1>2, <1>4, ServerFields DEF ToolCalls
<1>7. made \in Seq(ToolCalls) /\ IsPrefix(server.calls, made)
  BY <1>3, <1>4, <1>6, ServerFields, PrefixGrows
<1>8. server' = [texts |-> server.texts, calls |-> made, open |-> 0, args |-> server.args,
                 over |-> server.over]
  BY <1>2, <1>3, <1>4, ServerFields
<1>9. Tells(transport, Talk(server), e, Said(server.texts, made, 0, server.args))
  <2>1. PICK p \in Talks : p = Talk(server)
    BY <1>4, TalkIs
  <2>2. /\ p.texts = server.texts /\ p.calls = server.calls
        /\ p.args = server.args /\ p.open = server.open
    BY <1>4, <2>1, TalkIs
  <2>3. e.type \in {"done", "done_repeated"} /\ p.open # 0 /\ e.n = p.open /\ e.arg = p.args
    BY <1>4, <1>5, <2>2
  <2>4. made = Append(p.calls, ACall(p.open, p.args))
    <3>1. call = ACall(p.open, p.args)
      BY <1>2, <2>2 DEF ACall
    <3> QED
      BY <1>3, <2>2, <3>1, Zenon
  <2>5. PICK q : q = Said(p.texts, Append(p.calls, ACall(p.open, p.args)), 0, p.args)
    OBVIOUS
  <2>6. TellsDone(p, e, q)
    BY <2>3, <2>5, <1>5, DoneIs, Zenon
  <2>7. q = Said(server.texts, made, 0, server.args)
    BY <2>2, <2>4, <2>5, Zenon
  <2> QED
    BY <2>1, <2>6, <2>7, Zenon DEF Tells
<1>10. e.type \notin {"completed", "error"} /\ Stream!Says(e) /\ 0 \in {0, Len(made) + 1}
  BY <1>1, <1>5
<1> QED
  BY <1>4, <1>5, <1>7, <1>8, <1>9, <1>10, SaidRecordKeeps, ServerFields, Zenon

LEMMA SaysCallKeeps ==
  ASSUME AnswerInv, sending \in {"reading", "checked"}, Stream!SaysCall, SaidOnly
  PROVE  AnswerInv'
<1>1. StreamTypes
  BY DEF AnswerInv
<1>2. PICK n \in Nat : n = Len(server.calls) + 1
  <2>1. Len(server.calls) + 1 \in Nat
    BY <1>1, ServerFields
  <2> QED
    BY <2>1
<1>3. PICK piece \in Pieces : piece = <<n, Len(server.args) + 1>>
  <2>1. Len(server.args) + 1 \in Nat
    BY <1>1, ServerFields
  <2> QED
    BY <1>2, <2>1 DEF Pieces
<1>4. CASE server.open = 0 /\ Stream!Says([type |-> "added", n |-> n, arg |-> <<>>])
             /\ server' = [server EXCEPT !.open = n, !.args = <<>>]
  BY <1>2, <1>4, SaysAddedKeeps
<1>5. CASE server.open # 0 /\ Stream!Says([type |-> "arguments", n |-> n, arg |-> <<piece>>])
             /\ server' = [server EXCEPT !.args = Append(@, piece)]
  BY <1>5, SaysPartKeeps
<1>6. ASSUME NEW type \in {"done", "done_repeated"}, server.open # 0,
             Stream!Says([type |-> type, n |-> n, arg |-> server.args]),
             server' = [server EXCEPT !.open = 0,
                          !.calls = Append(@, [id |-> n, args |-> server.args])]
      PROVE  AnswerInv'
  <2>1. n = server.open
    BY <1>1, <1>2, <1>6, ServerFields
  <2> QED
    BY <1>6, <2>1, SaysDoneKeeps
<1> QED
  BY <1>2, <1>3, <1>4, <1>5, <1>6 DEF Stream!SaysCall, Stream!Event

LEMMA SaysEndKeeps ==
  ASSUME AnswerInv, sending \in {"reading", "checked"}, Stream!SaysEnd, SaidOnly
  PROVE  AnswerInv'
<1>1. StreamTypes
  BY DEF AnswerInv
<1>2. ASSUME NEW over \in {"no", "completed", "error", "closed", "broken"},
             server' = [server EXCEPT !.over = over]
      PROVE  /\ server' \in Servers /\ server'.over = over
             /\ server'.texts = server.texts /\ server'.calls = server.calls
             /\ server'.open = server.open /\ server'.args = server.args
  BY <1>1, <1>2, ServerFields DEF Servers
<1>3. ASSUME NEW over \in {"completed", "error"},
             Stream!Says([type |-> over, n |-> 0, arg |-> <<>>]),
             server' = [server EXCEPT !.over = over]
      PROVE  AnswerInv'
  <2>1. PICK e : e = [type |-> over, n |-> 0, arg |-> <<>>]
    OBVIOUS
  <2>2. e \in StreamEvents /\ e.type = over /\ e.type \in {"completed", "error"}
    <3>1. <<>> \in Seq(Pieces)
      OBVIOUS
    <3> QED
      BY <2>1, <3>1 DEF StreamEvents
  <2>3. PICK q \in Talks : q = Talk(server)
    BY <1>1, TalkIs
  <2>4. /\ server' \in Servers /\ server'.over = over
        /\ server'.texts = server.texts /\ server'.calls = server.calls
        /\ server'.open = server.open /\ server'.args = server.args
    BY <1>2, <1>3
  <2>5. Talk(server') = q
    BY <2>3, <2>4 DEF Talk
  <2>6. q.texts = server.texts /\ q.calls = server.calls
    BY <1>1, <2>3, TalkIs
  <2>7. IsPrefix(server.texts, q.texts) /\ IsPrefix(server.calls, q.calls)
    BY <1>1, <2>6, ServerFields
  <2>8. Tells(transport, Talk(server), e, q)
    BY <2>2, <2>3 DEF Tells, TellsEnd
  <2>9. server'.open \in {0, Len(server'.calls) + 1}
    BY <1>1, <2>4, ServerFields
  <2>10. Stream!Says(e)
    BY <1>3, <2>1
  <2> QED
    BY <2>2, <2>4, <2>5, <2>7, <2>8, <2>9, <2>10, SaidKeeps DEF SaidOnly
<1>4. ASSUME server.over = "no", UNCHANGED wire, NEW over \in {"closed", "broken"},
             server' = [server EXCEPT !.over = over]
      PROVE  AnswerInv'
  <2>1. /\ server' \in Servers
        /\ server'.texts = server.texts /\ server'.calls = server.calls
        /\ server'.open = server.open /\ server'.args = server.args
    BY <1>2, <1>4
  <2>2. Telling'
    <3>1. PICK path : Leads(path)
      BY DEF AnswerInv, Telling
    <3>2. Talk(server') = Talk(server)
      BY <2>1 DEF Talk
    <3>3. Leads(path)'
      BY <1>4, <2>1, <3>1, <3>2 DEF Leads, SaidOnly
    <3> QED
      BY <3>3 DEF Telling
  <2>3. EndIsLast'
    BY <1>4 DEF AnswerInv, EndIsLast
  <2>4. StreamTypes'
    BY <1>1, <1>4, <2>1 DEF StreamTypes, Stream!TypeOK, SaidOnly
  <2> QED
    BY <2>2, <2>3, <2>4 DEF AnswerInv, LateSteps, Stream!AnswerIsOneStream, SaidOnly
<1> QED
  BY <1>3, <1>4 DEF Stream!SaysEnd, Stream!Event, Stream!Says

LEMMA ServeKeeps ==
  ASSUME AnswerInv, Stream!Serve
  PROVE  AnswerInv'
<1>1. SaidOnly /\ sending \in {"reading", "checked"}
  BY DEF Stream!Serve, SaidOnly
<1> QED
  BY <1>1, SaysTextKeeps, SaysCallKeeps, SaysEndKeeps DEF Stream!Serve

\* What is said and under way stays as it is.
QuietStream == UNCHANGED <<server, wire, state, transport>>

LEMMA QuietKeeps ==
  ASSUME Telling, EndIsLast, QuietStream
  PROVE  Telling' /\ EndIsLast'
<1>1. PICK path : Leads(path)
  BY DEF Telling
<1>2. Leads(path)'
  BY <1>1 DEF Leads, QuietStream
<1> QED
  BY <1>2 DEF Telling, EndIsLast, QuietStream

LEMMA StopKeeps ==
  ASSUME AnswerInv, Stream!Stop
  PROVE  AnswerInv'
<1>1. QuietStream /\ UNCHANGED <<shown, result, buffered, sending, tooLate, sends>> /\ abort' = TRUE
  BY DEF Stream!Stop, QuietStream
<1>2. Telling' /\ EndIsLast'
  BY <1>1, QuietKeeps DEF AnswerInv
<1>3. StreamTypes'
  BY <1>1 DEF AnswerInv, StreamTypes, Stream!TypeOK, QuietStream
<1> QED
  BY <1>1, <1>2, <1>3 DEF AnswerInv, LateSteps, Stream!AnswerIsOneStream, QuietStream

\* A send ends without an answer.
LEMMA NoAnswerKeeps ==
  ASSUME AnswerInv, NEW kind \in {"aborted", "error"},
         Stream!Return(Stream!Result(kind, <<>>, <<>>))
  PROVE  AnswerInv'
<1>1. QuietStream /\ UNCHANGED <<shown, buffered, tooLate, abort, sends>> /\ sending' = "idle"
      /\ result' = [kind |-> kind, text |-> <<>>, calls |-> <<>>]
  BY DEF Stream!Return, Stream!Result, QuietStream
<1>2. Telling' /\ EndIsLast'
  BY <1>1, QuietKeeps DEF AnswerInv
<1>3. StreamTypes'
  BY <1>1 DEF AnswerInv, StreamTypes, Stream!TypeOK, QuietStream
<1> QED
  BY <1>1, <1>2, <1>3 DEF AnswerInv, LateSteps, Stream!AnswerIsOneStream, QuietStream

LEMMA SeeAbortKeeps ==
  ASSUME AnswerInv, Stream!SeeAbort
  PROVE  AnswerInv'
BY NoAnswerKeeps DEF Stream!SeeAbort, Stream!Aborted

LEMMA ConnectKeeps ==
  ASSUME AnswerInv, Stream!Connect
  PROVE  AnswerInv'
<1>1. QuietStream /\ UNCHANGED <<shown, result, buffered, tooLate, abort, sends>>
      /\ sending = "connecting" /\ sending' = "reading"
  BY DEF Stream!Connect, QuietStream
<1>2. Telling' /\ EndIsLast'
  BY <1>1, QuietKeeps DEF AnswerInv
<1>3. StreamTypes'
  BY <1>1 DEF AnswerInv, StreamTypes, Stream!TypeOK, QuietStream
<1> QED
  BY <1>1, <1>2, <1>3 DEF AnswerInv, LateSteps, Stream!AnswerIsOneStream, QuietStream

LEMMA ReceiveKeeps ==
  ASSUME AnswerInv, Stream!Receive
  PROVE  AnswerInv'
<1>1. QuietStream /\ UNCHANGED <<shown, result, sending, tooLate, abort, sends>>
      /\ sending = "reading" /\ buffered' \in 1..Len(wire)
  BY DEF Stream!Receive, QuietStream
<1>2. Telling' /\ EndIsLast'
  BY <1>1, QuietKeeps DEF AnswerInv
<1>3. StreamTypes'
  <2>1. buffered' \in 0..Len(wire)
    BY <1>1
  <2> QED
    BY <1>1, <2>1 DEF AnswerInv, StreamTypes, Stream!TypeOK, QuietStream
<1> QED
  BY <1>1, <1>2, <1>3 DEF AnswerInv, LateSteps, Stream!AnswerIsOneStream, QuietStream

LEMMA CheckKeeps ==
  ASSUME AnswerInv, Stream!Check
  PROVE  AnswerInv'
<1>1. CASE abort
  BY <1>1, NoAnswerKeeps DEF Stream!Check, Stream!Aborted
<1>2. CASE ~abort
  <2>1. QuietStream /\ UNCHANGED <<shown, result, buffered, tooLate, abort, sends>>
        /\ sending = "reading" /\ sending' = "checked" /\ buffered > 0
    BY <1>2 DEF Stream!Check, QuietStream
  <2>2. Telling' /\ EndIsLast'
    BY <2>1, QuietKeeps DEF AnswerInv
  <2>3. StreamTypes'
    BY <2>1 DEF AnswerInv, StreamTypes, Stream!TypeOK, QuietStream
  <2> QED
    BY <1>2, <2>1, <2>2, <2>3 DEF AnswerInv, LateSteps, Stream!AnswerIsOneStream, QuietStream
<1> QED
  BY <1>1, <1>2

\* A stream begins, with nothing heard.
LEMMA BeginKeeps ==
  ASSUME NEW t \in {"ws", "sse"}, Stream!Open(t), shown' \in Seq(Deltas), tooLate' \in Nat,
         sending' \in {"idle", "connecting"}, abort' \in BOOLEAN, sends' \in 0..MaxSends,
         ~abort' => tooLate' = 0, tooLate' <= 1,
         result'.kind \in {"none", "aborted", "error"},
         sending' # "idle" => result'.kind = "none"
  PROVE  AnswerInv'
<1>1. NothingYet' /\ wire' = <<>> /\ Len(wire') = 0 /\ buffered' = 0 /\ transport' = t
  BY DEF NothingYet, Stream!Open
<1>2. Telling' /\ EndIsLast' /\ (server \in Servers)' /\ (state \in States)' /\ (server.open = 0)'
  BY <1>1, NothingSaid, PTL
<1>3. StreamTypes'
  <2>1. wire' \in Seq(StreamEvents)
    BY <1>1
  <2>2. Stream!TypeOK'
    <3>1. MaxWire \in Nat
      BY RecordsAssumption
    <3>2. buffered' \in 0..Len(wire') /\ Len(wire') <= MaxWire
      BY <1>1, <3>1
    <3> QED
      BY <1>1, <3>2 DEF Stream!TypeOK
  <2> QED
    BY <1>1, <1>2, <2>1, <2>2 DEF StreamTypes
<1>4. IsSuffix(state'.text, shown')
  <2>1. state'.text = <<>>
    BY <1>1 DEF NothingYet, Stream!Blank
  <2> QED
    BY <2>1, PrefixOfItself
<1>5. LateSteps'
  BY DEF LateSteps
<1>6. Stream!AnswerIsOneStream'
  BY DEF Stream!AnswerIsOneStream
<1> QED
  BY <1>2, <1>3, <1>4, <1>5, <1>6 DEF AnswerInv

LEMMA SendKeeps ==
  ASSUME AnswerInv, Stream!Send
  PROVE  AnswerInv'
<1>1. Stream!Open("ws") \/ Stream!Open("sse")
  BY DEF Stream!Send
<1>2. /\ shown' = <<>> /\ tooLate' = 0 /\ sending' = "connecting" /\ abort' = FALSE
      /\ sends' = sends + 1 /\ sends < MaxSends
      /\ result' = [kind |-> "none", text |-> <<>>, calls |-> <<>>]
  BY DEF Stream!Send, Stream!Result
<1>3. sends' \in 0..MaxSends
  <2>1. sends \in 0..MaxSends
    BY DEF AnswerInv, StreamTypes, Stream!TypeOK
  <2>2. MaxSends \in Nat
    BY RecordsAssumption
  <2> QED
    BY <1>2, <2>1, <2>2
<1>4. shown' \in Seq(Deltas) /\ result'.kind = "none"
  BY <1>2
<1>5. /\ tooLate' \in Nat /\ tooLate' <= 1 /\ (~abort' => tooLate' = 0)
      /\ sending' \in {"idle", "connecting"}
      /\ result'.kind \in {"none", "aborted", "error"} /\ (sending' # "idle" => result'.kind = "none")
  BY <1>2, <1>4
<1>6. abort' \in BOOLEAN
  BY <1>2, Zenon
<1> QED
  BY <1>1, <1>3, <1>4, <1>5, <1>6, BeginKeeps

LEMMA FailedKeeps ==
  ASSUME AnswerInv, sending # "idle", Stream!Failed
  PROVE  AnswerInv'
<1>1. CASE transport = "sse" /\ Stream!Return(Stream!Result("error", <<>>, <<>>))
  BY <1>1, NoAnswerKeeps
<1>2. CASE ~(transport = "sse" /\ Stream!Return(Stream!Result("error", <<>>, <<>>)))
  <2>1. /\ Stream!Open("sse") /\ UNCHANGED <<abort, shown, tooLate, sends>>
        /\ IF abort THEN sending' = "idle" /\ result' = Stream!Aborted
           ELSE sending' = "connecting" /\ UNCHANGED result
    BY <1>2 DEF Stream!Failed
  <2>2. Stream!Aborted.kind = "aborted"
    BY DEF Stream!Aborted, Stream!Result
  <2>3. /\ sending' \in {"idle", "connecting"} /\ result'.kind \in {"none", "aborted", "error"}
        /\ sending' # "idle" => result'.kind = "none"
    BY <2>1, <2>2 DEF AnswerInv
  <2>4. /\ shown' \in Seq(Deltas) /\ tooLate' \in Nat /\ abort' \in BOOLEAN
        /\ sends' \in 0..MaxSends /\ (~abort' => tooLate' = 0) /\ tooLate' <= 1
    BY <2>1 DEF AnswerInv, StreamTypes, Stream!TypeOK, LateSteps
  <2> QED
    BY <2>1, <2>3, <2>4, BeginKeeps
<1> QED
  BY <1>1, <1>2

\* The client takes an event that is not the end.
LEMMA TakeKeeps ==
  ASSUME AnswerInv, Stream!Apply
  PROVE  AnswerInv'
<1>1. /\ sending = "checked" /\ wire[1].type \notin {"completed", "error"} /\ sending' = "reading"
      /\ wire' = Tail(wire) /\ buffered' = buffered - 1 /\ state' = Stream!Step(state, wire[1])
      /\ UNCHANGED <<transport, abort, server, result, sends>>
  BY DEF Stream!Apply
<1>2. /\ Len(wire) \in Nat /\ Len(wire) > 0 /\ wire \in Seq(StreamEvents) /\ wire # <<>>
      /\ buffered \in 1..Len(wire) /\ Len(wire) <= MaxWire
      /\ wire[1] \in StreamEvents /\ state \in States /\ shown \in Seq(Deltas)
      /\ transport \in {"ws", "sse"} /\ tooLate = 0 /\ result.kind = "none"
  BY <1>1 DEF AnswerInv, StreamTypes, Stream!TypeOK, LateSteps
<1>3. /\ wire' \in Seq(StreamEvents) /\ Len(wire') = Len(wire) - 1
      /\ \A i \in 1..(Len(wire) - 1) : wire'[i] = wire[i + 1]
  BY <1>1, <1>2, HeadTailProperties
<1>4. Telling' /\ state' \in States
  BY <1>1, <1>2, HearKeeps DEF AnswerInv
<1>5. EndIsLast'
  <2>1. ASSUME NEW i \in 1..Len(wire'), wire'[i].type \in {"completed", "error"}
        PROVE  i = Len(wire') /\ server'.over = wire'[i].type
    <3>1. i + 1 \in 1..Len(wire) /\ wire'[i] = wire[i + 1]
      BY <1>2, <1>3
    <3>2. i + 1 = Len(wire) /\ server.over = wire[i + 1].type
      BY <2>1, <3>1 DEF AnswerInv, EndIsLast
    <3>3. i = Len(wire) - 1
      BY <1>2, <1>3, <3>2
    <3>4. wire'[i].type = wire[i + 1].type
      BY <3>1, Zenon
    <3> QED
      BY <1>1, <1>3, <3>2, <3>3, <3>4, Zenon
  <2> QED
    BY <2>1 DEF EndIsLast
<1>6. /\ shown' \in Seq(Deltas) /\ IsSuffix(state'.text, shown')
      /\ tooLate' \in {0, 1} /\ (~abort => tooLate' = 0)
  <2>1. CASE wire[1].type = "text"
    <3>1. PICK d : d = <<transport, wire[1].n>>
      OBVIOUS
    <3>2. shown' = Append(shown, d) /\ tooLate' = (IF abort THEN 1 ELSE 0)
      BY <1>2, <2>1, <3>1 DEF Stream!Apply
    <3>3. d \in Deltas
      BY <1>2, <3>1 DEF Deltas, StreamEvents
    <3>4. state' = [state EXCEPT !.text = Append(@, d)]
      BY <1>1, <2>1, <3>1 DEF Stream!Step
    <3>5. state'.text = Append(state.text, d) /\ state.text \in Seq(Deltas)
      BY <1>2, <3>4 DEF States
    <3>6. IsSuffix(state.text, shown)
      BY DEF AnswerInv
    <3>7. IsSuffix(Append(state.text, d), Append(shown, d))
      BY <1>2, <3>3, <3>5, <3>6, SuffixGrows
    <3> QED
      BY <1>2, <3>2, <3>3, <3>5, <3>7
  <2>2. CASE wire[1].type # "text"
    <3>1. UNCHANGED <<shown, tooLate>>
      BY <2>2 DEF Stream!Apply
    <3>2. state'.text = state.text
      <4>1. wire[1].type \in {"added", "arguments", "done", "done_repeated"}
        BY <1>1, <1>2, <2>2 DEF StreamEvents
      <4>2. CASE wire[1].type = "added"
        BY <1>1, <1>2, <4>2 DEF Stream!Step, States
      <4>3. CASE wire[1].type = "arguments"
        BY <1>1, <1>2, <4>3 DEF Stream!Step, States
      <4>4. CASE wire[1].type = "done"
        BY <1>1, <1>2, <4>4 DEF Stream!Step, States
      <4>5. CASE wire[1].type = "done_repeated"
        BY <1>1, <1>2, <4>5 DEF Stream!Step, States
      <4> QED
        BY <4>1, <4>2, <4>3, <4>4, <4>5
    <3> QED
      BY <1>2, <3>1, <3>2 DEF AnswerInv
  <2> QED
    BY <2>1, <2>2
<1>7. StreamTypes'
  <2>1. buffered' \in 0..Len(wire') /\ Len(wire') <= MaxWire
    <3>1. /\ buffered' = buffered - 1 /\ Len(wire') = Len(wire) - 1
          /\ buffered \in 1..Len(wire) /\ Len(wire) \in Nat /\ Len(wire) <= MaxWire
      BY <1>1, <1>2, <1>3
    <3>2. MaxWire \in Nat
      BY RecordsAssumption
    <3> HIDE <1>1, <1>2, <1>3
    <3> QED
      BY <3>1, <3>2
  <2>2. Stream!TypeOK'
    BY <1>1, <2>1 DEF AnswerInv, StreamTypes, Stream!TypeOK
  <2> QED
    BY <1>1, <1>3, <1>4, <1>6, <2>2 DEF AnswerInv, StreamTypes
<1> QED
  BY <1>1, <1>2, <1>4, <1>5, <1>6, <1>7
     DEF AnswerInv, LateSteps, Stream!AnswerIsOneStream

\* The stream's words for a prefix and a suffix are the ones used here.
LEMMA SameWords ==
  ASSUME NEW s, NEW t
  PROVE  (Stream!IsPrefix(s, t) <=> IsPrefix(s, t)) /\ (Stream!IsSuffix(s, t) <=> IsSuffix(s, t))
BY DEF Stream!IsPrefix, IsPrefix, Stream!IsSuffix, IsSuffix, Stream!Reverse, Reverse

\* A send ends with what the client has heard.
LEMMA AnswerKeeps ==
  ASSUME AnswerInv, Stream!Return(Stream!Answer),
         IsPrefix(state.text, server.texts), IsPrefix(state.calls, server.calls),
         server.over = "completed" => state.text = server.texts /\ state.calls = server.calls
  PROVE  AnswerInv'
<1>1. QuietStream /\ UNCHANGED <<shown, buffered, tooLate, abort, sends>> /\ sending' = "idle"
      /\ result' = Stream!Answer
  BY DEF Stream!Return, QuietStream
<1>2. Telling' /\ EndIsLast'
  BY <1>1, QuietKeeps DEF AnswerInv
<1>3. StreamTypes /\ server.texts \in Seq(Deltas) /\ server.calls \in Seq(ToolCalls)
  BY ServerFields DEF AnswerInv
<1>4. IsPrefix(<<>>, server.texts) /\ IsPrefix(<<>>, server.calls) /\ IsSuffix(<<>>, shown)
  BY <1>3, PrefixOfItself DEF StreamTypes
<1>5. CASE state.calls # <<>>
  <2>1. result' = [kind |-> "calls", text |-> <<>>, calls |-> state.calls]
    BY <1>1, <1>5 DEF Stream!Answer, Stream!Result
  <2>2. StreamTypes'
    BY <1>1, <1>3, <2>1 DEF StreamTypes, Stream!TypeOK, QuietStream
  <2>3. Stream!AnswerIsOneStream'
    <3>1. result'.text = <<>> /\ result'.calls = state.calls
      BY <2>1
    <3>2. /\ IsPrefix(result'.text, server'.texts) /\ IsPrefix(result'.calls, server'.calls)
          /\ IsSuffix(result'.text, shown')
      BY <1>1, <1>4, <3>1 DEF QuietStream
    <3>3. server'.over = "completed" => server'.calls = state.calls
      BY <1>1 DEF QuietStream
    <3>4. server'.over = "completed" =>
            IF server'.calls = <<>> THEN result'.text = server'.texts
            ELSE result'.calls = server'.calls
      BY <1>5, <3>1, <3>3
    <3> QED
      BY <3>2, <3>4, SameWords, Zenon DEF Stream!AnswerIsOneStream
  <2> QED
    BY <1>1, <1>2, <2>2, <2>3 DEF AnswerInv, LateSteps, QuietStream
<1>6. CASE state.calls = <<>>
  <2>1. result' = [kind |-> "text", text |-> state.text, calls |-> <<>>]
    BY <1>1, <1>6 DEF Stream!Answer, Stream!Result
  <2>2. StreamTypes'
    BY <1>1, <1>3, <2>1 DEF StreamTypes, Stream!TypeOK, QuietStream
  <2>3. IsSuffix(state.text, shown)
    BY DEF AnswerInv
  <2>4. Stream!AnswerIsOneStream'
    <3>1. result'.text = state.text /\ result'.calls = <<>>
      BY <2>1
    <3>2. /\ IsPrefix(result'.text, server'.texts) /\ IsPrefix(result'.calls, server'.calls)
          /\ IsSuffix(result'.text, shown')
      BY <1>1, <1>4, <2>3, <3>1 DEF QuietStream
    <3>3. server'.over = "completed" => server'.calls = <<>> /\ server'.texts = state.text
      BY <1>1, <1>6 DEF QuietStream
    <3>4. server'.over = "completed" =>
            IF server'.calls = <<>> THEN result'.text = server'.texts
            ELSE result'.calls = server'.calls
      BY <3>1, <3>3
    <3> QED
      BY <3>2, <3>4, SameWords, Zenon DEF Stream!AnswerIsOneStream
  <2> QED
    BY <1>1, <1>2, <2>2, <2>4 DEF AnswerInv, LateSteps, QuietStream
<1> QED
  BY <1>5, <1>6

LEMMA CompleteKeeps ==
  ASSUME AnswerInv, Stream!Complete
  PROVE  AnswerInv'
<1>1. sending = "checked" /\ wire[1].type = "completed" /\ Stream!Return(Stream!Answer)
  BY DEF Stream!Complete
<1>2. Len(wire) \in Nat /\ 1 \in 1..Len(wire)
  BY <1>1 DEF AnswerInv, StreamTypes, Stream!TypeOK, LateSteps
<1>3. Len(wire) = 1
  BY <1>1, <1>2 DEF AnswerInv, EndIsLast
<1>4. PICK path : Leads(path)
  BY DEF AnswerInv, Telling
<1>5. Tells(transport, path[0], wire[1], path[1])
  <2>1. 1 - 1 = 0
    OBVIOUS
  <2> QED
    BY <1>2, <1>4, <2>1 DEF Leads
<1>6. path[1] = path[0]
  BY <1>1, <1>5 DEF Tells, TellsText, TellsAdded, TellsPart, TellsDone, TellsEnd
<1>7. Hears(state, Talk(server))
  BY <1>3, <1>4, <1>6 DEF Leads
<1>8. state.text = server.texts /\ state.calls = server.calls
  BY <1>7, TalkIs DEF Hears, AnswerInv
<1> QED
  BY <1>1, <1>8, AnswerKeeps, ServerFields DEF AnswerInv

LEMMA EndOfStreamKeeps ==
  ASSUME AnswerInv, Stream!EndOfStream
  PROVE  AnswerInv'
<1>1. server.over = "closed" /\ Stream!Return(Stream!Answer)
  BY DEF Stream!EndOfStream
<1>2. PICK path : Leads(path)
  BY DEF AnswerInv, Telling
<1>3. 0 \in 0..Len(wire)
  BY DEF AnswerInv, StreamTypes
<1>4. IsPrefix(path[0].texts, server.texts) /\ IsPrefix(path[0].calls, server.calls)
      /\ Hears(state, path[0])
  BY <1>2, <1>3 DEF Leads
<1>5. state.text = path[0].texts /\ state.calls = path[0].calls
  BY <1>4 DEF Hears
<1> QED
  BY <1>1, <1>4, <1>5, AnswerKeeps

-----------------------------------------------------------------------------

LEMMA AnswerStarts == Stream!Init => AnswerInv
<1> SUFFICES ASSUME Stream!Init PROVE AnswerInv
  OBVIOUS
<1>1. NothingYet /\ Len(wire) = 0
  BY DEF Stream!Init, NothingYet
<1>2. Telling /\ EndIsLast /\ server \in Servers /\ state \in States /\ server.open = 0
  BY <1>1, NothingSaid
<1>3. StreamTypes
  <2>1. wire \in Seq(StreamEvents) /\ shown \in Seq(Deltas)
    BY DEF Stream!Init
  <2>2. buffered \in 0..Len(wire) /\ Len(wire) <= MaxWire /\ sends \in 0..MaxSends
    BY <1>1, RecordsAssumption DEF Stream!Init
  <2>3. result.kind = "none" /\ sending = "idle" /\ abort = FALSE /\ transport = "sse"
    BY DEF Stream!Init, Stream!Result
  <2>4. Stream!TypeOK
    BY <2>2, <2>3 DEF Stream!TypeOK
  <2> QED
    BY <1>2, <2>1, <2>3, <2>4 DEF Stream!Init, StreamTypes
<1>4. IsSuffix(state.text, shown)
  BY <1>3, PrefixOfItself DEF Stream!Init, Stream!Blank, StreamTypes
<1>5. result.kind = "none"
  BY DEF Stream!Init, Stream!Result
<1> QED
  BY <1>2, <1>3, <1>4, <1>5 DEF Stream!Init, AnswerInv, LateSteps, Stream!AnswerIsOneStream

LEMMA AnswerStutters ==
  ASSUME AnswerInv, UNCHANGED Stream!vars
  PROVE  AnswerInv'
<1>1. QuietStream /\ UNCHANGED <<shown, result, buffered, sending, tooLate, abort, sends>>
  BY DEF Stream!vars, QuietStream
<1>2. Telling' /\ EndIsLast'
  BY <1>1, QuietKeeps DEF AnswerInv
<1>3. StreamTypes'
  BY <1>1 DEF AnswerInv, StreamTypes, Stream!TypeOK, QuietStream
<1> QED
  BY <1>1, <1>2, <1>3 DEF AnswerInv, LateSteps, Stream!AnswerIsOneStream, QuietStream

LEMMA AnswerSteps == AnswerInv /\ [Stream!Next]_(Stream!vars) => AnswerInv'
<1> SUFFICES ASSUME AnswerInv, [Stream!Next]_(Stream!vars) PROVE AnswerInv'
  OBVIOUS
<1>1. CASE Stream!ConnectFails
  BY <1>1, FailedKeeps DEF Stream!ConnectFails
<1>2. CASE Stream!ErrorEvent
  BY <1>2, FailedKeeps DEF Stream!ErrorEvent
<1>3. CASE Stream!ReadFails
  BY <1>3, FailedKeeps DEF Stream!ReadFails
<1> QED
  BY <1>1, <1>2, <1>3, ServeKeeps, StopKeeps, SendKeeps, SeeAbortKeeps, ConnectKeeps,
     ReceiveKeeps, CheckKeeps, TakeKeeps, CompleteKeeps, EndOfStreamKeeps, AnswerStutters
     DEF Stream!Next

\* Whatever the transport, wherever it failed and wherever the stream was cut, an
\* answer is what one stream said (OpenAiProvider::send, into_turn_result).
THEOREM OneStreamAnswers == Stream!Spec => []AnswerIsOneStream
<1>1. AnswerInv => AnswerIsOneStream
  BY DEF AnswerInv, AnswerIsOneStream
<1> QED
  BY AnswerStarts, AnswerSteps, <1>1, PTL DEF Stream!Spec

\* However many deltas came in one chunk, one of them at most is shown after the
\* abort (send_sse and send_ws look at the signal before each block or message).
THEOREM FewAreLate == Stream!Spec => []LateAtMostOne
<1>1. AnswerInv => LateAtMostOne
  BY DEF AnswerInv, LateSteps, LateAtMostOne, Stream!LateAtMostOne
<1> QED
  BY AnswerStarts, AnswerSteps, <1>1, PTL DEF Stream!Spec

-----------------------------------------------------------------------------
(* The files that a rename changes: types.                                 *)

\* A change that the server may ask for.
Fit(c) ==
  /\ c.path \in Files \cup {Outside}
  /\ c.kind = "edits" => c.path \in Files
  /\ c.kind = "rename" => c.to \in Files

RenameInv == Rename!TypeOK /\ \E plan : changes \in Seq(plan) /\ \A c \in plan : Fit(c)

LEMMA RenameStarts == Rename!Init => RenameInv
<1> SUFFICES ASSUME Rename!Init PROVE RenameInv
  OBVIOUS
<1>1. changes \in Seq({}) /\ \A c \in {} : Fit(c)
  BY DEF Rename!Init
<1>2. DOMAIN disk = Files
  BY DEF Rename!Init
<1>3. Rename!TypeOK
  BY <1>2 DEF Rename!Init, Rename!TypeOK
<1> QED
  BY <1>1, <1>3 DEF RenameInv

LEMMA RenameSteps ==
  ASSUME RenameInv, [Rename!Next]_(Rename!vars)
  PROVE  RenameInv'
<1>1. PICK plan : changes \in Seq(plan) /\ \A c \in plan : Fit(c)
  BY DEF RenameInv
<1>2. Rename!TypeOK
  BY DEF RenameInv
<1>3. ASSUME UNCHANGED changes, Rename!TypeOK' PROVE RenameInv'
  BY <1>1, <1>3 DEF RenameInv
<1>4. CASE Rename!Call
  BY <1>2, <1>3, <1>4 DEF Rename!Call, Rename!TypeOK
<1>5. CASE Rename!Refuse \/ Rename!Prepared
  BY <1>2, <1>3, <1>5 DEF Rename!Refuse, Rename!Prepared, Rename!TypeOK
<1>6. CASE Rename!Answered
  <2>1. PICK c \in Rename!Changes(disk) : \E more \in {<<>>} \cup
          {<<Rename!Change("delete", Outside, Outside, <<>>)>>,
           <<Rename!Change("create", c.path, c.path, <<>>)>>} :
             changes' = <<c>> \o more
    BY <1>6 DEF Rename!Answered
  <2> DEFINE d1 == Rename!Change("delete", Outside, Outside, <<>>)
             d2 == Rename!Change("create", c.path, c.path, <<>>)
             all == {c, d1, d2}
  <2>2. Fit(c)
    BY <2>1 DEF Rename!Changes, Rename!Change, Fit
  <2>3. Fit(d1) /\ Fit(d2)
    BY <2>2 DEF Fit, Rename!Change
  <2>4. changes' \in {<<c>> \o <<>>, <<c>> \o <<d1>>, <<c>> \o <<d2>>}
    BY <2>1
  <2> HIDE DEF d1, d2
  <2>5. changes' \in Seq(all)
    <3> HIDE DEF all
    <3>1. c \in all /\ d1 \in all /\ d2 \in all
      BY DEF all
    <3>2. <<>> \in Seq(all) /\ <<c>> \in Seq(all) /\ <<d1>> \in Seq(all) /\ <<d2>> \in Seq(all)
      BY <3>1
    <3>3. /\ <<c>> \o <<>> \in Seq(all) /\ <<c>> \o <<d1>> \in Seq(all)
          /\ <<c>> \o <<d2>> \in Seq(all)
      BY <3>2, ConcatProperties
    <3> QED
      BY <2>4, <3>3
  <2>6. Rename!TypeOK'
    BY <1>2, <1>6 DEF Rename!Answered, Rename!TypeOK
  <2> QED
    BY <2>2, <2>3, <2>5, <2>6 DEF RenameInv
\* One change is taken.
<1>7. ASSUME Rename!Take
      PROVE  /\ changes[1] \in plan /\ Fit(changes[1])
             /\ phase = "applying" /\ phase' = phase /\ outcome' = outcome
             /\ Rename!TypeOK' => RenameInv'
  <2>1. changes # <<>> /\ changes' = Tail(changes)
    BY <1>7 DEF Rename!Take
  <2>2. changes[1] \in plan /\ changes' \in Seq(plan)
    BY <1>1, <2>1
  <2> QED
    BY <1>1, <1>7, <2>2 DEF Rename!Take, RenameInv
<1>8. ASSUME NEW f \in Files, Rename!Succeeds(f) \/ Rename!Fails
      PROVE  modified' \subseteq Files /\ errors' \in BOOLEAN
  BY <1>2, <1>8 DEF Rename!Succeeds, Rename!Fails, Rename!TypeOK
<1>9. ASSUME Rename!Fails
      PROVE  modified' \subseteq Files /\ errors' \in BOOLEAN
  BY <1>2, <1>9 DEF Rename!Fails, Rename!TypeOK
<1>10. \A f \in Files : \A doc : DOMAIN [disk EXCEPT ![f] = doc] = Files
  BY <1>2 DEF Rename!TypeOK
<1>11. CASE Rename!ApplyEdits
  <2>1. Rename!Take /\ changes[1].kind = "edits"
    BY <1>11 DEF Rename!ApplyEdits
  <2>2. changes[1].path \in Files
    BY <1>7, <2>1 DEF Fit
  <2>3. \/ DOMAIN disk' = Files
        \/ disk' = disk
    BY <1>10, <1>11, <2>2 DEF Rename!ApplyEdits, Rename!WriteFails
  <2>4. Rename!Succeeds(changes[1].path) \/ Rename!Fails
    BY <1>11 DEF Rename!ApplyEdits, Rename!WriteFails
  <2> QED
    BY <1>2, <1>7, <1>8, <2>1, <2>2, <2>3, <2>4 DEF Rename!TypeOK
<1>12. CASE Rename!ApplyOutside
  BY <1>2, <1>7, <1>9, <1>12 DEF Rename!ApplyOutside, Rename!TypeOK
<1>13. CASE Rename!ApplyCreate
  <2>1. Rename!Take /\ changes[1].path \in Files
    BY <1>7, <1>13 DEF Rename!ApplyCreate, Fit
  <2>2. DOMAIN disk' = Files
    BY <1>2, <1>10, <1>13, <2>1 DEF Rename!ApplyCreate, Rename!TypeOK
  <2>3. Rename!Succeeds(changes[1].path) \/ Rename!Fails
    BY <1>13 DEF Rename!ApplyCreate
  <2> QED
    BY <1>2, <1>7, <1>8, <2>1, <2>2, <2>3 DEF Rename!TypeOK
<1>14. CASE Rename!ApplyRename
  <2>1. Rename!Take /\ changes[1].path \in Files /\ changes[1].to \in Files
    BY <1>7, <1>14 DEF Rename!ApplyRename, Fit
  <2> DEFINE old == changes[1].path
             new == changes[1].to
             copied == [disk EXCEPT ![new] = disk[old]]
  <2>2. disk' \in {disk, copied, [copied EXCEPT ![old] = <<>>], [disk EXCEPT ![new] = <<<<>>>>]}
    BY <1>14 DEF Rename!ApplyRename, Rename!WriteFails
  <2>3. DOMAIN disk' = Files
    BY <1>2, <2>1, <2>2 DEF Rename!TypeOK
  <2>4. Rename!Succeeds(new) \/ Rename!Fails
    BY <1>14 DEF Rename!ApplyRename, Rename!WriteFails
  <2> QED
    BY <1>2, <1>7, <1>8, <2>1, <2>3, <2>4 DEF Rename!TypeOK
<1>15. CASE Rename!ApplyDelete
  <2>1. Rename!Take /\ changes[1].path \in Files
    BY <1>7, <1>15 DEF Rename!ApplyDelete, Fit
  <2>2. DOMAIN disk' = Files
    BY <1>2, <1>10, <1>15, <2>1 DEF Rename!ApplyDelete, Rename!TypeOK
  <2>3. Rename!Succeeds(changes[1].path) \/ Rename!Fails
    BY <1>15 DEF Rename!ApplyDelete
  <2> QED
    BY <1>2, <1>7, <1>8, <2>1, <2>2, <2>3 DEF Rename!TypeOK
<1>16. CASE Rename!Finish
  BY <1>2, <1>3, <1>16 DEF Rename!Finish, Rename!TypeOK
<1>17. ASSUME NEW f \in Files, Rename!Elsewhere(f) PROVE RenameInv'
  <2>1. DOMAIN disk' = Files
    BY <1>10, <1>17 DEF Rename!Elsewhere
  <2> QED
    BY <1>2, <1>3, <1>17, <2>1 DEF Rename!Elsewhere, Rename!TypeOK
<1>18. CASE UNCHANGED Rename!vars
  BY <1>2, <1>3, <1>18 DEF Rename!vars, Rename!TypeOK
<1> QED
  BY <1>4, <1>5, <1>6, <1>11, <1>12, <1>13, <1>14, <1>15, <1>16, <1>17, <1>18
  DEF Rename!Next

-----------------------------------------------------------------------------
(* All parts together.                                                     *)

\* A behaviour of the whole is one of each part.
LEMMA PartsAreSpecs ==
  PartsSpec => /\ Spec /\ Stream!Spec /\ Cred!Spec /\ Schema!Spec /\ Graph!Spec
               /\ Edits!Spec /\ Rename!Spec
<1>1. PartsInit => /\ Init /\ Stream!Init /\ Cred!Init /\ Schema!Init /\ Graph!Init
                   /\ Edits!Init /\ Rename!Init
  BY DEF PartsInit
<1>2. UNCHANGED stream => UNCHANGED Stream!vars
  BY DEF stream, Stream!vars
<1>3. UNCHANGED credentials => UNCHANGED Cred!vars
  BY DEF credentials, Cred!vars, Cred!store, Cred!actors, Cred!logins
<1>4. UNCHANGED schema => UNCHANGED Schema!vars
  BY DEF schema, Schema!vars
<1>5. UNCHANGED graph => UNCHANGED Graph!vars
  BY DEF graph, Graph!vars
<1>6. UNCHANGED editing => UNCHANGED Edits!vars
  BY DEF editing, Edits!vars
<1>7. UNCHANGED rename => UNCHANGED Rename!vars
  BY DEF rename, Rename!vars
<1>8. [PartsNext]_<<part, vars, stream, credentials, schema, graph, editing, rename>> =>
        /\ [Next]_vars /\ [Stream!Next]_(Stream!vars) /\ [Cred!Next]_(Cred!vars)
        /\ [Schema!Next]_(Schema!vars) /\ [Graph!Next]_(Graph!vars)
        /\ [Edits!Next]_(Edits!vars) /\ [Rename!Next]_(Rename!vars)
  BY <1>2, <1>3, <1>4, <1>5, <1>6, <1>7 DEF PartsNext
<1> QED
  BY <1>1, <1>8, PTL DEF PartsSpec, Spec, Stream!Spec, Cred!Spec, Schema!Spec, Graph!Spec,
                         Edits!Spec, Rename!Spec

\* Whatever part moves, the history keeps its inductive invariant and every
\* other part its types (MCRecords, all parts).
THEOREM RecordsStayOK == PartsSpec => []PartsOK
<1>1. Stream!Spec => []Stream!TypeOK
  <2>1. AnswerInv => Stream!TypeOK
    BY DEF AnswerInv, StreamTypes
  <2> QED
    BY AnswerStarts, AnswerSteps, <2>1, PTL DEF Stream!Spec
<1>2. Cred!Spec => []Cred!TypeOK
  <2>1. Cred!TypeOK /\ GivenOut /\ [Cred!Next]_(Cred!vars) => Cred!TypeOK' /\ GivenOut'
    BY CredTypesStay, GivenOutStays
  <2> QED
    BY CredTypesStart, <2>1, PTL DEF Cred!Spec
<1>3. Schema!Spec => []Schema!TypeOK
  <2>1. SchemaInv => Schema!TypeOK
    BY DEF SchemaInv
  <2>2. Schema!Init => SchemaInv
    BY SchemaInitHolds
  <2>3. SchemaInv /\ [Schema!Next]_(Schema!vars) => SchemaInv'
    BY SchemaStepKeeps
  <2> QED
    BY <2>1, <2>2, <2>3, PTL DEF Schema!Spec
<1>4. Graph!Spec => []Graph!TypeOK
  <2>1. Graph!Init => GraphInv
    BY DEF Graph!Init, GraphInv, Graph!TypeOK, OneParent
  <2>2. GraphInv => Graph!TypeOK
    BY DEF GraphInv
  <2>3. GraphInv /\ [Graph!Next]_(Graph!vars) => GraphInv'
    BY GraphStepKeeps
  <2> QED
    BY <2>1, <2>2, <2>3, PTL DEF Graph!Spec
<1>5. Edits!Spec => []Edits!TypeOK
  <2>1. EditInv /\ [Edits!Next]_(Edits!vars) => EditInv'
    BY EditSteps
  <2>2. EditInv => Edits!TypeOK
    BY DEF EditInv
  <2> QED
    BY EditStarts, <2>1, <2>2, PTL DEF Edits!Spec
<1>6. Rename!Spec => []Rename!TypeOK
  <2>1. RenameInv /\ [Rename!Next]_(Rename!vars) => RenameInv'
    BY RenameSteps
  <2>2. RenameInv => Rename!TypeOK
    BY DEF RenameInv
  <2> QED
    BY RenameStarts, <2>1, <2>2, PTL DEF Rename!Spec
<1>7. /\ IInv /\ Stream!TypeOK /\ Cred!TypeOK /\ Schema!TypeOK /\ Graph!TypeOK
      /\ Edits!TypeOK /\ Rename!TypeOK
      => PartsOK
  BY DEF PartsOK
<1> QED
  BY <1>1, <1>2, <1>3, <1>4, <1>5, <1>6, <1>7, PartsAreSpecs, InvariantHolds, PTL
=============================================================================
