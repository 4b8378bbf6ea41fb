----------------------------- MODULE Credentials -----------------------------
(***************************************************************************)
(* The credential store and those who change it: turns that refresh an     *)
(* expired OpenAI token, browser tabs that log in, and `kley login` in a    *)
(* terminal.  Each loads the whole store, changes its copy and writes the  *)
(* copy back; nothing locks the store meanwhile.                           *)
(***************************************************************************)
EXTENDS Naturals

CONSTANTS
  Workers,     \* turns that resolve their authentication
  Tabs,        \* browser tabs, each the controller of a session
  Terminals,   \* runs of `kley login`
  AutoReset,   \* KLEY_WEB_AUTH_AUTO_RESET
  MaxFlows,    \* bound: OpenAI logins begun
  MaxTokens    \* bound: token sets issued

People == Tabs \cup Terminals
Actors == Workers \cup People

VARIABLES
  backend,   \* SecretBackend: Vault, or a file encrypted with age
  stored,    \* the Credentials the backend holds, the default if none
  torn,      \* the file is there and cannot be decrypted
  pc,        \* actor -> what it is doing
  copy,      \* actor -> the Credentials it has loaded and changed
  held,      \* actor -> the flow whose code it exchanges
  pending,   \* WebAppState::pending_openai_logins, and a terminal's own flow
  flows,     \* number of logins begun; a login is its number
  overdue,   \* flows begun PENDING_OPENAI_LOGIN_TTL ago
  tokens,    \* number of token sets issued; a set is its number
  stale      \* token sets within a minute of their end

actors == <<pc, copy, held>>
logins == <<pending, flows, overdue>>
store == <<backend, stored, torn>>
vars == <<store, actors, logins, tokens, stale>>

Providers == {"none", "openai", "zai"}

\* openai is 0 without tokens; key is a platform API key, which only an older
\* store can hold.
Credentials ==
  [active : Providers, openai : Nat, key : BOOLEAN, zai : BOOLEAN]
NoLogin == [active |-> "none", openai |-> 0, key |-> FALSE, zai |-> FALSE]
OlderStore == [active |-> "openai", openai |-> 0, key |-> TRUE, zai |-> FALSE]

Init ==
  /\ backend \in {"vault", "file"}
  /\ stored \in {NoLogin, OlderStore} /\ torn = FALSE
  /\ pc = [a \in Actors |-> "idle"]
  /\ copy = [a \in Actors |-> NoLogin]
  /\ held = [a \in Actors |-> 0] /\ pending = [p \in People |-> 0]
  /\ flows = 0 /\ overdue = {}
  /\ tokens = 0 /\ stale = {}

-----------------------------------------------------------------------------
(* Loading and saving.                                                     *)

\* AgeFileBackend::load gives the Credentials that were saved, or fails.
Readable == ~torn

Goes(a, next) == pc' = [pc EXCEPT ![a] = next]

\* a is done, and what it held is gone.
Ends(a) ==
  /\ Goes(a, "idle")
  /\ copy' = [copy EXCEPT ![a] = NoLogin] /\ held' = [held EXCEPT ![a] = 0]

\* What a does fails.  A tab's flow stays pending; a terminal's command is over.
Fails(a) ==
  /\ Ends(a)
  /\ pending' = IF a \in Terminals THEN [pending EXCEPT ![a] = 0] ELSE pending

\* a goes on to save c.
Saves(a, c) == copy' = [copy EXCEPT ![a] = c] /\ Goes(a, "saving")

\* AgeFileBackend::save: the file is opened, which empties it.
Truncate(a) ==
  /\ pc[a] = "saving" /\ backend = "file"
  /\ torn' = TRUE /\ Goes(a, "writing")
  /\ UNCHANGED <<backend, stored, copy, held, logins, tokens, stale>>

\* The text is written: as meant, or torn because the write fails or because
\* another wrote since the file was emptied.
Write(a) ==
  /\ pc[a] = "writing"
  /\ torn' \in BOOLEAN /\ stored' = copy[a]
  /\ IF torn' THEN Fails(a) ELSE Goes(a, "saved") /\ UNCHANGED <<copy, held, pending>>
  /\ UNCHANGED <<backend, flows, overdue, tokens, stale>>

\* VaultBackend::save: one request, which an error may follow all the same.
VaultSave(a) ==
  /\ pc[a] = "saving" /\ backend = "vault"
  /\ \/ stored' = copy[a] /\ Goes(a, "saved") /\ UNCHANGED <<copy, held, pending>>
     \/ stored' \in {stored, copy[a]} /\ Fails(a)
  /\ UNCHANGED <<backend, torn, flows, overdue, tokens, stale>>

\* The file cannot be opened, or the text not encrypted.
SaveFails(a) ==
  /\ pc[a] = "saving" /\ Fails(a)
  /\ UNCHANGED <<store, flows, overdue, tokens, stale>>

-----------------------------------------------------------------------------
(* A turn resolves its authentication.                                     *)

\* Wrong variant: the tokens that end are taken out of the store meanwhile.
RefreshEmptied(w) ==
  /\ pc[w] = "idle" /\ Readable /\ tokens < MaxTokens
  /\ stored.active = "openai" /\ ~stored.key /\ stored.openai \in stale
  /\ Saves(w, [stored EXCEPT !.openai = 0])
  /\ UNCHANGED <<store, held, logins, tokens, stale>>

\* The loaded tokens are about to end; new ones are asked for.  In all other
\* cases resolve_auth changes nothing.
Refresh(w) ==
  /\ pc[w] = "idle" /\ Readable /\ tokens < MaxTokens
  /\ stored.active = "openai" /\ ~stored.key /\ stored.openai \in stale
  /\ copy' = [copy EXCEPT ![w] = stored] /\ Goes(w, "refreshing")
  /\ UNCHANGED <<store, held, logins, tokens, stale>>

\* The answer replaces the tokens of the copy, which is saved.
Refreshed(w) ==
  /\ pc[w] = "refreshing" /\ tokens < MaxTokens
  /\ tokens' = tokens + 1
  /\ Saves(w, [copy[w] EXCEPT !.openai = tokens'])
  /\ UNCHANGED <<store, held, logins, stale>>

RefreshFails(w) ==
  /\ pc[w] = "refreshing" /\ Ends(w)
  /\ UNCHANGED <<store, logins, tokens, stale>>

-----------------------------------------------------------------------------
(* Logging in.                                                             *)

\* cleanup_expired_logins.
Live(map) == [p \in People |-> IF map[p] \in overdue THEN 0 ELSE map[p]]

Begun(p, flow) == [Live(pending) EXCEPT ![p] = flow]

\* Wrong variant: a tab is answered while its code is being exchanged.
StartLoginMeanwhile(p) ==
  /\ pc[p] \in {"idle", "exchanging"} /\ flows < MaxFlows /\ (p \in Terminals => pending[p] = 0)
  /\ flows' = flows + 1
  /\ pending' = Begun(p, flows')
  /\ UNCHANGED <<store, actors, overdue, tokens, stale>>

\* AuthOpenAiStart, or the start of login_interactive.
StartLogin(p) ==
  /\ pc[p] = "idle" /\ flows < MaxFlows /\ (p \in Terminals => pending[p] = 0)
  /\ flows' = flows + 1
  /\ pending' = Begun(p, flows')
  /\ UNCHANGED <<store, actors, overdue, tokens, stale>>

\* What the browser comes back with: the code of a flow, in a URL that carries
\* the flow's state or bare, as the user pastes it.
Accepted(p, flow, url) == url => flow = pending[p]

\* The pending flow's verifier goes with the code, and has to be that of the
\* flow the code was given to.
Exchange(p, flow) ==
  /\ held' = [held EXCEPT ![p] = pending[p]]
  /\ Goes(p, IF flow = pending[p] THEN "exchanging" ELSE "refused")
  /\ UNCHANGED <<store, copy, flows, overdue, tokens, stale>>

\* WebAppState::complete_openai_login.
Callback(p, flow, url) ==
  /\ p \in Tabs /\ pc[p] = "idle" /\ Live(pending)[p] # 0
  /\ Accepted(p, flow, url)
  /\ pending' = Live(pending)
  /\ Exchange(p, flow)

\* wait_for_callback: a terminal takes what its listener hears or what is
\* pasted into it.
Heard(p, flow, url) ==
  /\ p \in Terminals /\ pc[p] = "idle" /\ pending[p] # 0
  /\ Accepted(p, flow, url)
  /\ UNCHANGED pending
  /\ Exchange(p, flow)

\* The exchange fails, or takes a tab more than 45 s.
ExchangeFails(p) ==
  /\ pc[p] \in {"exchanging", "refused"} /\ Fails(p)
  /\ UNCHANGED <<store, flows, overdue, tokens, stale>>

WithOpenAi(c, t) == [c EXCEPT !.active = "openai", !.openai = t, !.key = FALSE]

\* The tokens come, and save_openai_oauth_credentials loads the store.
Exchanged(p) ==
  /\ pc[p] = "exchanging" /\ tokens < MaxTokens /\ Readable
  /\ tokens' = tokens + 1
  /\ Saves(p, WithOpenAi(stored, tokens'))
  /\ UNCHANGED <<store, held, logins, stale>>

WithZai(c) == [c EXCEPT !.active = "zai", !.zai = TRUE]

\* AuthLogin, or `kley login zai`.
LoginZai(p) ==
  /\ pc[p] = "idle" /\ Readable /\ (p \in Terminals => pending[p] = 0)
  /\ Saves(p, WithZai(stored))
  /\ UNCHANGED <<store, held, logins, tokens, stale>>

\* load_credentials, of a summary or a login: a store that cannot be decrypted
\* is replaced by an empty one.
ResetStore(p) ==
  /\ AutoReset /\ p \in Tabs /\ pc[p] = "idle" /\ ~Readable
  /\ Saves(p, NoLogin)
  /\ UNCHANGED <<store, held, logins, tokens, stale>>

\* The save is over.  A login is reported, and clears what its tab has pending.
Saved(a) ==
  /\ pc[a] = "saved" /\ Ends(a)
  /\ pending' =
       IF held[a] # 0 THEN [pending EXCEPT ![a] = 0] ELSE pending
  /\ UNCHANGED <<store, flows, overdue, tokens, stale>>

\* The end of handle_socket, or of the terminal's command, which waits for 120 s.
Close(p) ==
  /\ pc[p] = "idle" /\ pending[p] # 0
  /\ pending' = [pending EXCEPT ![p] = 0]
  /\ UNCHANGED <<store, actors, flows, overdue, tokens, stale>>

-----------------------------------------------------------------------------
(* Time, and death.                                                        *)

Overdue ==
  /\ \E p \in Tabs : pending[p] # 0 /\ overdue' = overdue \cup {pending[p]}
  /\ UNCHANGED <<store, actors, pending, flows, tokens, stale>>

TokensEnd ==
  /\ stored.openai # 0 /\ stale' = stale \cup {stored.openai}
  /\ UNCHANGED <<store, actors, logins, tokens>>

\* The server dies with its tabs' logins; a save ends where it is.
Die ==
  /\ pc' = [a \in Actors |-> IF a \in Terminals THEN pc[a] ELSE "idle"]
  /\ copy' = [a \in Actors |-> IF a \in Terminals THEN copy[a] ELSE NoLogin]
  /\ held' = [a \in Actors |-> IF a \in Terminals THEN held[a] ELSE 0]
  /\ pending' = [p \in People |-> IF p \in Terminals THEN pending[p] ELSE 0]
  /\ UNCHANGED <<store, flows, overdue, tokens, stale>>

Next ==
  \/ \E a \in Actors : Truncate(a) \/ Write(a) \/ VaultSave(a) \/ SaveFails(a) \/ Saved(a)
  \/ \E w \in Workers : Refresh(w) \/ Refreshed(w) \/ RefreshFails(w)
  \/ \E p \in People :
       \/ StartLogin(p) \/ ExchangeFails(p) \/ Exchanged(p) \/ LoginZai(p)
       \/ ResetStore(p) \/ Close(p)
       \/ \E flow \in 1..flows, url \in BOOLEAN :
            Callback(p, flow, url) \/ Heard(p, flow, url)
  \/ Overdue \/ TokensEnd \/ Die

Spec == Init /\ [][Next]_vars

-----------------------------------------------------------------------------
(* Properties.                                                             *)

TypeOK ==
  /\ backend \in {"vault", "file"}
  /\ stored \in Credentials /\ torn \in BOOLEAN
  /\ pc \in [Actors -> {"idle", "refreshing", "exchanging", "refused", "saving",
                        "writing", "saved"}]
  /\ copy \in [Actors -> Credentials]
  /\ held \in [Actors -> 0..MaxFlows] /\ pending \in [People -> 0..MaxFlows]
  /\ flows \in 0..MaxFlows /\ overdue \subseteq 1..flows
  /\ tokens \in 0..MaxTokens /\ stale \subseteq 1..tokens

\* Whoever wrote last, from however old a copy, the provider the store names
\* has its credentials in it, so that "credentials missing" is never met.
Usable(c) ==
  /\ c.active = "openai" => c.key \/ c.openai # 0
  /\ c.active = "zai" => c.zai
ActiveIsUsable == Usable(stored)

\* A login is over when no one exchanges its code, and no one has it pending
\* who could: it ran out, was completed or begun anew, or lost its tab.
Over(flow) ==
  \A p \in People : held[p] # flow /\ (pending[p] = flow => flow \in overdue)

\* The code of a login is exchanged without the lock, while it may run out and
\* be cleaned away, and what is cleared afterwards is whatever its controller
\* then has pending.  Still, a login that is over is never taken up again, and
\* to complete one ends that one, for good, and no other.
LoginsEndOnce ==
  [][\A flow \in 1..flows :
       /\ Over(flow) => Over(flow)'
       /\ \A p \in People : Saved(p) /\ held[p] # 0 =>
            (Over(flow)' <=> Over(flow) \/ flow = held[p])]_vars
=============================================================================
