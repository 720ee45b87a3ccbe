---------------------------- MODULE TokenRefresh ----------------------------
(***************************************************************************)
(* The refresh token of one subscription (llm/chatgpt.rs, and the same     *)
(* code in claude.rs and cline.rs; copilot.rs exchanges a token that never *)
(* rotates, antigravity.rs keeps no list of forgotten tokens): the threads *)
(* of requests, which mint a bearer and may be handed a new refresh token; *)
(* the session loop, where a sign-in forgets and saves; and the key store. *)
(* A step is what happens under one of the module's locks, or between two. *)
(* A token is named by its sign-in (grant) and its number in the chain of  *)
(* rotations the server made of it.  The environment exports no token, and *)
(* a bearer past its time is not kept.                                     *)
(***************************************************************************)
EXTENDS Naturals, FiniteSets

CONSTANTS
    Providers,      \* what a provider does: hands out a new refresh token with a bearer
                    \* (rotates), keeps the tokens forget dropped (remembers)
    Threads,        \* the threads that make requests
    MaxSignIns,     \* bound: sign-ins after the first
    MaxRotations,   \* bound: rotations of one grant
    NoThread

\* One that keeps no names always signs in with a new token.
ASSUME ProvidersAssumption ==
    Providers \subseteq {p \in [rotates : BOOLEAN, remembers : BOOLEAN] : p.rotates \/ p.remembers}
ASSUME RefreshBoundsAssumption == {MaxSignIns, MaxRotations} \subseteq Nat
ASSUME NoThreadAssumption == NoThread \notin Threads

VARIABLES
    provider,
    live,       \* the server: grant |-> the token of it that is not retired
    threads,    \* thread |-> where it is, its config's token, the one presented and the
                \* one it became, and the sign-ins known as its refresh was sent
    gate,       \* the thread that holds refresh_gate
    cache,      \* the bearers: the token each is kept under, and the sign-ins known when
                \* its refresh was sent
    rotations,  \* retired token |-> the one to present for it
    forgotten,  \* the tokens forget dropped since a refresh settled
    store,      \* the token in the .env file
    known,      \* the token in the loop's copy of that file
    loop,       \* the sign-in's handler: its next lock, its token and the aliases found
    signIns, epoch,     \* sign-ins landed, and those whose names are on record
    lost, unsaved       \* grants whose newest token nobody has; no file has

serverVars == <<provider, live>>
memoryVars == <<cache, rotations, forgotten>>
signInVars == <<loop, signIns, epoch>>
vars == <<provider, live, threads, gate, cache, rotations, forgotten, store, known, loop,
          signIns, epoch, lost, unsaved>>

Grant == 0 .. MaxSignIns
Token == [grant : Grant, n : 0 .. MaxRotations]
Fresh(g) == [grant |-> g, n |-> 0]
IsLive(token) == token.n = live[token.grant]
NoAliases == [token \in {} |-> token]
Idle(own) == [pc |-> "idle", own |-> own, presented |-> own, rotated |-> own, born |-> 0]

Init ==
    /\ provider \in Providers
    /\ live = [g \in Grant |-> 0]
    /\ store = Fresh(0) /\ known = Fresh(0)
    /\ threads = [t \in Threads |-> Idle(Fresh(0))]
    /\ gate = NoThread
    /\ cache = {} /\ rotations = NoAliases /\ forgotten = {}
    /\ loop = [pc |-> "idle", token |-> Fresh(0), aliases |-> {}]
    /\ signIns = 0 /\ epoch = 0
    /\ lost = {} /\ unsaved = {}

-----------------------------------------------------------------------------
(* A request's thread: authorize_with *)

\* Were the alias map not asked.
ResolveOwn(token) == token

\* live_refresh_token
Resolve(token) == IF token \in DOMAIN rotations THEN rotations[token] ELSE token

\* cached_access
Cached(token) == \E entry \in cache : entry.of = Resolve(token)

\* A thread makes a request, on the config it has or on one built now, and looks in the
\* cache.
Request(t) ==
    /\ threads[t].pc = "idle"
    /\ \E own \in {threads[t].own, known} :
          threads' = [threads EXCEPT ![t] =
              [Idle(own) EXCEPT !.pc = IF Cached(own) THEN "idle" ELSE "waiting"]]
    /\ UNCHANGED <<serverVars, memoryVars, signInVars, gate, store, known, lost, unsaved>>

\* Past the gate: the bearer another thread minted meanwhile, or the exchange is sent.
Enter(t) ==
    /\ threads[t].pc = "waiting"
    /\ gate = NoThread
    /\ IF Cached(threads[t].own)
       THEN /\ threads' = [threads EXCEPT ![t] = Idle(@.own)]
            /\ UNCHANGED gate
       ELSE /\ gate' = t
            /\ threads' = [threads EXCEPT ![t].pc = "out", ![t].born = epoch,
                                          ![t].presented = Resolve(threads[t].own)]
    /\ UNCHANGED <<serverVars, memoryVars, signInVars, store, known, lost, unsaved>>

\* The server takes the exchange; a rotating one may retire the token it was shown.
Exchanged(t) ==
    LET shown == threads[t].presented IN
    /\ threads[t].pc = "out"
    /\ IsLive(shown)
    /\ \E rotates \in IF provider.rotates /\ shown.n < MaxRotations THEN BOOLEAN ELSE {FALSE} :
          LET next == IF rotates THEN [shown EXCEPT !.n = @ + 1] ELSE shown IN
          /\ live' = [live EXCEPT ![shown.grant] = next.n]
          /\ \/ /\ threads' = [threads EXCEPT ![t].rotated = next,
                                              ![t].pc = IF rotates THEN "persist" ELSE "settle"]
                /\ UNCHANGED <<gate, lost>>
             \/ \* the answer is lost on the way
                /\ threads' = [threads EXCEPT ![t] = Idle(@.own)]
                /\ gate' = NoThread
                /\ lost' = IF rotates THEN lost \cup {shown.grant} ELSE lost
    /\ UNCHANGED <<provider, memoryVars, signInVars, store, known, unsaved>>

\* The request does not reach the server, or the server refuses a retired token.
Refused(t) ==
    /\ threads[t].pc = "out"
    /\ threads' = [threads EXCEPT ![t] = Idle(@.own)]
    /\ gate' = NoThread
    /\ UNCHANGED <<serverVars, memoryVars, signInVars, store, known, lost, unsaved>>

\* Were the rotated token written whatever the store holds (EnvFile::update).
ReplacesAny(t) == TRUE

\* persist_refresh_to: the store still holds the chain this refresh knows.
Replaces(t) == store \in {threads[t].own, threads[t].presented}

\* EnvFile::update_if.  A write that fails is not told.
Persist(t) ==
    LET grant == threads[t].rotated.grant IN
    /\ threads[t].pc = "persist"
    /\ threads' = [threads EXCEPT ![t].pc = "note"]
    /\ \/ /\ Replaces(t)
          /\ store' = threads[t].rotated
          /\ unsaved' = unsaved \ {grant}
       \/ /\ Replaces(t)
          /\ unsaved' = unsaved \cup {grant}
          /\ UNCHANGED store
       \/ ~Replaces(t) /\ UNCHANGED <<store, unsaved>>
    /\ UNCHANGED <<serverVars, memoryVars, signInVars, gate, known, lost>>

\* Were the older aliases left pointing at the token just retired.
NoteNewOnly(own, presented, rotated) ==
    [alias \in DOMAIN rotations \cup {own, presented} |->
        IF alias \in {own, presented} THEN rotated ELSE rotations[alias]]

\* note_rotation
NoteRotation(own, presented, rotated) ==
    [alias \in DOMAIN rotations \cup {own, presented} |->
        IF alias \in {own, presented} \/ rotations[alias] = presented
        THEN rotated ELSE rotations[alias]]

Note(t) ==
    /\ threads[t].pc = "note"
    /\ rotations' = NoteRotation(threads[t].own, threads[t].presented, threads[t].rotated)
    /\ threads' = [threads EXCEPT ![t].pc = "settle"]
    /\ UNCHANGED <<serverVars, cache, forgotten, signInVars, gate, store, known, lost, unsaved>>

\* The tokens the refresh knows the grant by.
Chain(t) == {threads[t].own, threads[t].presented, threads[t].rotated}

\* The end of authorize_with, under the cache's lock: a bearer whose chain was forgotten
\* is not kept.  The request has it either way.
Settle(t) ==
    LET others == {entry \in cache : entry.of # threads[t].presented}
        minted == [of |-> threads[t].rotated, born |-> threads[t].born]
    IN
    /\ threads[t].pc = "settle"
    /\ cache' = IF Chain(t) \cap forgotten = {} THEN others \cup {minted} ELSE others
    /\ forgotten' = {}
    /\ gate' = NoThread
    /\ threads' = [threads EXCEPT ![t] = Idle(@.own)]
    /\ UNCHANGED <<serverVars, rotations, signInVars, store, known, lost, unsaved>>

\* A bearer's time is up (Cached.until).
Expire ==
    \E entry \in cache :
       /\ cache' = cache \ {entry}
       /\ UNCHANGED <<serverVars, threads, rotations, forgotten, signInVars, gate, store, known, lost,
                      unsaved>>

-----------------------------------------------------------------------------
(* The session loop *)

\* The names forget finds for a token in the alias map.
Aliases(token) ==
    {alias \in DOMAIN rotations : alias = token \/ rotations[alias] = Resolve(token)}

\* on_device_event, finish_device_login, and the first lock of forget.  A sign-in gives a
\* new token; one that never rotates may be given again.
SignedIn ==
    /\ loop.pc = "idle"
    /\ signIns < MaxSignIns
    /\ \E token \in {Fresh(signIns + 1)} \cup (IF provider.rotates THEN {} ELSE {store}) :
          /\ loop' = [pc |-> IF provider.remembers THEN "names" ELSE "clear", token |-> token,
                      aliases |-> {token, Resolve(token)} \cup Aliases(token)]
          /\ rotations' = [alias \in DOMAIN rotations \ Aliases(token) |-> rotations[alias]]
          /\ epoch' = IF provider.remembers THEN epoch ELSE epoch + 1
    /\ signIns' = signIns + 1
    /\ UNCHANGED <<serverVars, threads, gate, cache, forgotten, store, known, lost, unsaved>>

\* Were the names not put on record.
RecordNothing ==
    /\ loop.pc = "names"
    /\ loop' = [loop EXCEPT !.pc = "clear"]
    /\ epoch' = epoch + 1
    /\ UNCHANGED <<serverVars, threads, gate, memoryVars, store, known, signIns, lost, unsaved>>

\* forget: on record before the clear.
RecordNames ==
    /\ loop.pc = "names"
    /\ forgotten' = forgotten \cup loop.aliases
    /\ loop' = [loop EXCEPT !.pc = "clear"]
    /\ epoch' = epoch + 1
    /\ UNCHANGED <<serverVars, threads, gate, cache, rotations, store, known, signIns, lost,
                   unsaved>>

\* forget: the clear.
ClearCache ==
    /\ loop.pc = "clear"
    /\ cache' = {entry \in cache : entry.of \notin loop.aliases}
    /\ loop' = [loop EXCEPT !.pc = "save"]
    /\ UNCHANGED <<serverVars, threads, gate, rotations, forgotten, store, known, signIns, epoch, lost,
                   unsaved>>

\* ModelSession::save_api_key.  A failure is told on the page, and changes nothing.
SaveToken ==
    /\ loop.pc = "save"
    /\ loop' = [loop EXCEPT !.pc = "idle"]
    /\ \/ store' = loop.token /\ known' = loop.token
       \/ UNCHANGED <<store, known>>
    /\ UNCHANGED <<serverVars, threads, gate, memoryVars, signIns, epoch, lost, unsaved>>

\* Another provider's key is saved, and the loop reads the file again.
OtherSaved ==
    /\ loop.pc = "idle"
    /\ known # store
    /\ known' = store
    /\ UNCHANGED <<serverVars, threads, gate, memoryVars, signInVars, store, lost, unsaved>>

\* The program is killed, and started on what the store holds.
Restart ==
    LET dying == {threads[t].rotated.grant : t \in {t \in Threads : threads[t].pc = "persist"}}
    IN
    /\ lost' = lost \cup unsaved \cup dying
    /\ unsaved' = {}
    /\ threads' = [t \in Threads |-> Idle(store)]
    /\ gate' = NoThread
    /\ cache' = {} /\ rotations' = NoAliases /\ forgotten' = {}
    /\ known' = store
    /\ loop' = [pc |-> "idle", token |-> store, aliases |-> {}]
    /\ epoch' = signIns
    /\ UNCHANGED <<serverVars, store, signIns>>

Next ==
    \/ \E t \in Threads : \/ Request(t) \/ Enter(t) \/ Exchanged(t) \/ Refused(t)
                          \/ Persist(t) \/ Note(t) \/ Settle(t)
    \/ Expire
    \/ SignedIn \/ RecordNames \/ ClearCache \/ SaveToken
    \/ OtherSaved
    \/ Restart

Spec == Init /\ [][Next]_vars

-----------------------------------------------------------------------------
(* Properties *)

\* Types; whoever is past the gate holds it, and the alias map is one hop deep, as
\* note_rotation says it keeps it.
TypeOK ==
    /\ provider \in Providers
    /\ live \in [Grant -> 0 .. MaxRotations]
    /\ threads \in [Threads -> [pc : {"idle", "waiting", "out", "persist", "note", "settle"},
                                own : Token, presented : Token, rotated : Token,
                                born : 0 .. MaxSignIns]]
    /\ \A t \in Threads : gate = t <=> threads[t].pc \notin {"idle", "waiting"}
    /\ cache \subseteq [of : Token, born : 0 .. MaxSignIns]
    /\ \A alias \in DOMAIN rotations : /\ alias \in Token
                                       /\ rotations[alias] \in Token \ DOMAIN rotations
    /\ forgotten \subseteq Token
    /\ {store, known} \subseteq Token
    /\ loop \in [pc : {"idle", "names", "clear", "save"}, token : Token,
                 aliases : SUBSET Token]
    /\ {signIns, epoch} \subseteq 0 .. MaxSignIns
    /\ lost \subseteq Grant /\ unsaved \subseteq Grant

\* No refresh presents a token its provider has retired, whatever rotated it and whichever
\* config it comes from, in this session or a later one, unless the newest token reached
\* nobody or no file.
PresentedIsLive ==
    \A t \in Threads : threads[t].pc = "out" =>
        \/ IsLive(threads[t].presented)
        \/ threads[t].presented.grant \in lost

\* A refresh goes out only when no bearer of its grant is there to be used, under any of
\* its tokens.  It is what is kept that threads share: a refresh that finds its chain
\* forgotten keeps nothing, and the thread waiting behind it exchanges again.
ExchangeIsNeeded ==
    \A t \in Threads : threads[t].pc = "out" =>
        \A entry \in cache : entry.of.grant # threads[t].presented.grant

\* What the store holds is what the next launch can present: unless a refresh has its
\* write ahead of it, or a write or an answer was lost, the token is not retired.
StoreIsLive ==
    \/ IsLive(store)
    \/ store.grant \in lost \cup unsaved
    \/ \E t \in Threads : threads[t].pc = "persist" /\ threads[t].rotated.grant = store.grant

\* The chain of rotations is never lost hold of, in memory or on disk.
ChainIsHeld == PresentedIsLive /\ StoreIsLive

\* After a sign-in is done, no bearer whose refresh was sent before it answers for the
\* token it brought.
NothingOutlivesSignIn ==
    loop.pc = "idle" => \A entry \in cache : entry.of = loop.token => entry.born = epoch

\* A bearer that is cached is used by every thread of its grant, whichever token its config
\* holds, and none outlives a sign-in.
BearersAreCurrent == ExchangeIsNeeded /\ NothingOutlivesSignIn

\* A rotation of the credential a sign-in replaced never takes that sign-in's place in
\* the store.
NewestStands == [][store'.grant >= store.grant]_vars
=============================================================================
