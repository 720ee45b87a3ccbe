------------------------- MODULE TokenRefreshProofs -------------------------
(***************************************************************************)
(* The refresh token's chain, for any threads, providers and bounds.  The  *)
(* argument is about where a token leads: the alias map, with what the     *)
(* holder of the gate has yet to note, takes every token anybody holds to  *)
(* one and the same successor, which is the live one unless a fault lost   *)
(* it.  The cache and the store follow.                                    *)
(***************************************************************************)
EXTENDS TokenRefresh, TLAPS

\* Somebody is past the gate.
GateTaken == gate \in Threads

\* Between the rotation at the server and its place in the alias map.
Rotating == GateTaken /\ threads[gate].pc \in {"persist", "note"}

\* The tokens the program can begin a refresh with.
Held == {store, known} \cup {threads[t].own : t \in Threads}

\* What a token leads to once the holder of the gate has noted its rotation.
Awaited(x) ==
    IF Rotating /\ Resolve(x) = threads[gate].presented THEN threads[gate].rotated
    ELSE Resolve(x)

\* A grant whose token nobody has seen but the sign-in that brings it.
Unused(g) ==
    /\ live[g] = 0
    /\ \A x \in Held : x.grant # g
    /\ \A entry \in cache : entry.of.grant # g
    /\ \A alias \in DOMAIN rotations : alias.grant # g

\* Grants are those of sign-ins that landed.
GrantsLanded ==
    /\ \A g \in Grant : g > signIns => Unused(g)
    /\ loop.token.grant <= signIns
    /\ epoch = IF loop.pc = "names" THEN signIns - 1 ELSE signIns
    /\ loop.pc = "names" => provider.remembers

\* A token that never rotates has no history.
StaysPut ==
    ~provider.rotates =>
        /\ \A g \in Grant : live[g] = 0
        /\ DOMAIN rotations = {}
        /\ ~Rotating

\* No token is ahead of the server, and a retired one is behind it.
BehindServer ==
    /\ \A x \in Held \cup {loop.token} : x.n <= live[x.grant]
    /\ \A alias \in DOMAIN rotations :
          /\ alias.n < live[alias.grant]
          /\ rotations[alias].grant = alias.grant

\* What the thread past the gate knows of its token.
HolderKnows ==
    LET h == threads[gate] IN
    GateTaken =>
        /\ h.presented.grant = h.own.grant
        /\ h.pc # "out" => h.rotated.grant = h.own.grant
        /\ Resolve(h.own) = IF h.pc = "settle" THEN h.rotated ELSE h.presented
        /\ Rotating => /\ h.rotated.n = live[h.own.grant]
                       /\ h.rotated.n = h.presented.n + 1

\* All tokens of a grant lead to one, the live one unless it was lost.
OneSuccessor ==
    /\ \A x, y \in Held : x.grant = y.grant => Awaited(x) = Awaited(y)
    /\ \A x \in Held : IsLive(Awaited(x)) \/ x.grant \in lost

\* The store is behind the server only between the rotation and the write.
StoreFollows ==
    \/ IsLive(store)
    \/ store.grant \in lost \cup unsaved
    \/ GateTaken /\ threads[gate].pc = "persist" /\ store = threads[gate].presented

\* Bearers are kept under the token everybody's leads to, and none of the grant that is
\* being refreshed.
CacheFollows ==
    /\ \A entry \in cache : \A x \in Held :
          x.grant = entry.of.grant => Resolve(x) = entry.of
    /\ GateTaken => \A entry \in cache : entry.of.grant # threads[gate].own.grant

\* The token a sign-in has yet to save is new, or the one the store has.
SignInStands ==
    loop.pc # "idle" =>
        \/ ~provider.rotates /\ loop.token = store
        \/ loop.token = Fresh(signIns) /\ Unused(signIns)

\* A refresh older than the sign-in is on the list of those to drop, and once the cache
\* is cleared no bearer is older.
ForgottenStays ==
    /\ ( /\ loop.pc # "names" /\ GateTaken
         /\ threads[gate].born # epoch /\ loop.token.grant = threads[gate].own.grant )
       => loop.token \in forgotten
    /\ loop.pc \in {"names", "clear"} => loop.token \in loop.aliases
    /\ loop.pc \in {"idle", "save"} =>
          \A entry \in cache : entry.of = loop.token => entry.born = epoch

ChainInv ==
    /\ TypeOK
    /\ gate \in Threads \cup {NoThread}
    /\ GrantsLanded
    /\ StaysPut
    /\ BehindServer
    /\ HolderKnows
    /\ OneSuccessor
    /\ StoreFollows
    /\ CacheFollows
    /\ SignInStands
    /\ ForgottenStays

-----------------------------------------------------------------------------
(* Types.                                                                  *)

Stages == {"idle", "waiting", "out", "persist", "note", "settle"}
ThreadStates == [pc : Stages, own : Token, presented : Token, rotated : Token,
                 born : 0 .. MaxSignIns]

LEMMA FreshType == \A g \in Grant : Fresh(g) \in Token
BY RefreshBoundsAssumption DEF Fresh, Token, Grant

LEMMA ResolveType ==
    ASSUME TypeOK, NEW x \in Token
    PROVE  Resolve(x) \in Token /\ Resolve(x) \notin DOMAIN rotations
BY DEF TypeOK, Resolve

LEMMA IdleType == \A x \in Token : Idle(x) \in ThreadStates
BY RefreshBoundsAssumption DEF Idle, ThreadStates, Stages

LEMMA InitType == Init => TypeOK
<1> SUFFICES ASSUME Init PROVE TypeOK
    OBVIOUS
<1>1. Fresh(0) \in Token
    BY FreshType, RefreshBoundsAssumption DEF Grant
<1>2. threads \in [Threads -> ThreadStates]
    BY <1>1, IdleType DEF Init
<1>3. \A t \in Threads : gate = t <=> threads[t].pc \notin {"idle", "waiting"}
    BY NoThreadAssumption DEF Init, Idle
<1>4. QED
    BY <1>1, <1>2, <1>3, RefreshBoundsAssumption, ProvidersAssumption
    DEF Init, TypeOK, ThreadStates, Stages, NoAliases, Grant

LEMMA RequestType == ASSUME TypeOK, NEW t \in Threads, Request(t) PROVE TypeOK'
<1>1. PICK own \in {threads[t].own, known} :
          threads' = [threads EXCEPT ![t] =
              [Idle(own) EXCEPT !.pc = IF Cached(own) THEN "idle" ELSE "waiting"]]
    BY DEF Request
<1>2. own \in Token
    BY DEF TypeOK
<1>3. [Idle(own) EXCEPT !.pc = IF Cached(own) THEN "idle" ELSE "waiting"] \in ThreadStates
    BY <1>2, IdleType DEF ThreadStates, Stages
<1>4. threads' \in [Threads -> ThreadStates]
    BY <1>1, <1>3 DEF TypeOK, ThreadStates, Stages
<1>5. \A u \in Threads : gate' = u <=> threads'[u].pc \notin {"idle", "waiting"}
    BY <1>1, <1>2 DEF TypeOK, Request, Idle
<1>6. QED
    BY <1>4, <1>5 DEF TypeOK, Request, ThreadStates, Stages, serverVars, memoryVars, signInVars
LEMMA EnterType == ASSUME TypeOK, NEW t \in Threads, Enter(t) PROVE TypeOK'
<1> DEFINE taken == [threads[t] EXCEPT !.pc = "out", !.born = epoch,
                                       !.presented = Resolve(threads[t].own)]
<1>1. threads[t] \in ThreadStates /\ epoch \in 0 .. MaxSignIns
    BY DEF TypeOK, ThreadStates, Stages
<1>2. Resolve(threads[t].own) \in Token
    BY <1>1, ResolveType DEF ThreadStates
<1>3. taken \in ThreadStates /\ taken.pc = "out"
    BY <1>1, <1>2 DEF ThreadStates, Stages
<1>4. Idle(threads[t].own) \in ThreadStates /\ Idle(threads[t].own).pc = "idle"
    BY <1>1, IdleType DEF ThreadStates, Idle
<1>5. \/ threads' = [threads EXCEPT ![t] = Idle(threads[t].own)] /\ UNCHANGED gate
      \/ threads' = [threads EXCEPT ![t] = taken] /\ gate' = t
    BY <1>1 DEF Enter, TypeOK, ThreadStates
<1> HIDE DEF taken
<1>6. threads' \in [Threads -> ThreadStates]
    BY <1>3, <1>4, <1>5 DEF TypeOK, ThreadStates, Stages
<1>7. \A u \in Threads : gate' = u <=> threads'[u].pc \notin {"idle", "waiting"}
  <2>1. gate = NoThread /\ threads[t].pc = "waiting"
    BY DEF Enter
  <2>2. QED
    BY <2>1, <1>3, <1>4, <1>5, NoThreadAssumption DEF TypeOK
<1>8. QED
    BY <1>6, <1>7 DEF TypeOK, Enter, ThreadStates, Stages, serverVars, memoryVars, signInVars

\* A thread that ends its refresh leaves the gate.
LEMMA LeaveType ==
    ASSUME TypeOK, NEW t \in Threads, threads[t].pc \notin {"idle", "waiting"},
           threads' = [threads EXCEPT ![t] = Idle(@.own)], gate' = NoThread
    PROVE  /\ threads' \in [Threads -> ThreadStates]
           /\ \A u \in Threads : gate' = u <=> threads'[u].pc \notin {"idle", "waiting"}
<1>1. threads[t].own \in Token
    BY DEF TypeOK
<1>2. Idle(threads[t].own) \in ThreadStates /\ Idle(threads[t].own).pc = "idle"
    BY <1>1, IdleType DEF Idle
<1>3. threads' = [threads EXCEPT ![t] = Idle(threads[t].own)]
    OBVIOUS
<1>4. threads' \in [Threads -> ThreadStates]
    BY <1>2, <1>3 DEF TypeOK, ThreadStates, Stages
<1>5. ASSUME NEW u \in Threads PROVE gate' # u /\ threads'[u].pc \in {"idle", "waiting"}
    BY <1>2, <1>3, NoThreadAssumption DEF TypeOK
<1>6. QED
    BY <1>4, <1>5

LEMMA ExchangedType == ASSUME TypeOK, NEW t \in Threads, Exchanged(t) PROVE TypeOK'
<1> DEFINE shown == threads[t].presented
<1>1. threads[t] \in ThreadStates /\ shown \in Token /\ shown.n \in 0 .. MaxRotations
    BY DEF TypeOK, ThreadStates, Stages, Token
<1>2. PICK rotates \in IF provider.rotates /\ shown.n < MaxRotations THEN BOOLEAN ELSE {FALSE} :
        LET next == IF rotates THEN [shown EXCEPT !.n = @ + 1] ELSE shown IN
        /\ live' = [live EXCEPT ![shown.grant] = next.n]
        /\ \/ /\ threads' = [threads EXCEPT ![t].rotated = next,
                                            ![t].pc = IF rotates THEN "persist" ELSE "settle"]
              /\ UNCHANGED <<gate, lost>>
           \/ /\ threads' = [threads EXCEPT ![t] = Idle(@.own)]
              /\ gate' = NoThread
              /\ lost' = IF rotates THEN lost \cup {shown.grant} ELSE lost
    BY DEF Exchanged
<1> DEFINE next == IF rotates THEN [shown EXCEPT !.n = @ + 1] ELSE shown
           after == [threads[t] EXCEPT !.rotated = next,
                                       !.pc = IF rotates THEN "persist" ELSE "settle"]
<1>3. next \in Token
  <2> HIDE DEF shown
  <2>1. rotates \in BOOLEAN /\ (rotates => shown.n < MaxRotations)
    OBVIOUS
  <2>2. shown.n < MaxRotations => shown.n + 1 \in 0 .. MaxRotations
    BY <1>1, RefreshBoundsAssumption
  <2>3. shown.n < MaxRotations => [shown EXCEPT !.n = @ + 1] \in Token
    BY <1>1, <2>2 DEF Token
  <2>4. QED
    BY <1>1, <2>1, <2>3
<1> HIDE DEF next
<1>4. after \in ThreadStates /\ after.pc \in {"persist", "settle"}
    BY <1>1, <1>3 DEF ThreadStates, Stages
<1>5. live' \in [Grant -> 0 .. MaxRotations]
    BY <1>1, <1>2, <1>3 DEF TypeOK, Token, next
<1>6. lost' \subseteq Grant
    BY <1>1, <1>2 DEF TypeOK, Token
<1>7. /\ threads' \in [Threads -> ThreadStates]
      /\ \A u \in Threads : gate' = u <=> threads'[u].pc \notin {"idle", "waiting"}
  <2>1. CASE threads' = [threads EXCEPT ![t] = Idle(@.own)] /\ gate' = NoThread
    <3>1. threads[t].pc \notin {"idle", "waiting"}
        BY DEF Exchanged
    <3>2. QED
        BY <2>1, <3>1, LeaveType
  <2>2. CASE threads' = [threads EXCEPT ![t] = after] /\ UNCHANGED gate
    <3> HIDE DEF after
    <3>1. threads[t].pc = "out"
        BY DEF Exchanged
    <3>2. QED
        BY <2>2, <3>1, <1>4 DEF TypeOK, ThreadStates, Stages
  <2>3. QED
    BY <1>1, <1>2, <2>1, <2>2 DEF TypeOK, ThreadStates, next
<1>8. QED
    BY <1>5, <1>6, <1>7
    DEF TypeOK, Exchanged, ThreadStates, Stages, memoryVars, signInVars

LEMMA RefusedType == ASSUME TypeOK, NEW t \in Threads, Refused(t) PROVE TypeOK'
<1>1. /\ threads' \in [Threads -> ThreadStates]
      /\ \A u \in Threads : gate' = u <=> threads'[u].pc \notin {"idle", "waiting"}
    BY LeaveType DEF Refused
<1>2. QED
    BY <1>1 DEF TypeOK, Refused, ThreadStates, Stages, serverVars, memoryVars, signInVars
\* A thread past the gate stays past it.
LEMMA StageType ==
    ASSUME TypeOK, NEW t \in Threads, threads[t].pc \notin {"idle", "waiting"},
           NEW pc \in Stages \ {"idle", "waiting"},
           threads' = [threads EXCEPT ![t].pc = pc], UNCHANGED gate
    PROVE  /\ threads' \in [Threads -> ThreadStates]
           /\ \A u \in Threads : gate' = u <=> threads'[u].pc \notin {"idle", "waiting"}
<1>1. threads[t] \in ThreadStates
    BY DEF TypeOK, ThreadStates, Stages
<1>2. [threads[t] EXCEPT !.pc = pc] \in ThreadStates
    BY <1>1 DEF ThreadStates
<1>3. QED
    BY <1>1, <1>2 DEF TypeOK, ThreadStates, Stages

LEMMA PersistType == ASSUME TypeOK, NEW t \in Threads, Persist(t) PROVE TypeOK'
<1>1. /\ threads' \in [Threads -> ThreadStates]
      /\ \A u \in Threads : gate' = u <=> threads'[u].pc \notin {"idle", "waiting"}
  <2>1. threads' = [threads EXCEPT ![t].pc = "note"] /\ UNCHANGED gate
      BY DEF Persist
  <2>2. threads[t].pc \notin {"idle", "waiting"} /\ "note" \in Stages \ {"idle", "waiting"}
      BY DEF Persist, Stages
  <2>3. QED
      BY <2>1, <2>2, StageType
<1>2. threads[t].rotated \in Token /\ threads[t].rotated.grant \in Grant
    BY DEF TypeOK, Token
<1>3. store' \in Token /\ unsaved' \subseteq Grant
    BY <1>2 DEF TypeOK, Persist
<1>4. QED
    BY <1>1, <1>3
    DEF TypeOK, Persist, ThreadStates, Stages, serverVars, memoryVars, signInVars

LEMMA SettleType == ASSUME TypeOK, NEW t \in Threads, Settle(t) PROVE TypeOK'
<1>1. /\ threads' \in [Threads -> ThreadStates]
      /\ \A u \in Threads : gate' = u <=> threads'[u].pc \notin {"idle", "waiting"}
    BY LeaveType DEF Settle
<1>2. [of |-> threads[t].rotated, born |-> threads[t].born] \in [of : Token, born : 0 .. MaxSignIns]
    BY DEF TypeOK
<1>3. cache' \subseteq [of : Token, born : 0 .. MaxSignIns] /\ forgotten' \subseteq Token
    BY <1>2 DEF TypeOK, Settle
<1>4. QED
    BY <1>1, <1>3 DEF TypeOK, Settle, ThreadStates, Stages, serverVars, signInVars

LEMMA SignedInType == ASSUME TypeOK, GrantsLanded, SignedIn PROVE TypeOK'
<1>1. PICK token \in {Fresh(signIns + 1)} \cup (IF provider.rotates THEN {} ELSE {store}) :
          /\ loop' = [pc |-> IF provider.remembers THEN "names" ELSE "clear", token |-> token,
                      aliases |-> {token, Resolve(token)} \cup Aliases(token)]
          /\ rotations' = [alias \in DOMAIN rotations \ Aliases(token) |-> rotations[alias]]
          /\ epoch' = IF provider.remembers THEN epoch ELSE epoch + 1
    BY DEF SignedIn
<1>2. signIns + 1 \in Grant /\ signIns' \in 0 .. MaxSignIns
    BY RefreshBoundsAssumption DEF SignedIn, TypeOK, Grant
<1>3. token \in Token
    BY <1>1, <1>2, FreshType DEF TypeOK
<1>4. Resolve(token) \in Token /\ Aliases(token) \subseteq DOMAIN rotations
    BY <1>3, ResolveType DEF Aliases
<1>5. loop' \in [pc : {"idle", "names", "clear", "save"}, token : Token, aliases : SUBSET Token]
    BY <1>1, <1>3, <1>4 DEF TypeOK
<1>6. \A alias \in DOMAIN rotations' : /\ alias \in Token
                                       /\ rotations'[alias] \in Token \ DOMAIN rotations'
    BY <1>1 DEF TypeOK
<1>7. epoch' \in 0 .. MaxSignIns
  <2>1. epoch = signIns
    BY DEF GrantsLanded, SignedIn
  <2>2. QED
    BY <1>1, <2>1, RefreshBoundsAssumption DEF TypeOK, SignedIn
<1>8. QED
    BY <1>2, <1>5, <1>6, <1>7 DEF TypeOK, SignedIn, serverVars

LEMMA RecordNamesType == ASSUME TypeOK, GrantsLanded, RecordNames PROVE TypeOK'
<1>1. epoch + 1 = signIns
    BY DEF GrantsLanded, RecordNames, TypeOK
<1>2. QED
    BY <1>1 DEF TypeOK, RecordNames, serverVars

LEMMA ClearCacheType == ASSUME TypeOK, ClearCache PROVE TypeOK'
BY DEF TypeOK, ClearCache, serverVars

LEMMA SaveTokenType == ASSUME TypeOK, SaveToken PROVE TypeOK'
BY DEF TypeOK, SaveToken, serverVars, memoryVars

LEMMA OtherSavedType == ASSUME TypeOK, OtherSaved PROVE TypeOK'
BY DEF TypeOK, OtherSaved, serverVars, memoryVars, signInVars

LEMMA ExpireType == ASSUME TypeOK, Expire PROVE TypeOK'
BY DEF TypeOK, Expire, serverVars, signInVars

LEMMA RestartType == ASSUME TypeOK, Restart PROVE TypeOK'
<1>1. threads' = [t \in Threads |-> Idle(store)] /\ store \in Token
    BY DEF TypeOK, Restart
<1>2. Idle(store) \in ThreadStates /\ Idle(store).pc = "idle"
    BY <1>1, IdleType DEF Idle
<1>3. threads' \in [Threads -> ThreadStates]
    BY <1>1, <1>2
<1>4. \A t \in Threads : gate' = t <=> threads'[t].pc \notin {"idle", "waiting"}
    BY <1>1, <1>2, NoThreadAssumption DEF Restart
<1>5. \A t \in Threads : threads[t].rotated.grant \in Grant
    BY DEF TypeOK, Token
<1>6. lost' \subseteq Grant
    BY <1>5 DEF TypeOK, Restart
<1>7. QED
    BY <1>1, <1>3, <1>4, <1>6 DEF TypeOK, Restart, serverVars, NoAliases, ThreadStates, Stages

\* What note_rotation makes of the map: every token leads where it was awaited to.
LEMMA NoteLeads ==
    ASSUME ChainInv, NEW t \in Threads, Note(t)
    PROVE  /\ \A alias \in DOMAIN rotations' : /\ alias \in Token
                                               /\ rotations'[alias] \in Token \ DOMAIN rotations'
           /\ DOMAIN rotations' = DOMAIN rotations \cup {threads[t].own, threads[t].presented}
           /\ \A x \in Token : Resolve(x)' = Awaited(x)
<1> DEFINE own == threads[t].own
           presented == threads[t].presented
           rotated == threads[t].rotated
           names == DOMAIN rotations \cup {own, presented}
<1>1. t = gate /\ GateTaken /\ Rotating /\ threads[t].pc = "note"
    BY DEF ChainInv, TypeOK, Note, GateTaken, Rotating
<1>2. own \in Token /\ presented \in Token /\ rotated \in Token
    BY DEF ChainInv, TypeOK
<1>3. /\ Resolve(own) = presented
      /\ rotated.grant = own.grant /\ presented.grant = own.grant
      /\ rotated.n = live[own.grant] /\ rotated.n = presented.n + 1
    BY <1>1 DEF ChainInv, HolderKnows
<1>4. presented \notin DOMAIN rotations
    BY <1>2, <1>3, ResolveType DEF ChainInv
<1>5. own \in DOMAIN rotations \/ own = presented
    BY <1>3 DEF Resolve
<1>6. rotated \notin names
  <2>1. rotated \notin DOMAIN rotations
    <3>1. live[rotated.grant] \in Nat
        BY <1>2 DEF ChainInv, TypeOK, Token
    <3>2. rotated.n = live[rotated.grant]
        BY <1>3
    <3>3. \A alias \in DOMAIN rotations : alias.n < live[alias.grant]
        BY DEF ChainInv, BehindServer
    <3> HIDE DEF rotated
    <3>4. QED
        BY <3>1, <3>2, <3>3
  <2>2. rotated # presented
    BY <1>2, <1>3 DEF Token
  <2>3. QED
    BY <2>1, <2>2, <1>5
<1>7. rotations' = [alias \in names |-> IF alias \in {own, presented} \/ rotations[alias] = presented
                                       THEN rotated ELSE rotations[alias]]
    BY DEF Note, NoteRotation
<1>8. \A alias \in DOMAIN rotations : rotations[alias] \in Token \ DOMAIN rotations /\ alias \in Token
    BY DEF ChainInv, TypeOK
<1>9. \A alias \in names : rotations'[alias] \in Token \ names
  <2> SUFFICES ASSUME NEW alias \in names PROVE rotations'[alias] \in Token \ names
    OBVIOUS
  <2>1. CASE alias \in {own, presented} \/ rotations[alias] = presented
    BY <2>1, <1>2, <1>6, <1>7
  <2>2. CASE alias \notin {own, presented} /\ rotations[alias] # presented
    BY <2>2, <1>4, <1>5, <1>7, <1>8
  <2>3. QED
    BY <2>1, <2>2
<1>10. ASSUME NEW x \in Token PROVE Resolve(x)' = Awaited(x)
  <2>1. Resolve(x)' = IF x \in names THEN rotations'[x] ELSE x
    BY <1>7 DEF Resolve
  <2>2. Awaited(x) = IF Resolve(x) = presented THEN rotated ELSE Resolve(x)
    BY <1>1 DEF Awaited
  <2>3. CASE x \in {own, presented}
    BY <2>1, <2>2, <2>3, <1>3, <1>4, <1>7 DEF Resolve
  <2>4. CASE x \notin {own, presented} /\ x \in DOMAIN rotations
    BY <2>1, <2>2, <2>4, <1>7 DEF Resolve
  <2>5. CASE x \notin names
    BY <2>1, <2>2, <2>5, <1>7 DEF Resolve
  <2>6. QED
    BY <2>3, <2>4, <2>5
<1>11. DOMAIN rotations' = names
    BY <1>7
<1>12. \A alias \in names : alias \in Token
    BY <1>2, <1>8
<1>13. \A alias \in DOMAIN rotations' : /\ alias \in Token
                                        /\ rotations'[alias] \in Token \ DOMAIN rotations'
  <2> HIDE DEF names
  <2>1. QED
    BY <1>9, <1>11, <1>12
<1>14. QED
    BY <1>10, <1>11, <1>13

LEMMA NoteType == ASSUME ChainInv, NEW t \in Threads, Note(t) PROVE TypeOK'
<1>1. TypeOK
    BY DEF ChainInv
<1>2. /\ threads' \in [Threads -> ThreadStates]
      /\ \A u \in Threads : gate' = u <=> threads'[u].pc \notin {"idle", "waiting"}
  <2>1. threads' = [threads EXCEPT ![t].pc = "settle"] /\ UNCHANGED gate
      BY DEF Note
  <2>2. threads[t].pc \notin {"idle", "waiting"} /\ "settle" \in Stages \ {"idle", "waiting"}
      BY DEF Note, Stages
  <2>3. QED
      BY <1>1, <2>1, <2>2, StageType
<1>3. \A alias \in DOMAIN rotations' : /\ alias \in Token
                                       /\ rotations'[alias] \in Token \ DOMAIN rotations'
    BY NoteLeads
<1>4. QED
    BY <1>1, <1>2, <1>3 DEF TypeOK, Note, ThreadStates, Stages, serverVars, signInVars

-----------------------------------------------------------------------------
(* Every step keeps the chain.                                             *)

LEMMA HeldType == ASSUME TypeOK PROVE Held \subseteq Token
BY DEF TypeOK, Held

\* A thread past the gate is the one that holds it.
LEMMA HolderFacts ==
    ASSUME TypeOK, NEW t \in Threads, threads[t].pc \notin {"idle", "waiting"}
    PROVE  /\ gate = t /\ GateTaken
           /\ threads[t] \in ThreadStates
           /\ threads[t].own \in Held
           /\ \A u \in Threads \ {t} : threads[u].pc \in {"idle", "waiting"}
BY DEF TypeOK, GateTaken, ThreadStates, Stages, Held

LEMMA InitChain == Init => ChainInv
<1> SUFFICES ASSUME Init PROVE ChainInv
    OBVIOUS
<1>1. TypeOK
    BY InitType
<1>2. ~GateTaken /\ gate = NoThread
    BY NoThreadAssumption DEF Init, GateTaken
<1>3. Held = {Fresh(0)} /\ Fresh(0).grant = 0 /\ Fresh(0).n = 0 /\ Fresh(0) \in Token
    BY FreshType, RefreshBoundsAssumption DEF Init, Held, Idle, Fresh, Grant
<1>4. \A g \in Grant : live[g] = 0
    BY DEF Init
<1>5. DOMAIN rotations = {} /\ cache = {}
    BY DEF Init, NoAliases
<1>6. GrantsLanded
    BY <1>3, <1>4, <1>5 DEF GrantsLanded, Unused, Init, Grant
<1>7. StaysPut /\ HolderKnows
    BY <1>2, <1>4, <1>5 DEF StaysPut, HolderKnows, Rotating
<1>8. BehindServer
    BY <1>3, <1>4, <1>5, RefreshBoundsAssumption DEF BehindServer, Init, Grant
<1>9. \A x : Awaited(x) = x
    BY <1>2, <1>5 DEF Awaited, Rotating, Resolve
<1>10. IsLive(Fresh(0)) /\ store = Fresh(0)
    BY <1>3, <1>4, RefreshBoundsAssumption DEF IsLive, Init, Grant
<1>11. OneSuccessor /\ StoreFollows
    BY <1>3, <1>9, <1>10 DEF OneSuccessor, StoreFollows
<1>12. CacheFollows /\ SignInStands /\ ForgottenStays
    BY <1>2, <1>5 DEF CacheFollows, SignInStands, ForgottenStays, Init
<1>13. QED
    BY <1>1, <1>2, <1>6, <1>7, <1>8, <1>11, <1>12 DEF ChainInv

\* A step that leaves the server, the map, the sign-in and the holder of the gate as they
\* are, and at most drops what was held or cached.
LEMMA QuietStep ==
    ASSUME ChainInv, TypeOK', UNCHANGED gate,
           GateTaken => UNCHANGED threads[gate],
           Held' \subseteq Held, cache' \subseteq cache,
           UNCHANGED <<serverVars, rotations, forgotten, signInVars, store, lost, unsaved>>
    PROVE  ChainInv'
<1>1. UNCHANGED GateTaken /\ UNCHANGED Rotating
    BY DEF GateTaken, Rotating
<1>2. \A x : UNCHANGED Resolve(x)
    BY DEF Resolve
<1>3. \A x : UNCHANGED Awaited(x)
    BY <1>1, <1>2 DEF Awaited, Rotating
<1>4. \A x : UNCHANGED IsLive(x)
    BY DEF IsLive, serverVars
<1>5. \A g : Unused(g) => Unused(g)'
    BY DEF Unused, serverVars
<1>6. GrantsLanded' /\ SignInStands'
    BY <1>5 DEF ChainInv, GrantsLanded, SignInStands, serverVars, signInVars
<1>7. StaysPut' /\ BehindServer' /\ HolderKnows'
    BY <1>1, <1>2 DEF ChainInv, StaysPut, BehindServer, HolderKnows, serverVars, signInVars
<1>8. OneSuccessor' /\ StoreFollows'
    BY <1>1, <1>3, <1>4 DEF ChainInv, OneSuccessor, StoreFollows
<1>9. CacheFollows'
    BY <1>1, <1>2 DEF ChainInv, CacheFollows
<1>10. ForgottenStays'
    BY <1>1 DEF ChainInv, ForgottenStays, GateTaken, signInVars
<1>11. QED
    BY <1>6, <1>7, <1>8, <1>9, <1>10 DEF ChainInv, GateTaken
LEMMA RequestChain == ASSUME ChainInv, NEW t \in Threads, Request(t) PROVE ChainInv'
<1>1. TypeOK /\ TypeOK'
    BY RequestType DEF ChainInv
<1>2. PICK own \in {threads[t].own, known} :
          threads' = [threads EXCEPT ![t] =
              [Idle(own) EXCEPT !.pc = IF Cached(own) THEN "idle" ELSE "waiting"]]
    BY DEF Request
<1>3. \A u \in Threads : threads'[u].own = IF u = t THEN own ELSE threads[u].own
    BY <1>1, <1>2 DEF TypeOK, Idle
<1>4. own \in Held
    BY DEF Held
<1>5. Held' \subseteq Held
    BY <1>3, <1>4 DEF Held, Request
<1>6. gate # t
    BY <1>1 DEF TypeOK, Request
<1>7. GateTaken => UNCHANGED threads[gate]
    BY <1>1, <1>2, <1>6 DEF GateTaken, TypeOK, Request
<1>8. QED
    BY <1>1, <1>5, <1>7, QuietStep DEF Request, memoryVars

LEMMA ExpireChain == ASSUME ChainInv, Expire PROVE ChainInv'
<1>1. TypeOK'
    BY ExpireType DEF ChainInv
<1>2. Held' = Held
    BY DEF Held, Expire
<1>3. QED
    BY <1>1, <1>2, QuietStep DEF Expire

LEMMA OtherSavedChain == ASSUME ChainInv, OtherSaved PROVE ChainInv'
<1>1. TypeOK'
    BY OtherSavedType DEF ChainInv
<1>2. Held' \subseteq Held
    BY DEF Held, OtherSaved
<1>3. QED
    BY <1>1, <1>2, QuietStep DEF OtherSaved, memoryVars

LEMMA StutterChain == ASSUME ChainInv, UNCHANGED vars PROVE ChainInv'
<1>1. TypeOK'
    BY DEF ChainInv, TypeOK, vars
<1>2. Held' = Held
    BY DEF Held, vars
<1>3. QED
    BY <1>1, <1>2, QuietStep DEF vars, serverVars, signInVars

\* The holder gives up its refresh, with nothing of it to note.
LEMMA GiveUpStep ==
    ASSUME ChainInv, TypeOK', NEW t \in Threads, threads[t].pc = "out",
           threads' = [threads EXCEPT ![t] = Idle(@.own)], gate' = NoThread,
           UNCHANGED <<serverVars, memoryVars, signInVars, store, known, lost, unsaved>>
    PROVE  ChainInv'
<1>1. TypeOK /\ gate = t
    BY HolderFacts DEF ChainInv
<1>2. ~GateTaken' /\ ~Rotating /\ ~Rotating'
    BY <1>1, NoThreadAssumption DEF GateTaken, Rotating
<1>3. \A u \in Threads : threads'[u].own = threads[u].own
    BY <1>1 DEF TypeOK, Idle
<1>4. Held' = Held
    BY <1>3 DEF Held
<1>5. \A x : UNCHANGED Resolve(x)
    BY DEF Resolve, memoryVars
<1>6. \A x : UNCHANGED Awaited(x)
    BY <1>2, <1>5 DEF Awaited
<1>7. \A x : UNCHANGED IsLive(x)
    BY DEF IsLive, serverVars
<1>8. \A g : UNCHANGED Unused(g)
    BY <1>4 DEF Unused, serverVars, memoryVars
<1>9. GrantsLanded' /\ SignInStands'
    BY <1>8 DEF ChainInv, GrantsLanded, SignInStands, serverVars, signInVars
<1>10. StaysPut' /\ BehindServer' /\ HolderKnows'
    BY <1>2, <1>4 DEF ChainInv, StaysPut, BehindServer, HolderKnows, serverVars, memoryVars, signInVars
<1>11. OneSuccessor'
    BY <1>4, <1>6, <1>7 DEF ChainInv, OneSuccessor
<1>12. StoreFollows'
    BY <1>1, <1>7 DEF ChainInv, StoreFollows
<1>13. CacheFollows'
    BY <1>2, <1>4, <1>5 DEF ChainInv, CacheFollows, memoryVars
<1>14. ForgottenStays'
    BY <1>2 DEF ChainInv, ForgottenStays, memoryVars, signInVars
<1>15. QED
    BY <1>9, <1>10, <1>11, <1>12, <1>13, <1>14 DEF ChainInv

LEMMA RefusedChain == ASSUME ChainInv, NEW t \in Threads, Refused(t) PROVE ChainInv'
BY RefusedType, GiveUpStep DEF Refused, ChainInv

LEMMA EnterChain == ASSUME ChainInv, NEW t \in Threads, Enter(t) PROVE ChainInv'
<1> DEFINE own == threads[t].own
           taken == [threads[t] EXCEPT !.pc = "out", !.born = epoch, !.presented = Resolve(own)]
<1>1. TypeOK /\ TypeOK' /\ gate = NoThread /\ ~GateTaken
    BY EnterType, NoThreadAssumption DEF ChainInv, Enter, GateTaken
<1>2. threads[t] \in ThreadStates /\ own \in Held /\ own \in Token
    BY <1>1 DEF TypeOK, ThreadStates, Stages, Held
<1>3. CASE Cached(own)
  <2>1. threads' = [threads EXCEPT ![t] = Idle(own)]
    BY <1>1, <1>3 DEF Enter, TypeOK
  <2>2. \A u \in Threads : threads'[u].own = threads[u].own
    BY <1>1, <2>1 DEF TypeOK, Idle
  <2>3. Held' = Held
    BY <2>2 DEF Held, Enter
  <2>4. QED
    BY <1>1, <1>3, <2>3, QuietStep DEF Enter, memoryVars
<1>4. CASE ~Cached(own)
  <2>1. gate' = t /\ threads' = [threads EXCEPT ![t] = taken]
    BY <1>1, <1>4 DEF Enter, TypeOK
  <2>2. /\ threads'[t] = taken /\ taken.pc = "out" /\ taken.own = own /\ taken.born = epoch
        /\ taken.presented = Resolve(own) /\ taken.rotated = threads[t].rotated
        /\ \A u \in Threads \ {t} : threads'[u] = threads[u]
    BY <1>1, <1>2, <2>1 DEF TypeOK, ThreadStates
  <2> HIDE DEF taken
  <2>3. GateTaken' /\ ~Rotating /\ ~Rotating'
    BY <1>1, <2>1, <2>2 DEF GateTaken, Rotating
  <2>4. Held' = Held
    <3>1. \A u \in Threads : threads'[u].own = threads[u].own
        BY <2>2
    <3>2. QED
        BY <3>1 DEF Held, Enter
  <2>5. \A x : UNCHANGED Resolve(x)
    BY DEF Resolve, Enter, memoryVars
  <2>6. \A x : UNCHANGED Awaited(x)
    BY <2>3, <2>5 DEF Awaited
  <2>7. \A x : UNCHANGED IsLive(x)
    BY DEF IsLive, Enter, serverVars
  <2>8. \A g : UNCHANGED Unused(g)
    BY <2>4 DEF Unused, Enter, serverVars, memoryVars
  <2>9. GrantsLanded' /\ SignInStands'
    BY <2>8 DEF ChainInv, GrantsLanded, SignInStands, Enter, serverVars, signInVars
  <2>10. StaysPut' /\ BehindServer'
    BY <2>3, <2>4 DEF ChainInv, StaysPut, BehindServer, Enter, serverVars, memoryVars, signInVars
  <2>11. Resolve(own).grant = own.grant
    BY DEF ChainInv, BehindServer, Resolve
  <2>12. HolderKnows'
    BY <2>1, <2>2, <2>3, <2>5, <2>11 DEF HolderKnows
  <2>13. StoreFollows'
    BY <1>1, <2>7 DEF ChainInv, StoreFollows, Enter
  <2>14. OneSuccessor'
    BY <2>4, <2>6, <2>7 DEF ChainInv, OneSuccessor, Enter
  <2>15. CacheFollows'
    <3>1. \A entry \in cache : entry.of # Resolve(own)
        BY <1>4 DEF Cached
    <3>2. \A entry \in cache : entry.of.grant # own.grant
        BY <1>2, <3>1 DEF ChainInv, CacheFollows
    <3>3. QED
        BY <2>1, <2>2, <2>4, <2>5, <3>2 DEF ChainInv, CacheFollows, Enter, memoryVars
  <2>16. ForgottenStays'
    BY <2>1, <2>2 DEF ChainInv, ForgottenStays, Enter, memoryVars, signInVars
  <2>17. QED
    BY <1>1, <2>3, <2>9, <2>10, <2>12, <2>13, <2>14, <2>15, <2>16 DEF ChainInv, GateTaken
<1>5. QED
    BY <1>3, <1>4
\* The server retires the token it was shown: what holds of the server, the program and
\* what is known to be lost, whether or not the answer arrives.
LEMMA RotationFacts ==
    ASSUME ChainInv, NEW t \in Threads, threads[t].pc = "out", IsLive(threads[t].presented),
           live' = [live EXCEPT ![threads[t].presented.grant] = threads[t].presented.n + 1],
           Held' = Held,
           UNCHANGED <<provider, memoryVars, signInVars, store>>
    PROVE  /\ \A x \in Token : live'[x.grant] =
                IF x.grant = threads[t].own.grant THEN threads[t].presented.n + 1
                ELSE live[x.grant]
           /\ \A x \in Token : x.grant = threads[t].own.grant => live[x.grant] < live'[x.grant]
           /\ GrantsLanded' /\ SignInStands' /\ BehindServer'
<1> DEFINE own == threads[t].own
           shown == threads[t].presented
<1>1. TypeOK /\ gate = t /\ GateTaken /\ threads[t] \in ThreadStates /\ own \in Held
    BY HolderFacts DEF ChainInv
<1>2. own \in Token /\ shown \in Token /\ shown.grant = own.grant
    BY <1>1 DEF ThreadStates, ChainInv, HolderKnows
<1>3. shown.n = live[own.grant] /\ own.grant \in Grant /\ live \in [Grant -> 0 .. MaxRotations]
    BY <1>1, <1>2 DEF IsLive, TypeOK, Token
<1>4. live' = [live EXCEPT ![own.grant] = shown.n + 1]
    BY <1>2
<1> HIDE DEF own, shown
<1>5. \A g \in Grant : live'[g] = IF g = own.grant THEN shown.n + 1 ELSE live[g]
    BY <1>3, <1>4
<1>6. \A g \in Grant : live[g] <= live'[g] /\ (g = own.grant => live[g] < live'[g])
    BY <1>3, <1>5
<1>7. \A x \in Token : x.grant \in Grant /\ x.n \in Nat
    BY DEF Token
<1>8. \A x \in Token : live'[x.grant] = IF x.grant = own.grant THEN shown.n + 1 ELSE live[x.grant]
    BY <1>5, <1>7
<1>9. \A x \in Token : x.grant = own.grant => live[x.grant] < live'[x.grant]
    BY <1>6, <1>7
<1>10. \A g \in Grant : Unused(g) => Unused(g)'
  <2> SUFFICES ASSUME NEW g \in Grant, Unused(g) PROVE Unused(g)'
    OBVIOUS
  <2>1. g # own.grant
    BY <1>1 DEF Unused
  <2>2. QED
    BY <2>1, <1>5 DEF Unused, memoryVars
<1>11. GrantsLanded'
    BY <1>10 DEF ChainInv, GrantsLanded, signInVars
<1>12. SignInStands'
    BY <1>1, <1>10 DEF ChainInv, SignInStands, signInVars, TypeOK, Grant, Unused
<1>13. BehindServer'
  <2>1. \A x \in Held \cup {loop.token} : x \in Token
    BY <1>1, HeldType DEF TypeOK
  <2>2. \A alias \in DOMAIN rotations : alias \in Token
    BY <1>1 DEF TypeOK
  <2>3. \A x \in Token : /\ x.n <= live[x.grant] => x.n <= live'[x.grant]
                         /\ x.n < live[x.grant] => x.n < live'[x.grant]
    BY <1>3, <1>6, <1>7, <1>8
  <2>4. QED
    BY <2>1, <2>2, <2>3 DEF ChainInv, BehindServer, signInVars, memoryVars
<1>14. QED
    BY <1>8, <1>9, <1>11, <1>12, <1>13 DEF own, shown
\* The answer with the new token arrives: it is what every token of the grant awaits.
LEMMA RotatedChain ==
    ASSUME ChainInv, TypeOK', NEW t \in Threads, threads[t].pc = "out",
           IsLive(threads[t].presented), provider.rotates,
           live' = [live EXCEPT ![threads[t].presented.grant] = threads[t].presented.n + 1],
           threads' = [threads EXCEPT
               ![t].rotated = [threads[t].presented EXCEPT !.n = @ + 1], ![t].pc = "persist"],
           UNCHANGED <<provider, memoryVars, signInVars, gate, store, known, lost, unsaved>>
    PROVE  ChainInv'
<1> DEFINE own == threads[t].own
           shown == threads[t].presented
           next == [shown EXCEPT !.n = @ + 1]
           after == [threads[t] EXCEPT !.rotated = next, !.pc = "persist"]
<1>1. TypeOK /\ gate = t /\ GateTaken /\ threads[t] \in ThreadStates /\ own \in Held
    BY HolderFacts DEF ChainInv
<1>2. own \in Token /\ shown \in Token /\ shown.grant = own.grant /\ Resolve(own) = shown
    BY <1>1 DEF ThreadStates, ChainInv, HolderKnows
<1>3. next.grant = shown.grant /\ next.n = shown.n + 1
    BY <1>2 DEF Token
<1>4. threads' = [threads EXCEPT ![t] = after]
    BY <1>1 DEF TypeOK, ThreadStates
<1>5. /\ after.own = own /\ after.presented = shown /\ after.rotated = next
      /\ after.pc = "persist" /\ after.born = threads[t].born
    BY <1>1 DEF ThreadStates
<1>6. threads'[t] = after /\ \A u \in Threads \ {t} : threads'[u] = threads[u]
    BY <1>1, <1>4 DEF TypeOK
<1> HIDE DEF own, shown, next, after
<1>7. Held' = Held
  <2>1. \A u \in Threads : threads'[u].own = threads[u].own
    BY <1>5, <1>6 DEF own
  <2>2. QED
    BY <2>1 DEF Held
<1>8. /\ \A x \in Token : live'[x.grant] =
           IF x.grant = own.grant THEN shown.n + 1 ELSE live[x.grant]
      /\ \A x \in Token : x.grant = own.grant => live[x.grant] < live'[x.grant]
      /\ GrantsLanded' /\ SignInStands' /\ BehindServer'
    BY <1>7, RotationFacts DEF own, shown
<1>9. GateTaken' /\ Rotating' /\ ~Rotating /\ gate' = t
    BY <1>1, <1>5, <1>6 DEF GateTaken, Rotating
<1>10. \A x : UNCHANGED Resolve(x)
    BY DEF Resolve, memoryVars
<1>11. \A x : Awaited(x)' = IF Resolve(x) = shown THEN next ELSE Resolve(x)
  <2>1. threads'[gate'].presented = shown /\ threads'[gate'].rotated = next
    BY <1>5, <1>6, <1>9
  <2>2. QED
    BY <2>1, <1>9, <1>10 DEF Awaited
<1>12. \A x : Awaited(x) = Resolve(x)
    BY <1>9 DEF Awaited
<1>13. StaysPut'
    BY DEF StaysPut
<1>14. HolderKnows'
  <2>1. next.n = live'[own.grant]
    BY <1>2, <1>3, <1>8
  <2>2. QED
    BY <1>2, <1>3, <1>5, <1>6, <1>9, <1>10, <2>1 DEF HolderKnows
<1>15. \A x \in Held : x.grant = own.grant => Awaited(x)' = next
    BY <1>1, <1>2, <1>11, <1>12 DEF ChainInv, OneSuccessor
<1>16. \A x \in Held : x.grant # own.grant => Awaited(x)' = Awaited(x) /\ Awaited(x).grant = x.grant
  <2> SUFFICES ASSUME NEW x \in Held, x.grant # own.grant
               PROVE  Awaited(x)' = Awaited(x) /\ Awaited(x).grant = x.grant
    OBVIOUS
  <2>1. Resolve(x).grant = x.grant
    BY DEF ChainInv, BehindServer, Resolve
  <2>2. Resolve(x) # shown
    BY <2>1, <1>2
  <2>3. QED
    BY <2>1, <2>2, <1>11, <1>12
<1>17. \A x \in Held : x \in Token /\ Awaited(x) \in Token
    BY <1>1, <1>12, HeldType, ResolveType
<1>18. OneSuccessor'
  <2>1. next.n = live'[next.grant]
    BY <1>2, <1>3, <1>8
  <2>2. ASSUME NEW x \in Held PROVE IsLive(Awaited(x))' \/ x.grant \in lost'
    <3>1. CASE x.grant = own.grant
        BY <3>1, <2>1, <1>15 DEF IsLive
    <3>2. CASE x.grant # own.grant
        BY <3>2, <1>8, <1>16, <1>17 DEF IsLive, ChainInv, OneSuccessor
    <3>3. QED
        BY <3>1, <3>2
  <2>3. \A x, y \in Held : x.grant = y.grant => Awaited(x)' = Awaited(y)'
    BY <1>15, <1>16 DEF ChainInv, OneSuccessor
  <2>4. QED
    BY <2>2, <2>3, <1>7 DEF OneSuccessor
<1>19. StoreFollows'
  <2>1. store \in Token /\ store \in Held
    BY <1>1 DEF TypeOK, Held
  <2>2. CASE store.grant = own.grant /\ IsLive(store)
    BY <2>1, <2>2, <1>2, <1>5, <1>6, <1>9 DEF StoreFollows, IsLive, Token, shown
  <2>3. CASE store.grant \in lost \cup unsaved
    BY <2>3 DEF StoreFollows
  <2>4. CASE store.grant # own.grant /\ IsLive(store)
    BY <2>1, <2>4, <1>8 DEF StoreFollows, IsLive
  <2>5. QED
    BY <2>2, <2>3, <2>4, <1>1 DEF ChainInv, StoreFollows
<1>20. CacheFollows'
    BY <1>5, <1>6, <1>7, <1>9, <1>10, <1>1 DEF ChainInv, CacheFollows, memoryVars, own
<1>21. ForgottenStays'
    BY <1>1, <1>5, <1>6, <1>9 DEF ChainInv, ForgottenStays, memoryVars, signInVars, own
<1>22. QED
    BY <1>8, <1>9, <1>13, <1>14, <1>18, <1>19, <1>20, <1>21 DEF ChainInv, GateTaken
\* The answer with the new token is lost: its grant is.
LEMMA RotationLostChain ==
    ASSUME ChainInv, TypeOK', NEW t \in Threads, threads[t].pc = "out",
           IsLive(threads[t].presented), provider.rotates,
           live' = [live EXCEPT ![threads[t].presented.grant] = threads[t].presented.n + 1],
           threads' = [threads EXCEPT ![t] = Idle(@.own)], gate' = NoThread,
           lost' = lost \cup {threads[t].presented.grant},
           UNCHANGED <<provider, memoryVars, signInVars, store, known, unsaved>>
    PROVE  ChainInv'
<1> DEFINE own == threads[t].own
           shown == threads[t].presented
<1>1. TypeOK /\ gate = t /\ GateTaken /\ threads[t] \in ThreadStates /\ own \in Held
    BY HolderFacts DEF ChainInv
<1>2. shown.grant = own.grant
    BY <1>1 DEF ChainInv, HolderKnows
<1>3. Held' = Held
  <2>1. \A u \in Threads : threads'[u].own = threads[u].own
    BY <1>1 DEF TypeOK, Idle
  <2>2. QED
    BY <2>1 DEF Held
<1>4. /\ \A x \in Token : live'[x.grant] =
           IF x.grant = own.grant THEN shown.n + 1 ELSE live[x.grant]
      /\ GrantsLanded' /\ SignInStands' /\ BehindServer'
    BY <1>3, RotationFacts DEF own, shown
<1> HIDE DEF own, shown
<1>5. ~GateTaken' /\ ~Rotating' /\ ~Rotating
    BY <1>1, NoThreadAssumption DEF GateTaken, Rotating
<1>6. \A x : UNCHANGED Resolve(x)
    BY DEF Resolve, memoryVars
<1>7. \A x : UNCHANGED Awaited(x)
    BY <1>5, <1>6 DEF Awaited
<1>8. StaysPut' /\ HolderKnows'
    BY <1>5 DEF StaysPut, HolderKnows
<1>9. lost' = lost \cup {own.grant}
    BY <1>2 DEF shown
<1>10. OneSuccessor'
  <2>1. ASSUME NEW x \in Held PROVE IsLive(Awaited(x))' \/ x.grant \in lost'
    <3>1. x \in Token /\ Awaited(x) \in Token
        BY <1>1, <1>5, HeldType, ResolveType DEF Awaited
    <3>2. Awaited(x).grant = x.grant
        BY <1>5 DEF ChainInv, BehindServer, Awaited, Resolve
    <3>3. QED
        BY <3>1, <3>2, <1>4, <1>7, <1>9 DEF IsLive, ChainInv, OneSuccessor
  <2>2. QED
    BY <2>1, <1>3, <1>7 DEF ChainInv, OneSuccessor
<1>11. StoreFollows'
  <2>1. store \in Token
    BY <1>1 DEF TypeOK
  <2>2. QED
    BY <2>1, <1>1, <1>4, <1>9 DEF ChainInv, StoreFollows, IsLive
<1>12. CacheFollows'
    BY <1>3, <1>5, <1>6 DEF ChainInv, CacheFollows, memoryVars
<1>13. ForgottenStays'
    BY <1>5 DEF ChainInv, ForgottenStays, memoryVars, signInVars
<1>14. QED
    BY <1>4, <1>8, <1>10, <1>11, <1>12, <1>13 DEF ChainInv

\* The answer brings a bearer and no new token.
LEMMA MintedChain ==
    ASSUME ChainInv, TypeOK', NEW t \in Threads, threads[t].pc = "out",
           threads' = [threads EXCEPT ![t].rotated = threads[t].presented, ![t].pc = "settle"],
           UNCHANGED <<serverVars, memoryVars, signInVars, gate, store, known, lost, unsaved>>
    PROVE  ChainInv'
<1> DEFINE own == threads[t].own
           shown == threads[t].presented
           after == [threads[t] EXCEPT !.rotated = shown, !.pc = "settle"]
<1>1. TypeOK /\ gate = t /\ GateTaken /\ threads[t] \in ThreadStates /\ own \in Held
    BY HolderFacts DEF ChainInv
<1>2. shown.grant = own.grant /\ Resolve(own) = shown
    BY <1>1 DEF ChainInv, HolderKnows
<1>3. threads' = [threads EXCEPT ![t] = after]
    BY <1>1 DEF TypeOK, ThreadStates
<1>4. /\ after.own = own /\ after.presented = shown /\ after.rotated = shown
      /\ after.pc = "settle" /\ after.born = threads[t].born
    BY <1>1 DEF ThreadStates
<1>5. threads'[t] = after /\ \A u \in Threads \ {t} : threads'[u] = threads[u]
    BY <1>1, <1>3 DEF TypeOK
<1> HIDE DEF own, shown, after
<1>6. Held' = Held
  <2>1. \A u \in Threads : threads'[u].own = threads[u].own
    BY <1>4, <1>5 DEF own
  <2>2. QED
    BY <2>1 DEF Held
<1>7. GateTaken' /\ ~Rotating' /\ ~Rotating /\ gate' = t
    BY <1>1, <1>4, <1>5 DEF GateTaken, Rotating
<1>8. \A x : UNCHANGED Resolve(x)
    BY DEF Resolve, memoryVars
<1>9. \A x : UNCHANGED Awaited(x)
    BY <1>7, <1>8 DEF Awaited
<1>10. \A x : UNCHANGED IsLive(x)
    BY DEF IsLive, serverVars
<1>11. \A g : UNCHANGED Unused(g)
    BY <1>6 DEF Unused, serverVars, memoryVars
<1>12. GrantsLanded' /\ SignInStands'
    BY <1>11 DEF ChainInv, GrantsLanded, SignInStands, serverVars, signInVars
<1>13. StaysPut' /\ BehindServer'
    BY <1>6, <1>7 DEF ChainInv, StaysPut, BehindServer, serverVars, memoryVars, signInVars
<1>14. HolderKnows'
    BY <1>2, <1>4, <1>5, <1>7, <1>8 DEF HolderKnows
<1>15. OneSuccessor'
    BY <1>6, <1>9, <1>10 DEF ChainInv, OneSuccessor
<1>16. StoreFollows'
    BY <1>1, <1>10 DEF ChainInv, StoreFollows
<1>17. CacheFollows'
    BY <1>1, <1>4, <1>5, <1>6, <1>7, <1>8 DEF ChainInv, CacheFollows, memoryVars, own
<1>18. ForgottenStays'
    BY <1>1, <1>4, <1>5, <1>7 DEF ChainInv, ForgottenStays, memoryVars, signInVars, own
<1>19. QED
    BY <1>7, <1>12, <1>13, <1>14, <1>15, <1>16, <1>17, <1>18 DEF ChainInv, GateTaken

LEMMA ExchangedChain == ASSUME ChainInv, NEW t \in Threads, Exchanged(t) PROVE ChainInv'
<1> DEFINE shown == threads[t].presented
<1>1. TypeOK /\ TypeOK' /\ threads[t].pc = "out" /\ IsLive(shown)
    BY ExchangedType DEF ChainInv, Exchanged
<1>2. PICK rotates \in IF provider.rotates /\ shown.n < MaxRotations THEN BOOLEAN ELSE {FALSE} :
        LET next == IF rotates THEN [shown EXCEPT !.n = @ + 1] ELSE shown IN
        /\ live' = [live EXCEPT ![shown.grant] = next.n]
        /\ \/ /\ threads' = [threads EXCEPT ![t].rotated = next,
                                            ![t].pc = IF rotates THEN "persist" ELSE "settle"]
              /\ UNCHANGED <<gate, lost>>
           \/ /\ threads' = [threads EXCEPT ![t] = Idle(@.own)]
              /\ gate' = NoThread
              /\ lost' = IF rotates THEN lost \cup {shown.grant} ELSE lost
    BY DEF Exchanged
<1>3. UNCHANGED <<provider, memoryVars, signInVars, store, known, unsaved>>
    BY DEF Exchanged
<1>4. shown \in Token /\ [shown EXCEPT !.n = @ + 1].n = shown.n + 1
    BY <1>1 DEF TypeOK, Token
<1>5. CASE rotates
  <2>1. provider.rotates
    BY <1>2, <1>5
  <2>2. live' = [live EXCEPT ![shown.grant] = shown.n + 1]
    BY <1>2, <1>4, <1>5
  <2>3. \/ /\ threads' = [threads EXCEPT ![t].rotated = [shown EXCEPT !.n = @ + 1], ![t].pc = "persist"]
           /\ UNCHANGED <<gate, lost>>
        \/ /\ threads' = [threads EXCEPT ![t] = Idle(@.own)]
           /\ gate' = NoThread
           /\ lost' = lost \cup {shown.grant}
    BY <1>2, <1>5
  <2>4. QED
    BY <1>1, <1>3, <2>1, <2>2, <2>3, RotatedChain, RotationLostChain
<1>6. CASE ~rotates
  <2>1. live' = live
    <3>1. shown.n = live[shown.grant] /\ live \in [Grant -> 0 .. MaxRotations]
        BY <1>1 DEF IsLive, TypeOK
    <3>2. QED
        BY <3>1, <1>2, <1>6
  <2>2. \/ /\ threads' = [threads EXCEPT ![t].rotated = shown, ![t].pc = "settle"]
           /\ UNCHANGED <<gate, lost>>
        \/ /\ threads' = [threads EXCEPT ![t] = Idle(@.own)]
           /\ gate' = NoThread
           /\ lost' = lost
    BY <1>2, <1>6
  <2>3. UNCHANGED serverVars
    BY <1>3, <2>1 DEF serverVars
  <2>4. QED
    BY <1>1, <1>3, <2>2, <2>3, MintedChain, GiveUpStep
<1>7. QED
    BY <1>5, <1>6
\* A rotation that is yet to be noted: everybody's token awaits it.
LEMMA RotatedIsNext ==
    ASSUME ChainInv, NEW t \in Threads, threads[t].pc \in {"persist", "note"}
    PROVE  LET h == threads[t] IN
           /\ h.own \in Held /\ Rotating /\ gate = t /\ provider.rotates
           /\ h.own \in Token /\ h.presented \in Token /\ h.rotated \in Token
           /\ h.presented.grant = h.own.grant /\ h.rotated.grant = h.own.grant
           /\ Awaited(h.rotated) = h.rotated
           /\ IsLive(h.rotated)
           /\ h.own.n < live[h.own.grant] /\ h.presented.n < live[h.own.grant]
           /\ \A x \in Held : x.grant = h.own.grant => Awaited(x) = h.rotated
           /\ \A x : Awaited(x) = IF Resolve(x) = h.presented THEN h.rotated ELSE Resolve(x)
<1> DEFINE own == threads[t].own
           presented == threads[t].presented
           rotated == threads[t].rotated
<1>1. /\ TypeOK /\ gate = t /\ GateTaken /\ threads[t] \in ThreadStates /\ own \in Held
      /\ Rotating /\ threads[gate] = threads[t]
    BY HolderFacts DEF ChainInv, Rotating
<1>2. own \in Token /\ presented \in Token /\ rotated \in Token
    BY <1>1 DEF ThreadStates
<1>3. /\ presented.grant = own.grant /\ rotated.grant = own.grant /\ Resolve(own) = presented
      /\ rotated.n = live[own.grant] /\ rotated.n = presented.n + 1
    BY <1>1 DEF ChainInv, HolderKnows
<1>4. live[own.grant] \in Nat /\ presented.n \in Nat /\ own.n \in Nat
    BY <1>1, <1>2 DEF TypeOK, Token
<1>5. \A x : Awaited(x) = IF Resolve(x) = presented THEN rotated ELSE Resolve(x)
    BY <1>1 DEF Awaited
<1>6. \A alias \in DOMAIN rotations : alias.n < live[alias.grant]
    BY DEF ChainInv, BehindServer
<1> HIDE DEF own, presented, rotated
<1>7. Resolve(rotated) = rotated
  <2>1. rotated.n = live[rotated.grant] /\ live[rotated.grant] \in Nat
    BY <1>3, <1>4
  <2>2. rotated \notin DOMAIN rotations
    BY <2>1, <1>6
  <2>3. QED
    BY <2>2 DEF Resolve
<1>8. Awaited(rotated) = rotated
    BY <1>3, <1>4, <1>5, <1>7
<1>9. own.n < live[own.grant] /\ presented.n < live[own.grant]
  <2>1. presented.n < live[own.grant]
    BY <1>3, <1>4
  <2>2. own \in DOMAIN rotations \/ own = presented
    BY <1>3 DEF Resolve
  <2>3. QED
    BY <2>1, <2>2, <1>6
<1>10. \A x \in Held : x.grant = own.grant => Awaited(x) = rotated
    BY <1>1, <1>3, <1>5 DEF ChainInv, OneSuccessor
<1>11. IsLive(rotated) /\ provider.rotates
    BY <1>1, <1>3 DEF IsLive, ChainInv, StaysPut
<1>12. QED
    BY <1>1, <1>2, <1>3, <1>5, <1>8, <1>9, <1>10, <1>11 DEF own, presented, rotated

LEMMA PersistChain == ASSUME ChainInv, NEW t \in Threads, Persist(t) PROVE ChainInv'
<1> DEFINE own == threads[t].own
           presented == threads[t].presented
           rotated == threads[t].rotated
<1>1. TypeOK /\ TypeOK' /\ threads[t].pc = "persist" /\ gate' = gate
    BY PersistType DEF ChainInv, Persist
<1>2. /\ own \in Held /\ Rotating /\ gate = t /\ provider.rotates
      /\ own \in Token /\ presented \in Token /\ rotated \in Token
      /\ presented.grant = own.grant /\ rotated.grant = own.grant
      /\ Awaited(rotated) = rotated /\ IsLive(rotated)
      /\ \A x \in Held : x.grant = own.grant => Awaited(x) = rotated
    BY <1>1, RotatedIsNext
<1>3. /\ threads'[t] = [threads[t] EXCEPT !.pc = "note"]
      /\ \A u \in Threads \ {t} : threads'[u] = threads[u]
    BY <1>1 DEF TypeOK, Persist
<1>4. /\ threads'[t].pc = "note" /\ threads'[t].own = own /\ threads'[t].presented = presented
      /\ threads'[t].rotated = rotated /\ threads'[t].born = threads[t].born
    BY <1>1, <1>3 DEF TypeOK
<1>5. \/ store \in {own, presented} /\ store' = rotated
      \/ store \in {own, presented} /\ store' = store /\ rotated.grant \in unsaved'
      \/ store \notin {own, presented} /\ store' = store /\ unsaved' = unsaved
    BY DEF Persist, Replaces
<1> HIDE DEF own, presented, rotated
<1>6. Held' \subseteq Held \cup {rotated}
  <2>1. \A u \in Threads : threads'[u].own = threads[u].own
    BY <1>3, <1>4 DEF own
  <2>2. QED
    BY <2>1, <1>5 DEF Held, Persist
<1>7. GateTaken' /\ Rotating' /\ gate' = t /\ GateTaken
    BY <1>1, <1>2, <1>4 DEF GateTaken, Rotating
<1>8. \A x : UNCHANGED Resolve(x)
    BY DEF Resolve, Persist, memoryVars
<1>9. \A x : UNCHANGED Awaited(x)
    BY <1>2, <1>4, <1>7, <1>8 DEF Awaited, presented, rotated
<1>10. \A x : UNCHANGED IsLive(x)
    BY DEF IsLive, Persist, serverVars
<1>11. \A g : Unused(g) => Unused(g)'
    BY <1>2, <1>6 DEF Unused, Persist, serverVars, memoryVars
<1>12. GrantsLanded' /\ SignInStands'
    BY <1>2, <1>11 DEF ChainInv, GrantsLanded, SignInStands, Persist, serverVars, signInVars
<1>13. StaysPut'
    BY <1>2 DEF StaysPut, Persist, serverVars
<1>14. BehindServer'
  <2>1. rotated.n <= live[rotated.grant]
    BY <1>1, <1>2 DEF IsLive, TypeOK, Token
  <2>2. QED
    BY <2>1, <1>6 DEF ChainInv, BehindServer, Persist, serverVars, memoryVars, signInVars
<1>15. HolderKnows'
    BY <1>2, <1>3, <1>4, <1>7, <1>8
    DEF ChainInv, HolderKnows, Persist, serverVars, own, presented, rotated
<1>16. OneSuccessor'
    BY <1>2, <1>6, <1>9, <1>10 DEF ChainInv, OneSuccessor, Persist
<1>17. StoreFollows'
    BY <1>1, <1>2, <1>5, <1>10 DEF ChainInv, StoreFollows, Persist, presented
<1>18. CacheFollows'
    BY <1>2, <1>3, <1>4, <1>6, <1>7, <1>8 DEF ChainInv, CacheFollows, Persist, memoryVars, own
<1>19. ForgottenStays'
    BY <1>2, <1>3, <1>4, <1>7 DEF ChainInv, ForgottenStays, Persist, memoryVars, signInVars, own
<1>20. QED
    BY <1>1, <1>7, <1>12, <1>13, <1>14, <1>15, <1>16, <1>17, <1>18, <1>19 DEF ChainInv, GateTaken

LEMMA NoteChain == ASSUME ChainInv, NEW t \in Threads, Note(t) PROVE ChainInv'
<1> DEFINE own == threads[t].own
           presented == threads[t].presented
           rotated == threads[t].rotated
<1>1. TypeOK /\ TypeOK' /\ threads[t].pc = "note" /\ gate' = gate
    BY NoteType DEF ChainInv, Note
<1>2. /\ own \in Held /\ Rotating /\ gate = t /\ provider.rotates
      /\ own \in Token /\ presented \in Token /\ rotated \in Token
      /\ presented.grant = own.grant /\ rotated.grant = own.grant
      /\ Awaited(rotated) = rotated /\ IsLive(rotated)
      /\ own.n < live[own.grant] /\ presented.n < live[own.grant]
      /\ \A x \in Held : x.grant = own.grant => Awaited(x) = rotated
      /\ \A x : Awaited(x) = IF Resolve(x) = presented THEN rotated ELSE Resolve(x)
    BY <1>1, RotatedIsNext
<1>3. /\ threads'[t] = [threads[t] EXCEPT !.pc = "settle"]
      /\ \A u \in Threads \ {t} : threads'[u] = threads[u]
    BY <1>1 DEF TypeOK, Note
<1>4. /\ threads'[t].pc = "settle" /\ threads'[t].own = own /\ threads'[t].presented = presented
      /\ threads'[t].rotated = rotated /\ threads'[t].born = threads[t].born
    BY <1>1, <1>3 DEF TypeOK
<1>5. /\ DOMAIN rotations' = DOMAIN rotations \cup {own, presented}
      /\ \A x \in Token : Resolve(x)' = Awaited(x)
    BY NoteLeads
<1>6. \A alias \in DOMAIN rotations' : rotations'[alias] =
          IF alias \in {own, presented} \/ rotations[alias] = presented THEN rotated
          ELSE rotations[alias]
    BY DEF Note, NoteRotation
<1> HIDE DEF own, presented, rotated
<1>7. Held' = Held
  <2>1. \A u \in Threads : threads'[u].own = threads[u].own
    BY <1>3, <1>4 DEF own
  <2>2. QED
    BY <2>1 DEF Held, Note
<1>8. GateTaken' /\ ~Rotating' /\ gate' = t /\ GateTaken
    BY <1>1, <1>2, <1>4 DEF GateTaken, Rotating
<1>9. \A x \in Token : Awaited(x)' = Awaited(x)
    BY <1>5, <1>8 DEF Awaited
<1>10. \A x : UNCHANGED IsLive(x)
    BY DEF IsLive, Note, serverVars
<1>11. \A g : Unused(g) => Unused(g)'
    BY <1>2, <1>5, <1>7 DEF Unused, Note, serverVars
<1>12. GrantsLanded' /\ SignInStands'
    BY <1>11 DEF ChainInv, GrantsLanded, SignInStands, Note, serverVars, signInVars
<1>13. StaysPut'
    BY <1>2 DEF StaysPut, Note, serverVars
<1>14. BehindServer'
  <2>1. \A alias \in DOMAIN rotations' : alias.n < live[alias.grant] /\ rotations'[alias].grant = alias.grant
    BY <1>2, <1>5, <1>6 DEF ChainInv, BehindServer
  <2>2. QED
    BY <2>1, <1>7 DEF ChainInv, BehindServer, Note, serverVars, signInVars
<1>15. HolderKnows'
  <2>1. Resolve(own)' = rotated
    BY <1>2, <1>4, <1>5, NoteLeads DEF Resolve, own
  <2>2. QED
    BY <2>1, <1>2, <1>4, <1>8 DEF HolderKnows, Resolve, own
<1>16. OneSuccessor'
  <2>1. \A x \in Held : x \in Token
    BY <1>1, HeldType
  <2>2. \A x \in Held : UNCHANGED Awaited(x) /\ (UNCHANGED IsLive(Awaited(x)))
    BY <2>1, <1>9 DEF IsLive, Note, serverVars
  <2>3. QED
    BY <2>2, <1>7 DEF ChainInv, OneSuccessor, Note
<1>17. StoreFollows'
    BY <1>1, <1>2, <1>10 DEF ChainInv, StoreFollows, Note
<1>18. CacheFollows'
  <2>1. ASSUME NEW entry \in cache, NEW x \in Held, x.grant = entry.of.grant
        PROVE  Resolve(x)' = entry.of
    <3>1. x.grant # own.grant /\ Resolve(x) = entry.of /\ x \in Token
        BY <2>1, <1>1, <1>2, <1>8, HeldType DEF ChainInv, CacheFollows, own
    <3>2. QED
        BY <2>1, <3>1, <1>2, <1>5
  <2>2. QED
    BY <2>1, <1>2, <1>3, <1>4, <1>7, <1>8 DEF ChainInv, CacheFollows, Note, own
<1>19. ForgottenStays'
    BY <1>2, <1>3, <1>4, <1>8 DEF ChainInv, ForgottenStays, Note, signInVars, own
<1>20. QED
    BY <1>1, <1>8, <1>12, <1>13, <1>14, <1>15, <1>16, <1>17, <1>18, <1>19 DEF ChainInv, GateTaken

LEMMA SettleChain == ASSUME ChainInv, NEW t \in Threads, Settle(t) PROVE ChainInv'
<1> DEFINE own == threads[t].own
           rotated == threads[t].rotated
           minted == [of |-> rotated, born |-> threads[t].born]
<1>1. TypeOK /\ TypeOK' /\ threads[t].pc = "settle" /\ gate' = NoThread
    BY SettleType DEF ChainInv, Settle
<1>2. gate = t /\ GateTaken /\ own \in Held /\ threads[t] \in ThreadStates /\ ~Rotating
    BY <1>1, HolderFacts DEF Rotating
<1>3. own \in Token /\ rotated \in Token /\ rotated.grant = own.grant /\ Resolve(own) = rotated
    BY <1>1, <1>2 DEF ThreadStates, ChainInv, HolderKnows
<1>4. cache' \subseteq cache \cup {minted}
    BY DEF Settle
<1>5. minted \in cache' => Chain(t) \cap forgotten = {} \/ minted \in cache
    BY DEF Settle
<1>6. minted.of = rotated /\ minted.born = threads[t].born
    OBVIOUS
<1>7. \A u \in Threads : threads'[u].own = threads[u].own
    BY <1>1 DEF TypeOK, Settle, Idle
<1>8. rotated \in Chain(t)
    BY DEF Chain
<1> HIDE DEF own, rotated, minted
<1>9. Held' = Held
    BY <1>7 DEF Held, Settle
<1>10. ~GateTaken' /\ ~Rotating'
    BY <1>1, NoThreadAssumption DEF GateTaken, Rotating
<1>11. \A x : UNCHANGED Resolve(x)
    BY DEF Resolve, Settle
<1>12. \A x : UNCHANGED Awaited(x)
    BY <1>2, <1>10, <1>11 DEF Awaited
<1>13. \A x : UNCHANGED IsLive(x)
    BY DEF IsLive, Settle, serverVars
<1>14. \A g : Unused(g) => Unused(g)'
    BY <1>2, <1>3, <1>4, <1>6, <1>9 DEF Unused, Settle, serverVars
<1>15. GrantsLanded' /\ SignInStands'
    BY <1>14 DEF ChainInv, GrantsLanded, SignInStands, Settle, serverVars, signInVars
<1>16. StaysPut' /\ BehindServer' /\ HolderKnows'
    BY <1>9, <1>10 DEF ChainInv, StaysPut, BehindServer, HolderKnows, Settle, serverVars, signInVars
<1>17. OneSuccessor'
    BY <1>9, <1>12, <1>13 DEF ChainInv, OneSuccessor, Settle
<1>18. StoreFollows'
    BY <1>1, <1>2, <1>13 DEF ChainInv, StoreFollows, Settle
<1>19. CacheFollows'
  <2>1. \A x \in Held : x.grant = rotated.grant => Resolve(x) = rotated
    BY <1>2, <1>3 DEF ChainInv, OneSuccessor, Awaited
  <2>2. QED
    BY <2>1, <1>4, <1>6, <1>9, <1>10, <1>11 DEF ChainInv, CacheFollows
<1>20. ForgottenStays'
  <2>1. loop' = loop /\ epoch' = epoch
    BY DEF Settle, signInVars
  <2>2. ASSUME loop.pc \in {"idle", "save"}, NEW entry \in cache', entry.of = loop.token
        PROVE  entry.born = epoch
    <3>1. CASE entry \in cache
        BY <2>2, <3>1 DEF ChainInv, ForgottenStays
    <3>2. CASE entry = minted /\ Chain(t) \cap forgotten = {}
        BY <2>2, <3>2, <1>2, <1>3, <1>6, <1>8 DEF ChainInv, ForgottenStays, own
    <3>3. QED
        BY <2>2, <3>1, <3>2, <1>4, <1>5
  <2>3. QED
    BY <2>1, <2>2, <1>10 DEF ChainInv, ForgottenStays
<1>21. QED
    BY <1>1, <1>15, <1>16, <1>17, <1>18, <1>19, <1>20 DEF ChainInv
LEMMA SignedInChain == ASSUME ChainInv, SignedIn PROVE ChainInv'
<1>1. /\ TypeOK /\ TypeOK' /\ loop.pc = "idle" /\ epoch = signIns /\ signIns' = signIns + 1
      /\ signIns + 1 \in Grant /\ signIns \in Nat
  <2>1. TypeOK /\ TypeOK' /\ loop.pc = "idle" /\ signIns' = signIns + 1 /\ signIns < MaxSignIns
    BY SignedInType DEF ChainInv, SignedIn
  <2>2. epoch = signIns /\ signIns \in 0 .. MaxSignIns
    BY <2>1 DEF ChainInv, GrantsLanded, TypeOK
  <2>3. signIns + 1 \in Grant
    BY <2>1, <2>2, RefreshBoundsAssumption DEF Grant
  <2>4. QED
    BY <2>1, <2>2, <2>3
<1>2. PICK token \in {Fresh(signIns + 1)} \cup (IF provider.rotates THEN {} ELSE {store}) :
          /\ loop' = [pc |-> IF provider.remembers THEN "names" ELSE "clear", token |-> token,
                      aliases |-> {token, Resolve(token)} \cup Aliases(token)]
          /\ rotations' = [alias \in DOMAIN rotations \ Aliases(token) |-> rotations[alias]]
          /\ epoch' = IF provider.remembers THEN epoch ELSE epoch + 1
    BY DEF SignedIn
<1>3. Unused(signIns + 1) /\ Fresh(signIns + 1).grant = signIns + 1 /\ Fresh(signIns + 1).n = 0
    BY <1>1 DEF ChainInv, GrantsLanded, Fresh
<1>4. token = Fresh(signIns + 1) \/ (~provider.rotates /\ token = store)
    BY <1>2
<1>5. Aliases(token) = {}
  <2>1. CASE token = Fresh(signIns + 1)
    <3>1. Resolve(token) = token
        BY <2>1, <1>3 DEF Unused, Resolve
    <3>2. ASSUME NEW alias \in DOMAIN rotations
          PROVE  alias # token /\ rotations[alias] # token
        BY <2>1, <1>3 DEF Unused, ChainInv, BehindServer
    <3>3. QED
        BY <3>1, <3>2 DEF Aliases
  <2>2. CASE ~provider.rotates
    BY <2>2 DEF Aliases, ChainInv, StaysPut
  <2>3. QED
    BY <2>1, <2>2, <1>4
<1>6. DOMAIN rotations' = DOMAIN rotations /\ \A alias \in DOMAIN rotations : rotations'[alias] = rotations[alias]
    BY <1>2, <1>5
<1>7. Held' = Held /\ UNCHANGED GateTaken /\ UNCHANGED Rotating
    BY DEF Held, GateTaken, Rotating, SignedIn
<1>8. \A x : UNCHANGED Resolve(x)
    BY <1>6 DEF Resolve
<1>9. \A x : UNCHANGED Awaited(x)
    BY <1>7, <1>8 DEF Awaited, SignedIn
<1>10. \A x : UNCHANGED IsLive(x)
    BY DEF IsLive, SignedIn, serverVars
<1>11. \A g : UNCHANGED Unused(g)
    BY <1>6, <1>7 DEF Unused, SignedIn, serverVars
<1>12. store.grant <= signIns /\ store \in Token /\ store \in Held
  <2>1. store \in Held /\ store.grant \in Grant
    BY <1>1 DEF Held, TypeOK, Token
  <2>2. ~Unused(store.grant)
    BY <2>1 DEF Unused
  <2>3. QED
    BY <2>1, <2>2, <1>1 DEF ChainInv, GrantsLanded, Grant, TypeOK
<1>13. /\ loop'.pc = IF provider.remembers THEN "names" ELSE "clear"
       /\ loop'.token = token /\ token \in loop'.aliases
    BY <1>2
<1>14. GrantsLanded'
  <2>1. token.grant <= signIns + 1
    BY <1>1, <1>3, <1>4, <1>12 DEF Token, Grant
  <2>2. epoch' = IF loop'.pc = "names" THEN signIns' - 1 ELSE signIns'
    BY <1>1, <1>2, <1>13
  <2>3. \A g \in Grant : g > signIns' => Unused(g)'
    BY <1>1, <1>11 DEF ChainInv, GrantsLanded, Grant
  <2>4. QED
    BY <2>1, <2>2, <2>3, <1>1, <1>13 DEF GrantsLanded, SignedIn, serverVars
<1>15. StaysPut'
    BY <1>6, <1>7 DEF ChainInv, StaysPut, SignedIn, serverVars
<1>16. BehindServer'
  <2>1. token.n <= live[token.grant]
    BY <1>3, <1>4, <1>12 DEF ChainInv, BehindServer, Unused
  <2>2. QED
    BY <2>1, <1>6, <1>7, <1>13 DEF ChainInv, BehindServer, SignedIn, serverVars
<1>17. HolderKnows' /\ OneSuccessor' /\ StoreFollows' /\ CacheFollows'
    BY <1>7, <1>8, <1>9, <1>10
    DEF ChainInv, HolderKnows, OneSuccessor, StoreFollows, CacheFollows, SignedIn, serverVars
<1>18. SignInStands'
    BY <1>1, <1>3, <1>4, <1>11, <1>13 DEF SignInStands, SignedIn, serverVars
<1>19. ForgottenStays'
  <2>1. ASSUME loop'.pc # "names" PROVE token = Fresh(signIns + 1)
    BY <2>1, <1>1, <1>4, <1>13, ProvidersAssumption DEF TypeOK
  <2>2. GateTaken => threads[gate].own \in Held
    BY DEF GateTaken, Held
  <2>3. GateTaken /\ loop'.pc # "names" => loop'.token.grant # threads[gate].own.grant
    BY <2>1, <2>2, <1>3, <1>13 DEF Unused
  <2>4. QED
    BY <2>3, <1>7, <1>13 DEF ForgottenStays, SignedIn
<1>20. QED
    BY <1>1, <1>14, <1>15, <1>16, <1>17, <1>18, <1>19 DEF ChainInv, SignedIn

\* A step of the sign-in that leaves the server, the store and the threads as they are.
LEMMA SignInStep ==
    ASSUME ChainInv, TypeOK', GrantsLanded', ForgottenStays', loop'.pc # "idle",
           loop.pc # "idle", loop'.token = loop.token, cache' \subseteq cache,
           UNCHANGED <<serverVars, threads, gate, rotations, store, known, signIns, lost, unsaved>>
    PROVE  ChainInv'
<1>1. Held' = Held /\ UNCHANGED GateTaken /\ UNCHANGED Rotating
    BY DEF Held, GateTaken, Rotating
<1>2. \A x : UNCHANGED Resolve(x) /\ UNCHANGED Awaited(x) /\ UNCHANGED IsLive(x)
    BY <1>1 DEF Resolve, Awaited, IsLive, serverVars
<1>3. \A g : Unused(g) => Unused(g)'
    BY <1>1 DEF Unused, serverVars
<1>4. StaysPut' /\ BehindServer' /\ HolderKnows'
    BY <1>1, <1>2 DEF ChainInv, StaysPut, BehindServer, HolderKnows, serverVars
<1>5. OneSuccessor' /\ StoreFollows' /\ CacheFollows'
    BY <1>1, <1>2 DEF ChainInv, OneSuccessor, StoreFollows, CacheFollows
<1>6. SignInStands'
    BY <1>3 DEF ChainInv, SignInStands, serverVars
<1>7. QED
    BY <1>4, <1>5, <1>6 DEF ChainInv

LEMMA RecordNamesChain == ASSUME ChainInv, RecordNames PROVE ChainInv'
<1>1. TypeOK /\ TypeOK' /\ loop.pc = "names" /\ epoch = signIns - 1 /\ epoch' = epoch + 1
    BY RecordNamesType DEF ChainInv, RecordNames, GrantsLanded
<1>2. loop'.pc = "clear" /\ loop'.token = loop.token /\ loop'.aliases = loop.aliases
    BY <1>1 DEF RecordNames, TypeOK
<1>3. loop.token \in loop.aliases /\ loop.aliases \subseteq forgotten'
    BY <1>1 DEF ChainInv, ForgottenStays, RecordNames
<1>4. ForgottenStays'
    BY <1>2, <1>3 DEF ForgottenStays
<1>5. Held' = Held
    BY DEF Held, RecordNames
<1>6. \A g : UNCHANGED Unused(g)
    BY <1>5 DEF Unused, RecordNames, serverVars
<1>7. epoch' = signIns'
    BY <1>1 DEF RecordNames, TypeOK
<1>8. GrantsLanded'
    BY <1>2, <1>6, <1>7 DEF ChainInv, GrantsLanded, RecordNames
<1>9. QED
    BY <1>1, <1>2, <1>4, <1>8, SignInStep DEF RecordNames

LEMMA ClearCacheChain == ASSUME ChainInv, ClearCache PROVE ChainInv'
<1>1. TypeOK /\ TypeOK' /\ loop.pc = "clear"
    BY ClearCacheType DEF ChainInv, ClearCache
<1>2. loop'.pc = "save" /\ loop'.token = loop.token /\ cache' \subseteq cache
    BY <1>1 DEF ClearCache, TypeOK
<1>3. \A entry \in cache' : entry.of # loop.token
    BY <1>1 DEF ChainInv, ForgottenStays, ClearCache
<1>4. ForgottenStays'
    BY <1>1, <1>2, <1>3 DEF ChainInv, ForgottenStays, GateTaken, ClearCache
<1>5. Held' = Held
    BY DEF Held, ClearCache
<1>6. \A g : Unused(g) => Unused(g)'
    BY <1>2, <1>5 DEF Unused, ClearCache, serverVars
<1>7. GrantsLanded'
    BY <1>1, <1>2, <1>6 DEF ChainInv, GrantsLanded, ClearCache
<1>8. QED
    BY <1>1, <1>2, <1>4, <1>7, SignInStep DEF ClearCache

LEMMA SaveTokenChain == ASSUME ChainInv, SaveToken PROVE ChainInv'
<1>1. TypeOK /\ TypeOK' /\ loop.pc = "save"
    BY SaveTokenType DEF ChainInv, SaveToken
<1>2. loop'.pc = "idle" /\ loop'.token = loop.token
    BY <1>1 DEF SaveToken, TypeOK
<1>3. UNCHANGED GateTaken /\ UNCHANGED Rotating
    BY DEF GateTaken, Rotating, SaveToken
<1>4. \A x : UNCHANGED Resolve(x) /\ UNCHANGED IsLive(x)
    BY DEF Resolve, IsLive, SaveToken, memoryVars, serverVars
<1>5. \A x : UNCHANGED Awaited(x)
    BY <1>3, <1>4 DEF Awaited, SaveToken
<1>6. SignInStands' /\ ForgottenStays' /\ StaysPut' /\ HolderKnows'
    BY <1>1, <1>2, <1>3, <1>4
    DEF ChainInv, SignInStands, ForgottenStays, StaysPut, HolderKnows, SaveToken, memoryVars, serverVars
<1>7. CASE Held' \subseteq Held /\ store' = store
  <2>1. \A g : Unused(g) => Unused(g)'
    BY <1>7 DEF Unused, SaveToken, memoryVars, serverVars
  <2>2. GrantsLanded'
    BY <1>1, <1>2, <2>1 DEF ChainInv, GrantsLanded, SaveToken, serverVars
  <2>3. BehindServer'
    BY <1>2, <1>7 DEF ChainInv, BehindServer, SaveToken, memoryVars, serverVars
  <2>4. OneSuccessor' /\ StoreFollows' /\ CacheFollows'
    BY <1>3, <1>4, <1>5, <1>7
    DEF ChainInv, OneSuccessor, StoreFollows, CacheFollows, SaveToken, memoryVars
  <2>5. QED
    BY <1>1, <1>6, <2>2, <2>3, <2>4 DEF ChainInv, SaveToken
<1>8. CASE loop.token = Fresh(signIns) /\ Unused(signIns) /\ store' = loop.token /\ known' = loop.token
  <2>1. loop.token.grant = signIns /\ loop.token.n = 0 /\ signIns \in Nat
    BY <1>1, <1>8 DEF Fresh, TypeOK
  <2>2. Held' \subseteq Held \cup {loop.token}
    BY <1>8 DEF Held, SaveToken
  <2>3. \A x \in Held : x.grant # loop.token.grant
    BY <2>1, <1>8 DEF Unused
  <2>4. IsLive(loop.token)
    BY <2>1, <1>8 DEF Unused, IsLive
  <2>5. Resolve(loop.token) = loop.token
    BY <2>1, <1>8 DEF Unused, Resolve
  <2>6. Awaited(loop.token) = loop.token
    <3>1. Rotating => threads[gate].own \in Held /\ threads[gate].presented.grant = threads[gate].own.grant
        BY DEF Rotating, GateTaken, Held, ChainInv, HolderKnows
    <3>2. Rotating => threads[gate].presented # loop.token
        BY <3>1, <2>3
    <3>3. QED
        BY <3>2, <2>5 DEF Awaited
  <2>7. \A g \in Grant : g > signIns /\ Unused(g) => Unused(g)'
    <3>1. \A g \in Grant : g > signIns => g # loop.token.grant
        BY <2>1 DEF Grant
    <3>2. QED
        BY <3>1, <2>2 DEF Unused, SaveToken, memoryVars, serverVars
  <2>8. GrantsLanded'
    BY <1>1, <1>2, <2>7 DEF ChainInv, GrantsLanded, SaveToken, serverVars
  <2>9. BehindServer'
    BY <1>2, <2>2 DEF ChainInv, BehindServer, SaveToken, memoryVars, serverVars
  <2>10. OneSuccessor'
    BY <1>4, <1>5, <2>2, <2>3, <2>4, <2>6 DEF ChainInv, OneSuccessor, SaveToken
  <2>11. StoreFollows'
    BY <1>4, <1>8, <2>4 DEF StoreFollows, IsLive, SaveToken, serverVars
  <2>12. CacheFollows'
    <3>1. \A entry \in cache : entry.of.grant # loop.token.grant
        BY <2>1, <1>8 DEF Unused
    <3>2. QED
        BY <1>3, <1>4, <2>2, <3>1 DEF ChainInv, CacheFollows, SaveToken, memoryVars
  <2>13. QED
    BY <1>1, <1>6, <2>8, <2>9, <2>10, <2>11, <2>12 DEF ChainInv, SaveToken
<1>9. QED
    BY <1>1, <1>7, <1>8 DEF ChainInv, SignInStands, SaveToken, Held

LEMMA RestartChain == ASSUME ChainInv, Restart PROVE ChainInv'
<1>1. TypeOK /\ TypeOK' /\ store \in Token /\ store \in Held
    BY RestartType DEF ChainInv, TypeOK, Held
<1>2. \A t \in Threads : threads'[t].own = store
    BY DEF Restart, Idle
<1>3. Held' = {store}
    BY <1>2 DEF Held, Restart
<1>4. DOMAIN rotations' = {} /\ cache' = {} /\ loop'.pc = "idle" /\ loop'.token = store
    BY DEF Restart, NoAliases
<1>5. ~GateTaken' /\ ~Rotating' /\ gate' = NoThread
    BY NoThreadAssumption DEF GateTaken, Rotating, Restart
<1>6. \A x : Resolve(x)' = x /\ Awaited(x)' = x
    BY <1>4, <1>5 DEF Resolve, Awaited
<1>7. \A g : Unused(g) => Unused(g)'
    BY <1>1, <1>3, <1>4 DEF Unused, Restart, serverVars
<1>8. GrantsLanded'
  <2>1. store.grant <= signIns
    <3>1. store.grant \in Grant /\ signIns \in Nat
        BY <1>1 DEF TypeOK, Token
    <3>2. ~Unused(store.grant)
        BY <1>1 DEF Unused
    <3>3. QED
        BY <3>1, <3>2 DEF ChainInv, GrantsLanded, Grant
  <2>2. QED
    BY <2>1, <1>4, <1>7 DEF ChainInv, GrantsLanded, Restart
<1>9. StaysPut' /\ HolderKnows'
    BY <1>4, <1>5 DEF ChainInv, StaysPut, HolderKnows, Restart, serverVars
<1>10. BehindServer'
    BY <1>1, <1>3, <1>4 DEF ChainInv, BehindServer, Restart, serverVars
<1>11. IsLive(store) \/ store.grant \in lost'
  <2>1. ASSUME GateTaken, threads[gate].pc = "persist", store = threads[gate].presented
        PROVE  store.grant \in lost'
    <3>1. threads[gate].rotated.grant = store.grant
        BY <2>1 DEF ChainInv, HolderKnows
    <3>2. QED
        BY <2>1, <3>1 DEF Restart, GateTaken
  <2>2. QED
    BY <2>1 DEF ChainInv, StoreFollows, Restart
<1>12. OneSuccessor' /\ StoreFollows'
    BY <1>3, <1>6, <1>11 DEF OneSuccessor, StoreFollows, IsLive, Restart, serverVars
<1>13. CacheFollows' /\ SignInStands' /\ ForgottenStays'
    BY <1>4, <1>5 DEF CacheFollows, SignInStands, ForgottenStays
<1>14. QED
    BY <1>1, <1>5, <1>8, <1>9, <1>10, <1>12, <1>13 DEF ChainInv
LEMMA NextChain == ASSUME ChainInv, [Next]_vars PROVE ChainInv'
<1>1. ASSUME NEW t \in Threads,
             \/ Request(t) \/ Enter(t) \/ Exchanged(t) \/ Refused(t)
             \/ Persist(t) \/ Note(t) \/ Settle(t)
      PROVE  ChainInv'
    BY <1>1, RequestChain, EnterChain, ExchangedChain, RefusedChain, PersistChain, NoteChain,
       SettleChain
<1>2. CASE Expire
    BY <1>2, ExpireChain
<1>3. CASE SignedIn \/ RecordNames \/ ClearCache \/ SaveToken
    BY <1>3, SignedInChain, RecordNamesChain, ClearCacheChain, SaveTokenChain
<1>4. CASE OtherSaved \/ Restart
    BY <1>4, OtherSavedChain, RestartChain
<1>5. CASE UNCHANGED vars
    BY <1>5, StutterChain
<1>6. QED
    BY <1>1, <1>2, <1>3, <1>4, <1>5 DEF Next

-----------------------------------------------------------------------------
(* What follows from the chain.                                            *)

LEMMA ChainImpliesHeld == ChainInv => ChainIsHeld
<1> SUFFICES ASSUME ChainInv PROVE ChainIsHeld
    OBVIOUS
<1>1. PresentedIsLive
  <2> SUFFICES ASSUME NEW t \in Threads, threads[t].pc = "out"
               PROVE  \/ IsLive(threads[t].presented)
                      \/ threads[t].presented.grant \in lost
    BY DEF PresentedIsLive
  <2>1. gate = t /\ GateTaken /\ threads[t].own \in Held
    BY HolderFacts DEF ChainInv
  <2>2. /\ Resolve(threads[t].own) = threads[t].presented
        /\ threads[t].presented.grant = threads[t].own.grant
    BY <2>1 DEF ChainInv, HolderKnows
  <2>3. Awaited(threads[t].own) = threads[t].presented
    BY <2>1, <2>2 DEF Awaited, Rotating
  <2>4. QED
    BY <2>1, <2>2, <2>3 DEF ChainInv, OneSuccessor
<1>2. StoreIsLive
    BY DEF ChainInv, StoreFollows, StoreIsLive, HolderKnows, GateTaken
<1>3. QED
    BY <1>1, <1>2 DEF ChainIsHeld

LEMMA ChainImpliesCurrent == ChainInv => BearersAreCurrent
<1> SUFFICES ASSUME ChainInv PROVE BearersAreCurrent
    OBVIOUS
<1>1. ExchangeIsNeeded
  <2> SUFFICES ASSUME NEW t \in Threads, threads[t].pc = "out", NEW entry \in cache
               PROVE  entry.of.grant # threads[t].presented.grant
    BY DEF ExchangeIsNeeded
  <2>1. gate = t /\ GateTaken
    BY HolderFacts DEF ChainInv
  <2>2. QED
    BY <2>1 DEF ChainInv, CacheFollows, HolderKnows
<1>2. NothingOutlivesSignIn
    BY DEF ChainInv, ForgottenStays, NothingOutlivesSignIn
<1>3. QED
    BY <1>1, <1>2 DEF BearersAreCurrent

\* Nothing but a sign-in's own token takes the place of a grant in the store.
LEMMA StoreStep == ASSUME ChainInv, [Next]_vars PROVE store'.grant >= store.grant
<1>1. store \in Token /\ store.grant \in Nat
    BY DEF ChainInv, TypeOK, Token, Grant
<1>2. ASSUME NEW t \in Threads, Persist(t) PROVE store'.grant = store.grant
  <2>1. threads[t].rotated.grant = threads[t].own.grant /\ threads[t].presented.grant = threads[t].own.grant
    BY <1>2, RotatedIsNext DEF Persist
  <2>2. QED
    BY <1>2, <2>1 DEF Persist, Replaces
<1>3. CASE SaveToken
  <2>1. CASE store' = store
    BY <2>1, <1>1
  <2>2. CASE store' = Fresh(signIns)
    <3>1. store \in Held /\ store.grant \in Grant /\ signIns \in Nat
        BY <1>1 DEF Held, ChainInv, TypeOK, Token
    <3>2. ~Unused(store.grant)
        BY <3>1 DEF Unused
    <3>3. store.grant <= signIns
        BY <3>1, <3>2 DEF ChainInv, GrantsLanded, Grant
    <3>4. QED
        BY <2>2, <3>3, <3>1, <1>1 DEF Fresh
  <2>3. QED
    BY <1>3, <2>1, <2>2 DEF SaveToken, ChainInv, SignInStands
<1>4. UNCHANGED store \/ SaveToken \/ \E t \in Threads : Persist(t)
    BY DEF Next, Request, Enter, Exchanged, Refused, Note, Settle, Expire, SignedIn, RecordNames,
           ClearCache, OtherSaved, Restart, vars
<1>5. QED
    BY <1>1, <1>2, <1>3, <1>4

\* Every token the program holds of a grant leads to one successor, which is the live one
\* unless it was lost: in any interleaving of the threads, the sign-ins and restarts.
THEOREM ChainHolds == Spec => []ChainInv
<1>1. Init => ChainInv
    BY InitChain
<1>2. ChainInv /\ [Next]_vars => ChainInv'
    BY NextChain
<1>3. QED
    BY <1>1, <1>2, PTL DEF Spec

\* At most one thread is between the gate and the end of authorize_with, and note_rotation
\* keeps the alias map one hop deep whatever order rotations and sign-ins come in.
THEOREM RefreshTypes == Spec => []TypeOK
<1>1. ChainInv => TypeOK
    BY DEF ChainInv
<1>2. QED
    BY <1>1, ChainHolds, PTL

\* A refresh presents the token its provider has not retired, in this session and in one
\* started on the store, for any number of threads, sign-ins and rotations: only an answer
\* or a write that is lost breaks the chain.
THEOREM TokenChainIsHeld == Spec => []ChainIsHeld
<1>1. QED
    BY ChainImpliesHeld, ChainHolds, PTL

\* No exchange goes out while a bearer of its grant is cached (the second look of
\* authorize_with, under the gate), and a bearer whose refresh was sent before a sign-in
\* never answers for the token that sign-in brought (forget).
THEOREM BearersStayCurrent == Spec => []BearersAreCurrent
<1>1. QED
    BY ChainImpliesCurrent, ChainHolds, PTL

\* persist_refresh_to writes a rotated token only over its own chain, so that no late
\* rotation undoes a sign-in that was saved meanwhile.
THEOREM NewestTokenStands == Spec => NewestStands
<1>1. ChainInv /\ [Next]_vars => store'.grant >= store.grant
    BY StoreStep
<1>2. ChainInv /\ [Next]_vars => [store'.grant >= store.grant]_vars
    BY <1>1
<1>3. QED
    BY <1>2, ChainHolds, PTL DEF Spec, NewestStands
=============================================================================
