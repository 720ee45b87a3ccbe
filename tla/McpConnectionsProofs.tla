------------------------ MODULE McpConnectionsProofs ------------------------
(***************************************************************************)
(* The connections of one MCP server, for any server, any number of calls, *)
(* operations and sign-ins.  A generation says all that is needed: whoever *)
(* comes back with the current one still means the live connection, and a  *)
(* connect under way that has it may land.                                 *)
(***************************************************************************)
EXTENDS McpConnections, SequenceTheorems, TLAPS

\* Whoever still has a connection of the current generation has the live one.
HoldersFit ==
    /\ \A g \in Referenced : /\ g <= server.generation
                             /\ g = server.generation => server.transport = g
    /\ \A c \in Calls :
          /\ calls[c].gen <= server.generation
          /\ calls[c].gen = server.generation =>
                calls[c].on = server.transport /\ server.transport # None

\* A connect that may still land is awaited and allowed.
ConnectsFit ==
    /\ server.generation # None
    /\ server.generation \in connects => server.status = "pending" /\ Connectable

\* A listing of the connection in use has the flag that keeps a second one away.
ListingsFit ==
    \A w \in listings : w.on = server.generation => server.relisting

\* What the switches leave of a server, and what the menu can say of it.
SwitchesFit ==
    /\ Held => server.status \in {"review", "disabled"}
    /\ ~inner.active => /\ server.status \in {"off", "disabled", "review"}
                        /\ inner.authFlow = None
                        /\ ui.shown \in {"closed", "off", "disabled", "review"}

\* The sign-in on record has a thread that was not told to stop.
FlowsFit ==
    /\ inner.authFlow # None => /\ flows[inner.authFlow].pc \in {"wait", "exchange"}
                                /\ ~flows[inner.authFlow].cancelled
    /\ \A f \in Flow : flows[f].pc = "idle" => ~flows[f].cancelled

McpInv ==
    /\ TypeOK
    /\ HoldersFit
    /\ ConnectsFit
    /\ ListingsFit
    /\ SwitchesFit
    /\ FlowsFit
    /\ PendingConnects
    /\ PageHasItsFlow
    /\ ToolsAreLive
    /\ ChangeIsListed

-----------------------------------------------------------------------------
(* Types.                                                                  *)

Servers == [status : Statuses, generation : Generation, transport : Generation,
            tools : Tools, relisting : BOOLEAN, again : BOOLEAN, cooling : BOOLEAN]
CallStates == [pc : {"idle", "sent", "back", "spawn", "done"}, on : Generation,
               gen : Generation, result : {"none", "ok", "died", "refused"},
               relisted : {NoList} \cup Catalogs, left : Generation]
FlowStates == [pc : {"idle", "wait", "exchange", "spawn", "done"}, cancelled : BOOLEAN]
ListingStates == [on : Generation, list : {NoList} \cup Catalogs]
Events == {"changed", "done"}

\* A server as far as its own fields go, and the workers' generations.
ServerFits ==
    /\ server \in Servers
    /\ server.transport # None <=> server.status = "connected"
WorkersFit ==
    /\ connects \subseteq 1 .. server.generation
    /\ \A w \in listings : w.on \in 1 .. server.generation
    /\ listings \subseteq ListingStates
    /\ \A v, w \in listings : v.on = w.on => v = w
ThreadsFit ==
    /\ calls \in [Calls -> CallStates]
    /\ flows \in [Flow -> FlowStates]
LoopFits ==
    /\ inner \in [active : BOOLEAN, disabled : BOOLEAN, held : {"no", "review", "declined"},
                  authFlow : {None} \cup Flow]
    /\ loop \in {"idle", "start", "spawn", "enable"}
    /\ events \in Seq(Events)
    /\ ui \in [shown : Statuses \cup {"closed"}, page : {None} \cup Flow, attached : Tools]
    /\ ops \in 0 .. MaxOps

LEMMA TypeParts ==
    TypeOK <=> /\ ServerFits /\ WorkersFit /\ ThreadsFit /\ LoopFits
               /\ entry \in Entries /\ owed \in BOOLEAN
BY DEF TypeOK, ServerFits, WorkersFit, ThreadsFit, LoopFits, Servers, CallStates, FlowStates,
       ListingStates, Events

LEMMA TypePartsNext ==
    TypeOK' <=> /\ ServerFits' /\ WorkersFit' /\ ThreadsFit' /\ LoopFits'
                /\ entry' \in Entries /\ owed' \in BOOLEAN
BY DEF TypeOK, ServerFits, WorkersFit, ThreadsFit, LoopFits, Servers, CallStates, FlowStates,
       ListingStates, Events

LEMMA NoToolsType == NoTools \in Tools /\ NoTools.from = None
BY DEF NoTools, Tools, Generation, None

\* An event sent is an event unread, and none is lost by it.
LEMMA SentFacts ==
    ASSUME events \in Seq(Events), NEW event \in Events
    PROVE  /\ Sent(event) \in Seq(Events)
           /\ Sent(event) # <<>>
           /\ Contains(events, "done") => Contains(Sent(event), "done")
           /\ event = "done" => Contains(Sent(event), "done")
<1>1. CASE event = "changed" /\ events # <<>> /\ Last(events) = "changed"
    BY <1>1 DEF Sent
<1>2. CASE ~(event = "changed" /\ events # <<>> /\ Last(events) = "changed")
  <2>1. Sent(event) = Append(events, event)
    BY <1>2 DEF Sent
  <2>2. /\ Append(events, event) \in Seq(Events) /\ Append(events, event) # <<>>
        /\ Len(Append(events, event)) = Len(events) + 1 /\ Len(events) \in Nat
        /\ \A i \in 1 .. Len(events) : Append(events, event)[i] = events[i]
        /\ Append(events, event)[Len(events) + 1] = event
    BY AppendProperties, LenProperties
  <2>3. QED
    BY <2>1, <2>2 DEF Contains
<1>3. QED
    BY <1>1, <1>2

\* drop_connection, and the status a caller gives.
LEMMA DropFacts ==
    ASSUME ServerFits, NEW status \in Statuses \ {"connected"}
    PROVE  LET dropped == [Drop(server) EXCEPT !.status = status] IN
           /\ dropped \in Servers
           /\ dropped.status = status /\ dropped.generation = server.generation + 1
           /\ dropped.transport = None /\ dropped.tools = NoTools
           /\ dropped.relisting = server.relisting /\ dropped.again = server.again
<1> DEFINE gone == Drop(server)
<1>1. server \in Servers /\ server.generation + 1 \in Generation /\ None \in Generation
    BY DEF ServerFits, Servers, Generation, None
<1>2. /\ gone \in Servers /\ gone.generation = server.generation + 1
      /\ gone.transport = None /\ gone.tools = NoTools
      /\ gone.relisting = server.relisting /\ gone.again = server.again
    BY <1>1, NoToolsType DEF Servers, Drop
<1> HIDE DEF gone
<1>3. /\ [gone EXCEPT !.status = status] \in Servers
      /\ [gone EXCEPT !.status = status].status = status
      /\ [gone EXCEPT !.status = status].generation = gone.generation
      /\ [gone EXCEPT !.status = status].transport = gone.transport
      /\ [gone EXCEPT !.status = status].tools = gone.tools
      /\ [gone EXCEPT !.status = status].relisting = gone.relisting
      /\ [gone EXCEPT !.status = status].again = gone.again
    BY <1>2 DEF Servers
<1>4. QED
    BY <1>2, <1>3 DEF gone

\* What spawn_connect does: nothing to a held server.
LEMMA SpawnFacts ==
    ASSUME McpInv, SpawnConnect
    PROVE  /\ events' \in Seq(Events)
           /\ Contains(events, "done") => Contains(events', "done")
           /\ \/ Held /\ UNCHANGED <<server, connects, events>>
              \/ /\ ~Held /\ events' # <<>>
                 /\ server' \in Servers
                 /\ server'.generation = server.generation + 1
                 /\ server'.transport = None /\ server'.tools = NoTools
                 /\ server'.relisting = server.relisting
                 /\ server'.status \in {"pending", "off", "disabled"}
                 /\ server'.status = "pending" <=> inner.active
                 /\ connects' = IF inner.active THEN connects \cup {server'.generation}
                                ELSE connects
<1>1. ServerFits /\ events \in Seq(Events)
    BY TypeParts DEF McpInv, LoopFits
<1>2. CASE Held
    BY <1>1, <1>2 DEF SpawnConnect, Connectable
<1>3. CASE ~Held
  <2> DEFINE status == IF inner.active THEN "pending" ELSE IF inner.disabled THEN "disabled" ELSE "off"
  <2>1. status \in {"pending", "off", "disabled"} /\ status \in Statuses \ {"connected"}
        /\ (status = "pending" <=> inner.active)
    BY DEF Statuses
  <2>2. server' = [Drop(server) EXCEPT !.status = status] /\ events' = Sent("changed")
        /\ connects' = IF inner.active THEN connects \cup {server'.generation} ELSE connects
    BY <1>3 DEF SpawnConnect, Connectable
  <2> HIDE DEF status
  <2>3. /\ server' \in Servers
        /\ server'.status = status /\ server'.generation = server.generation + 1
        /\ server'.transport = None /\ server'.tools = NoTools
        /\ server'.relisting = server.relisting
    BY <1>1, <2>1, <2>2, DropFacts
  <2>4. events' \in Seq(Events) /\ events' # <<>> /\ (Contains(events, "done") => Contains(events', "done"))
    BY <1>1, <2>2, SentFacts DEF Events
  <2>5. QED
    BY <1>3, <2>1, <2>2, <2>3, <2>4
<1>4. QED
    BY <1>2, <1>3

\* A step that drops the connection and forgets no listing: who still has an older
\* generation keeps it, and nothing is kept, offered or owed.
LEMMA DroppedStep ==
    ASSUME McpInv, server' \in Servers, server'.generation = server.generation + 1,
           server'.transport = None, server'.tools = NoTools, server'.status # "connected",
           events' # <<>>, UNCHANGED listings,
           \A c \in Calls : \/ UNCHANGED calls[c]
                            \/ calls'[c].on = None /\ calls'[c].gen = None
    PROVE  /\ HoldersFit' /\ ListingsFit' /\ ToolsAreLive' /\ ChangeIsListed' /\ ServerFits'
           /\ \A w \in listings' : w.on \in 1 .. server'.generation
<1>1. server.generation \in Nat /\ WorkersFit /\ server \in Servers
    BY TypeParts DEF McpInv, ServerFits, Servers, Generation
<1>2. \A w \in listings : w.on \in 1 .. server.generation
    BY <1>1 DEF WorkersFit
<1>3. \A g \in Referenced : g <= server.generation
    BY DEF McpInv, HoldersFit
<1>4. \A g \in Referenced' : g <= server.generation
  <2>1. \A c \in Calls : calls'[c].on <= server.generation
    BY <1>1, <1>3 DEF Referenced, None
  <2>2. \A w \in listings' : w.on <= server.generation
    BY <1>3 DEF Referenced
  <2>3. QED
    BY <1>1, <2>1, <2>2 DEF Referenced, None
<1>5. \A c \in Calls : calls'[c].gen <= server.generation
    BY <1>1 DEF McpInv, HoldersFit, None
<1>6. \A g : g <= server.generation => g # server'.generation
    BY <1>1
<1>7. \A g \in Referenced' : g \in Nat
  <2>1. \A c \in Calls : calls'[c].on \in Nat
    BY TypeParts DEF McpInv, ThreadsFit, CallStates, Generation, None
  <2>2. QED
    BY <1>2, <2>1 DEF Referenced, None
<1>8. \A c \in Calls : calls'[c].gen \in Nat
    BY TypeParts DEF McpInv, ThreadsFit, CallStates, Generation, None
<1>9. HoldersFit'
    BY <1>1, <1>4, <1>5, <1>7, <1>8 DEF HoldersFit
<1>10. ListingsFit'
    BY <1>1, <1>2 DEF ListingsFit
<1>11. ToolsAreLive' /\ ChangeIsListed' /\ ServerFits'
    BY NoToolsType DEF ToolsAreLive, ChangeIsListed, InUse, ServerFits
<1>12. QED
    BY <1>1, <1>2, <1>9, <1>10, <1>11

\* A step that leaves the server, its workers and the switches as they are, and tells
\* what it tells.
LEMMA SameStep ==
    ASSUME McpInv, UNCHANGED <<server, connects, listings, inner, ui, owed>>,
           UNCHANGED loop \/ server.status # "pending",
           events' # <<>> \/ UNCHANGED events,
           \A c \in Calls : \/ UNCHANGED calls[c]
                            \/ calls'[c].on = None /\ calls'[c].gen = None
    PROVE  /\ ServerFits' /\ WorkersFit' /\ HoldersFit' /\ ConnectsFit' /\ ListingsFit'
           /\ SwitchesFit' /\ PendingConnects' /\ ToolsAreLive' /\ ChangeIsListed'
<1>1. /\ ServerFits /\ WorkersFit /\ ThreadsFit /\ server.generation \in Nat
      /\ \A c \in Calls : calls[c].on \in Nat /\ calls[c].gen \in Nat
      /\ server.generation # None
    BY TypeParts DEF McpInv, ServerFits, Servers, ThreadsFit, CallStates, Generation, ConnectsFit
<1>2. HoldersFit'
  <2>1. Referenced' \subseteq Referenced \cup {None}
    BY DEF Referenced
  <2>2. \A g \in Referenced' : /\ g <= server.generation
                               /\ g = server.generation => server.transport = g
    BY <2>1, <1>1 DEF McpInv, HoldersFit, None
  <2>3. QED
    BY <2>2, <1>1 DEF McpInv, HoldersFit, None
<1>3. ServerFits' /\ WorkersFit' /\ ListingsFit' /\ ToolsAreLive' /\ ChangeIsListed'
    BY <1>1 DEF McpInv, ServerFits, WorkersFit, ListingsFit, ToolsAreLive, ChangeIsListed,
       Offered, InUse, ListingNow, FlagLeft
<1>4. ConnectsFit' /\ SwitchesFit' /\ PendingConnects'
    BY DEF McpInv, ConnectsFit, SwitchesFit, PendingConnects, Connectable, Held
<1>5. QED
    BY <1>2, <1>3, <1>4

\* A step of which spawn_connect is all the server sees.
LEMMA SpawnStep ==
    ASSUME McpInv, SpawnConnect, UNCHANGED <<inner, listings, ui, owed>>,
           \A c \in Calls : \/ UNCHANGED calls[c]
                            \/ calls'[c].on = None /\ calls'[c].gen = None
    PROVE  /\ ServerFits' /\ WorkersFit' /\ HoldersFit' /\ ConnectsFit' /\ ListingsFit'
           /\ SwitchesFit' /\ PendingConnects' /\ PageHasItsFlow' /\ ToolsAreLive' /\ ChangeIsListed'
           /\ events' \in Seq(Events)
<1>1. /\ ServerFits /\ WorkersFit /\ ThreadsFit /\ server.generation \in Nat
      /\ \A c \in Calls : calls[c].on \in Nat /\ calls[c].gen \in Nat
      /\ server.generation # None
    BY TypeParts DEF McpInv, ServerFits, Servers, ThreadsFit, CallStates, Generation, ConnectsFit
<1>2. PageHasItsFlow' /\ events' \in Seq(Events)
    BY SpawnFacts DEF McpInv, PageHasItsFlow
<1>3. CASE Held /\ UNCHANGED <<server, connects, events>>
  <2>1. UNCHANGED loop \/ server.status # "pending"
    BY <1>3 DEF McpInv, SwitchesFit
  <2>2. QED
    BY <1>2, <1>3, <2>1, SameStep
<1>4. CASE /\ ~Held /\ events' # <<>>
           /\ server' \in Servers
           /\ server'.generation = server.generation + 1
           /\ server'.transport = None /\ server'.tools = NoTools
           /\ server'.relisting = server.relisting
           /\ server'.status \in {"pending", "off", "disabled"}
           /\ server'.status = "pending" <=> inner.active
           /\ connects' = IF inner.active THEN connects \cup {server'.generation}
                          ELSE connects
  <2>1. /\ HoldersFit' /\ ListingsFit' /\ ToolsAreLive' /\ ChangeIsListed' /\ ServerFits'
        /\ \A w \in listings' : w.on \in 1 .. server'.generation
    BY <1>4, DroppedStep
  <2>2. WorkersFit'
    <3>1. connects \subseteq 1 .. server.generation
        BY <1>1 DEF WorkersFit
    <3>2. connects' \subseteq connects \cup {server'.generation}
        BY <1>4
    <3>3. /\ 1 .. server.generation \subseteq 1 .. server'.generation
          /\ server'.generation \in 1 .. server'.generation
        BY <1>1, <1>4
    <3>4. connects' \subseteq 1 .. server'.generation
        BY <3>1, <3>2, <3>3
    <3>5. QED
        BY <2>1, <3>4, <1>1 DEF WorkersFit
  <2>3. ~Held' /\ (server'.generation \in connects' <=> inner.active)
    BY <1>1, <1>4 DEF WorkersFit, Held
  <2>4. ConnectsFit' /\ PendingConnects' /\ SwitchesFit'
    BY <2>3, <1>1, <1>4 DEF McpInv, ConnectsFit, PendingConnects, SwitchesFit, Connectable, None
  <2>5. QED
    BY <1>2, <2>1, <2>2, <2>4
<1>5. QED
    BY <1>3, <1>4, SpawnFacts

LEMMA LoopSpawnsKeeps == ASSUME McpInv, LoopSpawns PROVE McpInv'
<1>1. ThreadsFit' /\ entry' \in Entries /\ owed' \in BOOLEAN /\ FlowsFit'
    BY TypeParts DEF McpInv, LoopSpawns, ThreadsFit, threadVars, FlowsFit
<1>2. SpawnConnect /\ UNCHANGED <<inner, listings, ui, owed, calls>>
    BY DEF LoopSpawns, threadVars
<1>3. /\ ServerFits' /\ WorkersFit' /\ HoldersFit' /\ ConnectsFit' /\ ListingsFit'
      /\ SwitchesFit' /\ PendingConnects' /\ PageHasItsFlow' /\ ToolsAreLive' /\ ChangeIsListed'
      /\ events' \in Seq(Events)
    BY <1>2, SpawnStep
<1>4. LoopFits'
    BY <1>3, TypeParts DEF McpInv, LoopSpawns, LoopFits
<1>5. QED
    BY <1>1, <1>3, <1>4, TypePartsNext DEF McpInv

LEMMA CallSpawnsKeeps == ASSUME McpInv, NEW c \in Calls, CallSpawns(c) PROVE McpInv'
<1>1. /\ TypeOK /\ calls' = [calls EXCEPT ![c] = Done] /\ Done \in CallStates
      /\ Done.on = None /\ Done.gen = None
    BY DEF McpInv, CallSpawns, Done, Idle, CallStates, Generation, None
<1>2. ThreadsFit' /\ entry' \in Entries /\ owed' \in BOOLEAN /\ FlowsFit'
    BY <1>1, TypeParts DEF McpInv, CallSpawns, ThreadsFit, FlowsFit
<1>3. SpawnConnect /\ UNCHANGED <<inner, listings, ui, owed>>
    BY DEF CallSpawns
<1>4. \A d \in Calls : UNCHANGED calls[d] \/ (calls'[d].on = None /\ calls'[d].gen = None)
    BY <1>1, TypeParts DEF ThreadsFit
<1>5. /\ ServerFits' /\ WorkersFit' /\ HoldersFit' /\ ConnectsFit' /\ ListingsFit'
      /\ SwitchesFit' /\ PendingConnects' /\ PageHasItsFlow' /\ ToolsAreLive' /\ ChangeIsListed'
      /\ events' \in Seq(Events)
    BY <1>3, <1>4, SpawnStep
<1>6. LoopFits'
    BY <1>5, TypeParts DEF McpInv, CallSpawns, LoopFits
<1>7. QED
    BY <1>2, <1>5, <1>6, TypePartsNext DEF McpInv

LEMMA FlowSpawnsKeeps == ASSUME McpInv, NEW f \in Flow, FlowSpawns(f) PROVE McpInv'
<1>1. TypeOK /\ flows' = [flows EXCEPT ![f].pc = "done"] /\ flows[f].pc = "spawn"
    BY DEF McpInv, FlowSpawns
<1>2. ThreadsFit' /\ entry' \in Entries /\ owed' \in BOOLEAN
    BY <1>1, TypeParts DEF FlowSpawns, ThreadsFit, FlowStates
<1>3. FlowsFit'
    BY <1>1, TypeParts DEF McpInv, FlowSpawns, FlowsFit, ThreadsFit, FlowStates
<1>4. SpawnConnect /\ UNCHANGED <<inner, listings, ui, owed, calls>>
    BY DEF FlowSpawns
<1>5. /\ ServerFits' /\ WorkersFit' /\ HoldersFit' /\ ConnectsFit' /\ ListingsFit'
      /\ SwitchesFit' /\ PendingConnects' /\ PageHasItsFlow' /\ ToolsAreLive' /\ ChangeIsListed'
      /\ events' \in Seq(Events)
    BY <1>4, SpawnStep
<1>6. LoopFits'
    BY <1>5, TypeParts DEF McpInv, FlowSpawns, LoopFits
<1>7. QED
    BY <1>2, <1>3, <1>5, <1>6, TypePartsNext DEF McpInv

LEMMA ReconnectKeeps == ASSUME McpInv, Reconnect PROVE McpInv'
<1>1. ThreadsFit' /\ entry' \in Entries /\ owed' \in BOOLEAN /\ FlowsFit'
    BY TypeParts DEF McpInv, Reconnect, ThreadsFit, threadVars, FlowsFit
<1>2. SpawnConnect /\ UNCHANGED <<inner, listings, ui, owed, calls>>
    BY DEF Reconnect, threadVars
<1>3. /\ ServerFits' /\ WorkersFit' /\ HoldersFit' /\ ConnectsFit' /\ ListingsFit'
      /\ SwitchesFit' /\ PendingConnects' /\ PageHasItsFlow' /\ ToolsAreLive' /\ ChangeIsListed'
      /\ events' \in Seq(Events)
    BY <1>2, SpawnStep
<1>4. ops' \in 0 .. MaxOps
    BY TypeParts, McpBoundsAssumption DEF McpInv, Reconnect, Acts, LoopFits
<1>5. LoopFits'
    BY <1>3, <1>4, TypeParts DEF McpInv, Reconnect, LoopFits
<1>6. QED
    BY <1>1, <1>3, <1>5, TypePartsNext DEF McpInv

\* A step that ends a connection, or its connect, and leaves the sign-ins be.
LEMMA EndedStep ==
    ASSUME McpInv, NEW status \in Statuses \ {"connected", "pending"},
           server' = [Drop(server) EXCEPT !.status = status],
           events' = Sent("changed"), UNCHANGED <<connects, listings>>,
           \A c \in Calls : \/ UNCHANGED calls[c]
                            \/ calls'[c].on = None /\ calls'[c].gen = None
    PROVE  /\ ServerFits' /\ WorkersFit' /\ HoldersFit' /\ ConnectsFit' /\ ListingsFit'
           /\ PendingConnects' /\ ToolsAreLive' /\ ChangeIsListed'
           /\ server'.status = status
<1>1. ServerFits /\ WorkersFit /\ LoopFits /\ server.generation \in Nat
    BY TypeParts DEF McpInv, ServerFits, Servers, Generation
<1>2. /\ server' \in Servers
      /\ server'.status = status /\ server'.generation = server.generation + 1
      /\ server'.transport = None /\ server'.tools = NoTools
    BY <1>1, DropFacts
<1>3. events' # <<>>
    BY <1>1, SentFacts DEF LoopFits, Events
<1>4. /\ HoldersFit' /\ ListingsFit' /\ ToolsAreLive' /\ ChangeIsListed' /\ ServerFits'
      /\ \A w \in listings' : w.on \in 1 .. server'.generation
    BY <1>2, <1>3, DroppedStep
<1>5. connects \subseteq 1 .. server.generation
    BY <1>1 DEF WorkersFit
<1>6. connects' \subseteq 1 .. server'.generation /\ server'.generation \notin connects'
    BY <1>1, <1>2, <1>5
<1>7. WorkersFit'
    BY <1>1, <1>4, <1>6 DEF WorkersFit
<1>8. ConnectsFit' /\ PendingConnects'
    BY <1>1, <1>2, <1>6 DEF ConnectsFit, PendingConnects, None
<1>9. QED
    BY <1>2, <1>4, <1>7, <1>8

LEMMA DisableKeeps == ASSUME McpInv, Disable PROVE McpInv'
<1>1. ThreadsFit' /\ entry' \in Entries /\ owed' \in BOOLEAN
    BY TypeParts DEF McpInv, Disable, ThreadsFit, threadVars
<1>2. events' \in Seq(Events) /\ (Contains(events, "done") => Contains(events', "done"))
    BY SentFacts, TypeParts DEF McpInv, Disable, LoopFits, Events
<1>3. ops' \in 0 .. MaxOps
    BY TypeParts, McpBoundsAssumption DEF McpInv, Disable, Acts, LoopFits
<1>4. /\ inner' \in [active : BOOLEAN, disabled : BOOLEAN, held : {"no", "review", "declined"},
                     authFlow : {None} \cup Flow]
      /\ inner'.active = inner.active /\ inner'.authFlow = inner.authFlow
    BY TypeParts DEF McpInv, Disable, LoopFits
<1>5. LoopFits'
    BY <1>2, <1>3, <1>4, TypeParts DEF McpInv, Disable, LoopFits
<1>6. /\ "disabled" \in Statuses \ {"connected", "pending"}
      /\ server' = [Drop(server) EXCEPT !.status = "disabled"] /\ events' = Sent("changed")
      /\ UNCHANGED <<connects, listings, owed, entry, calls, flows, ui>>
    BY DEF Disable, Statuses, threadVars
<1>7. /\ ServerFits' /\ WorkersFit' /\ HoldersFit' /\ ConnectsFit' /\ ListingsFit'
      /\ PendingConnects' /\ ToolsAreLive' /\ ChangeIsListed'
      /\ server'.status = "disabled"
    BY <1>6, EndedStep
<1>8. SwitchesFit' /\ FlowsFit' /\ PageHasItsFlow'
    BY <1>2, <1>4, <1>6, <1>7 DEF McpInv, SwitchesFit, FlowsFit, PageHasItsFlow
<1>9. QED
    BY <1>1, <1>5, <1>7, <1>8, TypePartsNext DEF McpInv

\* A call that still has the current generation has the live connection, and so the
\* server is connected, switched on and past its review.
LEMMA CallHoldsLive ==
    ASSUME McpInv, NEW c \in Calls, calls[c].gen = server.generation
    PROVE  /\ calls[c].on = server.transport /\ server.transport # None
           /\ server.status = "connected" /\ Connectable
<1>1. calls[c].on = server.transport /\ server.transport # None
    BY DEF McpInv, HoldersFit
<1>2. server.status = "connected"
    BY <1>1, TypeParts DEF McpInv, ServerFits
<1>3. Connectable
    BY <1>2 DEF McpInv, SwitchesFit, Connectable
<1>4. QED
    BY <1>1, <1>2, <1>3

LEMMA CallRefusedKeeps == ASSUME McpInv, NEW c \in Calls, CallRefused(c) PROVE McpInv'
<1>1. /\ calls' = [calls EXCEPT ![c] = Done] /\ Done \in CallStates
      /\ Done.on = None /\ Done.gen = None /\ events' = Sent("changed")
      /\ UNCHANGED <<inner, connects, listings, flows, entry, loop, ui, owed, ops>>
    BY DEF CallRefused, Done, Idle, CallStates, Generation, None
<1>2. ThreadsFit' /\ entry' \in Entries /\ owed' \in BOOLEAN /\ FlowsFit'
    BY <1>1, TypeParts DEF McpInv, ThreadsFit, FlowsFit
<1>3. /\ events' \in Seq(Events) /\ events' # <<>>
      /\ Contains(events, "done") => Contains(events', "done")
    BY <1>1, SentFacts, TypeParts DEF McpInv, LoopFits, Events
<1>4. LoopFits' /\ PageHasItsFlow'
    BY <1>1, <1>3, TypeParts DEF McpInv, LoopFits, PageHasItsFlow
<1>5. \A d \in Calls : UNCHANGED calls[d] \/ (calls'[d].on = None /\ calls'[d].gen = None)
    BY <1>1, TypeParts DEF McpInv, ThreadsFit
<1>6. CASE server.generation = calls[c].gen
  <2>1. Connectable
    BY <1>6, CallHoldsLive
  <2>2. "auth" \in Statuses \ {"connected", "pending"}
    BY DEF Statuses
  <2>3. server' = [Drop(server) EXCEPT !.status = "auth"]
    BY <1>6 DEF CallRefused
  <2>4. /\ ServerFits' /\ WorkersFit' /\ HoldersFit' /\ ConnectsFit' /\ ListingsFit'
        /\ PendingConnects' /\ ToolsAreLive' /\ ChangeIsListed'
    BY <1>1, <1>5, <2>2, <2>3, EndedStep
  <2>5. SwitchesFit'
    BY <1>1, <2>1 DEF SwitchesFit, Connectable, Held
  <2>6. QED
    BY <1>2, <1>4, <2>4, <2>5, TypePartsNext DEF McpInv
<1>7. CASE server.generation # calls[c].gen
  <2>1. server' = server
    BY <1>7 DEF CallRefused
  <2>2. /\ ServerFits' /\ WorkersFit' /\ HoldersFit' /\ ConnectsFit' /\ ListingsFit'
        /\ SwitchesFit' /\ PendingConnects' /\ ToolsAreLive' /\ ChangeIsListed'
    BY <1>1, <1>3, <1>5, <2>1, SameStep
  <2>3. QED
    BY <1>2, <1>4, <2>2, TypePartsNext DEF McpInv
<1>8. QED
    BY <1>6, <1>7

LEMMA RestartDeadKeeps == ASSUME McpInv, NEW c \in Calls, RestartDead(c) PROVE McpInv'
<1> DEFINE Restarting == [Done EXCEPT !.pc = "spawn", !.left = server.generation + 1]
<1>1. /\ Done \in CallStates /\ Done.on = None /\ Done.gen = None
      /\ Restarting \in CallStates /\ Restarting.on = None /\ Restarting.gen = None
  <2>1. server.generation + 1 \in Generation
    BY TypeParts DEF McpInv, ServerFits, Servers, Generation
  <2>2. QED
    BY <2>1 DEF Done, Idle, CallStates, Generation, None
<1>2. /\ \/ calls' = [calls EXCEPT ![c] = Done]
         \/ calls' = [calls EXCEPT ![c] = Restarting]
      /\ UNCHANGED <<inner, connects, listings, flows, entry, loop, ui, owed, ops>>
    BY DEF RestartDead
<1> HIDE DEF Restarting
<1>3. calls \in [Calls -> CallStates] /\ flows \in [Flow -> FlowStates]
    BY TypeParts DEF McpInv, ThreadsFit
<1>4. ThreadsFit' /\ entry' \in Entries /\ owed' \in BOOLEAN /\ FlowsFit'
    BY <1>1, <1>2, <1>3, TypeParts DEF McpInv, ThreadsFit, FlowsFit
<1>5. \A d \in Calls : UNCHANGED calls[d] \/ (calls'[d].on = None /\ calls'[d].gen = None)
    BY <1>1, <1>2, <1>3
<1>6. CASE server.generation = calls[c].gen
  <2>1. Connectable
    BY <1>6, CallHoldsLive
  <2>2. server' = [[Drop(server) EXCEPT !.status = "failed"] EXCEPT !.cooling = TRUE] /\ events' = Sent("changed")
    BY <1>6 DEF RestartDead
  <2>3. ServerFits /\ WorkersFit /\ LoopFits /\ server.generation \in Nat
        /\ "failed" \in Statuses \ {"connected"}
    BY TypeParts DEF McpInv, ServerFits, Servers, Generation, Statuses
  <2> DEFINE dropped == [Drop(server) EXCEPT !.status = "failed"]
  <2>4. /\ dropped \in Servers
        /\ dropped.status = "failed" /\ dropped.generation = server.generation + 1
        /\ dropped.transport = None /\ dropped.tools = NoTools
    BY <2>3, DropFacts
  <2>5. server' = [dropped EXCEPT !.cooling = TRUE]
    BY <2>2
  <2> HIDE DEF dropped
  <2>6. /\ server' \in Servers
        /\ server'.status = "failed" /\ server'.generation = server.generation + 1
        /\ server'.transport = None /\ server'.tools = NoTools
    BY <2>4, <2>5 DEF Servers
  <2>7. /\ events' \in Seq(Events) /\ events' # <<>>
        /\ Contains(events, "done") => Contains(events', "done")
    BY <2>2, <2>3, SentFacts DEF LoopFits, Events
  <2>8. /\ HoldersFit' /\ ListingsFit' /\ ToolsAreLive' /\ ChangeIsListed' /\ ServerFits'
        /\ \A w \in listings' : w.on \in 1 .. server'.generation
    BY <1>2, <1>5, <2>6, <2>7, DroppedStep
  <2>9. connects \subseteq 1 .. server.generation
    BY <2>3 DEF WorkersFit
  <2>10. connects' \subseteq 1 .. server'.generation /\ server'.generation \notin connects'
    BY <1>2, <2>3, <2>6, <2>9
  <2>11. WorkersFit'
    BY <1>2, <2>3, <2>8, <2>10 DEF WorkersFit
  <2>12. ConnectsFit' /\ PendingConnects' /\ SwitchesFit'
    BY <1>2, <2>1, <2>3, <2>6, <2>10 DEF ConnectsFit, PendingConnects, SwitchesFit, Connectable, Held, None
  <2>13. LoopFits' /\ PageHasItsFlow'
    BY <1>2, <2>3, <2>7 DEF McpInv, LoopFits, PageHasItsFlow
  <2>14. QED
    BY <1>4, <2>8, <2>11, <2>12, <2>13, TypePartsNext DEF McpInv
<1>7. CASE server.generation # calls[c].gen
  <2>1. server' = server /\ events' = events
    BY <1>7 DEF RestartDead
  <2>2. /\ ServerFits' /\ WorkersFit' /\ HoldersFit' /\ ConnectsFit' /\ ListingsFit'
        /\ SwitchesFit' /\ PendingConnects' /\ ToolsAreLive' /\ ChangeIsListed'
    BY <1>2, <1>5, <2>1, SameStep
  <2>3. LoopFits' /\ PageHasItsFlow'
    BY <1>2, <2>1, TypeParts DEF McpInv, LoopFits, PageHasItsFlow
  <2>4. QED
    BY <1>4, <2>2, <2>3, TypePartsNext DEF McpInv
<1>8. QED
    BY <1>6, <1>7

LEMMA SwitchOffKeeps == ASSUME McpInv, SwitchOff PROVE McpInv'
<1>1. /\ inner' = [inner EXCEPT !.active = FALSE, !.authFlow = None]
      /\ flows' = Cancelled(inner.authFlow) /\ events' = Sent("changed")
      /\ ui' = [ui EXCEPT !.attached = Offered(server')]
      /\ ui.shown = "closed" /\ ui.page = None
      /\ UNCHANGED <<connects, listings, calls, entry, loop, owed>>
    BY DEF SwitchOff, Acts
<1>2. ServerFits /\ WorkersFit /\ ThreadsFit /\ LoopFits
    BY TypeParts DEF McpInv
<1>3. /\ inner' \in [active : BOOLEAN, disabled : BOOLEAN, held : {"no", "review", "declined"},
                     authFlow : {None} \cup Flow]
      /\ ~inner'.active /\ inner'.authFlow = None /\ inner'.held = inner.held
    BY <1>1, <1>2 DEF LoopFits
<1>4. flows' \in [Flow -> FlowStates] /\ \A f \in Flow : flows'[f].pc = flows[f].pc
    BY <1>1, <1>2 DEF ThreadsFit, FlowStates, Cancelled
<1>5. FlowsFit'
  <2>1. \A f \in Flow : f # inner.authFlow => flows'[f] = flows[f]
    BY <1>1, <1>2 DEF Cancelled, ThreadsFit
  <2>2. inner.authFlow # None => flows[inner.authFlow].pc # "idle"
    BY DEF McpInv, FlowsFit
  <2>3. \A f \in Flow : f # None
    BY DEF Flow, None
  <2>4. \A f \in Flow : flows'[f].pc = "idle" => flows'[f] = flows[f]
    BY <1>4, <2>1, <2>2, <2>3
  <2>5. QED
    BY <1>3, <1>4, <2>4 DEF McpInv, FlowsFit
<1>6. events' \in Seq(Events) /\ events' # <<>>
    BY <1>1, <1>2, SentFacts DEF LoopFits, Events
<1>7. ops' \in 0 .. MaxOps
    BY <1>2, McpBoundsAssumption DEF SwitchOff, Acts, LoopFits
<1>8. /\ ServerFits' /\ WorkersFit' /\ HoldersFit' /\ ConnectsFit' /\ ListingsFit'
      /\ PendingConnects' /\ ToolsAreLive' /\ ChangeIsListed'
      /\ server'.status \in {"disabled", "review", "off"}
      /\ Held => server'.status \in {"disabled", "review"}
  <2>1. CASE server.status \in {"disabled", "review"}
    <3>1. server' = server
        BY <2>1 DEF SwitchOff
    <3>2. ServerFits' /\ WorkersFit' /\ HoldersFit' /\ ListingsFit' /\ ChangeIsListed'
        BY <1>1, <1>2, <3>1
        DEF McpInv, ServerFits, WorkersFit, HoldersFit, Referenced, ListingsFit, ChangeIsListed,
            InUse, ListingNow, FlagLeft
    <3>3. ConnectsFit' /\ PendingConnects'
        BY <1>1, <2>1, <3>1 DEF McpInv, ConnectsFit, PendingConnects
    <3>4. ToolsAreLive'
        BY <1>6, <3>1 DEF McpInv, ToolsAreLive
    <3>5. QED
        BY <2>1, <3>1, <3>2, <3>3, <3>4
  <2>2. CASE server.status \notin {"disabled", "review"}
    <3>1. server' = [Drop(server) EXCEPT !.status = "off"]
        BY <2>2 DEF SwitchOff
    <3>2. "off" \in Statuses \ {"connected", "pending"}
        BY DEF Statuses
    <3>3. ~Held
        BY <2>2 DEF McpInv, SwitchesFit
    <3>4. QED
        BY <1>1, <3>1, <3>2, <3>3, EndedStep
  <2>3. QED
    BY <2>1, <2>2
<1>9. Offered(server') \in Tools
    BY <1>8, NoToolsType DEF Offered, ServerFits, Servers
<1>10. /\ ui' \in [shown : Statuses \cup {"closed"}, page : {None} \cup Flow, attached : Tools]
       /\ ui'.shown = "closed" /\ ui'.page = None
    BY <1>1, <1>2, <1>9 DEF LoopFits
<1>11. LoopFits' /\ ThreadsFit'
    BY <1>1, <1>2, <1>3, <1>4, <1>6, <1>7, <1>10 DEF LoopFits, ThreadsFit
<1>12. SwitchesFit' /\ PageHasItsFlow'
    BY <1>3, <1>8, <1>10 DEF SwitchesFit, PageHasItsFlow, Held
<1>13. QED
    BY <1>1, <1>5, <1>8, <1>11, <1>12, TypeParts, TypePartsNext DEF McpInv

\* set_approved(name, true), whatever the loop does next.
LEMMA ApprovedStep ==
    ASSUME McpInv, NEW next \in {"idle", "enable"}, Approved(next), loop = "idle",
           UNCHANGED <<connects, threadVars, entry, ui, owed>>, ops' \in 0 .. MaxOps
    PROVE  McpInv'
<1>1. /\ inner' = [inner EXCEPT !.held = "no"]
      /\ events' = Sent("changed")
      /\ UNCHANGED <<connects, listings, calls, flows, entry, ui, owed>>
    BY DEF Approved, threadVars
<1>2. ServerFits /\ WorkersFit /\ ThreadsFit /\ LoopFits
    BY TypeParts DEF McpInv
<1>3. /\ inner' \in [active : BOOLEAN, disabled : BOOLEAN, held : {"no", "review", "declined"},
                     authFlow : {None} \cup Flow]
      /\ inner'.active = inner.active /\ inner'.authFlow = inner.authFlow /\ ~Held'
    BY <1>1, <1>2 DEF LoopFits, Held
<1>4. /\ events' \in Seq(Events) /\ events' # <<>>
      /\ Contains(events, "done") => Contains(events', "done")
    BY <1>1, <1>2, SentFacts DEF LoopFits, Events
<1>5. loop' \in {"idle", "spawn", "enable"}
    BY DEF Approved
<1>6. ThreadsFit' /\ LoopFits' /\ FlowsFit' /\ PageHasItsFlow'
    BY <1>1, <1>2, <1>3, <1>4, <1>5
    DEF McpInv, ThreadsFit, LoopFits, FlowsFit, PageHasItsFlow
<1>7. /\ ServerFits' /\ server'.generation = server.generation
      /\ server'.transport = server.transport /\ server'.tools = server.tools
      /\ server'.relisting = server.relisting /\ server'.again = server.again
      /\ \/ server'.status = server.status
         \/ server'.status = "disabled" /\ server.status \in {"review", "disabled"}
  <2>1. CASE server' = server
    BY <1>2, <2>1 DEF ServerFits
  <2>2. CASE server.status \in {"review", "disabled"} /\ server' = [server EXCEPT !.status = "disabled"]
    BY <1>2, <2>2 DEF ServerFits, Servers, Statuses
  <2>3. QED
    BY <2>1, <2>2 DEF Approved
<1>8. WorkersFit' /\ HoldersFit' /\ ListingsFit' /\ ChangeIsListed'
    BY <1>1, <1>2, <1>7 DEF McpInv, WorkersFit, HoldersFit, Referenced, ListingsFit,
       ChangeIsListed, InUse, ListingNow, FlagLeft
<1>9. ConnectsFit' /\ PendingConnects'
    BY <1>1, <1>3, <1>7 DEF McpInv, ConnectsFit, PendingConnects, Connectable, Held
<1>10. SwitchesFit' /\ ToolsAreLive'
    BY <1>1, <1>3, <1>4, <1>7 DEF McpInv, SwitchesFit, ToolsAreLive
<1>11. QED
    BY <1>1, <1>6, <1>7, <1>8, <1>9, <1>10, TypeParts, TypePartsNext DEF McpInv

LEMMA EnableProjectKeeps == ASSUME McpInv, EnableProject PROVE McpInv'
<1>1. ops' \in 0 .. MaxOps /\ loop = "idle"
    BY TypeParts, McpBoundsAssumption DEF McpInv, EnableProject, Acts, LoopFits
<1>2. QED
    BY <1>1, ApprovedStep DEF EnableProject

LEMMA ReviewAnswerKeeps == ASSUME McpInv, ReviewAnswer PROVE McpInv'
<1>1. ops' \in 0 .. MaxOps /\ loop = "idle" /\ inner.active
    BY TypeParts, McpBoundsAssumption DEF McpInv, ReviewAnswer, Acts, LoopFits
<1>2. CASE Approved("idle")
    BY <1>1, <1>2, ApprovedStep DEF ReviewAnswer
<1>3. CASE /\ inner' = [inner EXCEPT !.held = "declined"]
           /\ server' = [Drop(server) EXCEPT !.status = "disabled"]
           /\ events' = Sent("changed")
           /\ UNCHANGED loop
  <2>1. UNCHANGED <<connects, listings, calls, flows, entry, ui, owed>>
    BY DEF ReviewAnswer, threadVars
  <2>2. ServerFits /\ WorkersFit /\ ThreadsFit /\ LoopFits
    BY TypeParts DEF McpInv
  <2>3. /\ inner' \in [active : BOOLEAN, disabled : BOOLEAN, held : {"no", "review", "declined"},
                       authFlow : {None} \cup Flow]
        /\ inner'.active = inner.active /\ inner'.authFlow = inner.authFlow
    BY <1>3, <2>2 DEF LoopFits
  <2>4. /\ events' \in Seq(Events)
        /\ Contains(events, "done") => Contains(events', "done")
    BY <1>3, <2>2, SentFacts DEF LoopFits, Events
  <2>5. ThreadsFit' /\ LoopFits' /\ FlowsFit' /\ PageHasItsFlow'
    BY <1>1, <1>3, <2>1, <2>2, <2>3, <2>4
    DEF McpInv, ThreadsFit, LoopFits, FlowsFit, PageHasItsFlow
  <2>6. "disabled" \in Statuses \ {"connected", "pending"}
    BY DEF Statuses
  <2>7. /\ ServerFits' /\ WorkersFit' /\ HoldersFit' /\ ConnectsFit' /\ ListingsFit'
        /\ PendingConnects' /\ ToolsAreLive' /\ ChangeIsListed'
        /\ server'.status = "disabled"
    BY <1>3, <2>1, <2>6, EndedStep
  <2>8. SwitchesFit'
    BY <1>1, <2>3, <2>7 DEF SwitchesFit
  <2>9. QED
    BY <2>1, <2>5, <2>7, <2>8, TypeParts, TypePartsNext DEF McpInv
<1>4. QED
    BY <1>2, <1>3 DEF ReviewAnswer

LEMMA EnableUserKeeps == ASSUME McpInv, EnableUser PROVE McpInv'
<1>1. /\ inner' = [inner EXCEPT !.disabled = FALSE] /\ events' = Sent("changed")
      /\ server' = [server EXCEPT !.generation = @ + 1]
      /\ loop' = IF Held THEN "idle" ELSE "spawn"
      /\ UNCHANGED <<connects, listings, calls, flows, entry, ui, owed, ops>>
    BY DEF EnableUser, threadVars
<1>2. ServerFits /\ WorkersFit /\ ThreadsFit /\ LoopFits /\ server \in Servers /\ server.generation \in Nat
    BY TypeParts DEF McpInv, ServerFits, Servers, Generation
<1>3. /\ inner' \in [active : BOOLEAN, disabled : BOOLEAN, held : {"no", "review", "declined"},
                     authFlow : {None} \cup Flow]
      /\ inner'.active = inner.active /\ inner'.authFlow = inner.authFlow /\ inner'.held = inner.held
    BY <1>1, <1>2 DEF LoopFits
<1>4. /\ events' \in Seq(Events) /\ events' # <<>>
      /\ Contains(events, "done") => Contains(events', "done")
    BY <1>1, <1>2, SentFacts DEF LoopFits, Events
<1>5. ThreadsFit' /\ LoopFits' /\ FlowsFit' /\ PageHasItsFlow'
    BY <1>1, <1>2, <1>3, <1>4
    DEF McpInv, ThreadsFit, LoopFits, FlowsFit, PageHasItsFlow
<1>6. /\ server' \in Servers /\ server'.generation = server.generation + 1
      /\ server'.transport = server.transport /\ server'.tools = server.tools
      /\ server'.status = server.status
    BY <1>1, <1>2 DEF Servers, Generation
<1>7. /\ connects \subseteq 1 .. server.generation
      /\ \A w \in listings : w.on \in 1 .. server.generation
      /\ \A g \in Referenced : g \in Nat /\ g <= server.generation
      /\ \A c \in Calls : calls[c].gen \in Nat /\ calls[c].gen <= server.generation
    BY <1>2 DEF McpInv, WorkersFit, HoldersFit, Referenced, ServerFits, Servers, ThreadsFit,
       CallStates, ListingStates, Generation
<1>8. ServerFits' /\ SwitchesFit'
    BY <1>1, <1>2, <1>3, <1>6 DEF McpInv, ServerFits, SwitchesFit, Held
<1>9. WorkersFit'
    BY <1>1, <1>2, <1>6, <1>7 DEF WorkersFit
<1>10. HoldersFit'
  <2>1. Referenced' = Referenced
    BY <1>1, <1>6 DEF Referenced
  <2>2. \A g \in Nat : g <= server.generation => g <= server'.generation /\ g # server'.generation
    BY <1>2, <1>6
  <2>3. QED
    BY <1>1, <1>7, <2>1, <2>2 DEF HoldersFit
<1>11. ListingsFit' /\ ConnectsFit'
    BY <1>1, <1>2, <1>6, <1>7 DEF ListingsFit, ConnectsFit, None
<1>12. PendingConnects'
    BY <1>1, <1>6 DEF McpInv, PendingConnects, SwitchesFit
<1>13. ToolsAreLive'
    BY <1>4, <1>6 DEF McpInv, ToolsAreLive
<1>14. ChangeIsListed'
  <2>1. server.transport \in Referenced
    BY DEF Referenced
  <2>2. server'.transport # server'.generation
    BY <2>1, <1>2, <1>6, <1>7
  <2>3. QED
    BY <2>2 DEF ChangeIsListed, InUse
<1>15. QED
    BY <1>1, <1>5, <1>8, <1>9, <1>10, <1>11, <1>12, <1>13, <1>14, TypeParts, TypePartsNext
    DEF McpInv

LEMMA ConnectLandsKeeps == ASSUME McpInv, NEW g \in connects, ConnectLands(g) PROVE McpInv'
<1>1. /\ connects' = connects \ {g}
      /\ UNCHANGED <<listings, calls, flows, entry, inner, loop, ui, ops>>
    BY DEF ConnectLands, threadVars
<1>2. ServerFits /\ WorkersFit /\ ThreadsFit /\ LoopFits /\ server \in Servers
    BY TypeParts DEF McpInv, ServerFits
<1>3. PICK result \in {"connected", "failed", "auth"}, list \in Catalogs :
        IF g # server.generation THEN UNCHANGED <<server, events, owed>>
        ELSE /\ server' = IF result = "connected"
                          THEN [server EXCEPT !.status = result, !.transport = g,
                                              !.tools = [from |-> g, list |-> list]]
                          ELSE [server EXCEPT !.status = result]
             /\ events' = Sent("changed")
             /\ owed' = FALSE
    BY DEF ConnectLands
<1>4. CASE g # server.generation
  <2>1. UNCHANGED <<server, events, owed>>
    BY <1>3, <1>4
  <2>2. WorkersFit' /\ ServerFits' /\ ThreadsFit' /\ LoopFits'
    BY <1>1, <1>2, <2>1 DEF WorkersFit, ServerFits, ThreadsFit, LoopFits
  <2>3. HoldersFit' /\ ListingsFit' /\ ChangeIsListed' /\ ToolsAreLive'
    BY <1>1, <2>1 DEF McpInv, HoldersFit, Referenced, ListingsFit, ChangeIsListed, InUse,
       ListingNow, FlagLeft, ToolsAreLive, Offered
  <2>4. ConnectsFit' /\ SwitchesFit' /\ FlowsFit' /\ PendingConnects' /\ PageHasItsFlow'
    BY <1>1, <1>4, <2>1 DEF McpInv, ConnectsFit, SwitchesFit, FlowsFit, PendingConnects,
       PageHasItsFlow, Connectable, Held
  <2>5. QED
    BY <1>1, <2>1, <2>2, <2>3, <2>4, TypeParts, TypePartsNext DEF McpInv
<1>5. CASE g = server.generation
  <2>1. /\ server.status = "pending" /\ Connectable /\ server.transport = None /\ g # None
        /\ g \in Nat /\ server.tools.from = None
    BY <1>2, <1>5 DEF McpInv, ConnectsFit, ServerFits, Servers, Generation, ToolsAreLive
  <2>2. events' = Sent("changed") /\ owed' = FALSE
    BY <1>3, <1>5
  <2>3. /\ events' \in Seq(Events) /\ events' # <<>>
        /\ Contains(events, "done") => Contains(events', "done")
    BY <1>2, <2>2, SentFacts DEF LoopFits, Events
  <2>4. [from |-> g, list |-> list] \in Tools
    BY <2>1 DEF Tools, Generation
  <2>5. /\ server' \in Servers /\ server'.generation = g /\ server'.status \in {"connected", "failed", "auth"}
        /\ IF server'.status = "connected" THEN server'.transport = g /\ server'.tools.from = g
           ELSE server'.transport = None /\ server'.tools.from = None
    <3>1. CASE result = "connected"
        <4>1. server' = [server EXCEPT !.status = "connected", !.transport = g,
                                       !.tools = [from |-> g, list |-> list]]
            BY <1>3, <1>5, <3>1
        <4>2. QED
            BY <4>1, <1>2, <1>5, <2>1, <2>4 DEF Servers, Statuses, Generation
    <3>2. CASE result \in {"failed", "auth"}
        <4>1. server' = [server EXCEPT !.status = result]
            BY <1>3, <1>5, <3>2
        <4>2. QED
            BY <4>1, <3>2, <1>2, <1>5, <2>1 DEF Servers, Statuses
    <3>3. QED
        BY <3>1, <3>2
  <2>6. ServerFits' /\ WorkersFit' /\ ThreadsFit' /\ LoopFits'
    BY <1>1, <1>2, <1>5, <2>1, <2>3, <2>5 DEF ServerFits, WorkersFit, ThreadsFit, LoopFits
  <2>7. \A c \in Calls : calls[c].gen # g
    BY <1>5, <2>1 DEF McpInv, HoldersFit
  <2>8. \A h \in Referenced : h <= g /\ h # g
    BY <1>5, <2>1 DEF McpInv, HoldersFit
  <2>9. HoldersFit'
    <3>1. Referenced' \subseteq Referenced \cup {g, None}
        BY <1>1, <2>5 DEF Referenced
    <3>2. \A h \in Referenced' : h <= g
        BY <3>1, <2>1, <2>8 DEF None
    <3>3. \A h \in Referenced' : h = g => server'.transport = g
        BY <1>1, <2>1, <2>5, <2>8 DEF Referenced
    <3>4. QED
        BY <1>1, <1>5, <2>5, <2>7, <3>2, <3>3 DEF McpInv, HoldersFit
  <2>10. ListingsFit'
    BY <1>1, <2>5, <2>8 DEF ListingsFit, Referenced
  <2>11. ConnectsFit' /\ SwitchesFit' /\ FlowsFit' /\ PendingConnects' /\ PageHasItsFlow'
    BY <1>1, <2>1, <2>3, <2>5 DEF McpInv, ConnectsFit, SwitchesFit, FlowsFit, PendingConnects,
       PageHasItsFlow, Connectable, Held
  <2>12. ToolsAreLive' /\ ChangeIsListed'
    BY <2>2, <2>3, <2>5 DEF ToolsAreLive, ChangeIsListed
  <2>13. QED
    BY <1>1, <2>2, <2>6, <2>9, <2>10, <2>11, <2>12, TypeParts, TypePartsNext DEF McpInv
<1>6. QED
    BY <1>4, <1>5

LEMMA ToldOfChangeKeeps == ASSUME McpInv, NEW g, ToldOfChange(g) PROVE McpInv'
<1>1. /\ UNCHANGED <<inner, connects, calls, flows, loop, events, ui, entry, ops>>
      /\ g \in Referenced /\ g # None /\ owed' = (owed \/ g = server.transport)
    BY DEF ToldOfChange
<1>2. ServerFits /\ WorkersFit /\ ThreadsFit /\ LoopFits /\ server \in Servers /\ owed \in BOOLEAN
    BY TypeParts DEF McpInv, ServerFits
<1>3. /\ server' \in Servers /\ server'.generation = server.generation
      /\ server'.status = server.status /\ server'.transport = server.transport
      /\ server'.tools = server.tools
      /\ \/ server' = server /\ listings' = listings
         \/ server'.relisting
  <2>1. CASE server' = [server EXCEPT !.again = TRUE] /\ server.relisting
    BY <2>1, <1>2 DEF Servers
  <2>2. CASE server' = [server EXCEPT !.relisting = TRUE]
    BY <2>2, <1>2 DEF Servers
  <2>3. QED
    BY <1>2, <2>1, <2>2 DEF ToldOfChange
<1>4. \/ listings' = listings
      \/ /\ ~server.relisting /\ g = server.generation /\ server.status = "connected"
         /\ listings' = listings \cup {[on |-> g, list |-> NoList]}
    BY DEF ToldOfChange
<1>5. WorkersFit'
  <2>1. CASE listings' = listings
    BY <1>1, <1>2, <1>3, <2>1 DEF WorkersFit
  <2>2. CASE /\ ~server.relisting /\ g = server.generation
             /\ listings' = listings \cup {[on |-> g, list |-> NoList]}
    <3>1. g \in 1 .. server.generation /\ [on |-> g, list |-> NoList] \in ListingStates
        BY <1>1, <1>2, <2>2 DEF Servers, Generation, ListingStates, None
    <3>2. \A w \in listings : w.on # g
        BY <2>2 DEF McpInv, ListingsFit
    <3>3. QED
        BY <1>1, <1>2, <1>3, <2>2, <3>1, <3>2 DEF WorkersFit
  <2>3. QED
    BY <1>4, <2>1, <2>2
<1>6. ServerFits' /\ ThreadsFit' /\ LoopFits' /\ owed' \in BOOLEAN
    BY <1>1, <1>2, <1>3 DEF ServerFits, ThreadsFit, LoopFits
<1>7. HoldersFit'
  <2>1. Referenced' \subseteq Referenced
    BY <1>1, <1>3, <1>4 DEF Referenced
  <2>2. QED
    BY <2>1, <1>1, <1>3 DEF McpInv, HoldersFit
<1>8. ListingsFit'
    BY <1>3 DEF McpInv, ListingsFit
<1>9. ConnectsFit' /\ SwitchesFit' /\ FlowsFit' /\ PendingConnects' /\ PageHasItsFlow'
    BY <1>1, <1>3 DEF McpInv, ConnectsFit, SwitchesFit, FlowsFit, PendingConnects,
       PageHasItsFlow, Connectable, Held
<1>10. ToolsAreLive'
    BY <1>1, <1>3, <1>4 DEF McpInv, ToolsAreLive, Offered
<1>11. ChangeIsListed'
  <2> SUFFICES ASSUME InUse', owed' PROVE ListingNow' \/ FlagLeft'
    BY DEF ChangeIsListed
  <2>1. InUse /\ server.status = "connected"
    BY <1>2, <1>3 DEF InUse, ServerFits
  <2>2. CASE g # server.generation
    <3>1. owed /\ server' = server /\ listings' = listings
        BY <2>1, <2>2, <1>1 DEF InUse, ToldOfChange
    <3>2. QED
        BY <2>1, <3>1 DEF McpInv, ChangeIsListed, ListingNow, FlagLeft
  <2>3. CASE g = server.generation /\ server.relisting
    <3>1. server'.again /\ server'.relisting /\ listings' = listings
        BY <2>1, <2>3, <1>2 DEF ToldOfChange, Servers
    <3>2. CASE \E w \in listings' : w.on = server'.generation
        BY <3>1, <3>2 DEF ListingNow
    <3>3. CASE \A w \in listings' : w.on # server'.generation
        BY <3>1, <3>3 DEF FlagLeft
    <3>4. QED
        BY <3>2, <3>3
  <2>4. CASE g = server.generation /\ ~server.relisting
    <3>1. listings' = listings \cup {[on |-> g, list |-> NoList]}
        BY <2>1, <2>4 DEF ToldOfChange
    <3> DEFINE begun == [on |-> g, list |-> NoList]
    <3>2. begun.on = g /\ begun.list = NoList
        OBVIOUS
    <3>3. begun \in listings'
        BY <3>1
    <3> HIDE DEF begun
    <3>4. QED
        BY <2>4, <3>2, <3>3, <1>3 DEF ListingNow
  <2>5. QED
    BY <2>2, <2>3, <2>4
<1>12. QED
    BY <1>1, <1>5, <1>6, <1>7, <1>8, <1>9, <1>10, <1>11, TypeParts, TypePartsNext DEF McpInv

LEMMA ListingAnsweredKeeps == ASSUME McpInv, NEW w \in listings, ListingAnswered(w) PROVE McpInv'
<1>1. /\ UNCHANGED <<inner, server, connects, calls, flows, loop, events, ui, entry, ops>>
      /\ owed' = (owed /\ w.on # server.transport)
    BY DEF ListingAnswered, managerVars
<1>2. PICK list \in Catalogs : listings' = (listings \ {w}) \cup {[w EXCEPT !.list = list]}
    BY DEF ListingAnswered
<1>3. ServerFits /\ WorkersFit /\ ThreadsFit /\ LoopFits /\ owed \in BOOLEAN /\ w \in ListingStates
    BY TypeParts DEF McpInv, WorkersFit
<1> DEFINE answered == [w EXCEPT !.list = list]
<1>4. answered \in ListingStates /\ answered.on = w.on
    BY <1>3 DEF ListingStates
<1>5. listings' = (listings \ {w}) \cup {answered}
    BY <1>2
<1> HIDE DEF answered
<1>6. WorkersFit'
    BY <1>1, <1>3, <1>4, <1>5 DEF WorkersFit
<1>7. ServerFits' /\ ThreadsFit' /\ LoopFits' /\ owed' \in BOOLEAN
    BY <1>1, <1>3 DEF ServerFits, ThreadsFit, LoopFits
<1>8. HoldersFit'
  <2>1. Referenced' \subseteq Referenced
    BY <1>1, <1>4, <1>5 DEF Referenced
  <2>2. QED
    BY <2>1, <1>1 DEF McpInv, HoldersFit
<1>9. ListingsFit'
    BY <1>1, <1>4, <1>5 DEF McpInv, ListingsFit
<1>10. ConnectsFit' /\ SwitchesFit' /\ FlowsFit' /\ PendingConnects' /\ PageHasItsFlow'
    BY <1>1 DEF McpInv, ConnectsFit, SwitchesFit, FlowsFit, PendingConnects,
       PageHasItsFlow, Connectable, Held
<1>11. ToolsAreLive'
  <2>1. ASSUME NEW v \in listings, v.on = server.generation
        PROVE  \E u \in listings' : u.on = server.generation
    BY <2>1, <1>4, <1>5
  <2>2. QED
    BY <2>1, <1>1 DEF McpInv, ToolsAreLive, Offered
<1>12. ChangeIsListed'
  <2> SUFFICES ASSUME InUse', owed' PROVE ListingNow' \/ FlagLeft'
    BY DEF ChangeIsListed
  <2>1. InUse /\ owed /\ w.on # server.generation
    BY <1>1 DEF InUse
  <2>2. CASE ListingNow
    BY <2>1, <2>2, <1>1, <1>5 DEF ListingNow
  <2>3. CASE FlagLeft
    BY <2>1, <2>3, <1>1, <1>4, <1>5 DEF FlagLeft
  <2>4. QED
    BY <2>1, <2>2, <2>3 DEF McpInv, ChangeIsListed
<1>13. QED
    BY <1>1, <1>6, <1>7, <1>8, <1>9, <1>10, <1>11, <1>12, TypeParts, TypePartsNext DEF McpInv

\* The worker of a connection that is gone leaves.
LEMMA OldListingEnds ==
    ASSUME McpInv, NEW w \in listings, w.on # server.generation, listings' = listings \ {w},
           UNCHANGED <<server, events, inner, connects, calls, flows, entry, loop, ui, owed, ops>>
    PROVE  McpInv'
<1>1. ServerFits /\ WorkersFit /\ ThreadsFit /\ LoopFits
    BY TypeParts DEF McpInv
<1>2. ServerFits' /\ WorkersFit' /\ ThreadsFit' /\ LoopFits'
    BY <1>1 DEF ServerFits, WorkersFit, ThreadsFit, LoopFits
<1>3. HoldersFit' /\ ListingsFit'
    BY DEF McpInv, HoldersFit, Referenced, ListingsFit
<1>4. ConnectsFit' /\ SwitchesFit' /\ FlowsFit' /\ PendingConnects' /\ PageHasItsFlow'
    BY DEF McpInv, ConnectsFit, SwitchesFit, FlowsFit, PendingConnects, PageHasItsFlow,
       Connectable, Held
<1>5. ToolsAreLive' /\ ChangeIsListed'
    BY DEF McpInv, ToolsAreLive, Offered, ChangeIsListed, InUse, ListingNow, FlagLeft
<1>6. QED
    BY <1>2, <1>3, <1>4, <1>5, TypeParts, TypePartsNext DEF McpInv

LEMMA ListingEndsKeeps == ASSUME McpInv, NEW w \in listings, ListingEnds(w) PROVE McpInv'
<1>1. CASE w.on # server.generation
    BY <1>1, OldListingEnds DEF ListingEnds
<1>2. CASE w.on = server.generation
  <2>1. /\ UNCHANGED <<inner, connects, calls, flows, entry, loop, ui, owed, ops>>
        /\ w.list # NoList
    BY DEF ListingEnds
  <2>2. ServerFits /\ WorkersFit /\ ThreadsFit /\ LoopFits /\ server \in Servers /\ w \in ListingStates
    BY TypeParts DEF McpInv, ServerFits, WorkersFit
  <2>3. server.transport = w.on /\ w.on # None /\ server.relisting /\ server.tools.from = w.on
    BY <1>2 DEF McpInv, HoldersFit, Referenced, ConnectsFit, ListingsFit, ToolsAreLive
  <2>4. PICK ok \in BOOLEAN :
          LET kept == IF ok THEN [server EXCEPT !.tools = [from |-> w.on, list |-> w.list]]
                      ELSE server
          IN IF server.again
             THEN /\ server' = [kept EXCEPT !.again = FALSE]
                  /\ listings' = (listings \ {w}) \cup {[w EXCEPT !.list = NoList]}
                  /\ UNCHANGED events
             ELSE /\ server' = [kept EXCEPT !.relisting = FALSE]
                  /\ listings' = listings \ {w}
                  /\ events' = Sent("changed")
    BY <1>2 DEF ListingEnds
  <2> DEFINE kept == IF ok THEN [server EXCEPT !.tools = [from |-> w.on, list |-> w.list]]
                     ELSE server
             again == [w EXCEPT !.list = NoList]
  <2>5. /\ kept \in Servers /\ kept.generation = server.generation /\ kept.status = server.status
        /\ kept.transport = server.transport /\ kept.tools.from = w.on
        /\ kept.relisting = server.relisting /\ kept.again = server.again
    <3>1. [from |-> w.on, list |-> w.list] \in Tools
        BY <2>2 DEF ListingStates, Tools
    <3>2. CASE ok
        BY <2>2, <2>3, <3>1, <3>2 DEF Servers
    <3>3. CASE ~ok
        BY <2>2, <2>3, <3>3
    <3>4. QED
        BY <3>2, <3>3
  <2>6. again \in ListingStates /\ again.on = w.on /\ again.list = NoList
    BY <2>2 DEF ListingStates
  <2>7. \/ /\ server' = [kept EXCEPT !.again = FALSE]
           /\ listings' = (listings \ {w}) \cup {again}
           /\ UNCHANGED events
        \/ /\ server' = [kept EXCEPT !.relisting = FALSE] /\ ~server.again
           /\ listings' = listings \ {w}
           /\ events' = Sent("changed")
    BY <2>4
  <2> HIDE DEF kept, again
  <2>8. /\ server' \in Servers /\ server'.generation = server.generation
        /\ server'.status = server.status
        /\ server'.transport = server.transport /\ server'.tools.from = w.on
    BY <2>5, <2>7 DEF Servers
  <2>9. \A v \in listings : v # w => v.on # server.generation
    BY <1>2, <2>2 DEF WorkersFit
  <2>10. \/ /\ listings' = (listings \ {w}) \cup {again} /\ server'.relisting
            /\ UNCHANGED events
         \/ /\ listings' = listings \ {w} /\ events' = Sent("changed") /\ ~server.again
    BY <2>3, <2>5, <2>7 DEF Servers
  <2>11. /\ events' \in Seq(Events) /\ (events' # <<>> \/ events' = events)
         /\ Contains(events, "done") => Contains(events', "done")
    BY <2>2, <2>10, SentFacts DEF LoopFits, Events
  <2>12. WorkersFit'
    <3>1. CASE listings' = listings \ {w}
        BY <3>1, <2>1, <2>2, <2>8 DEF WorkersFit
    <3>2. CASE listings' = (listings \ {w}) \cup {again}
        BY <3>2, <2>1, <2>2, <2>6, <2>8 DEF WorkersFit
    <3>3. QED
        BY <3>1, <3>2, <2>10
  <2>13. ServerFits' /\ ThreadsFit' /\ LoopFits'
    BY <2>1, <2>2, <2>8, <2>11 DEF ServerFits, ThreadsFit, LoopFits
  <2>14. HoldersFit'
    <3>1. Referenced' \subseteq Referenced
        BY <2>1, <2>6, <2>8, <2>10 DEF Referenced
    <3>2. QED
        BY <3>1, <2>1, <2>8 DEF McpInv, HoldersFit
  <2>15. ListingsFit'
    BY <2>8, <2>9, <2>10 DEF ListingsFit
  <2>16. ConnectsFit' /\ SwitchesFit' /\ FlowsFit' /\ PendingConnects' /\ PageHasItsFlow'
    BY <2>1, <2>8, <2>11 DEF McpInv, ConnectsFit, SwitchesFit, FlowsFit, PendingConnects,
       PageHasItsFlow, Connectable, Held
  <2>17. ToolsAreLive'
    <3>1. CASE listings' = (listings \ {w}) \cup {again} /\ UNCHANGED events
        BY <3>1, <1>2, <2>1, <2>3, <2>6, <2>8 DEF McpInv, ToolsAreLive
    <3>2. CASE events' = Sent("changed")
        BY <3>2, <2>2, <2>3, <2>8, SentFacts DEF ToolsAreLive, LoopFits, Events
    <3>3. QED
        BY <3>1, <3>2, <2>10
  <2>18. ChangeIsListed'
    <3>1. CASE listings' = (listings \ {w}) \cup {again}
        BY <3>1, <1>2, <2>6, <2>8 DEF ChangeIsListed, ListingNow
    <3>2. CASE listings' = listings \ {w} /\ ~server.again
        <4>1. ~ListingNow /\ ~FlagLeft
            BY <1>2, <2>1, <2>9, <3>2 DEF ListingNow, FlagLeft
        <4>2. QED
            BY <4>1, <2>1, <2>8 DEF McpInv, ChangeIsListed, InUse
    <3>3. QED
        BY <3>1, <3>2, <2>10
  <2>19. QED
    BY <2>1, <2>12, <2>13, <2>14, <2>15, <2>16, <2>17, <2>18, TypeParts, TypePartsNext DEF McpInv
<1>3. QED
    BY <1>1, <1>2

LEMMA CallBeginsKeeps == ASSUME McpInv, NEW c \in Calls, CallBegins(c) PROVE McpInv'
<1>1. /\ calls' = [calls EXCEPT ![c].pc = "sent", ![c].on = server.transport,
                                ![c].gen = server.generation]
      /\ server.status = "connected"
      /\ UNCHANGED <<server, inner, connects, listings, flows, entry, loop, events, ui, owed, ops>>
    BY DEF CallBegins, managerVars
<1>2. ServerFits /\ WorkersFit /\ ThreadsFit /\ LoopFits /\ server \in Servers
    BY TypeParts DEF McpInv, ServerFits
<1> DEFINE sent == [calls[c] EXCEPT !.pc = "sent", !.on = server.transport, !.gen = server.generation]
<1>3. sent \in CallStates /\ sent.on = server.transport /\ sent.gen = server.generation
    BY <1>2 DEF ThreadsFit, CallStates, Servers
<1>4. calls' = [calls EXCEPT ![c] = sent]
    BY <1>1, <1>2 DEF ThreadsFit, CallStates
<1> HIDE DEF sent
<1>5. calls' \in [Calls -> CallStates] /\ calls'[c] = sent /\ \A d \in Calls \ {c} : calls'[d] = calls[d]
    BY <1>2, <1>3, <1>4 DEF ThreadsFit
<1>6. ServerFits' /\ WorkersFit' /\ ThreadsFit' /\ LoopFits'
    BY <1>1, <1>2, <1>5 DEF ServerFits, WorkersFit, ThreadsFit, LoopFits
<1>7. HoldersFit'
  <2>1. Referenced' \subseteq Referenced
    BY <1>1, <1>3, <1>5 DEF Referenced
  <2>2. server.transport # None /\ server.generation \in Nat
    BY <1>1, <1>2 DEF ServerFits, Servers, Generation
  <2>3. QED
    BY <2>1, <2>2, <1>1, <1>3, <1>5 DEF McpInv, HoldersFit
<1>8. ListingsFit' /\ ConnectsFit' /\ SwitchesFit' /\ FlowsFit'
    BY <1>1 DEF McpInv, ListingsFit, ConnectsFit, SwitchesFit, FlowsFit, Connectable, Held
<1>9. PendingConnects' /\ PageHasItsFlow' /\ ToolsAreLive' /\ ChangeIsListed'
    BY <1>1 DEF McpInv, PendingConnects, PageHasItsFlow, ToolsAreLive, Offered, ChangeIsListed,
       InUse, ListingNow, FlagLeft
<1>10. QED
    BY <1>1, <1>6, <1>7, <1>8, <1>9, TypeParts, TypePartsNext DEF McpInv

LEMMA CallAnsweredKeeps == ASSUME McpInv, NEW c \in Calls, CallAnswered(c) PROVE McpInv'
<1>1. UNCHANGED <<server, inner, connects, listings, flows, entry, loop, events, ui, owed, ops>>
    BY DEF CallAnswered, managerVars
<1>2. ServerFits /\ WorkersFit /\ ThreadsFit /\ LoopFits /\ calls[c] \in CallStates
    BY TypeParts DEF McpInv, ThreadsFit
<1>3. PICK after : /\ calls' = [calls EXCEPT ![c] = after]
                   /\ \/ after = Done
                      \/ \E result \in {"ok", "died", "refused"}, relisted \in {NoList} \cup Catalogs :
                            after = [calls[c] EXCEPT !.pc = "back", !.result = result,
                                                     !.relisted = relisted]
    BY <1>2 DEF CallAnswered, ThreadsFit
<1>4. /\ after \in CallStates
      /\ \/ after.on = calls[c].on /\ after.gen = calls[c].gen
         \/ after.on = None /\ after.gen = None
  <2>1. CASE after = Done
    BY <2>1 DEF CallStates, Done, Idle, None, Generation
  <2>2. CASE \E result \in {"ok", "died", "refused"}, relisted \in {NoList} \cup Catalogs :
               after = [calls[c] EXCEPT !.pc = "back", !.result = result, !.relisted = relisted]
    <3>1. PICK result \in {"ok", "died", "refused"}, relisted \in {NoList} \cup Catalogs :
            after = [calls[c] EXCEPT !.pc = "back", !.result = result, !.relisted = relisted]
        BY <2>2
    <3>2. QED
        BY <1>2, <3>1 DEF CallStates
  <2>3. QED
    BY <1>3, <2>1, <2>2
<1>5. calls' \in [Calls -> CallStates] /\ calls'[c] = after /\ \A d \in Calls \ {c} : calls'[d] = calls[d]
    BY <1>2, <1>3, <1>4 DEF ThreadsFit
<1>6. ServerFits' /\ WorkersFit' /\ ThreadsFit' /\ LoopFits'
    BY <1>1, <1>2, <1>5 DEF ServerFits, WorkersFit, ThreadsFit, LoopFits
<1>7. HoldersFit'
  <2>1. Referenced' \subseteq Referenced \cup {None}
    BY <1>1, <1>4, <1>5 DEF Referenced
  <2>2. server.generation \in Nat /\ server.generation # None
    BY <1>2 DEF McpInv, ConnectsFit, ServerFits, Servers, Generation
  <2>3. \A g \in Referenced' : /\ g <= server.generation
                               /\ g = server.generation => server.transport = g
    BY <2>1, <2>2 DEF McpInv, HoldersFit, None
  <2>4. QED
    BY <2>2, <2>3, <1>1, <1>4, <1>5 DEF McpInv, HoldersFit, None
<1>8. ListingsFit' /\ ConnectsFit' /\ SwitchesFit' /\ FlowsFit'
    BY <1>1 DEF McpInv, ListingsFit, ConnectsFit, SwitchesFit, FlowsFit, Connectable, Held
<1>9. PendingConnects' /\ PageHasItsFlow' /\ ToolsAreLive' /\ ChangeIsListed'
    BY <1>1 DEF McpInv, PendingConnects, PageHasItsFlow, ToolsAreLive, Offered, ChangeIsListed,
       InUse, ListingNow, FlagLeft
<1>10. QED
    BY <1>1, <1>6, <1>7, <1>8, <1>9, TypeParts, TypePartsNext DEF McpInv

LEMMA CallRelistsKeeps == ASSUME McpInv, NEW c \in Calls, CallRelists(c) PROVE McpInv'
<1>1. /\ events' = Sent("changed")
      /\ UNCHANGED <<inner, connects, listings, flows, entry, loop, ui, owed, ops>>
    BY DEF CallRelists
<1>2. /\ ServerFits /\ WorkersFit /\ ThreadsFit /\ LoopFits /\ calls[c] \in CallStates
      /\ server \in Servers
    BY TypeParts DEF McpInv, ThreadsFit, ServerFits
<1>3. PICK after : /\ calls' = [calls EXCEPT ![c] = after]
                   /\ after \in {Done, [calls[c] EXCEPT !.relisted = NoList]}
    BY <1>2 DEF CallRelists, ThreadsFit
<1>4. /\ after \in CallStates
      /\ \/ after.on = calls[c].on /\ after.gen = calls[c].gen
         \/ after.on = None /\ after.gen = None
    BY <1>2, <1>3 DEF CallStates, Done, Idle, None, Generation
<1>5. calls' \in [Calls -> CallStates] /\ calls'[c] = after /\ \A d \in Calls \ {c} : calls'[d] = calls[d]
    BY <1>2, <1>3, <1>4 DEF ThreadsFit
<1>6. /\ server' \in Servers /\ server'.generation = server.generation
      /\ server'.status = server.status /\ server'.transport = server.transport
      /\ server'.relisting = server.relisting /\ server'.again = server.again
      /\ server'.tools.from = server'.transport
  <2>1. CASE server.generation # calls[c].gen
    BY <2>1, <1>2 DEF CallRelists, McpInv, ToolsAreLive
  <2>2. CASE server.generation = calls[c].gen
    <3>1. calls[c].on = server.transport
        BY <2>2, CallHoldsLive
    <3>2. [from |-> calls[c].on, list |-> calls[c].relisted] \in Tools
        BY <1>2 DEF CallStates, Tools
    <3>3. server' = [server EXCEPT !.tools = [from |-> calls[c].on, list |-> calls[c].relisted]]
        BY <2>2 DEF CallRelists
    <3>4. QED
        BY <3>1, <3>2, <3>3, <1>2 DEF Servers
  <2>3. QED
    BY <2>1, <2>2
<1>7. /\ events' \in Seq(Events) /\ events' # <<>>
      /\ Contains(events, "done") => Contains(events', "done")
    BY <1>1, <1>2, SentFacts DEF LoopFits, Events
<1>8. ServerFits' /\ WorkersFit' /\ ThreadsFit' /\ LoopFits'
    BY <1>1, <1>2, <1>5, <1>6, <1>7 DEF ServerFits, WorkersFit, ThreadsFit, LoopFits
<1>9. HoldersFit'
  <2>1. Referenced' \subseteq Referenced \cup {None}
    BY <1>1, <1>4, <1>5, <1>6 DEF Referenced
  <2>2. server.generation \in Nat /\ server.generation # None
    BY <1>2 DEF McpInv, ConnectsFit, Servers, Generation
  <2>3. \A g \in Referenced' : /\ g <= server.generation
                               /\ g = server.generation => server.transport = g
    BY <2>1, <2>2 DEF McpInv, HoldersFit, None
  <2>4. QED
    BY <2>2, <2>3, <1>1, <1>4, <1>5, <1>6 DEF McpInv, HoldersFit, None
<1>10. ListingsFit' /\ ConnectsFit' /\ SwitchesFit' /\ FlowsFit'
    BY <1>1, <1>6 DEF McpInv, ListingsFit, ConnectsFit, SwitchesFit, FlowsFit, Connectable, Held
<1>11. PendingConnects' /\ PageHasItsFlow' /\ ToolsAreLive'
    BY <1>1, <1>6, <1>7 DEF McpInv, PendingConnects, PageHasItsFlow, ToolsAreLive
<1>12. ChangeIsListed'
    BY <1>1, <1>6 DEF McpInv, ChangeIsListed, InUse, ListingNow, FlagLeft
<1>13. QED
    BY <1>1, <1>8, <1>9, <1>10, <1>11, <1>12, TypeParts, TypePartsNext DEF McpInv

LEMMA CooldownOverKeeps == ASSUME McpInv, CooldownOver PROVE McpInv'
<1>1. /\ server' = [server EXCEPT !.cooling = FALSE]
      /\ UNCHANGED <<inner, connects, listings, calls, flows, entry, loop, events, ui, owed, ops>>
    BY DEF CooldownOver, threadVars
<1>2. ServerFits /\ WorkersFit /\ ThreadsFit /\ LoopFits /\ server \in Servers
    BY TypeParts DEF McpInv, ServerFits
<1>3. /\ server' \in Servers /\ server'.generation = server.generation
      /\ server'.status = server.status /\ server'.transport = server.transport
      /\ server'.tools = server.tools /\ server'.relisting = server.relisting
      /\ server'.again = server.again
    BY <1>1, <1>2 DEF Servers
<1>4. ServerFits' /\ WorkersFit' /\ ThreadsFit' /\ LoopFits'
    BY <1>1, <1>2, <1>3 DEF ServerFits, WorkersFit, ThreadsFit, LoopFits
<1>5. HoldersFit' /\ ListingsFit'
    BY <1>1, <1>3 DEF McpInv, HoldersFit, Referenced, ListingsFit
<1>6. ConnectsFit' /\ SwitchesFit' /\ FlowsFit' /\ PendingConnects' /\ PageHasItsFlow'
    BY <1>1, <1>3 DEF McpInv, ConnectsFit, SwitchesFit, FlowsFit, PendingConnects,
       PageHasItsFlow, Connectable, Held
<1>7. ToolsAreLive' /\ ChangeIsListed'
    BY <1>1, <1>3 DEF McpInv, ToolsAreLive, Offered, ChangeIsListed, InUse, ListingNow, FlagLeft
<1>8. QED
    BY <1>1, <1>4, <1>5, <1>6, <1>7, TypeParts, TypePartsNext DEF McpInv

\* A step of the sign-ins, or of the loop, that leaves the server and its holders be.
LEMMA AsideStep ==
    ASSUME McpInv, UNCHANGED <<entry, server, connects, listings, calls, owed>>,
           ThreadsFit', LoopFits', FlowsFit', SwitchesFit', PageHasItsFlow', ToolsAreLive',
           Connectable => Connectable', UNCHANGED loop \/ server.status # "pending" \/ loop' = "spawn"
    PROVE  McpInv'
<1>1. ServerFits /\ WorkersFit
    BY TypeParts DEF McpInv
<1>2. ServerFits' /\ WorkersFit'
    BY <1>1 DEF ServerFits, WorkersFit
<1>3. HoldersFit' /\ ListingsFit' /\ ConnectsFit'
    BY DEF McpInv, HoldersFit, Referenced, ListingsFit, ConnectsFit
<1>4. PendingConnects' /\ ChangeIsListed'
    BY DEF McpInv, PendingConnects, ChangeIsListed, InUse, ListingNow, FlagLeft
<1>5. QED
    BY <1>2, <1>3, <1>4, TypeParts, TypePartsNext DEF McpInv

LEMMA GotCodeKeeps == ASSUME McpInv, NEW f \in Flow, GotCode(f) PROVE McpInv'
<1>1. /\ flows' = [flows EXCEPT ![f].pc = "exchange"]
      /\ flows[f].pc = "wait" /\ ~flows[f].cancelled
      /\ UNCHANGED <<inner, server, connects, listings, calls, entry, loop, events, ui, owed, ops>>
    BY DEF GotCode, managerVars
<1>2. ThreadsFit /\ LoopFits
    BY TypeParts DEF McpInv
<1>3. ThreadsFit' /\ LoopFits'
    BY <1>1, <1>2 DEF ThreadsFit, LoopFits, FlowStates
<1>4. FlowsFit'
    BY <1>1, <1>2 DEF McpInv, FlowsFit, ThreadsFit, FlowStates
<1>5. SwitchesFit' /\ PageHasItsFlow' /\ ToolsAreLive' /\ (Connectable => Connectable')
    BY <1>1 DEF McpInv, SwitchesFit, PageHasItsFlow, ToolsAreLive, Offered, Connectable, Held
<1>6. QED
    BY <1>1, <1>3, <1>4, <1>5, AsideStep

\* The page of a sign-in that ends by itself is told so: its thread was not cancelled.
LEMMA FlowEndsKeeps == ASSUME McpInv, NEW f \in Flow, FlowEnds(f) PROVE McpInv'
<1>1. /\ inner' = IF inner.authFlow = f THEN [inner EXCEPT !.authFlow = None] ELSE inner
      /\ UNCHANGED <<server, connects, listings, calls, entry, loop, ui, owed, ops>>
    BY DEF FlowEnds
<1>2. PICK ok \in BOOLEAN :
        /\ flows' = [flows EXCEPT ![f] = [pc |-> IF ok THEN "spawn" ELSE "done",
                                        cancelled |-> FALSE]]
        /\ events' = Sent(IF ~ok /\ (inner.authFlow # f \/ flows[f].cancelled)
                          THEN "changed" ELSE "done")
    BY DEF FlowEnds
<1>3. ThreadsFit /\ LoopFits /\ f # None
    BY TypeParts DEF McpInv, Flow, None
<1>4. /\ inner' \in [active : BOOLEAN, disabled : BOOLEAN, held : {"no", "review", "declined"},
                     authFlow : {None} \cup Flow]
      /\ inner'.active = inner.active /\ inner'.held = inner.held
      /\ inner'.authFlow # f
      /\ inner.authFlow # f => inner'.authFlow = inner.authFlow
      /\ inner.authFlow = f => inner'.authFlow = None
    BY <1>1, <1>3 DEF LoopFits
<1>5. [pc |-> IF ok THEN "spawn" ELSE "done", cancelled |-> FALSE] \in FlowStates
    BY DEF FlowStates
<1>6. /\ flows' \in [Flow -> FlowStates] /\ flows'[f].pc # "idle"
      /\ \A h \in Flow \ {f} : flows'[h] = flows[h]
    BY <1>2, <1>3, <1>5 DEF ThreadsFit
<1>7. /\ events' \in Seq(Events) /\ events' # <<>>
      /\ Contains(events, "done") => Contains(events', "done")
      /\ inner.authFlow = f /\ ~flows[f].cancelled => Contains(events', "done")
    BY <1>2, <1>3, SentFacts DEF LoopFits, Events
<1>8. ThreadsFit' /\ LoopFits'
    BY <1>1, <1>3, <1>4, <1>6, <1>7 DEF ThreadsFit, LoopFits
<1>9. FlowsFit'
    BY <1>3, <1>4, <1>6 DEF McpInv, FlowsFit, LoopFits
<1>10. PageHasItsFlow'
  <2>1. CASE inner.authFlow = f
    BY <2>1, <1>3, <1>7 DEF McpInv, FlowsFit, PageHasItsFlow
  <2>2. CASE inner.authFlow # f
    BY <2>2, <1>1, <1>4, <1>7 DEF McpInv, PageHasItsFlow
  <2>3. QED
    BY <2>1, <2>2
<1>11. SwitchesFit' /\ ToolsAreLive' /\ (Connectable => Connectable')
    BY <1>1, <1>4, <1>7 DEF McpInv, SwitchesFit, ToolsAreLive, Connectable, Held
<1>12. QED
    BY <1>1, <1>8, <1>9, <1>10, <1>11, AsideStep

LEMMA StartConnectionsKeeps == ASSUME McpInv, StartConnections PROVE McpInv'
<1>1. /\ UNCHANGED <<inner, server, connects, listings, calls, flows, entry, events, ui, owed, ops>>
      /\ loop' \in {"spawn", "idle"} /\ (server.status = "pending" => loop' = "spawn")
    BY DEF StartConnections, managerVars, threadVars
<1>2. ThreadsFit' /\ LoopFits'
    BY <1>1, TypeParts DEF McpInv, ThreadsFit, LoopFits
<1>3. FlowsFit' /\ SwitchesFit' /\ PageHasItsFlow' /\ ToolsAreLive' /\ (Connectable => Connectable')
    BY <1>1 DEF McpInv, FlowsFit, SwitchesFit, PageHasItsFlow, ToolsAreLive, Offered,
       Connectable, Held
<1>4. QED
    BY <1>1, <1>2, <1>3, AsideStep

\* A page that stays open has not had the end of a sign-in read from the channel.
LEMMA ReadEventKeeps == ASSUME McpInv, ReadEvent PROVE McpInv'
<1>1. /\ events # <<>> /\ events' = Tail(events)
      /\ ui' = [shown |-> IF ui.shown = "closed" THEN "closed" ELSE server.status,
                page |-> IF Head(events) = "done" THEN None ELSE ui.page,
                attached |-> Offered(server)]
      /\ UNCHANGED <<inner, server, connects, listings, calls, flows, entry, loop, owed, ops>>
    BY DEF ReadEvent, managerVars, threadVars
<1>2. ServerFits /\ ThreadsFit /\ LoopFits
    BY TypeParts DEF McpInv
<1>3. /\ events' \in Seq(Events) /\ Len(events') = Len(events) - 1 /\ Len(events) \in Nat
      /\ \A i \in 1 .. Len(events') : events'[i] = events[i + 1]
    BY <1>1, <1>2, HeadTailProperties, LenProperties DEF LoopFits
<1>4. /\ Offered(server) \in Tools /\ server.status \in Statuses
    BY <1>2, NoToolsType DEF Offered, ServerFits, Servers
<1>5. ThreadsFit' /\ LoopFits'
    BY <1>1, <1>2, <1>3, <1>4 DEF ThreadsFit, LoopFits
<1>6. PageHasItsFlow'
  <2> SUFFICES ASSUME ui'.page # None, inner.authFlow # ui.page PROVE Contains(events', "done")
    BY <1>1 DEF PageHasItsFlow
  <2>1. Head(events) # "done" /\ ui.page # None
    BY <1>1
  <2>2. Contains(events, "done")
    BY <2>1 DEF McpInv, PageHasItsFlow
  <2>3. PICK i \in 1 .. Len(events) : events[i] = "done"
    BY <2>2 DEF Contains
  <2>4. i # 1
    BY <1>1, <1>2, <2>1, <2>3 DEF LoopFits
  <2>5. i - 1 \in 1 .. Len(events') /\ events'[i - 1] = "done"
    BY <1>3, <2>3, <2>4
  <2>6. QED
    BY <2>5 DEF Contains
<1>7. SwitchesFit'
    BY <1>1 DEF McpInv, SwitchesFit, Held
<1>8. FlowsFit' /\ ToolsAreLive' /\ (Connectable => Connectable')
    BY <1>1 DEF McpInv, FlowsFit, ToolsAreLive, Offered, Connectable, Held
<1>9. QED
    BY <1>1, <1>5, <1>6, <1>7, <1>8, AsideStep

LEMMA ToggleMenuKeeps == ASSUME McpInv, ToggleMenu PROVE McpInv'
<1>1. /\ ui' = [ui EXCEPT !.shown = IF @ = "closed" THEN server.status ELSE "closed"]
      /\ ui.page = None
      /\ UNCHANGED <<inner, server, connects, listings, calls, flows, entry, loop, events, owed, ops>>
    BY DEF ToggleMenu, managerVars, threadVars
<1>2. ServerFits /\ ThreadsFit /\ LoopFits
    BY TypeParts DEF McpInv
<1>3. /\ ui' \in [shown : Statuses \cup {"closed"}, page : {None} \cup Flow, attached : Tools]
      /\ ui'.page = None /\ ui'.attached = ui.attached /\ ui'.shown \in {"closed", server.status}
    BY <1>1, <1>2 DEF LoopFits, ServerFits, Servers
<1>4. ThreadsFit' /\ LoopFits'
    BY <1>1, <1>2, <1>3 DEF ThreadsFit, LoopFits
<1>5. FlowsFit' /\ SwitchesFit' /\ PageHasItsFlow' /\ ToolsAreLive' /\ (Connectable => Connectable')
    BY <1>1, <1>3 DEF McpInv, FlowsFit, SwitchesFit, PageHasItsFlow, ToolsAreLive, Offered,
       Connectable, Held
<1>6. QED
    BY <1>1, <1>4, <1>5, AsideStep

LEMMA EnableKeeps == ASSUME McpInv, Enable PROVE McpInv'
<1>1. /\ loop' = "enable" /\ ui.shown = "disabled" /\ loop = "idle"
      /\ UNCHANGED <<inner, server, connects, listings, calls, flows, entry, events, ui, owed>>
    BY DEF Enable, Acts, managerVars, threadVars
<1>2. ops' \in 0 .. MaxOps
    BY TypeParts, McpBoundsAssumption DEF McpInv, Enable, Acts, LoopFits
<1>3. ThreadsFit' /\ LoopFits'
    BY <1>1, <1>2, TypeParts DEF McpInv, ThreadsFit, LoopFits
<1>4. FlowsFit' /\ SwitchesFit' /\ PageHasItsFlow' /\ ToolsAreLive'
    BY <1>1 DEF McpInv, FlowsFit, SwitchesFit, PageHasItsFlow, ToolsAreLive, Offered,
       Connectable, Held
<1>5. ServerFits' /\ WorkersFit'
    BY <1>1, TypeParts DEF McpInv, ServerFits, WorkersFit
<1>6. HoldersFit' /\ ListingsFit' /\ ConnectsFit' /\ PendingConnects' /\ ChangeIsListed'
    BY <1>1 DEF McpInv, HoldersFit, Referenced, ListingsFit, ConnectsFit, PendingConnects,
       ChangeIsListed, InUse, ListingNow, FlagLeft, Connectable, Held
<1>7. QED
    BY <1>1, <1>3, <1>4, <1>5, <1>6, TypeParts, TypePartsNext DEF McpInv

LEMMA SwitchOnKeeps == ASSUME McpInv, SwitchOn PROVE McpInv'
<1>1. /\ ~inner.active /\ inner' = [inner EXCEPT !.active = TRUE]
      /\ server' = IF server.status = "off" THEN [server EXCEPT !.status = "pending"] ELSE server
      /\ loop' = "start" /\ events' = Sent("changed") /\ ui.shown = "closed"
      /\ UNCHANGED <<connects, listings, calls, flows, entry, ui, owed>>
    BY DEF SwitchOn, Acts, threadVars
<1>2. ServerFits /\ WorkersFit /\ ThreadsFit /\ LoopFits /\ server \in Servers
    BY TypeParts DEF McpInv, ServerFits
<1>3. /\ inner' \in [active : BOOLEAN, disabled : BOOLEAN, held : {"no", "review", "declined"},
                     authFlow : {None} \cup Flow]
      /\ inner'.active /\ inner'.authFlow = inner.authFlow /\ inner'.held = inner.held
      /\ inner.authFlow = None
    BY <1>1, <1>2 DEF McpInv, SwitchesFit, LoopFits
<1>4. /\ events' \in Seq(Events) /\ events' # <<>>
      /\ Contains(events, "done") => Contains(events', "done")
    BY <1>1, <1>2, SentFacts DEF LoopFits, Events
<1>5. ops' \in 0 .. MaxOps
    BY <1>2, McpBoundsAssumption DEF SwitchOn, Acts, LoopFits
<1>6. ThreadsFit' /\ LoopFits' /\ FlowsFit' /\ PageHasItsFlow'
    BY <1>1, <1>2, <1>3, <1>4, <1>5 DEF McpInv, ThreadsFit, LoopFits, FlowsFit, PageHasItsFlow
<1>7. /\ server' \in Servers /\ server'.generation = server.generation
      /\ server'.transport = server.transport /\ server'.tools = server.tools
      /\ server'.relisting = server.relisting /\ server'.again = server.again
      /\ server'.status = server.status \/ (server.status = "off" /\ server'.status = "pending")
    BY <1>1, <1>2 DEF Servers, Statuses
<1>8. ServerFits' /\ WorkersFit'
    BY <1>1, <1>2, <1>7 DEF ServerFits, WorkersFit
<1>9. HoldersFit' /\ ListingsFit' /\ ChangeIsListed'
    BY <1>1, <1>7 DEF McpInv, HoldersFit, Referenced, ListingsFit, ChangeIsListed, InUse,
       ListingNow, FlagLeft
<1>10. ConnectsFit' /\ PendingConnects'
    BY <1>1, <1>7 DEF McpInv, ConnectsFit, PendingConnects, Connectable
<1>11. SwitchesFit' /\ ToolsAreLive'
    BY <1>1, <1>3, <1>4, <1>7 DEF McpInv, SwitchesFit, ToolsAreLive, Held
<1>12. QED
    BY <1>1, <1>6, <1>8, <1>9, <1>10, <1>11, TypeParts, TypePartsNext DEF McpInv

LEMMA ClearAuthKeeps == ASSUME McpInv, ClearAuth PROVE McpInv'
<1>1. /\ loop' = IF server.status \in {"connected", "failed"} THEN "spawn" ELSE "idle"
      /\ loop = "idle" /\ events' = Sent("changed")
      /\ UNCHANGED <<inner, server, connects, listings, calls, flows, entry, ui, owed>>
    BY DEF ClearAuth, Acts, managerVars, threadVars
<1>2. ServerFits /\ WorkersFit /\ ThreadsFit /\ LoopFits
    BY TypeParts DEF McpInv
<1>3. /\ events' \in Seq(Events) /\ events' # <<>>
      /\ Contains(events, "done") => Contains(events', "done")
    BY <1>1, <1>2, SentFacts DEF LoopFits, Events
<1>4. ops' \in 0 .. MaxOps
    BY <1>2, McpBoundsAssumption DEF ClearAuth, Acts, LoopFits
<1>5. ThreadsFit' /\ LoopFits' /\ FlowsFit' /\ PageHasItsFlow'
    BY <1>1, <1>2, <1>3, <1>4 DEF McpInv, ThreadsFit, LoopFits, FlowsFit, PageHasItsFlow
<1>6. SwitchesFit' /\ ToolsAreLive' /\ (Connectable => Connectable')
    BY <1>1, <1>3 DEF McpInv, SwitchesFit, ToolsAreLive, Connectable, Held
<1>7. UNCHANGED loop \/ loop' = "spawn"
    BY <1>1
<1>8. QED
    BY <1>1, <1>5, <1>6, <1>7, AsideStep

\* The sign-in on record is told to stop; one that has not begun is not.
LEMMA CancelledFacts ==
    ASSUME McpInv
    PROVE  /\ Cancelled(inner.authFlow) \in [Flow -> FlowStates]
           /\ \A f \in Flow : flows[f].pc = "idle" => Cancelled(inner.authFlow)[f] = flows[f]
           /\ \A f \in Flow : Cancelled(inner.authFlow)[f].pc = flows[f].pc
<1>1. ThreadsFit /\ LoopFits
    BY TypeParts DEF McpInv
<1>2. CASE inner.authFlow = None
    BY <1>1, <1>2 DEF Cancelled, ThreadsFit
<1>3. CASE inner.authFlow # None
  <2>1. PICK g \in Flow : g = inner.authFlow
    BY <1>1, <1>3 DEF LoopFits
  <2>2. flows[g].pc # "idle"
    BY <1>3, <2>1 DEF McpInv, FlowsFit
  <2> DEFINE told == [flows[g] EXCEPT !.cancelled = TRUE]
  <2>3. told \in FlowStates /\ told.pc = flows[g].pc
    BY <1>1 DEF ThreadsFit, FlowStates
  <2>4. Cancelled(inner.authFlow) = [flows EXCEPT ![g] = told]
    BY <1>3, <2>1 DEF Cancelled
  <2> HIDE DEF told
  <2>5. QED
    BY <1>1, <2>2, <2>3, <2>4 DEF ThreadsFit
<1>4. QED
    BY <1>2, <1>3

LEMMA AuthenticateKeeps == ASSUME McpInv, Authenticate PROVE McpInv'
<1>1. /\ ui.shown \in {"connected", "failed", "auth"}
      /\ UNCHANGED <<server, connects, listings, calls, entry, loop, events, owed>>
    BY DEF Authenticate, Acts
<1>2. PICK f \in Flow :
        /\ flows[f].pc = "idle"
        /\ flows' = [Cancelled(inner.authFlow) EXCEPT ![f].pc = "wait"]
        /\ inner' = [inner EXCEPT !.authFlow = f]
        /\ ui' = [ui EXCEPT !.page = f]
    BY DEF Authenticate
<1>3. ServerFits /\ ThreadsFit /\ LoopFits
    BY TypeParts DEF McpInv
<1>4. inner.active
    BY <1>1 DEF McpInv, SwitchesFit
<1>5. /\ inner' \in [active : BOOLEAN, disabled : BOOLEAN, held : {"no", "review", "declined"},
                     authFlow : {None} \cup Flow]
      /\ inner'.active /\ inner'.held = inner.held /\ inner'.authFlow = f
    BY <1>2, <1>3, <1>4 DEF LoopFits
<1>6. /\ ui' \in [shown : Statuses \cup {"closed"}, page : {None} \cup Flow, attached : Tools]
      /\ ui'.page = f /\ ui'.shown = ui.shown /\ ui'.attached = ui.attached
    BY <1>2, <1>3 DEF LoopFits
<1>7. ops' \in 0 .. MaxOps
    BY <1>3, McpBoundsAssumption DEF Authenticate, Acts, LoopFits
<1>8. /\ Cancelled(inner.authFlow) \in [Flow -> FlowStates]
      /\ \A h \in Flow : flows[h].pc = "idle" => Cancelled(inner.authFlow)[h] = flows[h]
      /\ \A h \in Flow : Cancelled(inner.authFlow)[h].pc = flows[h].pc
    BY CancelledFacts
<1> DEFINE stopped == Cancelled(inner.authFlow)
<1>9. /\ flows' = [stopped EXCEPT ![f].pc = "wait"]
      /\ stopped \in [Flow -> FlowStates]
      /\ \A h \in Flow : flows[h].pc = "idle" => stopped[h] = flows[h]
      /\ \A h \in Flow : stopped[h].pc = flows[h].pc
    BY <1>2, <1>8
<1> HIDE DEF stopped
<1>10. /\ flows' \in [Flow -> FlowStates]
       /\ flows'[f].pc = "wait" /\ flows'[f].cancelled = flows[f].cancelled
       /\ \A h \in Flow \ {f} : flows'[h] = stopped[h]
  <2> DEFINE begun == [stopped[f] EXCEPT !.pc = "wait"]
  <2>1. stopped[f] = flows[f] /\ stopped[f] \in FlowStates
    BY <1>2, <1>9
  <2>2. begun \in FlowStates /\ begun.pc = "wait" /\ begun.cancelled = flows[f].cancelled
    BY <2>1 DEF FlowStates
  <2>3. flows' = [stopped EXCEPT ![f] = begun]
    BY <1>9
  <2> HIDE DEF begun
  <2>4. QED
    BY <1>9, <2>2, <2>3
<1>11. ThreadsFit' /\ LoopFits'
    BY <1>1, <1>3, <1>5, <1>6, <1>7, <1>10 DEF ThreadsFit, LoopFits
<1>12. FlowsFit'
  <2>1. \A h \in Flow : flows[h].pc = "idle" => ~flows[h].cancelled
    BY DEF McpInv, FlowsFit
  <2>2. \A h \in Flow : flows'[h].pc = "idle" => ~flows'[h].cancelled
    BY <1>9, <1>10, <2>1
  <2>3. QED
    BY <1>2, <1>5, <1>10, <2>1, <2>2 DEF FlowsFit
<1>13. SwitchesFit' /\ PageHasItsFlow' /\ ToolsAreLive' /\ (Connectable => Connectable')
    BY <1>1, <1>4, <1>5, <1>6 DEF McpInv, SwitchesFit, PageHasItsFlow, ToolsAreLive, Offered,
       Connectable, Held
<1>14. QED
    BY <1>1, <1>11, <1>12, <1>13, AsideStep

LEMMA LeaveAuthKeeps == ASSUME McpInv, LeaveAuth PROVE McpInv'
<1>1. /\ inner' = [inner EXCEPT !.authFlow = None] /\ flows' = Cancelled(inner.authFlow)
      /\ UNCHANGED <<server, connects, listings, calls, entry, loop, events, owed, ops>>
    BY DEF LeaveAuth
<1>2. PICK shown \in {ui.shown, "closed"} : ui' = [ui EXCEPT !.page = None, !.shown = shown]
    BY DEF LeaveAuth
<1>3. ServerFits /\ ThreadsFit /\ LoopFits
    BY TypeParts DEF McpInv
<1>4. /\ inner' \in [active : BOOLEAN, disabled : BOOLEAN, held : {"no", "review", "declined"},
                     authFlow : {None} \cup Flow]
      /\ inner'.active = inner.active /\ inner'.held = inner.held /\ inner'.authFlow = None
    BY <1>1, <1>3 DEF LoopFits
<1>5. /\ ui' \in [shown : Statuses \cup {"closed"}, page : {None} \cup Flow, attached : Tools]
      /\ ui'.page = None /\ ui'.attached = ui.attached /\ ui'.shown \in {ui.shown, "closed"}
    BY <1>2, <1>3 DEF LoopFits
<1>6. /\ flows' \in [Flow -> FlowStates]
      /\ \A f \in Flow : flows[f].pc = "idle" => flows'[f] = flows[f]
      /\ \A f \in Flow : flows'[f].pc = flows[f].pc
    BY <1>1, CancelledFacts
<1>7. ThreadsFit' /\ LoopFits'
    BY <1>1, <1>3, <1>4, <1>5, <1>6 DEF ThreadsFit, LoopFits
<1>8. FlowsFit'
    BY <1>4, <1>6 DEF McpInv, FlowsFit
<1>9. SwitchesFit' /\ PageHasItsFlow' /\ ToolsAreLive' /\ (Connectable => Connectable')
    BY <1>1, <1>4, <1>5 DEF McpInv, SwitchesFit, PageHasItsFlow, ToolsAreLive, Offered,
       Connectable, Held
<1>10. QED
    BY <1>1, <1>7, <1>8, <1>9, AsideStep

LEMMA McpStutters == ASSUME McpInv, UNCHANGED vars PROVE McpInv'
<1>1. TypeOK'
    BY DEF McpInv, TypeOK, vars
<1>2. HoldersFit' /\ ListingsFit' /\ ConnectsFit' /\ SwitchesFit' /\ FlowsFit'
    BY DEF McpInv, HoldersFit, Referenced, ListingsFit, ConnectsFit, SwitchesFit, FlowsFit, vars,
       Connectable, Held
<1>3. PendingConnects' /\ PageHasItsFlow' /\ ToolsAreLive' /\ ChangeIsListed'
    BY DEF McpInv, PendingConnects, PageHasItsFlow, ToolsAreLive, Offered, ChangeIsListed, InUse,
       ListingNow, FlagLeft, vars
<1>4. QED
    BY <1>1, <1>2, <1>3 DEF McpInv

-----------------------------------------------------------------------------
(* The invariant.                                                          *)

LEMMA McpStarts == ASSUME Init PROVE McpInv
<1> DEFINE Kept(disabled, held) == CASE held = "review" -> "review"
                                     [] held = "declined" \/ disabled -> "disabled"
                                     [] OTHER -> "pending"
           Off(disabled, mcp, held) == ~mcp /\ Kept(disabled, held) = "pending"
           Status(disabled, mcp, held) ==
              IF Off(disabled, mcp, held) THEN "off" ELSE Kept(disabled, held)
           Begins(disabled, mcp, held) ==
              /\ inner = [active |-> mcp, disabled |-> disabled, held |-> held, authFlow |-> None]
              /\ server = [status |-> Status(disabled, mcp, held),
                           generation |-> IF Off(disabled, mcp, held) THEN 2 ELSE 1,
                           transport |-> None, tools |-> NoTools, relisting |-> FALSE,
                           again |-> FALSE, cooling |-> FALSE]
              /\ loop = IF mcp THEN "start" ELSE "idle"
              /\ events = IF mcp THEN <<>> ELSE <<"changed">>
<1>1. PICK disabled \in BOOLEAN, mcp \in BOOLEAN, held \in {"no", "review", "declined"} :
        Begins(disabled, mcp, held)
  <2>1. \E disabled, mcp \in BOOLEAN :
         \E held \in IF entry.scope = "project" THEN {"no", "review", "declined"} ELSE {"no"} :
            Begins(disabled, mcp, held)
    BY DEF Init
  <2> HIDE DEF Begins
  <2>2. QED
    BY <2>1
<1>2. PICK status, generation :
        /\ server = [status |-> status, generation |-> generation,
                     transport |-> None, tools |-> NoTools, relisting |-> FALSE,
                     again |-> FALSE, cooling |-> FALSE]
        /\ status \in {"review", "disabled", "pending", "off"} /\ generation \in {1, 2}
        /\ held # "no" => status \in {"review", "disabled"}
        /\ status = "pending" => mcp
        /\ ~mcp => status \in {"off", "disabled", "review"}
  <2>1. /\ Status(disabled, mcp, held) \in {"review", "disabled", "pending", "off"}
        /\ held # "no" => Status(disabled, mcp, held) \in {"review", "disabled"}
        /\ Status(disabled, mcp, held) = "pending" => mcp
    OBVIOUS
  <2>2. (IF Off(disabled, mcp, held) THEN 2 ELSE 1) \in {1, 2}
    OBVIOUS
  <2> HIDE DEF Off, Status
  <2>3. QED
    BY <1>1, <2>1, <2>2
<1> HIDE DEF Kept, Off, Status
<1>3. /\ entry \in Entries /\ connects = {} /\ listings = {} /\ owed = FALSE /\ ops = 0
      /\ calls = [c \in Calls |-> Idle]
      /\ flows = [f \in Flow |-> [pc |-> "idle", cancelled |-> FALSE]]
      /\ ui = [shown |-> "closed", page |-> None, attached |-> NoTools]
    BY DEF Init
<1>4. /\ server \in Servers /\ server.status = status /\ server.generation = generation
      /\ server.transport = None /\ server.tools = NoTools
      /\ generation # None /\ generation \in Nat
    BY <1>2, NoToolsType DEF Servers, Statuses, Generation, None
<1>5. Idle \in CallStates /\ Idle.on = None /\ Idle.gen = None
    BY DEF Idle, CallStates, Generation, None
<1>6. <<>> \in Seq(Events) /\ <<"changed">> \in Seq(Events) /\ <<"changed">> # <<>>
    BY DEF Events
<1>7. ServerFits /\ WorkersFit
    BY <1>2, <1>3, <1>4 DEF ServerFits, WorkersFit
<1>8. ThreadsFit
    BY <1>3, <1>5 DEF ThreadsFit, FlowStates
<1>9. ops \in 0 .. MaxOps
    BY <1>3, McpBoundsAssumption
<1>10. LoopFits
    BY <1>1, <1>3, <1>6, <1>9, NoToolsType DEF LoopFits
<1>11. Referenced \subseteq {None}
    BY <1>3, <1>4, <1>5 DEF Referenced
<1>12. HoldersFit /\ ConnectsFit /\ ListingsFit
    BY <1>3, <1>4, <1>5, <1>11 DEF HoldersFit, ConnectsFit, ListingsFit, None
<1>13. SwitchesFit /\ FlowsFit /\ PageHasItsFlow
    BY <1>1, <1>2, <1>3, <1>4 DEF SwitchesFit, FlowsFit, PageHasItsFlow, Held
<1>14. PendingConnects /\ ToolsAreLive /\ ChangeIsListed
    BY <1>1, <1>2, <1>3, <1>4, NoToolsType DEF PendingConnects, ToolsAreLive, ChangeIsListed, Offered
<1>15. QED
    BY <1>3, <1>7, <1>8, <1>10, <1>12, <1>13, <1>14, TypeParts DEF McpInv

LEMMA McpStepKeeps == ASSUME McpInv, [Next]_vars PROVE McpInv'
<1>1. CASE \E g \in connects : ConnectLands(g)
    BY <1>1, ConnectLandsKeeps
<1>2. CASE \E g \in Referenced : ToldOfChange(g)
    BY <1>2, ToldOfChangeKeeps
<1>3. CASE \E w \in listings : ListingAnswered(w) \/ ListingEnds(w)
    BY <1>3, ListingAnsweredKeeps, ListingEndsKeeps
<1>4. CASE \E c \in Calls : CallStep(c)
    BY <1>4, CallBeginsKeeps, CallAnsweredKeeps, CallRelistsKeeps, CallRefusedKeeps,
       RestartDeadKeeps, CallSpawnsKeeps DEF CallStep
<1>5. CASE CooldownOver
    BY <1>5, CooldownOverKeeps
<1>6. CASE \E f \in Flow : FlowStep(f)
    BY <1>6, GotCodeKeeps, FlowEndsKeeps, FlowSpawnsKeeps DEF FlowStep
<1>7. CASE LoopStep
    BY <1>7, StartConnectionsKeeps, LoopSpawnsKeeps, EnableUserKeeps DEF LoopStep
<1>8. CASE ReadEvent
    BY <1>8, ReadEventKeeps
<1>9. CASE UserStep
    BY <1>9, ToggleMenuKeeps, ReconnectKeeps, DisableKeeps, EnableKeeps, EnableProjectKeeps,
       ReviewAnswerKeeps, SwitchOffKeeps, SwitchOnKeeps, ClearAuthKeeps, AuthenticateKeeps,
       LeaveAuthKeeps DEF UserStep
<1>10. CASE UNCHANGED vars
    BY <1>10, McpStutters
<1>11. QED
    BY <1>1, <1>2, <1>3, <1>4, <1>5, <1>6, <1>7, <1>8, <1>9, <1>10 DEF Next

\* Whoever comes back with the current generation means the live connection, and a
\* connect that has it may land: what every property of the manager rests on
\* (ServerState::generation, llm/mcp/manager.rs).
THEOREM GenerationsFit == Spec => []McpInv
<1>1. Init => McpInv
    BY McpStarts
<1>2. McpInv /\ [Next]_vars => McpInv'
    BY McpStepKeeps
<1>3. QED
    BY <1>1, <1>2, PTL DEF Spec

\* Every value of the manager, its threads and the session is of its type, and a server
\* has a connection exactly while it is connected.
THEOREM McpTypes == Spec => []TypeOK
<1>1. McpInv => TypeOK
    BY DEF McpInv
<1>2. QED
    BY <1>1, GenerationsFit, PTL

\* What is kept, shown and offered of a server is the live connection's, and a change it
\* tells of is listed: no call, worker or connect of an older connection comes between
\* (offered, change_sink and relist of the manager).
THEOREM ToolsFollow == Spec => []ToolsFollowServer
<1>1. McpInv => ToolsFollowServer
    BY DEF McpInv, ToolsFollowServer
<1>2. QED
    BY <1>1, GenerationsFit, PTL

\* Nothing connects while it is off or held, whoever asked before, and no server is left
\* connecting with nobody at it (spawn_connect, set_active, set_approved).
THEOREM ConnectsObey == Spec => []ConnectsAsSwitched
<1>1. ASSUME McpInv PROVE ConnectsAsSwitched
  <2>1. ServerFits
    BY <1>1, TypeParts DEF McpInv
  <2>2. ~Connectable => server.status # "connected"
    BY <1>1 DEF McpInv, SwitchesFit, Connectable
  <2>3. ~Connectable => server.generation \notin connects
    BY <1>1 DEF McpInv, ConnectsFit
  <2>4. ~inner.active => inner.authFlow = None
    BY <1>1 DEF McpInv, SwitchesFit
  <2>5. SwitchedOffStaysOff
    BY <2>1, <2>2, <2>3, <2>4 DEF SwitchedOffStaysOff, ServerFits
  <2>6. QED
    BY <1>1, <2>5 DEF ConnectsAsSwitched, McpInv
<1>2. QED
    BY <1>1, GenerationsFit, PTL

\* The page of a sign-in is its own, until the end of one is on its way to close it
\* (run_auth_flow and cancel_auth).
THEOREM PageKeepsItsFlow == Spec => []PageHasItsFlow
<1>1. McpInv => PageHasItsFlow
    BY DEF McpInv
<1>2. QED
    BY <1>1, GenerationsFit, PTL

-----------------------------------------------------------------------------
(* Restarts.                                                               *)

\* A restart under way never remembers a generation to come, and finds the server it left
\* as it left it: no connection, and no connect that may land.
RestartsFit ==
    \A c \in Calls :
        /\ calls[c].left <= server.generation
        /\ calls[c].pc = "spawn" /\ calls[c].left = server.generation =>
              server.transport = None /\ server.generation \notin connects

\* The server with no connection and none that may land.
Bare == server.transport = None /\ server.generation \notin connects

\* A connection, or a connect that may land, comes only with a new generation.
LEMMA GenerationMoves ==
    ASSUME McpInv, Next
    PROVE  /\ server.generation \in Nat /\ server'.generation \in Nat
           /\ \/ server'.generation = server.generation + 1
              \/ server'.generation = server.generation /\ (Bare => Bare')
<1> DEFINE Moves == \/ server'.generation = server.generation + 1
                    \/ server'.generation = server.generation /\ (Bare => Bare')
<1>1. ServerFits /\ server \in Servers /\ server.generation \in Nat
    BY TypeParts DEF McpInv, ServerFits, Servers, Generation
<1>2. ASSUME UNCHANGED <<server, connects>> PROVE Moves
    BY <1>2 DEF Bare
<1>3. ASSUME UNCHANGED connects, server'.generation = server.generation,
             server'.transport = server.transport
      PROVE  Moves
    BY <1>3 DEF Bare
<1>4. ASSUME SpawnConnect PROVE Moves
    BY <1>2, <1>4, SpawnFacts
<1>5. ASSUME NEW status \in Statuses \ {"connected"},
             server' = [Drop(server) EXCEPT !.status = status]
      PROVE  Moves
    BY <1>1, <1>5, DropFacts
<1>6. {"failed", "auth", "disabled", "off"} \subseteq Statuses \ {"connected"}
    BY DEF Statuses
<1> SUFFICES Moves
    BY <1>1 DEF Moves
<1> HIDE DEF Moves
<1>7. CASE \E g \in connects : ConnectLands(g)
  <2>1. PICK g \in connects : ConnectLands(g)
    BY <1>7
  <2>2. CASE g # server.generation
    <3>1. server' = server /\ connects' = connects \ {g}
      BY <2>1, <2>2 DEF ConnectLands
    <3>2. QED
      BY <3>1 DEF Moves, Bare
  <2>3. CASE g = server.generation
    <3>1. server'.generation = server.generation
      BY <2>1, <1>1 DEF ConnectLands, Servers
    <3>2. QED
      BY <3>1, <2>1, <2>3 DEF Moves, Bare
  <2>4. QED
    BY <2>2, <2>3
<1>8. CASE \E g \in Referenced : ToldOfChange(g)
  <2>1. PICK g \in Referenced : ToldOfChange(g)
    BY <1>8
  <2>2. /\ UNCHANGED connects /\ server'.generation = server.generation
        /\ server'.transport = server.transport
    BY <2>1, <1>1 DEF ToldOfChange, Servers
  <2>3. QED
    BY <2>2, <1>3
<1>9. CASE \E w \in listings : ListingAnswered(w) \/ ListingEnds(w)
  <2>1. PICK w \in listings : ListingAnswered(w) \/ ListingEnds(w)
    BY <1>9
  <2>2. CASE ListingAnswered(w)
    BY <2>2, <1>2 DEF ListingAnswered, managerVars
  <2>3. CASE ListingEnds(w)
    <3>1. PICK ok \in BOOLEAN :
             \/ server' = server
             \/ LET kept == IF ok THEN [server EXCEPT !.tools = [from |-> w.on, list |-> w.list]]
                            ELSE server
                IN \/ server' = [kept EXCEPT !.again = FALSE]
                   \/ server' = [kept EXCEPT !.relisting = FALSE]
      BY <2>3 DEF ListingEnds
    <3>2. server'.generation = server.generation /\ server'.transport = server.transport
      BY <3>1, <1>1 DEF Servers
    <3>3. UNCHANGED connects
      BY <2>3 DEF ListingEnds
    <3>4. QED
      BY <3>2, <3>3, <1>3
  <2>4. QED
    BY <2>1, <2>2, <2>3
<1>10. CASE \E c \in Calls : CallStep(c)
  <2>1. PICK c \in Calls : CallStep(c)
    BY <1>10
  <2>2. CASE CallBegins(c) \/ CallAnswered(c)
    BY <2>2, <1>2 DEF CallBegins, CallAnswered, managerVars
  <2>3. CASE CallRelists(c)
    <3>1. /\ UNCHANGED connects /\ server'.generation = server.generation
          /\ server'.transport = server.transport
      BY <2>3, <1>1 DEF CallRelists, Servers
    <3>2. QED
      BY <3>1, <1>3
  <2>4. CASE CallRefused(c)
    <3>1. UNCHANGED connects
      BY <2>4 DEF CallRefused
    <3>2. server' = server \/ server' = [Drop(server) EXCEPT !.status = "auth"]
      BY <2>4 DEF CallRefused
    <3>3. QED
      BY <3>1, <3>2, <1>2, <1>5, <1>6
  <2>5. CASE RestartDead(c)
    <3>1. UNCHANGED connects
      BY <2>5 DEF RestartDead
    <3>2. \/ server' = server
          \/ server' = [[Drop(server) EXCEPT !.status = "failed"] EXCEPT !.cooling = TRUE]
      BY <2>5 DEF RestartDead
    <3>3. CASE server' = server
      BY <3>1, <3>3, <1>2
    <3>4. CASE server' = [[Drop(server) EXCEPT !.status = "failed"] EXCEPT !.cooling = TRUE]
      <4> DEFINE dropped == [Drop(server) EXCEPT !.status = "failed"]
      <4>1. dropped \in Servers /\ dropped.generation = server.generation + 1
        BY <1>1, <1>6, DropFacts
      <4>2. server' = [dropped EXCEPT !.cooling = TRUE]
        BY <3>4
      <4> HIDE DEF dropped
      <4>3. server'.generation = server.generation + 1
        BY <4>1, <4>2 DEF Servers
      <4>4. QED
        BY <4>3 DEF Moves
    <3>5. QED
      BY <3>2, <3>3, <3>4
  <2>6. CASE CallSpawns(c)
    BY <2>6, <1>4 DEF CallSpawns
  <2>7. QED
    BY <2>1, <2>2, <2>3, <2>4, <2>5, <2>6 DEF CallStep
<1>11. CASE CooldownOver
  <2>1. /\ UNCHANGED connects /\ server'.generation = server.generation
        /\ server'.transport = server.transport
    BY <1>11, <1>1 DEF CooldownOver, Servers
  <2>2. QED
    BY <2>1, <1>3
<1>12. CASE \E f \in Flow : FlowStep(f)
  <2>1. PICK f \in Flow : FlowStep(f)
    BY <1>12
  <2>2. CASE GotCode(f) \/ FlowEnds(f)
    BY <2>2, <1>2 DEF GotCode, FlowEnds, managerVars
  <2>3. CASE FlowSpawns(f)
    BY <2>3, <1>4 DEF FlowSpawns
  <2>4. QED
    BY <2>1, <2>2, <2>3 DEF FlowStep
<1>13. CASE LoopStep
  <2>1. CASE StartConnections
    BY <2>1, <1>2 DEF StartConnections, managerVars
  <2>2. CASE LoopSpawns
    BY <2>2, <1>4 DEF LoopSpawns
  <2>3. CASE EnableUser
    <3>1. server'.generation = server.generation + 1
      BY <2>3, <1>1 DEF EnableUser, Servers
    <3>2. QED
      BY <3>1 DEF Moves
  <2>4. QED
    BY <1>13, <2>1, <2>2, <2>3 DEF LoopStep
<1>14. CASE ReadEvent
    BY <1>14, <1>2 DEF ReadEvent, managerVars
<1>15. CASE UserStep
  <2>1. CASE ToggleMenu \/ Enable \/ ClearAuth \/ Authenticate \/ LeaveAuth
    BY <2>1, <1>2 DEF ToggleMenu, Enable, ClearAuth, Authenticate, LeaveAuth, managerVars
  <2>2. CASE Reconnect
    BY <2>2, <1>4 DEF Reconnect
  <2>3. CASE Disable
    BY <2>3, <1>5, <1>6 DEF Disable
  <2>4. ASSUME NEW next, Approved(next), UNCHANGED connects PROVE Moves
    <3>1. server'.generation = server.generation /\ server'.transport = server.transport
      BY <2>4, <1>1 DEF Approved, Servers
    <3>2. QED
      BY <2>4, <3>1, <1>3
  <2>5. CASE EnableProject
    BY <2>5, <2>4 DEF EnableProject
  <2>6. CASE ReviewAnswer
    <3>1. UNCHANGED connects
      BY <2>6 DEF ReviewAnswer
    <3>2. Approved("idle") \/ server' = [Drop(server) EXCEPT !.status = "disabled"]
      BY <2>6 DEF ReviewAnswer
    <3>3. QED
      BY <3>1, <3>2, <2>4, <1>5, <1>6
  <2>7. CASE SwitchOff
    <3>1. UNCHANGED connects
      BY <2>7 DEF SwitchOff
    <3>2. server' = server \/ server' = [Drop(server) EXCEPT !.status = "off"]
      BY <2>7 DEF SwitchOff
    <3>3. QED
      BY <3>1, <3>2, <1>2, <1>5, <1>6
  <2>8. CASE SwitchOn
    <3>1. /\ UNCHANGED connects /\ server'.generation = server.generation
          /\ server'.transport = server.transport
      BY <2>8, <1>1 DEF SwitchOn, Servers
    <3>2. QED
      BY <3>1, <1>3
  <2>9. QED
    BY <1>15, <2>1, <2>2, <2>3, <2>5, <2>6, <2>7, <2>8 DEF UserStep
<1>16. QED
    BY <1>7, <1>8, <1>9, <1>10, <1>11, <1>12, <1>13, <1>14, <1>15 DEF Next

\* A step of another call, or of no call, leaves a call as it is.
LEMMA CallsMove ==
    ASSUME McpInv, Next, NEW c \in Calls, calls'[c] # calls[c]
    PROVE  CallStep(c)
<1>1. ThreadsFit
    BY TypeParts DEF McpInv
<1>2. PICK d \in Calls : CallStep(d)
    BY DEF Next, ConnectLands, ToldOfChange, ListingAnswered, ListingEnds,
       CooldownOver, FlowStep, GotCode, FlowEnds, FlowSpawns, LoopStep, StartConnections,
       LoopSpawns, EnableUser, ReadEvent, UserStep, ToggleMenu, Reconnect, Disable, Enable,
       EnableProject, ReviewAnswer, SwitchOff, SwitchOn, ClearAuth, Authenticate, LeaveAuth,
       threadVars
<1>3. \A e \in Calls \ {d} : calls'[e] = calls[e]
    BY <1>1, <1>2 DEF CallStep, CallBegins, CallAnswered, CallRelists, CallRefused,
       RestartDead, CallSpawns, ThreadsFit
<1>4. QED
    BY <1>2, <1>3

\* The restart remembers the generation of its own drop, and no other call one at all.
LEMMA RestartsKeep == ASSUME McpInv, RestartsFit, [Next]_vars PROVE RestartsFit'
<1>1. CASE UNCHANGED vars
    BY <1>1 DEF RestartsFit, vars
<1>2. CASE Next
  <2>1. /\ server.generation \in Nat /\ server'.generation \in Nat
        /\ \/ server'.generation = server.generation + 1
           \/ server'.generation = server.generation /\ (Bare => Bare')
    BY <1>2, GenerationMoves
  <2>2. /\ calls \in [Calls -> CallStates] /\ ServerFits
        /\ connects \subseteq 1 .. server.generation
        /\ \A d \in Calls : calls[d].left \in Nat
    BY TypeParts DEF McpInv, ThreadsFit, WorkersFit, CallStates, Generation
  <2> SUFFICES ASSUME NEW c \in Calls
               PROVE  /\ calls'[c].left <= server'.generation
                      /\ calls'[c].pc = "spawn" /\ calls'[c].left = server'.generation => Bare'
    BY DEF RestartsFit, Bare
  <2>3. /\ calls[c].left \in Nat /\ calls[c].left <= server.generation
        /\ calls[c].pc = "spawn" /\ calls[c].left = server.generation => Bare
    BY <2>2 DEF RestartsFit, Bare
  <2>4. CASE calls'[c] = calls[c]
    <3>1. CASE server'.generation = server.generation + 1
      BY <2>1, <2>3, <2>4, <3>1
    <3>2. CASE server'.generation = server.generation /\ (Bare => Bare')
      BY <2>3, <2>4, <3>2
    <3>3. QED
      BY <2>1, <3>1, <3>2
  <2>5. CASE calls'[c] # calls[c]
    <3>1. CallStep(c)
      BY <1>2, <2>5, CallsMove
    <3>2. CASE CallBegins(c) \/ CallAnswered(c) \/ CallRelists(c) \/ CallRefused(c) \/ CallSpawns(c)
      <4>1. calls'[c].pc # "spawn" /\ calls'[c].left \in {calls[c].left, None}
        <5>1. calls[c] \in CallStates /\ Done.pc = "done" /\ Done.left = None
          BY <2>2 DEF Done, Idle
        <5>2. CASE CallBegins(c)
          BY <2>2, <5>1, <5>2 DEF CallBegins, CallStates
        <5>3. CASE CallAnswered(c)
          <6>1. PICK after : /\ calls' = [calls EXCEPT ![c] = after]
                             /\ \/ after = Done
                                \/ \E result \in {"ok", "died", "refused"},
                                      relisted \in {NoList} \cup Catalogs :
                                      after = [calls[c] EXCEPT !.pc = "back", !.result = result,
                                                               !.relisted = relisted]
            BY <2>2, <5>3 DEF CallAnswered
          <6>2. after.pc # "spawn" /\ after.left \in {calls[c].left, None}
            <7>1. CASE after = Done
              BY <5>1, <7>1
            <7>2. CASE after # Done
              <8>1. PICK result \in {"ok", "died", "refused"}, relisted \in {NoList} \cup Catalogs :
                      after = [calls[c] EXCEPT !.pc = "back", !.result = result,
                                               !.relisted = relisted]
                BY <6>1, <7>2
              <8>2. QED
                BY <5>1, <8>1 DEF CallStates
            <7>3. QED
              BY <7>1, <7>2
          <6>3. QED
            BY <2>2, <6>1, <6>2
        <5>4. CASE CallRelists(c)
          <6>1. \/ calls'[c] = Done
                \/ calls'[c] = [calls[c] EXCEPT !.relisted = NoList] /\ calls[c].pc = "back"
            BY <2>2, <5>4 DEF CallRelists
          <6>2. QED
            BY <5>1, <6>1 DEF CallStates
        <5>5. CASE CallRefused(c) \/ CallSpawns(c)
          <6>1. calls'[c] = Done
            BY <2>2, <5>5 DEF CallRefused, CallSpawns
          <6>2. QED
            BY <5>1, <6>1
        <5>6. QED
          BY <3>2, <5>2, <5>3, <5>4, <5>5
      <4>2. QED
        BY <4>1, <2>1, <2>3 DEF None
    <3>3. CASE RestartDead(c)
      <4>1. CASE calls'[c] = Done
        BY <4>1, <2>1 DEF Done, Idle, None
      <4>2. CASE calls'[c] # Done
        <5>1. /\ calls'[c] = [Done EXCEPT !.pc = "spawn", !.left = server.generation + 1]
              /\ server' = [[Drop(server) EXCEPT !.status = "failed"] EXCEPT !.cooling = TRUE]
              /\ connects' = connects
          BY <3>3, <4>2, <2>2 DEF RestartDead
        <5> DEFINE dropped == [Drop(server) EXCEPT !.status = "failed"]
        <5>2. /\ dropped \in Servers /\ dropped.transport = None
              /\ dropped.generation = server.generation + 1
          BY <2>2, DropFacts DEF Statuses
        <5>3. server' = [dropped EXCEPT !.cooling = TRUE]
          BY <5>1
        <5> HIDE DEF dropped
        <5>4. server'.transport = None /\ server'.generation = server.generation + 1
          BY <5>2, <5>3 DEF Servers
        <5>5. calls'[c].left = server.generation + 1
          BY <5>1 DEF Done, Idle
        <5>6. server'.generation \notin connects'
          BY <5>1, <5>4, <2>1, <2>2
        <5>7. QED
          BY <5>4, <5>5, <5>6, <2>1 DEF Bare
      <4>3. QED
        BY <4>1, <4>2
    <3>4. QED
      BY <3>1, <3>2, <3>3 DEF CallStep
  <2>6. QED
    BY <2>4, <2>5
<1>3. QED
    BY <1>1, <1>2

\* A call that ends in a 401 or a death leaves a newer connection and a newer connect
\* alone, and the connect of its restart finds neither, unless the server was moved on
\* since the restart's drop (restart_dead and the 401 of call_tool).
THEOREM LateCallsLeaveNewer == Spec => NewerStands
<1>1. Init => RestartsFit
  <2>1. ASSUME Init PROVE RestartsFit
    <3>1. McpInv
      BY <2>1, McpStarts
    <3>2. server.generation \in Nat
      BY <3>1, TypeParts DEF McpInv, ServerFits, Servers, Generation
    <3>3. \A c \in Calls : calls[c].pc = "idle" /\ calls[c].left = 0
      BY <2>1 DEF Init, Idle, None
    <3>4. QED
      BY <3>2, <3>3 DEF RestartsFit
  <2>2. QED
    BY <2>1
<1>2. ASSUME McpInv, RestartsFit, [Next]_vars
      PROVE  \A c \in Calls :
                calls'[c] # calls[c] /\ server'.generation # server.generation =>
                    \/ calls[c].pc = "back" /\ server.transport = calls[c].on
                    \/ /\ calls[c].pc = "spawn"
                       /\ server.transport = None /\ server.generation \notin connects
                    \/ Overtaken(c)
  <2> SUFFICES ASSUME NEW c \in Calls, calls'[c] # calls[c],
                      server'.generation # server.generation
               PROVE  \/ calls[c].pc = "back" /\ server.transport = calls[c].on
                      \/ /\ calls[c].pc = "spawn"
                         /\ server.transport = None /\ server.generation \notin connects
                      \/ Overtaken(c)
    OBVIOUS
  <2>1. Next /\ server \in Servers
    BY <1>2, TypeParts DEF vars, McpInv, ServerFits
  <2>2. CallStep(c)
    BY <1>2, <2>1, CallsMove
  <2>3. CASE CallBegins(c) \/ CallAnswered(c)
    BY <2>3 DEF CallBegins, CallAnswered, managerVars
  <2>4. CASE CallRelists(c)
    BY <2>4, <2>1 DEF CallRelists, Servers
  <2>5. CASE CallRefused(c) \/ RestartDead(c)
    <3>1. calls[c].gen = server.generation /\ calls[c].pc = "back"
      BY <2>5 DEF CallRefused, RestartDead
    <3>2. QED
      BY <1>2, <3>1, CallHoldsLive
  <2>6. CASE CallSpawns(c)
    BY <1>2, <2>6 DEF CallSpawns, RestartsFit, Overtaken
  <2>7. QED
    BY <2>2, <2>3, <2>4, <2>5, <2>6 DEF CallStep
<1>3. McpInv /\ RestartsFit /\ [Next]_vars => RestartsFit'
    BY RestartsKeep
<1>4. QED
    BY <1>1, <1>2, <1>3, GenerationsFit, PTL DEF Spec, NewerStands
=============================================================================
