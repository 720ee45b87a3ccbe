--------------------------- MODULE McpConnections ---------------------------
(***************************************************************************)
(* One MCP server and all who reach for its connection                     *)
(* (llm/mcp/manager.rs): the session loop, which connects it at startup    *)
(* and applies the switches of /mcp, /settings and the review              *)
(* (tui/mcp.rs, tui/trust.rs), the worker of each connect, the worker that *)
(* lists tools again, the calls of the backends' threads, and the threads  *)
(* of sign-ins.  Each step is what happens under one hold of the manager's *)
(* lock and the event sent after it.  A connection is named by the         *)
(* generation of the connect that opened it.  The OAuth dance of a connect *)
(* or a call is its outcome, and no stored token is kept.                  *)
(***************************************************************************)
EXTENDS Naturals, Sequences, FiniteSets, SequencesExt

CONSTANTS
    Entries,    \* the server: what it is ("stdio", "http", or "sse", a legacy event
                \* stream) and who declared it ("user", "project")
    Catalogs,   \* the lists of tools it may give
    Calls,      \* the tool calls of the backends' threads
    MaxOps,     \* bound: the user's operations on the manager
    MaxFlows    \* bound: sign-ins begun

ASSUME EntriesAssumption ==
    Entries \subseteq [kind : {"stdio", "http", "sse"}, scope : {"user", "project"}]
ASSUME McpBoundsAssumption == {MaxOps, MaxFlows} \subseteq Nat

VARIABLES
    entry,      \* the server's kind and scope
    inner,      \* the manager: whether MCP runs, whether the user's file disables the
                \* server, what hold the review has on it, the sign-in running
    server,     \* its ServerState
    connects,   \* the generations of the connects whose workers are under way
    listings,   \* the workers listing tools again: the connection, whether the request
                \* is answered, and with what
    calls,      \* call |-> where it is, the connection it went out on, the server's
                \* generation then, how it ended, the tools it listed on the way, and
                \* (nothing the code keeps) the generation its restart left the server at
    flows,      \* sign-in |-> where its thread is and whether it is cancelled
    loop,       \* the lock the session loop takes next, inside a handler
    events,     \* the MCP channel, unread
    ui,         \* what the open menu says of the server, the sign-in whose page is
                \* open, and the tools the model is offered
    owed,       \* whether the connection in use told of a change no listing has answered
    ops         \* the user's operations so far

managerVars == <<inner, server, connects>>
threadVars == <<listings, calls, flows>>
vars == <<entry, inner, server, connects, listings, calls, flows, loop, events, ui, owed, ops>>

None == 0
Remote == entry.kind # "stdio"
NoList == "none"
NoTools == [from |-> None, list |-> NoList]
Flow == 1 .. MaxFlows
Idle == [pc |-> "idle", on |-> None, gen |-> None, result |-> "none", relisted |-> NoList,
         left |-> None]
Done == [Idle EXCEPT !.pc = "done"]

-----------------------------------------------------------------------------
(* The manager's state *)

\* Were the connection itself left.
DropKeeps(s) == [s EXCEPT !.generation = @ + 1, !.tools = NoTools]

\* ServerState::drop_connection
Drop(s) == [s EXCEPT !.generation = @ + 1, !.transport = None, !.tools = NoTools]

\* ServerState::offered
Offered(s) == IF s.status = "connected" THEN s.tools ELSE NoTools

Held == inner.held # "no"

\* McpManager::notify.  Two events in a row that only say the state changed are read as one.
Sent(event) ==
    IF event = "changed" /\ events # <<>> /\ Last(events) = "changed" THEN events
    ELSE Append(events, event)

\* Neither the session's switch nor the review keeps the server from connecting.
Connectable == ~Held /\ inner.active

\* Were the session's switch and the review's hold left to the callers.
SpawnUnasked ==
    /\ server' = [Drop(server) EXCEPT !.status = "pending"]
    /\ connects' = connects \cup {server'.generation}
    /\ events' = Sent("changed")

\* McpManager::spawn_connect
SpawnConnect ==
    /\ server' = IF Held THEN server
                 ELSE [Drop(server) EXCEPT !.status =
                          IF inner.active THEN "pending"
                          ELSE IF inner.disabled THEN "disabled" ELSE "off"]
    /\ connects' = IF Connectable THEN connects \cup {server'.generation} ELSE connects
    /\ events' = IF Held THEN events ELSE Sent("changed")

\* McpManager::new, and the startup kick or the setting that MCP is off.
Init ==
    /\ entry \in Entries
    /\ \E disabled, mcp \in BOOLEAN :
       \E held \in IF entry.scope = "project" THEN {"no", "review", "declined"} ELSE {"no"} :
          LET kept == CASE held = "review" -> "review"
                        [] held = "declined" \/ disabled -> "disabled"
                        [] OTHER -> "pending"
          IN /\ inner = [active |-> mcp, disabled |-> disabled, held |-> held,
                         authFlow |-> None]
             /\ server = [status |-> IF ~mcp /\ kept = "pending" THEN "off" ELSE kept,
                          generation |-> IF ~mcp /\ kept = "pending" THEN 2 ELSE 1,
                          transport |-> None, tools |-> NoTools, relisting |-> FALSE,
                          again |-> FALSE, cooling |-> FALSE]
             /\ loop = IF mcp THEN "start" ELSE "idle"
             /\ events = IF mcp THEN <<>> ELSE <<"changed">>
    /\ connects = {} /\ listings = {}
    /\ calls = [c \in Calls |-> Idle]
    /\ flows = [f \in Flow |-> [pc |-> "idle", cancelled |-> FALSE]]
    /\ ui = [shown |-> "closed", page |-> None, attached |-> NoTools]
    /\ owed = FALSE /\ ops = 0

-----------------------------------------------------------------------------
(* Workers: connects, and listings of tools that changed *)

\* The end of spawn_connect's worker.  The listing it brings may be older than a change
\* the server told before anyone watched.
ConnectLands(g) ==
    /\ g \in connects
    /\ connects' = connects \ {g}
    /\ \E result \in {"connected", "failed"} \cup IF Remote THEN {"auth"} ELSE {} :
       \E list \in Catalogs :
        IF g # server.generation THEN UNCHANGED <<server, events, owed>>
        ELSE /\ server' = IF result = "connected"
                          THEN [server EXCEPT !.status = result, !.transport = g,
                                              !.tools = [from |-> g, list |-> list]]
                          ELSE [server EXCEPT !.status = result]
             /\ events' = Sent("changed")
             /\ owed' = FALSE
    /\ UNCHANGED <<threadVars, entry, inner, loop, ui, ops>>

\* The connections somebody still holds, whose readers may deliver.
Referenced == {server.transport} \cup {calls[c].on : c \in Calls} \cup {w.on : w \in listings}

\* A change notification of connection g reaches its sink (change_sink, relist).
ToldOfChange(g) ==
    /\ g \in Referenced \ {None}
    /\ owed' = (owed \/ g = server.transport)
    /\ IF g # server.generation \/ server.status # "connected"
       THEN UNCHANGED <<server, listings>>
       ELSE IF server.relisting
       THEN server' = [server EXCEPT !.again = TRUE] /\ UNCHANGED listings
       ELSE /\ server' = [server EXCEPT !.relisting = TRUE]
            /\ listings' = listings \cup {[on |-> g, list |-> NoList]}
    /\ UNCHANGED <<inner, connects, calls, flows, loop, events, ui, entry, ops>>

\* The server answers the worker's request, which it took once no call held the
\* connection.
ListingAnswered(w) ==
    /\ w \in listings /\ w.list = NoList
    /\ \E list \in Catalogs :
        listings' = (listings \ {w}) \cup {[w EXCEPT !.list = list]}
    /\ owed' = (owed /\ w.on # server.transport)
    /\ UNCHANGED <<managerVars, entry, calls, flows, loop, events, ui, ops>>

\* The worker keeps what it was answered, and goes round once more if told again.
ListingEnds(w) ==
    /\ w \in listings /\ w.list # NoList
    /\ \E ok \in BOOLEAN :
       IF w.on # server.generation
       THEN listings' = listings \ {w} /\ UNCHANGED <<server, events>>
       ELSE LET kept == IF ok THEN [server EXCEPT !.tools = [from |-> w.on, list |-> w.list]]
                        ELSE server
            IN IF server.again
               THEN /\ server' = [kept EXCEPT !.again = FALSE]
                    /\ listings' = (listings \ {w}) \cup {[w EXCEPT !.list = NoList]}
                    /\ UNCHANGED events
               ELSE /\ server' = [kept EXCEPT !.relisting = FALSE]
                    /\ listings' = listings \ {w}
                    /\ events' = Sent("changed")
    /\ UNCHANGED <<inner, connects, calls, flows, entry, loop, ui, owed, ops>>

-----------------------------------------------------------------------------
(* Calls of the model, each on the thread of its turn or agent *)

\* call_tool's lookup; a call that finds no connection changes nothing.
CallBegins(c) ==
    /\ calls[c] = Idle
    /\ inner.active /\ server.status = "connected"
    /\ calls' = [calls EXCEPT ![c].pc = "sent", ![c].on = server.transport,
                              ![c].gen = server.generation]
    /\ UNCHANGED <<managerVars, listings, flows, entry, loop, events, ui, owed, ops>>

\* What the server answers: a result (or the turn was cancelled), its exit, a refusal
\* of the token however refreshed, and perhaps a request to be listed again first.
CallAnswered(c) ==
    /\ calls[c].pc = "sent"
    /\ \E result \in {"ok"} \cup (IF entry.kind # "http" THEN {"died"} ELSE {})
                            \cup (IF Remote THEN {"refused"} ELSE {}) :
       \E relisted \in {NoList} \cup IF entry.kind = "http" THEN Catalogs ELSE {} :
        calls' = [calls EXCEPT ![c] = IF result = "ok" /\ relisted = NoList THEN Done
                                      ELSE [@ EXCEPT !.pc = "back", !.result = result,
                                                     !.relisted = relisted]]
    /\ UNCHANGED <<managerVars, listings, flows, entry, loop, events, ui, owed, ops>>

\* The tools listed under the call are the server's now.
CallRelists(c) ==
    /\ calls[c].pc = "back" /\ calls[c].relisted # NoList
    /\ calls' = [calls EXCEPT ![c] = IF @.result = "ok" THEN Done
                                     ELSE [@ EXCEPT !.relisted = NoList]]
    /\ server' = IF server.generation = calls[c].gen
                 THEN [server EXCEPT !.tools = [from |-> calls[c].on,
                                                list |-> calls[c].relisted]]
                 ELSE server
    /\ events' = Sent("changed")
    /\ UNCHANGED <<inner, connects, listings, flows, entry, loop, ui, owed, ops>>

\* Were the 401 to drop its connection without a word to the session.
RefusedUntold(c) ==
    /\ calls[c].pc = "back" /\ calls[c].relisted = NoList /\ calls[c].result = "refused"
    /\ calls' = [calls EXCEPT ![c] = Done]
    /\ server' = IF server.generation = calls[c].gen
                 THEN [Drop(server) EXCEPT !.status = "auth"] ELSE server
    /\ UNCHANGED <<inner, connects, listings, flows, entry, loop, events, ui, owed, ops>>

\* The 401 that stood: the connection the call went out on goes.
CallRefused(c) ==
    /\ calls[c].pc = "back" /\ calls[c].relisted = NoList /\ calls[c].result = "refused"
    /\ calls' = [calls EXCEPT ![c] = Done]
    /\ server' = IF server.generation = calls[c].gen
                 THEN [Drop(server) EXCEPT !.status = "auth"] ELSE server
    /\ events' = Sent("changed")
    /\ UNCHANGED <<inner, connects, listings, flows, entry, loop, ui, owed, ops>>

\* Were a call whose connection died to restart the server, whatever runs by then.
RestartAny(c) ==
    /\ calls[c].pc = "back" /\ calls[c].result = "died"
    /\ calls' = [calls EXCEPT ![c] = IF server.cooling THEN Done
                                     ELSE [Done EXCEPT !.pc = "spawn",
                                                       !.left = server.generation + 1]]
    /\ server' = [Drop(server) EXCEPT !.status = "failed", !.cooling = TRUE]
    /\ events' = Sent("changed")
    /\ UNCHANGED <<inner, connects, listings, flows, entry, loop, ui, owed, ops>>

\* restart_dead, up to the restart itself.
RestartDead(c) ==
    /\ calls[c].pc = "back" /\ calls[c].result = "died"
    /\ IF server.generation # calls[c].gen
       THEN /\ calls' = [calls EXCEPT ![c] = Done]
            /\ UNCHANGED <<server, events>>
       ELSE /\ calls' = [calls EXCEPT ![c] = IF server.cooling THEN Done
                                     ELSE [Done EXCEPT !.pc = "spawn",
                                                       !.left = server.generation + 1]]
            /\ server' = [Drop(server) EXCEPT !.status = "failed", !.cooling = TRUE]
            /\ events' = Sent("changed")
    /\ UNCHANGED <<inner, connects, listings, flows, entry, loop, ui, owed, ops>>

CallSpawns(c) ==
    /\ calls[c].pc = "spawn"
    /\ calls' = [calls EXCEPT ![c] = Done]
    /\ SpawnConnect
    /\ UNCHANGED <<inner, listings, flows, entry, loop, ui, owed, ops>>

\* RESTART_COOLDOWN has passed since the last automatic restart.
CooldownOver ==
    /\ server.cooling
    /\ server' = [server EXCEPT !.cooling = FALSE]
    /\ UNCHANGED <<inner, connects, threadVars, entry, loop, events, ui, owed, ops>>

-----------------------------------------------------------------------------
(* Sign-ins: the thread authenticate starts *)

\* run_auth_flow: a cancel is seen until the code is there, and no more after it.
GotCode(f) ==
    /\ flows[f].pc = "wait" /\ ~flows[f].cancelled
    /\ flows' = [flows EXCEPT ![f].pc = "exchange"]
    /\ UNCHANGED <<managerVars, listings, calls, entry, loop, events, ui, owed, ops>>

\* Were the thread to clear whatever sign-in runs.
FlowClearsAny(f) ==
    /\ flows[f].pc \in {"wait", "exchange"}
    /\ inner' = [inner EXCEPT !.authFlow = None]
    /\ \E ok \in IF flows[f].pc = "exchange" THEN BOOLEAN ELSE {FALSE} :
       /\ flows' = [flows EXCEPT ![f] = [pc |-> IF ok THEN "spawn" ELSE "done",
                                       cancelled |-> FALSE]]
       /\ events' = Sent(IF ~ok /\ (inner.authFlow # f \/ flows[f].cancelled)
                         THEN "changed" ELSE "done")
    /\ UNCHANGED <<server, connects, listings, calls, entry, loop, ui, owed, ops>>

\* The thread's end: its own entry is cleared, and the outcome told.
FlowEnds(f) ==
    /\ flows[f].pc \in {"wait", "exchange"}
    /\ inner' = IF inner.authFlow = f THEN [inner EXCEPT !.authFlow = None] ELSE inner
    /\ \E ok \in IF flows[f].pc = "exchange" THEN BOOLEAN ELSE {FALSE} :
       /\ flows' = [flows EXCEPT ![f] = [pc |-> IF ok THEN "spawn" ELSE "done",
                                       cancelled |-> FALSE]]
       /\ events' = Sent(IF ~ok /\ (inner.authFlow # f \/ flows[f].cancelled)
                         THEN "changed" ELSE "done")
    /\ UNCHANGED <<server, connects, listings, calls, entry, loop, ui, owed, ops>>

FlowSpawns(f) ==
    /\ flows[f].pc = "spawn"
    /\ flows' = [flows EXCEPT ![f].pc = "done"]
    /\ SpawnConnect
    /\ UNCHANGED <<inner, listings, calls, entry, loop, ui, owed, ops>>

-----------------------------------------------------------------------------
(* The session loop *)

\* start_connections' look at who is pending.
StartConnections ==
    /\ loop = "start"
    /\ loop' = IF server.status = "pending" THEN "spawn" ELSE "idle"
    /\ UNCHANGED <<managerVars, threadVars, entry, events, ui, owed, ops>>

\* The connect a handler ends with.
LoopSpawns ==
    /\ loop = "spawn"
    /\ loop' = "idle"
    /\ SpawnConnect
    /\ UNCHANGED <<inner, threadVars, entry, ui, owed, ops>>

\* set_disabled(name, false), up to its connect.
EnableUser ==
    /\ loop = "enable"
    /\ inner' = [inner EXCEPT !.disabled = FALSE]
    /\ server' = [server EXCEPT !.generation = @ + 1]
    /\ loop' = IF Held THEN "idle" ELSE "spawn"
    /\ events' = Sent("changed")
    /\ UNCHANGED <<connects, threadVars, entry, ui, owed, ops>>

\* on_mcp_event: the snapshot is taken anew, and the backend's tools with it; the end
\* of a sign-in closes the page that is open.
ReadEvent ==
    /\ loop = "idle" /\ events # <<>>
    /\ events' = Tail(events)
    /\ ui' = [shown |-> IF ui.shown = "closed" THEN "closed" ELSE server.status,
              page |-> IF Head(events) = "done" THEN None ELSE ui.page,
              attached |-> Offered(server)]
    /\ UNCHANGED <<managerVars, threadVars, entry, loop, owed, ops>>

\* /mcp opens over a fresh snapshot, and closes.
ToggleMenu ==
    /\ loop = "idle" /\ ui.page = None
    /\ ui' = [ui EXCEPT !.shown = IF @ = "closed" THEN server.status ELSE "closed"]
    /\ UNCHANGED <<managerVars, threadVars, entry, loop, events, owed, ops>>

\* The user acts on what the menu shows.
Acts(shown) ==
    /\ loop = "idle" /\ ui.page = None /\ ui.shown \in shown
    /\ ops < MaxOps /\ ops' = ops + 1

Reconnect ==
    /\ Acts({"connected", "pending", "failed"})
    /\ SpawnConnect
    /\ UNCHANGED <<inner, threadVars, entry, loop, ui, owed>>

\* set_disabled(name, true), or set_approved(name, false) for a project's server.
Disable ==
    /\ Acts({"connected", "pending", "failed", "auth", "off"})
    /\ inner' = IF entry.scope = "user" THEN [inner EXCEPT !.disabled = TRUE]
                ELSE [inner EXCEPT !.held = "declined"]
    /\ server' = [Drop(server) EXCEPT !.status = "disabled"]
    /\ events' = Sent("changed")
    /\ UNCHANGED <<connects, threadVars, entry, loop, ui, owed>>

\* set_approved(name, true): where the loop goes next.
Approved(next) ==
    LET wasHeld == server.status \in {"review", "disabled"} IN
    /\ inner' = [inner EXCEPT !.held = "no"]
    /\ server' = IF wasHeld /\ inner.disabled THEN [server EXCEPT !.status = "disabled"]
                 ELSE server
    /\ loop' = IF wasHeld /\ ~inner.disabled THEN "spawn" ELSE next
    /\ events' = Sent("changed")

\* Enable on a project's server, the review's decision; and what the user's file says
\* of it is cleared too.
EnableProject ==
    /\ entry.scope = "project"
    /\ Acts({"disabled"})
    /\ Approved(IF inner.disabled THEN "enable" ELSE "idle")
    /\ UNCHANGED <<connects, threadVars, entry, ui, owed>>

\* Enable on a server of the user's own.
Enable ==
    /\ entry.scope = "user"
    /\ Acts({"disabled"})
    /\ loop' = "enable"
    /\ UNCHANGED <<managerVars, threadVars, entry, events, ui, owed>>

\* The review's answer on a server that waits for it.
ReviewAnswer ==
    /\ inner.held = "review" /\ inner.active /\ Acts({"closed"})
    /\ \/ Approved("idle")
       \/ /\ inner' = [inner EXCEPT !.held = "declined"]
          /\ server' = [Drop(server) EXCEPT !.status = "disabled"]
          /\ events' = Sent("changed")
          /\ UNCHANGED loop
    /\ UNCHANGED <<connects, threadVars, entry, ui, owed>>

\* The sign-in running is taken and cancelled.
Cancelled(f) == IF f = None THEN flows ELSE [flows EXCEPT ![f].cancelled = TRUE]

\* set_active(false) and the refresh that follows, from the /settings row.
SwitchOff ==
    /\ inner.active /\ Acts({"closed"})
    /\ inner' = [inner EXCEPT !.active = FALSE, !.authFlow = None]
    /\ flows' = Cancelled(inner.authFlow)
    /\ server' = IF server.status \in {"disabled", "review"} THEN server
                 ELSE [Drop(server) EXCEPT !.status = "off"]
    /\ ui' = [ui EXCEPT !.attached = Offered(server')]
    /\ events' = Sent("changed")
    /\ UNCHANGED <<connects, listings, calls, entry, loop, owed>>

\* set_active(true), up to its connects.
SwitchOn ==
    /\ ~inner.active /\ Acts({"closed"})
    /\ inner' = [inner EXCEPT !.active = TRUE]
    /\ server' = IF server.status = "off" THEN [server EXCEPT !.status = "pending"] ELSE server
    /\ loop' = "start"
    /\ events' = Sent("changed")
    /\ UNCHANGED <<connects, threadVars, entry, ui, owed>>

\* clear_auth: a connection that carried the grant is made anew.
ClearAuth ==
    /\ Remote /\ Acts({"connected", "failed", "auth"})
    /\ loop' = IF server.status \in {"connected", "failed"} THEN "spawn" ELSE "idle"
    /\ events' = Sent("changed")
    /\ UNCHANGED <<managerVars, threadVars, entry, ui, owed>>

\* authenticate: the page opens, and a sign-in still running is superseded.  The menu
\* offers none while MCP is off.
Authenticate ==
    /\ Remote /\ Acts({"connected", "failed", "auth"})
    /\ \E f \in Flow :
        /\ flows[f].pc = "idle" /\ \A g \in 1 .. f - 1 : flows[g].pc # "idle"
        /\ flows' = [Cancelled(inner.authFlow) EXCEPT ![f].pc = "wait"]
        /\ inner' = [inner EXCEPT !.authFlow = f]
        /\ ui' = [ui EXCEPT !.page = f]
    /\ UNCHANGED <<server, connects, listings, calls, entry, loop, events, owed>>

\* Esc on the sign-in's page goes back to the server's, Ctrl+C closes the menu; both
\* cancel (cancel_auth).
LeaveAuth ==
    /\ loop = "idle" /\ ui.page # None
    /\ \E shown \in {ui.shown, "closed"} : ui' = [ui EXCEPT !.page = None, !.shown = shown]
    /\ inner' = [inner EXCEPT !.authFlow = None]
    /\ flows' = Cancelled(inner.authFlow)
    /\ UNCHANGED <<server, connects, listings, calls, entry, loop, events, owed, ops>>

-----------------------------------------------------------------------------

LoopStep == StartConnections \/ LoopSpawns \/ EnableUser

UserStep ==
    \/ ToggleMenu \/ Reconnect \/ Disable \/ Enable \/ EnableProject
    \/ ReviewAnswer \/ SwitchOff \/ SwitchOn
    \/ ClearAuth \/ Authenticate \/ LeaveAuth

CallStep(c) ==
    \/ CallBegins(c) \/ CallAnswered(c) \/ CallRelists(c)
    \/ CallRefused(c) \/ RestartDead(c) \/ CallSpawns(c)

FlowStep(f) == GotCode(f) \/ FlowEnds(f) \/ FlowSpawns(f)

Next ==
    \/ \E g \in connects : ConnectLands(g)
    \/ \E g \in Referenced : ToldOfChange(g)
    \/ \E w \in listings : ListingAnswered(w) \/ ListingEnds(w)
    \/ \E c \in Calls : CallStep(c)
    \/ CooldownOver
    \/ \E f \in Flow : FlowStep(f)
    \/ LoopStep \/ ReadEvent \/ UserStep

Spec == Init /\ [][Next]_vars

-----------------------------------------------------------------------------
(* Properties *)

Generation == Nat
Statuses == {"pending", "connected", "auth", "failed", "disabled", "review", "off"}
Tools == [from : Generation, list : {NoList} \cup Catalogs]

\* Every value is of its type; a server has a connection exactly while it is connected,
\* no worker is ahead of the server, and a connection has one listing worker at most.
TypeOK ==
    /\ entry \in Entries
    /\ inner \in [active : BOOLEAN, disabled : BOOLEAN, held : {"no", "review", "declined"},
                  authFlow : {None} \cup Flow]
    /\ server \in [status : Statuses, generation : Generation, transport : Generation,
                   tools : Tools, relisting : BOOLEAN, again : BOOLEAN, cooling : BOOLEAN]
    /\ server.transport # None <=> server.status = "connected"
    /\ connects \cup {w.on : w \in listings} \subseteq 1 .. server.generation
    /\ listings \subseteq [on : Generation, list : {NoList} \cup Catalogs]
    /\ \A v, w \in listings : v.on = w.on => v = w
    /\ calls \in [Calls -> [pc : {"idle", "sent", "back", "spawn", "done"}, on : Generation,
                            gen : Generation, result : {"none", "ok", "died", "refused"},
                            relisted : {NoList} \cup Catalogs, left : Generation]]
    /\ flows \in [Flow -> [pc : {"idle", "wait", "exchange", "spawn", "done"},
                           cancelled : BOOLEAN]]
    /\ loop \in {"idle", "start", "spawn", "enable"}
    /\ events \in Seq({"changed", "done"})
    /\ ui \in [shown : Statuses \cup {"closed"}, page : {None} \cup Flow, attached : Tools]
    /\ owed \in BOOLEAN /\ ops \in 0 .. MaxOps

\* The tools kept are the live connection's: none outlives it, none comes from a worker
\* or a call of an older one.  Once no event is unread the open menu shows the server as
\* it is, and the model is offered its tools, unless a listing goes round again: every
\* change of either is told (docs/mcp.md).
ToolsAreLive ==
    /\ server.tools.from = server.transport
    /\ events = <<>> =>
        /\ ui.shown \in {"closed", server.status}
        /\ \/ ui.attached = Offered(server)
           \/ \E w \in listings : w.on = server.generation

\* MCP off for the session, or the server held by the review: nothing is connected, no
\* connect under way can land and no sign-in runs, whoever asked for one before - a
\* sign-in that ends, a restart, a handler between two locks ("Nothing connects again,
\* whoever asks", docs/mcp.md).
SwitchedOffStaysOff ==
    ~Connectable =>
        /\ server.transport = None /\ server.generation \notin connects
        /\ ~inner.active => inner.authFlow = None

\* No server is left connecting: while it says so the worker of its latest connect is
\* under way, or the loop is in the handler that starts it.
PendingConnects ==
    server.status = "pending" => server.generation \in connects \/ loop \in {"start", "spawn"}

\* Connects do as the switches say: nothing runs that is off, and what is said to come
\* comes.
ConnectsAsSwitched == SwitchedOffStaysOff /\ PendingConnects

\* A sign-in's page stays its own: the paste and the Esc typed there reach its flow,
\* unless a sign-in's end is on its way to close it; no thread of an older flow takes
\* its place away.
PageHasItsFlow ==
    ui.page # None => inner.authFlow = ui.page \/ Contains(events, "done")

\* A worker lists the tools of the connection in use, or will once more.
ListingNow == \E w \in listings : w.on = server.generation /\ (w.list = NoList \/ server.again)

\* The flag of a listing whose connection is gone keeps new ones away.
FlagLeft == server.relisting /\ \A w \in listings : w.on # server.generation

InUse == server.transport # None /\ server.transport = server.generation

\* A change the connection in use tells of is listed, however many come while a listing
\* runs, unless the flag was left by another connection.
ChangeIsListed == InUse /\ owed => ListingNow \/ FlagLeft

\* What is kept, shown and offered follows the server, its changes among it.
ToolsFollowServer == ToolsAreLive /\ ChangeIsListed

\* docs/mcp.md: "A server that says its tools changed is listed again."
ListedAgain == InUse /\ owed => ListingNow

\* Between the lock in which c's restart dropped the dead connection and the one in which
\* it connects anew somebody moved the server on.  The connect asks for no generation, and
\* supersedes what is there.
Overtaken(c) == calls[c].pc = "spawn" /\ server.generation # calls[c].left

\* A call that ends in a 401 or a death, however late, takes down no connection but the
\* one it went out on and no connect under way.  The connect its restart then makes finds
\* neither, unless the server was moved on since the restart's drop: that one supersedes a
\* newer connection, or a newer connect, as the code has it.
NewerStands ==
    [][\A c \in Calls :
        calls'[c] # calls[c] /\ server'.generation # server.generation =>
            \/ calls[c].pc = "back" /\ server.transport = calls[c].on
            \/ /\ calls[c].pc = "spawn"
               /\ server.transport = None /\ server.generation \notin connects
            \/ Overtaken(c)]_vars
=============================================================================
