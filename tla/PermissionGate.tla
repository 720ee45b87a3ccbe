--------------------------- MODULE PermissionGate ---------------------------
(***************************************************************************)
(* What a tool call asks the user, and how the answer reaches it: the two  *)
(* gates a call's thread blocks on (permission.rs::PermissionGate and      *)
(* ask.rs::AskGate, whose mutex makes each of their methods one step), the *)
(* approve seam before it (llm/approval.rs, llm/ask.rs), the modal and its *)
(* queues in the session (app/permission.rs, app/ask.rs), the loop that    *)
(* posts the answers (tui/permission.rs, tui/ask.rs) and the idle clock    *)
(* over a waiting question.                                                *)
(*                                                                         *)
(* An asker is a thread: one per turn of the lead, one per background      *)
(* agent.  A request is its number, in the order the gates hand them out.  *)
(***************************************************************************)
EXTENDS Integers, Sequences, FiniteSets, SequencesExt, Queues

CONSTANTS
    Agents,     \* the background agents' threads
    Hooked,     \* bound: whether a hook forces a call to ask, a subset of BOOLEAN
    MaxTurns,   \* bound: turns of the lead
    MaxAsked,   \* bound: requests raised
    StartModes, \* bound: the modes the project may have been left in
    Wait,       \* the idle wait of a question, in units of time
    Left        \* bound: the modes Shift+Tab is pressed in

ASSUME GateBoundsAssumption == {MaxTurns, MaxAsked} \subseteq Nat
ASSUME ModesAssumption == StartModes \cup Left \subseteq {"manual", "edit", "auto", "master"}
ASSUME HookedAssumption == Hooked \subseteq BOOLEAN
ASSUME WaitAssumption == Wait \in Nat \ {0}

Turns == 1 .. MaxTurns
Askers == Agents \cup Turns
ASSUME AskersAssumption == Agents \cap Turns = {}

Ids == 1 .. MaxAsked
None == 0

VARIABLES
    asked,      \* the requests raised so far
    thread,     \* asker |-> [pc, id, call, got]
    cancelled,  \* the askers whose token is cancelled
    turn,       \* the lead's turn in flight, or None
    rows,       \* the agents whose roster row is running
    replies,    \* the reply channel of that turn, unread
    agentEvents,\* the agent channel, unread
    modal,      \* [open, perms, asks, input, saved]: the modal, what is queued behind
                \* it, the composer and the draft the modal displaced
    abandoned,  \* requests dropped without an answer, to be released
    board,      \* request |-> the decision posted for it, unclaimed
    rules,      \* [mode, scope]: the gate's PermissionRules
    footer,     \* App::permission_mode
    jobs,       \* on_shown: the requests whose job waits for the screen
    shown,      \* the prompt last marked shown
    clock,      \* AskTimer: [age, open], age -1 at rest
    loop,       \* "top", or "bottom" when an iteration's tail is still to run
    consent,    \* waiting request |-> who granted it: "nobody", "user" or "rule"
    idle        \* units an open question has had since it came up and since the last key

threadVars == <<asked, thread, cancelled>>
chanVars == <<turn, rows, replies, agentEvents>>
gateVars == <<board, rules, jobs>>
screenVars == <<modal, abandoned, footer, shown>>
timeVars == <<clock, idle>>
vars == <<threadVars, chanVars, gateVars, screenVars, timeVars, loop, consent>>

-----------------------------------------------------------------------------
(* The standing rules.                                                     *)

Modes == {"manual", "edit", "auto", "master"}
Kinds == {"file", "scoped"}     \* write/edit; a command, an MCP call or a session's input

\* PermissionMode::cycled
Cycled(mode) ==
    CASE mode = "manual" -> "edit"
      [] mode = "edit" -> "auto"
      [] mode = "auto" -> "master"
      [] mode = "master" -> "manual"

\* PermissionGate::allows
Allows(r, kind) ==
    \/ r.mode = "master"
    \/ kind = "file" /\ r.mode \in {"edit", "auto"}
    \/ kind = "scoped" /\ r.scope

\* PermissionGate::remember
Remember(r, kind) ==
    IF kind = "file" THEN [r EXCEPT !.mode = "edit"] ELSE [r EXCEPT !.scope = TRUE]

Covered(r, id) == asked[id].kind \in Kinds /\ Allows(r, asked[id].kind)

-----------------------------------------------------------------------------
(* The modal: each operator maps it to the modal it leaves.                *)

IsAsk(id) == asked[id].kind = "ask"

\* open_permission and open_ask past their queueing: the draft is stashed.
Raised(m, id) == [m EXCEPT !.open = id, !.saved = m.input, !.input = "empty"]

\* open_permission, open_ask
OpenModal(m, id, kind) ==
    CASE m.open = None -> Raised(m, id)
      [] m.open # None /\ kind = "ask" -> [m EXCEPT !.asks = Append(@, id)]
      [] OTHER -> [m EXCEPT !.perms = Append(@, id)]

\* Were a field typed into left as it is.
CloseModalKeeps(m) ==
    IF m.open = None THEN m
    ELSE [m EXCEPT !.open = None, !.saved = "empty",
                   !.input = IF @ = "empty" THEN m.saved ELSE @]

\* close_permission, close_ask
CloseModal(m) ==
    IF m.open = None THEN m
    ELSE [m EXCEPT !.open = None, !.input = m.saved, !.saved = "empty"]

\* open_next_pending: the lead's questions first.
OpenNextPending(m) ==
    CASE m.open # None -> m
      [] m.open = None /\ m.asks # <<>> -> Raised([m EXCEPT !.asks = Tail(@)], Head(m.asks))
      [] m.open = None /\ m.asks = <<>> /\ m.perms # <<>> ->
            Raised([m EXCEPT !.perms = Tail(@)], Head(m.perms))
      [] OTHER -> m

Pending(m) == Range(m.perms) \cup Range(m.asks) \cup ({m.open} \ {None})

\* discard_permissions, then discard_asks: what is dropped is Pending(m).
Discarded(m) == [CloseModal(m) EXCEPT !.perms = <<>>, !.asks = <<>>]

AskedBy(m, a) == {id \in Pending(m) : asked[id].by = a /\ ~IsAsk(id)}

\* Were only the open prompt withdrawn.
WithdrawnOpenOnly(m, a) ==
    IF m.open \in AskedBy(m, a) THEN OpenNextPending(CloseModal(m)) ELSE m

\* withdraw_agent_permissions: what is dropped is AskedBy(m, a).
Withdrawn(m, a) ==
    LET kept == [m EXCEPT !.perms = Without(@, AskedBy(m, a))] IN
    IF m.open \in AskedBy(m, a) THEN OpenNextPending(CloseModal(kept)) ELSE kept

\* drain_covered_permissions under rules r: the requests it returns ...
Swept(m, r) == {id \in Range(m.perms) \cup ({m.open} \ {None}) : Covered(r, id)}
\* ... and the modal it leaves.  A next prompt survived the sweep of the queue.
Drained(m, r) ==
    LET kept == [m EXCEPT !.perms = Without(@, Swept(m, r))] IN
    IF m.open \in Swept(m, r) THEN OpenNextPending(CloseModal(kept)) ELSE kept

\* Post `decision` for every request of S.
Posted(b, S, decision) == [id \in Ids |-> IF id \in S THEN decision ELSE b[id]]

-----------------------------------------------------------------------------
AtRest == [pc |-> "off", id |-> None, kind |-> "none", forced |-> FALSE, got |-> "none"]
Running == [AtRest EXCEPT !.pc = "run"]

Init ==
    /\ asked = <<>>
    /\ thread = [a \in Askers |-> IF a \in Agents THEN Running ELSE AtRest]
    /\ cancelled = {}
    /\ turn = None /\ rows = Agents
    /\ replies = <<>> /\ agentEvents = <<>>
    /\ modal = [open |-> None, perms |-> <<>>, asks |-> <<>>,
                input |-> "draft", saved |-> "empty"]
    /\ abandoned = {}
    /\ board = [id \in Ids |-> "none"]
    /\ rules \in [mode : StartModes, scope : {FALSE}]
    /\ footer = rules.mode
    /\ jobs = {} /\ shown = None
    /\ clock = [age |-> -1, open |-> None]
    /\ loop = "top"
    /\ consent = [id \in Ids |-> "nobody"]
    /\ idle = 0

-----------------------------------------------------------------------------
(* The threads.                                                            *)

Goes(a, to) == thread' = [thread EXCEPT ![a] = to]

\* approve_call up to the classifier: a standing rule lets the call run, unless a
\* hook said to ask; any other call goes on.
Consult(a, kind, forced) ==
    /\ thread[a].pc = "run" /\ Len(asked) < MaxAsked
    /\ forced \/ ~Allows(rules, kind)
    /\ Goes(a, [Running EXCEPT !.pc = "asking", !.kind = kind, !.forced = forced])
    /\ UNCHANGED <<asked, cancelled, chanVars, gateVars, screenVars, timeVars, loop,
                   consent>>

\* A hook answers for the user, or, in auto mode and unless forced, the classifier,
\* whose failure under a cancelled token ends the call too.
Reviewed(a) ==
    /\ thread[a].pc = "asking"
    /\ Goes(a, Running)
    /\ UNCHANGED <<asked, cancelled, chanVars, gateVars, screenVars, timeVars, loop,
                   consent>>

\* The request sent: a turn's on its reply channel, which the session drops with
\* the turn; an agent's on the agent channel.
Send(a, id) ==
    IF a \in Turns
    THEN /\ replies' = IF turn = a THEN Append(replies, id) ELSE replies
         /\ UNCHANGED agentEvents
    ELSE /\ agentEvents' = Append(agentEvents, [type |-> "Permission", id |-> id, by |-> a])
         /\ UNCHANGED replies

\* The request is numbered, its job registered, sent, and its thread waits.
Raise(a) ==
    LET id == Len(asked) + 1
        call == thread[a] IN
    /\ call.pc = "asking" /\ Len(asked) < MaxAsked
    /\ asked' = Append(asked, [by |-> a, kind |-> call.kind, forced |-> call.forced])
    /\ Goes(a, [call EXCEPT !.pc = "wait", !.id = id])
    /\ jobs' = jobs \cup {id}
    /\ Send(a, id)
    /\ UNCHANGED <<cancelled, turn, rows, board, rules, screenVars, timeVars, loop,
                   consent>>

\* ask_user: a question is the lead's alone.
AskUser(a) ==
    LET id == Len(asked) + 1 IN
    /\ a \in Turns /\ thread[a].pc = "run" /\ Len(asked) < MaxAsked
    /\ asked' = Append(asked, [by |-> a, kind |-> "ask", forced |-> FALSE])
    /\ Goes(a, [Running EXCEPT !.pc = "wait", !.id = id, !.kind = "ask"])
    /\ Send(a, id)
    /\ UNCHANGED <<cancelled, turn, rows, gateVars, screenVars, timeVars, loop,
                   consent>>

\* PermissionGate::wait and AskGate::wait: a posted decision is taken, even under a
\* cancelled token; only without one does the token end the wait.
Wake(a) ==
    LET call == thread[a] IN
    /\ call.pc = "wait"
    /\ \/ /\ board[call.id] # "none"
          /\ Goes(a, [call EXCEPT !.pc = "woken", !.got = board[call.id]])
          /\ board' = [board EXCEPT ![call.id] = "none"]
       \/ /\ board[call.id] = "none" /\ a \in cancelled
          /\ Goes(a, [call EXCEPT !.pc = "woken", !.got = "cancelled"])
          /\ UNCHANGED board
    /\ UNCHANGED <<asked, cancelled, chanVars, rules, jobs, screenVars, timeVars, loop,
                   consent>>

\* approve_call's tail: the job is dropped, and option 2 remembered once more.
Resolve(a) ==
    LET call == thread[a] IN
    /\ call.pc = "woken"
    /\ jobs' = jobs \ {call.id}
    /\ rules' = IF call.got = "always" THEN Remember(rules, call.kind) ELSE rules
    /\ Goes(a, Running)
    /\ consent' = [consent EXCEPT ![call.id] = "nobody"]
    /\ UNCHANGED <<asked, cancelled, chanVars, board, screenVars, timeVars, loop>>

\* A cancelled thread stops at its next look at the token.
Stop(a) ==
    /\ thread[a].pc = "run" /\ a \in cancelled
    /\ Goes(a, AtRest)
    /\ UNCHANGED <<asked, cancelled, chanVars, gateVars, screenVars, timeVars, loop,
                   consent>>

\* AgentRegistry::stop, called by the lead's agentkill.
LeadStops(a) ==
    /\ turn # None /\ thread[turn].pc = "run"
    /\ a \in Agents \ cancelled
    /\ cancelled' = cancelled \cup {a}
    /\ agentEvents' = Append(agentEvents, [type |-> "Stopped", id |-> None, by |-> a])
    /\ UNCHANGED <<asked, thread, turn, rows, replies, gateVars, screenVars, timeVars,
                   loop, consent>>

-----------------------------------------------------------------------------
(* The session loop: one arm of its select, then the tail of the iteration. *)

Arm == loop = "top" /\ loop' = "bottom"
\* A key restarts a running wait (AskTimer::touch).
Touched == clock' = IF clock.age >= 0 THEN [clock EXCEPT !.age = 0] ELSE clock
Key == Arm /\ Touched /\ idle' = 0
NoKey == Arm /\ UNCHANGED clock

\* Another question on screen: the user is given the whole wait for it.
AskOpen(m) == IF m.open # None /\ IsAsk(m.open) THEN m.open ELSE None
Shows(m) == idle' = IF AskOpen(m) # AskOpen(modal) THEN 0 ELSE idle

\* spawn_reply
StartTurn(t) ==
    /\ Arm
    /\ turn = None /\ t \in Turns /\ thread[t].pc = "off" /\ t \notin cancelled
    /\ turn' = t
    /\ Goes(t, Running)
    /\ UNCHANGED <<asked, cancelled, rows, replies, agentEvents, gateVars, screenVars,
                   timeVars, consent>>

\* The turn's last event: its thread is over.
EndTurn ==
    /\ Arm
    /\ turn # None /\ replies = <<>> /\ thread[turn].pc = "run"
    /\ cancelled' = cancelled \cup {turn}
    /\ Goes(turn, AtRest)
    /\ turn' = None
    /\ UNCHANGED <<asked, rows, replies, agentEvents, gateVars, screenVars, timeVars,
                   consent>>

\* StreamEvent::Permission and AskUser, off the reply channel.
RecvReply ==
    /\ replies # <<>>
    /\ NoKey
    /\ replies' = Tail(replies)
    /\ modal' = OpenModal(modal, Head(replies), asked[Head(replies)].kind)
    /\ idle' = IF asked[Head(replies)].kind = "ask" THEN 0 ELSE idle
    /\ UNCHANGED <<threadVars, turn, rows, agentEvents, gateVars, abandoned, footer, shown,
                   consent>>

\* on_agent_event: an agent's request raises the prompt, its roster row unread.
RecvPermission ==
    /\ agentEvents # <<>> /\ Head(agentEvents).type = "Permission"
    /\ NoKey
    /\ agentEvents' = Tail(agentEvents)
    /\ modal' = OpenModal(modal, Head(agentEvents).id, "permission")
    /\ UNCHANGED <<threadVars, turn, rows, replies, gateVars, abandoned, footer, shown, idle,
                   consent>>

\* on_agent_stopped_by_lead
RecvStopped ==
    LET a == Head(agentEvents).by IN
    /\ agentEvents # <<>> /\ Head(agentEvents).type = "Stopped"
    /\ NoKey
    /\ agentEvents' = Tail(agentEvents)
    /\ rows' = rows \ {a}
    /\ IF a \in rows
       THEN /\ modal' = Withdrawn(modal, a)
            /\ abandoned' = abandoned \cup AskedBy(modal, a)
            /\ Shows(modal')
       ELSE UNCHANGED <<modal, abandoned, idle>>
    /\ UNCHANGED <<threadVars, turn, replies, gateVars, footer, shown, consent>>

-----------------------------------------------------------------------------
(* Keys.                                                                   *)

\* approve_covered, once the open prompt's own answer is on the board b.
Sweep(m, r, b, granted) ==
    /\ modal' = Drained(m, r)
    /\ board' = Posted(b, Swept(m, r), "approve")
    /\ consent' = [id \in Ids |->
                    IF id \in Swept(m, r) /\ Covered(r, id) THEN "rule" ELSE granted[id]]

\* Were the decision posted for the prompt that opens next.
AnswerNext(decision) ==
    LET id == modal.open
        next == OpenNextPending(CloseModal(modal))
        to == IF next.open # None /\ ~IsAsk(next.open) THEN next.open ELSE id
        rules1 == IF decision = "always" THEN Remember(rules, asked[id].kind) ELSE rules
        granted == IF decision = "deny" THEN consent ELSE [consent EXCEPT ![id] = "user"] IN
    /\ id # None /\ ~IsAsk(id)
    /\ Key
    /\ rules' = rules1
    /\ footer' = IF decision = "always" /\ asked[id].kind = "file" THEN "edit" ELSE footer
    /\ Sweep(next, rules1, [board EXCEPT ![to] = decision], granted)
    /\ UNCHANGED <<threadVars, chanVars, abandoned, jobs, shown>>

\* resolve_permission: the prompt closes, the next one opens, an option 2 is
\* remembered, the decision goes up, and the rules sweep what is queued.
Answer(decision) ==
    LET id == modal.open
        rules1 == IF decision = "always" THEN Remember(rules, asked[id].kind) ELSE rules
        granted == IF decision = "deny" THEN consent ELSE [consent EXCEPT ![id] = "user"] IN
    /\ id # None /\ ~IsAsk(id)
    /\ Key
    /\ rules' = rules1
    /\ footer' = IF decision = "always" /\ asked[id].kind = "file" THEN "edit" ELSE footer
    /\ Sweep(OpenNextPending(CloseModal(modal)), rules1, [board EXCEPT ![id] = decision],
             granted)
    /\ UNCHANGED <<threadVars, chanVars, abandoned, jobs, shown>>

\* resolve_ask: an answer, a decline or a chat.
AnswerAsk ==
    LET id == modal.open IN
    /\ id # None /\ IsAsk(id)
    /\ Key
    /\ modal' = OpenNextPending(CloseModal(modal))
    /\ board' = [board EXCEPT ![id] = "answer"]
    /\ UNCHANGED <<threadVars, chanVars, abandoned, rules, footer, jobs, shown, consent>>

\* Tab's amend field, or a question's entry field, typed into.
TypeEntry ==
    /\ modal.open # None /\ modal.input = "empty"
    /\ Key
    /\ modal' = [modal EXCEPT !.input = "entry"]
    /\ UNCHANGED <<threadVars, chanVars, gateVars, abandoned, footer, shown, consent>>

\* Session::abandon_inflight
AbandonInflight ==
    /\ cancelled' = IF turn = None THEN cancelled ELSE cancelled \cup {turn}
    /\ turn' = None
    /\ replies' = <<>>

\* cancel_permission: Esc on a prompt drops every modal and stops the turn.
CancelPermission ==
    /\ modal.open # None /\ ~IsAsk(modal.open)
    /\ Key
    /\ modal' = Discarded(modal)
    /\ abandoned' = abandoned \cup Pending(modal)
    /\ AbandonInflight
    /\ UNCHANGED <<asked, thread, rows, agentEvents, gateVars, footer, shown, consent>>

\* Esc in the composer.
Interrupt ==
    /\ modal.open = None /\ turn # None
    /\ Key
    /\ AbandonInflight
    /\ UNCHANGED <<asked, thread, rows, agentEvents, gateVars, screenVars, consent>>

\* Shift+Tab: on a file prompt it is option 2 (Answer), under a question a tab key.
CycleMode ==
    LET mode == Cycled(footer)
        rules1 == [rules EXCEPT !.mode = mode] IN
    /\ footer \in Left
    /\ modal.open # None => asked[modal.open].kind = "scoped"
    /\ Key
    /\ footer' = mode /\ rules' = rules1
    /\ Sweep(modal, rules1, board, consent)
    /\ UNCHANGED <<threadVars, chanVars, abandoned, jobs, shown>>

\* stop_agent: the roster's x, out of reach while a modal owns the keys.
UserStops(a) ==
    /\ modal.open = None /\ a \in rows
    /\ Key
    /\ rows' = rows \ {a}
    /\ modal' = Withdrawn(modal, a)
    /\ abandoned' = abandoned \cup AskedBy(modal, a)
    /\ cancelled' = cancelled \cup {a}
    /\ UNCHANGED <<asked, thread, turn, replies, agentEvents, gateVars, footer, shown,
                   consent>>

\* clear_conversation: /clear, out of reach while a modal owns the keys.
Clear ==
    /\ modal.open = None
    /\ Key
    /\ modal' = Discarded(modal)
    /\ abandoned' = abandoned \cup Pending(modal)
    /\ cancelled' = cancelled \cup Agents \cup ({turn} \ {None})
    /\ turn' = None /\ replies' = <<>> /\ rows' = {}
    /\ board' = [id \in Ids |-> "none"]
    /\ UNCHANGED <<asked, thread, agentEvents, rules, jobs, footer, shown, consent>>

\* load_session, from the /resume picker: the modal may have opened under it.
LoadSession ==
    /\ turn = None
    /\ Key
    /\ modal' = Discarded(modal)
    /\ abandoned' = abandoned \cup Pending(modal)
    /\ rows' = {}
    /\ UNCHANGED <<threadVars, turn, replies, agentEvents, gateVars, footer, shown, consent>>

-----------------------------------------------------------------------------
(* The draw tick and the tail of the iteration.                            *)

Waiting(m) == AskOpen(m) # None \/ m.asks # <<>>
\* Were the question on screen closed without an answer.
ExpiredQueued(m) == Range(m.asks)

Expired(m) == Range(m.asks) \cup ({AskOpen(m)} \ {None})

\* Were one clock kept for all the questions.
TickOneClock ==
    LET age == IF clock.age < 0 THEN 0 ELSE clock.age
        rest == [age |-> -1, open |-> None] IN
    /\ Arm
    /\ \/ /\ ~Waiting(modal)
          /\ clock' = rest
          /\ UNCHANGED <<modal, board, idle>>
       \/ /\ Waiting(modal) /\ age < Wait
          /\ clock' = [age |-> age, open |-> AskOpen(modal)]
          /\ UNCHANGED <<modal, board, idle>>
       \/ /\ Waiting(modal) /\ age >= Wait
          /\ clock' = rest
          /\ modal' = OpenNextPending(
                        [(IF AskOpen(modal) # None THEN CloseModal(modal) ELSE modal)
                            EXCEPT !.asks = <<>>])
          /\ board' = Posted(board, Expired(modal), "timedout")
          /\ idle' = 0
    /\ UNCHANGED <<threadVars, chanVars, rules, jobs, abandoned, footer, shown, consent>>

\* AskTimer::tick, and expire_asks when it has run out.
Tick ==
    LET fresh == clock.age < 0 \/ clock.open # AskOpen(modal)
        age == IF fresh THEN 0 ELSE clock.age
        rest == [age |-> -1, open |-> None] IN
    /\ Arm
    /\ \/ /\ ~Waiting(modal)
          /\ clock' = rest
          /\ UNCHANGED <<modal, board, idle>>
       \/ /\ Waiting(modal) /\ age < Wait
          /\ clock' = [age |-> age, open |-> AskOpen(modal)]
          /\ UNCHANGED <<modal, board, idle>>
       \/ /\ Waiting(modal) /\ age >= Wait
          /\ clock' = rest
          /\ modal' = OpenNextPending(
                        [(IF AskOpen(modal) # None THEN CloseModal(modal) ELSE modal)
                            EXCEPT !.asks = <<>>])
          /\ board' = Posted(board, Expired(modal), "timedout")
          /\ idle' = 0
    /\ UNCHANGED <<threadVars, chanVars, rules, jobs, abandoned, footer, shown, consent>>

\* Were a clock that has run out to run on.
TimePassesOn ==
    /\ (AskOpen(modal) # None /\ idle < Wait) \/ clock.age >= 0
    /\ idle' = IF AskOpen(modal) # None /\ idle < Wait THEN idle + 1 ELSE idle
    /\ clock' = IF clock.age >= 0 THEN [clock EXCEPT !.age = @ + 1] ELSE clock
    /\ UNCHANGED <<threadVars, chanVars, gateVars, screenVars, loop, consent>>

TimePasses ==
    /\ (AskOpen(modal) # None /\ idle < Wait) \/ clock.age \in 0 .. Wait - 1
    /\ idle' = IF AskOpen(modal) # None /\ idle < Wait THEN idle + 1 ELSE idle
    /\ clock' = IF clock.age \in 0 .. Wait - 1 THEN [clock EXCEPT !.age = @ + 1] ELSE clock
    /\ UNCHANGED <<threadVars, chanVars, gateVars, screenVars, loop, consent>>

OpenPrompt == IF modal.open # None /\ ~IsAsk(modal.open) THEN modal.open ELSE None

\* after_iteration: release_abandoned, mark_shown, and the questions dropped.
AfterIteration ==
    /\ loop = "bottom" /\ loop' = "top"
    /\ board' = [id \in Ids |->
                    IF id \notin abandoned THEN board[id]
                    ELSE IF IsAsk(id) THEN "answer" ELSE "deny"]
    /\ abandoned' = {}
    /\ shown' = OpenPrompt
    /\ jobs' = IF OpenPrompt = shown THEN jobs ELSE jobs \ {OpenPrompt}
    /\ UNCHANGED <<threadVars, chanVars, rules, modal, footer, timeVars, consent>>

-----------------------------------------------------------------------------
ThreadStep(a) ==
    \/ \E kind \in Kinds, forced \in Hooked : Consult(a, kind, forced)
    \/ Reviewed(a) \/ Raise(a) \/ AskUser(a) \/ Wake(a) \/ Resolve(a) \/ Stop(a)

UserStep ==
    \/ \E decision \in {"approve", "always", "deny"} : Answer(decision)
    \/ AnswerAsk \/ TypeEntry \/ CancelPermission \/ Interrupt \/ CycleMode
    \/ \E a \in Agents : UserStops(a)
    \/ Clear \/ LoadSession

LoopStep == RecvReply \/ RecvPermission \/ RecvStopped \/ Tick

Next ==
    \/ \E a \in Askers : ThreadStep(a)
    \/ \E a \in Agents : LeadStops(a)
    \/ \E t \in Turns : StartTurn(t)
    \/ EndTurn
    \/ LoopStep \/ UserStep \/ TimePasses \/ AfterIteration

Spec == Init /\ [][Next]_vars

\* Each thread gets on with its call and time passes; the loop's select polls its
\* branches in a random order, so one that stays ready is taken in the end.  Nothing
\* is asked of the user, nor of the agents' channel, which no wait of these needs.
Fairness ==
    /\ \A a \in Askers : WF_vars(Wake(a) \/ Resolve(a))
    /\ SF_vars(RecvReply) /\ SF_vars(Tick)
    /\ WF_vars(AfterIteration) /\ WF_vars(TimePasses)

FairSpec == Spec /\ Fairness

-----------------------------------------------------------------------------
(* Properties.                                                             *)

Messages == [type : {"Permission"}, id : Ids, by : Agents]
                \cup [type : {"Stopped"}, id : {None}, by : Agents]
Calls == [pc : {"off", "run", "asking", "wait", "woken"}, id : Ids \cup {None},
          kind : Kinds \cup {"ask", "none"}, forced : BOOLEAN,
          got : {"none", "approve", "always", "deny", "answer", "timedout", "cancelled"}]
Requests == [by : Askers, kind : Kinds \cup {"ask"}, forced : BOOLEAN]
Modals == [open : Ids \cup {None}, perms : Seq(Ids), asks : Seq(Ids),
           input : {"draft", "empty", "entry"}, saved : {"draft", "empty", "entry"}]

\* The types of the variables.
TypeOK ==
    /\ asked \in Seq(Requests) /\ Len(asked) <= MaxAsked
    /\ thread \in [Askers -> Calls]
    /\ cancelled \subseteq Askers /\ rows \subseteq Agents /\ turn \in Turns \cup {None}
    /\ replies \in Seq(Ids) /\ agentEvents \in Seq(Messages)
    /\ modal \in Modals /\ abandoned \subseteq Ids
    /\ board \in [Ids -> {"none", "approve", "always", "deny", "answer", "timedout"}]
    /\ rules \in [mode : Modes, scope : BOOLEAN] /\ footer \in Modes
    /\ jobs \subseteq Ids /\ shown \in Ids \cup {None}
    /\ clock \in [age : -1 .. Wait, open : Ids \cup {None}]
    /\ loop \in {"top", "bottom"}
    /\ consent \in [Ids -> {"nobody", "user", "rule"}]
    /\ idle \in 0 .. Wait

InFlight == Range(replies) \cup {e.id : e \in {f \in Range(agentEvents) : f.type = "Permission"}}
Decided == {id \in Ids : board[id] # "none"}

\* A thread whose token is not cancelled never waits on a request that nothing will
\* answer: its request is on the way to the session, open or queued behind the modal,
\* dropped and about to be released, or decided.  Every way a prompt leaves the screen
\* (an answer, Esc, an agent's stop, a standing rule, a timeout, a loaded session)
\* settles it or hands it to the release (app/permission.rs, tui/permission.rs).
EveryWaitIsAnswerable ==
    \A a \in Askers :
        thread[a].pc = "wait" /\ a \notin cancelled =>
            thread[a].id \in InFlight \cup Pending(modal) \cup abandoned \cup Decided

\* A request is never in two places at once, on screen and queued, dropped and still
\* queued, decided and still open: it is asked once and answered once.
RequestInOnePlace ==
    LET places == <<Range(replies) \cup InFlight, {modal.open}, Range(modal.perms),
                    Range(modal.asks), abandoned, Decided>> IN
    /\ \A i, j \in DOMAIN places : i # j => places[i] \cap places[j] = {}
    /\ IsInjective(modal.perms) /\ IsInjective(modal.asks)

\* A request is in one place from the call that raises it to its answer, and a thread
\* never waits on one that is in none.
EachRequestOnce == EveryWaitIsAnswerable /\ RequestInOnePlace

\* A call that goes ahead on its answer was granted by the user on its own prompt or
\* by a standing rule, and by nothing else: no prompt dropped by Esc, a stop or a load,
\* and no other request's decision, ever approves it.
GrantedIsConsented ==
    \A a \in Askers :
        thread[a].pc = "woken" /\ thread[a].got \in {"approve", "always"} =>
            consent[thread[a].id] # "nobody"

\* Closing a modal gives back what it displaced: with none up both queues are empty, so
\* no request waits for a prompt that never opens, and the composer's draft is back,
\* however many modals followed each other and whatever was typed into them; with one up
\* the draft is kept (close_modal and open_next_pending run on every path that ends one).
ModalGivesBack ==
    IF modal.open = None
    THEN modal.perms = <<>> /\ modal.asks = <<>> /\ modal.input = "draft"
    ELSE modal.saved = "draft"

\* By the end of the iteration that opens a prompt its Notification job has run; and no
\* job is kept for a prompt that is settled, to run when another is shown.
PromptNotifies ==
    /\ loop = "top" => OpenPrompt \notin jobs
    /\ \A id \in jobs : thread[asked[id].by].id = id

\* A modal that opens is announced, and one that closes leaves all as it was before.
ModalInStep == ModalGivesBack /\ PromptNotifies

\* A question on screen is timed out only once the user has been away for the whole
\* wait since its last key and since the question came up (AskTimer::tick).
TimedOutWhenAway ==
    [][\A id \in Ids :
            board'[id] = "timedout" /\ board[id] = "none" /\ id = AskOpen(modal) =>
                idle >= Wait]_vars

\* A wait ends without the user: a question's by its timeout, and any wait once its
\* token is cancelled.
WaitsEnd ==
    \A a \in Askers :
        thread[a].pc = "wait" /\ (thread[a].kind = "ask" \/ a \in cancelled)
            ~> thread[a].pc # "wait"

-----------------------------------------------------------------------------
(* What the code or its documents say, and the runs refute.                *)

\* approval.rs says that a hook's "ask" puts the call to the user: a call it forced to
\* ask is never granted by a standing rule.
ForcedIsAsked ==
    \A id \in 1 .. Len(asked) : asked[id].forced => consent[id] # "rule"
=============================================================================
