----------------------------- MODULE ToolRounds -----------------------------
(***************************************************************************)
(* A round of tool calls, from the model's request to the request a later  *)
(* turn derives: the backend that runs the calls and answers them          *)
(* (llm/agent.rs, llm/backend.rs), the cells the session resolves them     *)
(* into (app/tools.rs, app/tasks.rs, app/agent.rs), and the derivation     *)
(* that folds the records back into rounds (context.rs).                   *)
(*                                                                         *)
(* A call is the number of its round and its place in it; what it asks for *)
(* is its kind, what came of it a word.  Text, images, the arguments and   *)
(* the hooks' notes are left out.                                          *)
(***************************************************************************)
EXTENDS Integers, Sequences, FiniteSets, SequencesExt

CONSTANTS
    Namings,    \* whether the provider names its calls: a subset of {"own", "none"}
    Limits,     \* the call limits of a turn; 0 lifts it
    Hooked,     \* whether a hook may refuse to launch an agent: a subset of BOOLEAN
    MaxBatch,   \* bound: calls of a round
    MaxCalls,   \* bound: calls of the session
    MaxTurns    \* bound: turns

ASSUME NamingsAssumption == Namings \subseteq {"own", "none"}
ASSUME LimitsAssumption == Limits \subseteq Nat
ASSUME HookedAssumption == Hooked \subseteq BOOLEAN
ASSUME RoundBoundsAssumption == {MaxBatch, MaxCalls, MaxTurns} \subseteq Nat

VARIABLES
    naming,     \* the provider's way
    limit,      \* max_tool_calls
    made,       \* the rounds of calls the model made: each the kinds it asked for
    turns,      \* turns so far
    worker,     \* the turn's thread
    wire,       \* what it has put to the model
    chan,       \* the reply channel, unread; dropped when the turn is cut
    cut,        \* whether it was: the thread's token
    app,        \* the session's App
    shown,      \* the calls the session has been told of
    ran         \* the turn's calls that were run, or launched

vars == <<naming, limit, made, turns, worker, wire, chan, cut, app, shown, ran>>

Kinds == {"tool", "task", "agent"}
Fates == {"done", "refused", "limit", "moved", "stopped", "interrupted"}
None == 0       \* no batch, no position
NoId == <<>>

Kind(call) == made[call[1]][call[2]]
OfKind(calls, kinds) == SelectSeq(calls, LAMBDA call : Kind(call) \in kinds)

\* The provider's id, or the one minted for a call without: its place in the round.
Id(call) == IF naming = "own" THEN call ELSE <<0, call[2] - 1>>
Minted(n) == <<0, n>>

-----------------------------------------------------------------------------
(* The derivation: what a request makes of the history.                     *)

\* An item of the history is a message, or a record of calls: their entries.
Note(type) == [type |-> type, batch |-> None, entries |-> <<>>]
Record(batch, entries) == [type |-> "calls", batch |-> batch, entries |-> entries]

\* CallIds::claim: the recorded id while it is free, else the next that is.
Claim(ids, recorded) ==
    IF recorded # NoId /\ recorded \notin ids.used
    THEN [ids EXCEPT !.used = @ \cup {recorded}, !.last = recorded]
    ELSE LET n == CHOOSE k \in ids.next .. ids.next + Cardinality(ids.used) :
                      /\ Minted(k) \notin ids.used
                      /\ \A j \in ids.next .. k - 1 : Minted(j) \in ids.used IN
         [used |-> ids.used \cup {Minted(n)}, next |-> n + 1, last |-> Minted(n)]

\* record_calls: each entry under the id it claims, in the order of the records.
Named(history) ==
    LET NameEntry(acc, entry) ==
            LET ids == Claim(acc.ids, entry.id) IN
            [ids |-> ids, done |-> Append(acc.done, [entry EXCEPT !.id = ids.last])]
        NameItem(acc, item) ==
            LET named == FoldLeft(NameEntry, [ids |-> acc.ids, done |-> <<>>], item.entries) IN
            [ids |-> named.ids, done |-> Append(acc.done, [item EXCEPT !.entries = named.done])]
        none == [used |-> {}, next |-> 0, last |-> NoId]
    IN FoldLeft(NameItem, [ids |-> none, done |-> <<>>], history).done

\* round_at: neighbouring records of one batch are one round.
Joined(rounds, item) ==
    IF /\ rounds # <<>>
       /\ item.batch # None
       /\ Last(rounds).batch = item.batch
    THEN Append(Front(rounds), [Last(rounds) EXCEPT !.entries = @ \o item.entries])
    ELSE Append(rounds, item)

\* Were the order of the records kept.
InRecordedOrder(entries) == entries

\* The model's order: by position, the entries without one last, as recorded.
InOrder(entries) ==
    LET Place(i) == IF entries[i].position = None THEN MaxBatch + 1 ELSE entries[i].position
        Before(i, j) == Place(i) < Place(j) \/ (Place(i) = Place(j) /\ i < j)
        order == SortSeq([k \in DOMAIN entries |-> k], Before)
    IN [k \in DOMAIN order |-> entries[order[k]]]

\* An assistant message with its calls, then the results, each under an id.
RoundMessages(entries) ==
    <<[role |-> "calls", of |-> [k \in DOMAIN entries |-> <<entries[k].id, entries[k].call>>]]>>
    \o [k \in DOMAIN entries |->
           [role |-> "result", of |-> <<entries[k].id, entries[k].fate>>]]

\* derive_round, derive_item: an error is a note under the user's role.
Messages(item) ==
    IF item.type = "calls" THEN RoundMessages(InOrder(item.entries))
    ELSE <<[role |-> "user", of |-> <<item.type>>]>>

\* push_text: neighbouring texts of one role are one message.
PushText(messages, message) ==
    IF message.role = "user" /\ messages # <<>> /\ Last(messages).role = "user"
    THEN Append(Front(messages), [Last(messages) EXCEPT !.of = @ \o message.of])
    ELSE Append(messages, message)

\* context_messages
Replay(history) ==
    LET rounds == FoldLeft(Joined, <<>>, Named(history)) IN
    FoldLeft(PushText, <<>>, FlattenSeq([k \in DOMAIN rounds |-> Messages(rounds[k])]))

-----------------------------------------------------------------------------
(* The session: what the App makes of the events.                           *)

Event(type, items) == [type |-> type, items |-> items]
Told(call, fate) == [call |-> call, fate |-> fate]
AllTold(calls, fate) == [k \in DOMAIN calls |-> Told(calls[k], fate)]
Untold(calls) == AllTold(calls, "done")     \* an announcement, of no fate yet

NoRound == [batch |-> None, calls |-> <<>>, announced |-> FALSE, tasks |-> 0]

\* OpenRound::position_of
PositionOf(round, id) ==
    LET places == {p \in DOMAIN round.calls : Id(round.calls[p]) = id} IN
    IF places = {} THEN None ELSE CHOOSE p \in places : \A q \in places : p <= q

\* OpenRound::visible, by position
Visible(round) ==
    SelectSeq([p \in DOMAIN round.calls |-> p], LAMBDA p : Kind(round.calls[p]) = "tool")

\* Were the round to take its number before it is counted.
OpenRoundUncounted(a, calls) ==
    [a EXCEPT !.batches = @ + 1,
              !.round = [NoRound EXCEPT !.batch = a.batches, !.calls = calls]]

OpenRound(a, calls) ==
    [a EXCEPT !.batches = @ + 1,
              !.round = [NoRound EXCEPT !.batch = a.batches + 1, !.calls = calls]]

Cell(call, id, position, batch) ==
    [call |-> call, id |-> id, position |-> position, batch |-> batch]
Lone(call) == Cell(call, NoId, None, None)
Entry(cell, fate) ==
    [call |-> cell.call, id |-> cell.id, position |-> cell.position, fate |-> fate]

\* start_tool_batch: the k-th cell is the k-th visible call of the round, unless the
\* counts disagree; a batch no round announced, or a second, numbers itself.
StartToolBatch(a, calls) ==
    LET first == a.round.batch # None /\ ~a.round.announced
        batch == IF first THEN a.round.batch ELSE a.batches + 1
        visible == Visible(a.round)
        stamped == first /\ Len(visible) = Len(calls)
        Stamped(k) ==
            IF stamped
            THEN Cell(calls[k], Id(a.round.calls[visible[k]]), visible[k], batch)
            ELSE Cell(calls[k], NoId, None, batch)
    IN [a EXCEPT !.queue = [k \in DOMAIN calls |-> Stamped(k)],
                 !.round.announced = @ \/ first,
                 !.batches = IF first THEN @ ELSE @ + 1]

\* start_tool: the front call, announced by its batch, starts; or a call of its own does.
StartTool(a, call) == IF a.queue # <<>> THEN a ELSE [a EXCEPT !.queue = <<Lone(call)>>]

\* resolve_front_tool
ResolveFront(a, fate) ==
    IF a.queue = <<>> THEN a
    ELSE [a EXCEPT !.queue = Tail(@),
                   !.history = Append(@, Record(Head(a.queue).batch,
                                                <<Entry(Head(a.queue), fate)>>))]

\* Were only the running call resolved.
FailLiveFront(a, fate) == [ResolveFront(a, fate) EXCEPT !.queue = <<>>]

\* fail_live_queue
FailLiveQueue(a, fate) ==
    [a EXCEPT !.queue = <<>>,
              !.history = @ \o [k \in DOMAIN a.queue |->
                                   Record(a.queue[k].batch, <<Entry(a.queue[k], fate)>>)]]

\* record_task_call: the next task call of the round is the one that resolved.
RecordTaskCall(a, call, fate) ==
    LET tasks == SelectSeq([p \in DOMAIN a.round.calls |-> p],
                           LAMBDA p : Kind(a.round.calls[p]) = "task")
        next == a.round.tasks + 1
        cell == IF next \in DOMAIN tasks
                THEN Cell(call, Id(a.round.calls[tasks[next]]), tasks[next], a.round.batch)
                ELSE Cell(call, NoId, None, a.round.batch)
    IN [a EXCEPT !.round.tasks = next,
                 !.history = Append(@, Record(cell.batch, <<Entry(cell, fate)>>))]

\* start_agent_group
StartAgentGroup(a, calls) ==
    [a EXCEPT !.group = [k \in DOMAIN calls |->
        Cell(calls[k], Id(calls[k]), PositionOf(a.round, Id(calls[k])), a.round.batch)]]

\* finish_agent_group, resolve_live_agent_group
GroupRecord(group, fates) ==
    Record(group[1].batch, [k \in DOMAIN group |-> Entry(group[k], fates[k])])
FinishAgentGroup(a, fates) ==
    IF a.group = <<>> THEN a
    ELSE [a EXCEPT !.group = <<>>, !.history = Append(@, GroupRecord(a.group, fates))]
ResolveLiveGroup(a, done) ==
    FinishAgentGroup(a, [k \in DOMAIN a.group |->
        IF a.group[k].call \in done THEN "done" ELSE "stopped"])

\* begin_stream, behind the submission's record
BeginStream(a) ==
    [a EXCEPT !.busy = TRUE, !.round = NoRound, !.history = Append(@, Note("user"))]

\* fail_stream
FailStream(a) ==
    LET failed == ResolveLiveGroup(FailLiveQueue(a, "interrupted"), {}) IN
    [failed EXCEPT !.busy = FALSE, !.history = Append(@, Note("error"))]

\* on_stream_event
OnStreamEvent(a, event) ==
    LET calls == [k \in DOMAIN event.items |-> event.items[k].call]
        fates == [k \in DOMAIN event.items |-> event.items[k].fate]
    IN CASE event.type = "RoundCalls" -> OpenRound(a, calls)
         [] event.type = "ToolBatch" -> StartToolBatch(a, calls)
         [] event.type = "ToolStart" -> StartTool(a, calls[1])
         [] event.type = "ToolEnd" -> ResolveFront(a, fates[1])
         [] event.type = "TaskCall" -> RecordTaskCall(a, calls[1], fates[1])
         [] event.type = "AgentBatch" -> StartAgentGroup(a, calls)
         [] event.type = "AgentGroupDone" -> FinishAgentGroup(a, fates)
         [] event.type = "Error" -> FailStream(a)
         [] event.type = "StreamDone" -> [a EXCEPT !.busy = FALSE]

-----------------------------------------------------------------------------
(* The backend: run_agent on a round of calls.                              *)

Round == [p \in DOMAIN Last(made) |-> <<Len(made), p>>]

\* The budget is spent per call, and the model's order says which calls it affords.
Fitting(calls, used) ==
    IF limit = 0 \/ Len(calls) < limit - used THEN Len(calls) ELSE limit - used

Allowed == SubSeq(Round, 1, worker.fit)
Refused == SubSeq(Round, worker.fit + 1, Len(Round))
Rest == OfKind(Allowed, {"tool", "task"})
RefusedRest == OfKind(Refused, {"tool"})

Fresh == [pc |-> "top", used |-> 0, fit |-> 0, next |-> 0, results |-> <<>>]

\* A dropped channel takes nothing.
Send(events) == chan' = IF cut THEN chan ELSE chan \o events

ToolBatchOf(calls) ==
    IF calls = <<>> THEN <<>> ELSE <<Event("ToolBatch", Untold(calls))>>
StartEnd(call, fate) ==
    <<Event("ToolStart", <<Told(call, "done")>>),
      Event("ToolEnd", <<Told(call, fate)>>)>>

\* The ordinary batch is announced once the agents are launched and answered.
Announced == ToolBatchOf(OfKind(Rest, {"tool"}) \o RefusedRest)

\* RoundOutcome::Complete
Reply ==
    /\ worker.pc = "top"
    /\ worker' = [worker EXCEPT !.pc = "end"]
    /\ Send(IF cut THEN <<>> ELSE <<Event("StreamDone", <<>>)>>)
    /\ UNCHANGED <<naming, limit, made, turns, wire, cut, app, shown, ran>>

\* RoundOutcome::ToolCalls with the budget already spent.
OverLimit ==
    /\ worker.pc = "top" /\ ~cut
    /\ limit > 0 /\ worker.used >= limit
    /\ worker' = [worker EXCEPT !.pc = "end"]
    /\ Send(<<Event("Error", <<>>)>>)
    /\ UNCHANGED <<naming, limit, made, turns, wire, cut, app, shown, ran>>

\* RoundOutcome::ToolCalls: the round is announced under its ids.
ToolCalls(kinds) ==
    LET calls == [p \in DOMAIN kinds |-> <<Len(made) + 1, p>>]
        fit == Fitting(calls, worker.used)
        known == SubSeq(calls, 1, fit)
                 \o SelectSeq(SubSeq(calls, fit + 1, Len(calls)),
                              LAMBDA call : kinds[call[2]] = "tool")
    IN
    /\ worker.pc = "top" /\ ~cut
    /\ limit = 0 \/ worker.used < limit
    /\ made' = Append(made, kinds)
    /\ worker' = [worker EXCEPT !.pc = "launch", !.fit = fit, !.used = @ + fit,
                                !.results = <<>>]
    /\ Send(<<Event("RoundCalls", Untold(known))>>)
    /\ UNCHANGED <<naming, limit, turns, wire, cut, app, shown, ran>>

\* The agents of the round: one a hook refuses is a call of its own; the background
\* ones are answered at once, the others are waited for (run_agent_calls).
Launch(hooked, background) ==
    LET agents == OfKind(Allowed, {"agent"})
        refused == SelectSeq(agents, LAMBDA call : call \in hooked)
        moved == SelectSeq(agents, LAMBDA call : call \in background)
        waited == SelectSeq(agents, LAMBDA call : call \notin hooked \cup background)
        Group(calls, now) ==
            IF calls = <<>> THEN <<>>
            ELSE <<Event("AgentBatch", Untold(calls))>>
                 \o IF now THEN <<Event("AgentGroupDone", AllTold(calls, "moved"))>>
                    ELSE <<>>
    IN
    /\ worker.pc = "launch"
    /\ worker' = [worker EXCEPT
           !.pc = IF waited = <<>> THEN "tools" ELSE "wait", !.next = 1,
           !.results = AllTold(refused, "refused") \o AllTold(moved, "moved")]
    /\ Send(FlattenSeq([k \in DOMAIN refused |-> StartEnd(refused[k], "refused")])
            \o Group(moved, TRUE) \o Group(waited, FALSE)
            \o IF waited = <<>> THEN Announced ELSE <<>>)
    /\ ran' = ran \cup Range(moved) \cup Range(waited)
    /\ UNCHANGED <<naming, limit, made, turns, wire, cut, app, shown>>

\* The group is answered: each agent is done, or Esc has stopped it, or Ctrl+B has moved
\* what was left of the group to the background.
Answered(done) ==
    LET waited == SelectSeq(OfKind(Allowed, {"agent"}),
                            LAMBDA call : \A k \in DOMAIN worker.results :
                                              worker.results[k].call # call)
        left == IF cut THEN "stopped" ELSE "moved"
        results == [k \in DOMAIN waited |->
                       Told(waited[k], IF waited[k] \in done THEN "done" ELSE left)]
    IN
    /\ worker.pc = "wait"
    /\ worker' = [worker EXCEPT !.pc = "tools", !.results = @ \o results]
    /\ Send(<<Event("AgentGroupDone", results)>> \o Announced)
    /\ UNCHANGED <<naming, limit, made, turns, wire, cut, app, shown, ran>>

\* One ordinary call: run, or refused by a hook or at its prompt.
RunCall(fate) ==
    LET call == Rest[worker.next] IN
    /\ worker.pc = "tools" /\ ~cut
    /\ worker.next \in DOMAIN Rest
    /\ Kind(call) = "task" => fate = "done"
    /\ worker' = [worker EXCEPT !.next = @ + 1, !.results = Append(@, Told(call, fate))]
    /\ Send(IF Kind(call) = "task" THEN <<Event("TaskCall", <<Told(call, fate)>>)>>
            ELSE StartEnd(call, fate))
    /\ ran' = IF fate = "done" THEN ran \cup {call} ELSE ran
    /\ UNCHANGED <<naming, limit, made, turns, wire, cut, app, shown>>

\* The answer to a call: what was kept of it, or that the turn was cut before it ran.
FateOf(results, call) ==
    LET kept == {k \in DOMAIN results : results[k].call = call} IN
    IF kept = {} THEN "interrupted" ELSE results[CHOOSE k \in kept : TRUE].fate

\* The refused calls are answered, every answer goes to the model in the order of the
\* calls, and a clamped round ends the turn.
EndRound ==
    LET results == worker.results \o AllTold(Refused, "limit")
        answers == [p \in DOMAIN Round |->
                       [role |-> "result", of |-> <<Id(Round[p]), FateOf(results, Round[p])>>]]
        asked == [role |-> "calls", of |-> [p \in DOMAIN Round |-> <<Id(Round[p]), Round[p]>>]]
        over == cut \/ Refused # <<>>
    IN
    /\ worker.pc = "tools"
    /\ cut \/ worker.next > Len(Rest)
    /\ wire' = wire \o <<asked>> \o answers
    /\ worker' = [worker EXCEPT !.pc = IF over THEN "end" ELSE "top", !.results = results]
    /\ Send(FlattenSeq([k \in DOMAIN RefusedRest |-> StartEnd(RefusedRest[k], "limit")])
            \o IF Refused = <<>> THEN <<>> ELSE <<Event("Error", <<>>)>>)
    /\ UNCHANGED <<naming, limit, made, turns, cut, app, shown, ran>>

-----------------------------------------------------------------------------
(* The session's steps and the user's.                                      *)

\* A message starts a turn, on the request the history derives.
Submit ==
    /\ ~app.busy /\ turns < MaxTurns
    /\ turns' = turns + 1
    /\ app' = BeginStream(app)
    /\ worker' = Fresh
    /\ wire' = Replay(app'.history)
    /\ chan' = <<>> /\ cut' = FALSE /\ ran' = {}
    /\ UNCHANGED <<naming, limit, made, shown>>

Shows == {"ToolBatch", "ToolStart", "TaskCall", "AgentBatch"}

OnReplyEvent ==
    LET event == Head(chan) IN
    /\ app.busy /\ chan # <<>>
    /\ chan' = Tail(chan)
    /\ app' = OnStreamEvent(app, event)
    /\ shown' = IF event.type \in Shows
                THEN shown \cup {event.items[k].call : k \in DOMAIN event.items} ELSE shown
    /\ UNCHANGED <<naming, limit, made, turns, worker, wire, cut, ran>>

\* interrupt_turn's two ends: the submission back to the composer when nothing came of
\* the turn, or every call in flight resolved and the notice below them.
Undoable(a) == /\ a.history # <<>> /\ Last(a.history).type = "user"
               /\ a.queue = <<>> /\ a.group = <<>>
Undone(a) == [a EXCEPT !.busy = FALSE, !.history = Front(@)]
Kept(a, done) ==
    LET ended == ResolveLiveGroup(FailLiveQueue(a, "interrupted"), done) IN
    [ended EXCEPT !.busy = FALSE, !.history = Append(@, Note("error"))]

\* Esc.  The agents of a live group may have finished as the loop knows.
Interrupt(done) ==
    /\ app.busy
    /\ app' = IF Undoable(app) THEN Undone(app) ELSE Kept(app, done)
    /\ cut' = TRUE /\ chan' = <<>>
    /\ UNCHANGED <<naming, limit, made, turns, worker, wire, shown, ran>>

Init ==
    /\ naming \in Namings /\ limit \in Limits
    /\ made = <<>> /\ turns = 0
    /\ worker = [Fresh EXCEPT !.pc = "end"]
    /\ wire = <<>> /\ chan = <<>> /\ cut = FALSE
    /\ app = [busy |-> FALSE, history |-> <<>>, queue |-> <<>>, round |-> NoRound,
              group |-> <<>>, batches |-> 0]
    /\ shown = {} /\ ran = {}

CallsMade == Len(FlattenSeq(made))
Batches == UNION {[1 .. n -> Kinds] : n \in 1 .. MaxBatch}

Next ==
    \/ Reply \/ OverLimit
    \/ \E kinds \in Batches : CallsMade + Len(kinds) <= MaxCalls /\ ToolCalls(kinds)
    \/ worker.pc = "launch" /\
       LET agents == Range(OfKind(Allowed, {"agent"})) IN
       \E hooked \in IF TRUE \in Hooked THEN SUBSET agents ELSE {{}} :
           \E background \in SUBSET (agents \ hooked) : Launch(hooked, background)
    \/ worker.pc = "wait" /\
       \E done \in SUBSET Range(OfKind(Allowed, {"agent"})) : Answered(done)
    \/ \E fate \in {"done", "refused"} : RunCall(fate)
    \/ EndRound
    \/ Submit \/ OnReplyEvent
    \/ \E done \in SUBSET {app.group[k].call : k \in DOMAIN app.group} : Interrupt(done)

Spec == Init /\ [][Next]_vars
-----------------------------------------------------------------------------
(* Properties.                                                              *)

Cells == [call : Range(FlattenSeq([r \in DOMAIN made |->
                     [p \in DOMAIN made[r] |-> <<r, p>>]])),
          id : {NoId} \cup ((0 .. Len(made)) \X (0 .. MaxBatch)),
          position : 0 .. MaxBatch, batch : 0 .. app.batches]

\* Types, with what an open round and a live cell always have: a number the App has
\* counted to.
TypeOK ==
    /\ naming \in Namings /\ limit \in Limits /\ cut \in BOOLEAN
    /\ made \in Seq(UNION {[1 .. n -> Kinds] : n \in 1 .. MaxBatch})
    /\ turns \in 0 .. MaxTurns
    /\ worker.pc \in {"top", "launch", "wait", "tools", "end"}
    /\ worker.fit \in 0 .. MaxBatch /\ worker.used \in 0 .. MaxCalls
    /\ app.busy \in BOOLEAN
    /\ app.round = NoRound \/ app.round.batch \in 1 .. app.batches
    /\ Range(app.queue) \cup Range(app.group) \subseteq Cells
    /\ \A k \in DOMAIN app.history :
           /\ app.history[k].type \in {"user", "error", "calls"}
           /\ \A e \in Range(app.history[k].entries) : e.fate \in Fates

\* The cells, live or on record, of agents a hook refused to launch.
LaunchesRefused ==
    LET cells == Range(app.queue) \cup UNION {Range(r.entries) : r \in Range(app.history)}
    IN {cell \in cells : Kind(cell.call) = "agent" /\ cell.position = None}

\* With every event read, a turn at the top of a round has on record exactly the
\* conversation it put to the model: each round one message, its calls in the model's
\* order under the provider's ids, each with the answer the model was given - whatever
\* the order the agents, the tasks and the ordinary calls resolved in, and in every turn
\* after an interrupted or clamped one.  A client that minted the ids mints them anew.
Unnamed(messages) ==
    LET Bare(m) ==
            CASE m.role = "calls" -> [m EXCEPT !.of = [k \in DOMAIN @ |-> @[k][2]]]
              [] m.role = "result" -> [m EXCEPT !.of = @[2]]
              [] OTHER -> m
    IN [k \in DOMAIN messages |-> Bare(messages[k])]
RoundsReplay ==
    worker.pc = "top" /\ ~cut /\ chan = <<>> /\ LaunchesRefused = {} =>
        IF naming = "own" THEN wire = Replay(app.history)
        ELSE Unnamed(wire) = Unnamed(Replay(app.history))

\* Whatever was cut, refused or lost, the running turn's request and the one an idle
\* session would derive are ones a strict provider takes: each message of calls is
\* followed by one result for each call, in their order, under their ids, and no other
\* result stands anywhere; the calls of a message are of one round, in its order; and
\* no two results of a derived request share an id.
Paired(messages) ==
    /\ \A i \in DOMAIN messages : messages[i].role = "calls" =>
           LET of == messages[i].of IN
           /\ i + Len(of) <= Len(messages)
           /\ \A k \in DOMAIN of : /\ messages[i + k].role = "result"
                                   /\ messages[i + k].of[1] = of[k][1]
           /\ \A k \in 1 .. Len(of) - 1 : /\ of[k][2][1] = of[k + 1][2][1]
                                          /\ of[k][2][2] < of[k + 1][2][2]
    /\ \A i \in DOMAIN messages : messages[i].role = "result" =>
           \E j \in 1 .. i - 1 : messages[j].role = "calls" /\ i <= j + Len(messages[j].of)
RequestsPair ==
    LET replay == Replay(app.history)
        results == {k \in DOMAIN replay : replay[k].role = "result"}
    IN /\ Paired(wire)
       /\ ~app.busy =>
              /\ Paired(replay)
              /\ Cardinality({replay[k].of[1] : k \in results}) = Cardinality(results)

\* The request of a later turn is the one the model saw, and one a provider takes.
RequestsHold == RoundsReplay /\ RequestsPair

\* A turn runs no more calls than its limit, however they are spread over rounds, and
\* refuses one for the limit only when the limit is spent.
LimitIsSpent ==
    limit > 0 =>
        /\ Cardinality(ran) <= limit
        /\ (\E k \in DOMAIN worker.results : worker.results[k].fate = "limit")
               => worker.used = limit

\* A call the session was told of is never lost nor doubled: it is live or on record,
\* once, under its own id, through every Esc, error and clamped round - the siblings
\* that never ran among them.
AnnouncedCallsKept ==
    LET places == app.queue \o app.group
                  \o FlattenSeq([k \in DOMAIN app.history |-> app.history[k].entries])
    IN \A call \in shown :
           LET at == {k \in DOMAIN places : places[k].call = call} IN
           /\ Cardinality(at) = 1
           /\ \A k \in at : places[k].id = IF places[k] \in LaunchesRefused THEN NoId ELSE Id(call)

\* Each call is accounted for: run within the limit or refused for it, and kept.
CallsAccounted == LimitIsSpent /\ AnnouncedCallsKept
=============================================================================
