---------------------------- MODULE AgentNotices ----------------------------
(***************************************************************************)
(* One background subagent and what the lead hears of it: the slot that    *)
(* agents.rs::AgentRegistry keeps (its lock makes each of its methods one  *)
(* step), the thread of the agent's current run (llm/backend.rs::          *)
(* spawn_subagent_run), the session loop that folds the agent's events     *)
(* into its roster row (tui/agent.rs, app/agent.rs), the notes of the      *)
(* board that speak of the agent (background.rs) and the lead's turns with *)
(* its companion tools (llm/agent_tools.rs).                               *)
(*                                                                         *)
(* A run is numbered from 0, one more for each continuation.  A turn of    *)
(* the lead is a thread of its own: a turn interrupted inside a call goes  *)
(* on to the call's end, its token cancelled.                              *)
(***************************************************************************)
EXTENDS Integers, Sequences, FiniteSets, Functions, Queues

CONSTANTS
    Calls,      \* bound: which companion calls and user commands are explored
    Late,       \* which short delays may be outlasted: "wait", an interrupted wait's
                \* last poll, by a new turn's first call; "drain", a chat's drain of
                \* the channel, by the end of the run it has just started
    MaxRuns,    \* bound: continuations of the agent
    MaxTurns,   \* bound: turns of the lead
    MaxTexts    \* bound: messages sent to the agent, by the lead or the user

ASSUME NoticeBoundsAssumption == {MaxRuns, MaxTurns, MaxTexts} \subseteq Nat /\ MaxTurns >= 1
ASSUME CallsAssumption == Calls \subseteq {"kill", "send", "chat", "stop", "esc"}
ASSUME LateAssumption == Late \subseteq {"wait", "drain"}

VARIABLES
    slot,       \* the agent's AgentSlot
    thread,     \* the thread of the run going: "none", "start", "run", "ended", "reaped"
    windows,    \* run |-> where its thread, past its settle, is
    cancelled,  \* the runs whose token is cancelled
    mute,       \* the runs begun past a settle window's look that nothing will announce
    events,     \* the agent channel, unread
    roster,     \* the agent's row: AgentRun's status and stopped_by_user
    loop,       \* where the session loop is
    board,      \* the agent's pending notes, in posting order
    retracted,  \* the board's retracted note numbers
    cells,      \* pending_agents: the notice cells held
    posted,     \* the next note's number
    lead,       \* turn |-> its backend thread
    turn,       \* [n, active]: the newest turn, and whether it is running
    texts,      \* messages sent to the agent so far
    told,       \* the runs whose end was handed to a call or read in a note
    waived,     \* the runs whose end was still untold when the user stopped the agent
    stale       \* the kinds of note the lead read though it knew what they said

vars == <<slot, thread, windows, cancelled, mute, events, roster, loop, board, retracted,
          cells, posted, lead, turn, texts, told, waived, stale>>
agentVars == <<thread, windows, cancelled, mute>>
rowVars == <<roster, loop, waived>>
noteVars == <<board, retracted, cells, posted>>
leadVars == <<lead, turn>>
heardVars == <<told, stale>>

Runs == 0 .. MaxRuns
Turns == 1 .. MaxTurns

\* Where a thread of the lead's is; only a report remembers a run.
At(pc) == [pc |-> pc, run |-> 0]

-----------------------------------------------------------------------------
(* The registry: each operator maps a slot to the slot it leaves.          *)

\* AgentSlot::running
Running(s) == ~s.killed /\ (s.busy \/ ~s.done)

\* Were a run numbered both at its claim and at its start.
RestartSkips(s) == [s EXCEPT !.busy = TRUE, !.done = FALSE, !.run = @ + 2]
\* AgentSlot::restart: the next run, under a fresh token.
Restart(s) == [s EXCEPT !.busy = TRUE, !.done = FALSE, !.killed = FALSE, !.byUser = FALSE,
                        !.stored = FALSE, !.run = @ + 1]

Settled(run, observed) == [type |-> "Settled", run |-> run, flag |-> observed]
Message(type, flag) == [type |-> type, run |-> 0, flag |-> flag]

\* Were an end held for a wait dropped as the next run starts.
ForgetHeld(s) == [slot |-> [s EXCEPT !.held = FALSE, !.observed = FALSE], sent |-> <<>>]
\* release_held: the last run's end goes out ahead of what the next one sends.
ReleaseHeld(s) ==
    IF s.held
    THEN [slot |-> [s EXCEPT !.held = FALSE, !.observed = FALSE, !.owed = @ \cup {s.run}],
          sent |-> <<Settled(s.run, FALSE)>>]
    ELSE [slot |-> s, sent |-> <<>>]

\* begin_continuation, and the thread it is begun for.
CanContinue == ~slot.busy /\ slot.stored
BeginContinuation(s, also, announced) ==
    LET released == ReleaseHeld(s) IN
    /\ slot' = Restart(released.slot)
    /\ events' = events \o released.sent \o also
    /\ thread' = "start"
    /\ mute' = IF announced THEN mute ELSE mute \cup {slot.run + 1}
\* A run the loop does not begin is announced by the messages it reads, and only on
\* a row that does not show the user's stop: after an x, such a run is one begun past
\* a settle window's look, or on a row that still shows the stop this one undid.
Announced(s) == s.inputs # <<>> /\ ~roster.stopped

-----------------------------------------------------------------------------
(* The board and the held cells.                                           *)

EndRuns(notes) == {note.run : note \in {x \in Range(notes) : x.kind = "end"}}
Retracted(notes) == {note \in Range(notes) : note.n \in retracted}
ResumeNote(note) == note.kind = "resume"

\* hold_agent_note / post_notice and defer_agent_notice: a note on the board and
\* the cell held for it.
Post(kind, run, how) ==
    LET note == [n |-> posted, kind |-> kind, run |-> run, how |-> how] IN
    /\ board' = Append(board, note)
    /\ cells' = Append(cells, note)
    /\ posted' = posted + 1

\* What the lead learns as it reads `notes`, and which of them it knew already.
Hear(notes) ==
    /\ told' = told \cup EndRuns(notes)
    /\ stale' = stale \cup
         {notes[i].how : i \in {j \in DOMAIN notes :
             /\ notes[j].run \in told \cup EndRuns(SubSeq(notes, 1, j - 1))
             /\ ResumeNote(notes[j]) => notes[j].run = slot.run}}

\* Take these notes back off the board, remembering their numbers.
Retract(notes) ==
    /\ board' = Without(board, notes)
    /\ retracted' = retracted \cup {note.n : note \in notes}

\* dispatch_after_turn: the cells still held settle, but for those whose note was
\* taken back, and what they say is the next context's; a completion among the
\* notes nobody took starts a turn.
Dispatch(b, held) ==
    /\ Hear(Without(held, Retracted(held)))
    /\ retracted' = retracted \ {held[i].n : i \in DOMAIN held}
    /\ board' = <<>> /\ cells' = <<>>
    /\ IF EndRuns(b) # {} /\ turn.n < MaxTurns
       THEN /\ turn' = [n |-> turn.n + 1, active |-> TRUE]
            /\ lead' = [lead EXCEPT ![turn.n + 1] = At("loop")]
       ELSE turn' = [turn EXCEPT !.active = FALSE] /\ UNCHANGED lead

\* An idle session dispatches what it has just put on the board; mid-turn the
\* note waits for the lead.
PostAndDispatch(kind, run, how) ==
    LET note == [n |-> posted, kind |-> kind, run |-> run, how |-> how] IN
    IF turn.active
    THEN Post(kind, run, how) /\ UNCHANGED <<retracted, lead, turn, told, stale>>
    ELSE posted' = posted + 1 /\ Dispatch(Append(board, note), Append(cells, note))

-----------------------------------------------------------------------------
(* The agent's thread.                                                     *)

\* A run is started and the channel drained by one handler of the loop's.
DrainInTime == loop.pc = "drain" => "drain" \in Late

\* take_pending_inputs at a round boundary, a run's first one included: each
\* message is announced.
ReadInputs ==
    /\ thread = "start" \/ (thread = "run" /\ slot.inputs # <<>>)
    /\ slot.run \notin cancelled
    /\ thread' = "run"
    /\ slot' = [slot EXCEPT !.inputs = <<>>]
    /\ events' = events \o [i \in DOMAIN slot.inputs |->
                              Message("Steered", slot.inputs[i] = "user")]
    /\ UNCHANGED <<windows, cancelled, mute, rowVars, noteVars, leadVars, heardVars, texts>>

\* The run's loop ends: on its own, its terminal event kept back by the
\* forwarder, or cancelled, with none.
RunEnds ==
    /\ \/ thread = "run" /\ thread' = "ended"
       \/ thread \in {"start", "run"} /\ slot.run \in cancelled /\ thread' = "reaped"
    /\ UNCHANGED <<slot, windows, cancelled, mute, events, rowVars, noteVars, leadVars,
                   heardVars, texts>>

\* settle: the outcome is stored and the terminal event sent, or held for the
\* calls waiting on it.
Settle ==
    /\ DrainInTime
    /\ thread \in {"ended", "reaped"}
    /\ thread' = "none"
    /\ windows' = [windows EXCEPT ![slot.run] = "look"]
    /\ LET s == [slot EXCEPT !.busy = FALSE, !.done = TRUE, !.stored = TRUE] IN
       IF thread = "reaped" THEN slot' = s /\ UNCHANGED events
       ELSE IF s.waiters > 0 THEN slot' = [s EXCEPT !.held = TRUE] /\ UNCHANGED events
       ELSE /\ slot' = [s EXCEPT !.owed = @ \cup {s.run}]
            /\ events' = Append(events, Settled(s.run, FALSE))
    /\ UNCHANGED <<cancelled, mute, rowVars, noteVars, leadVars, heardVars, texts>>

\* The settle window: a message queued after the run's last read continues it.  The
\* look and the continuation take the lock apart: a stop, a kill or another run may
\* take the messages in between.
WindowLooks(r) ==
    /\ windows[r] = "look"
    /\ windows' = [windows EXCEPT ![r] = IF slot.inputs # <<>> /\ r \notin cancelled
                                         THEN "continue" ELSE "closed"]
    /\ UNCHANGED <<slot, thread, cancelled, mute, events, rowVars, noteVars, leadVars,
                   heardVars, texts>>
WindowContinues(r) ==
    /\ windows[r] = "continue"
    /\ windows' = [windows EXCEPT ![r] = "closed"]
    /\ IF CanContinue THEN slot.run < MaxRuns /\ BeginContinuation(slot, <<>>, Announced(slot))
       ELSE UNCHANGED <<slot, events, thread, mute>>
    /\ UNCHANGED <<cancelled, rowVars, noteVars, leadVars, heardVars, texts>>

-----------------------------------------------------------------------------
(* The lead's turns and their calls.                                       *)

Interrupted(t) == t # turn.n \/ ~turn.active
AtLoop(t) == lead[t].pc = "loop" /\ ~Interrupted(t)
Reporting == [pc |-> "report", run |-> slot.run]
Back(t) == lead' = [lead EXCEPT ![t] = At(IF Interrupted(t) THEN "gone" ELSE "loop")]

\* A round's top: the board's notes are put to the model, their cells recorded.
TakeBoard(t) ==
    /\ AtLoop(t) /\ board # <<>>
    /\ Hear(board)
    /\ board' = <<>>
    /\ cells' = Without(cells, Range(board))
    /\ UNCHANGED <<slot, agentVars, events, rowVars, retracted, posted, leadVars, texts>>

\* agentoutput: the report at once, or a wait on a run that is going.  (A look
\* that does not wait on a running agent leaves nothing behind.)  The wait of an
\* interrupted turn ends at its next poll, WAIT_POLL (50 ms) later.
AgentOutput(t) ==
    /\ AtLoop(t)
    /\ (\E ghost \in 1 .. t - 1 : lead[ghost].pc \in {"register", "wait"}) => "wait" \in Late
    /\ lead' = [lead EXCEPT ![t] = IF Running(slot) THEN At("register") ELSE Reporting]
    /\ UNCHANGED <<slot, agentVars, events, rowVars, noteVars, turn, heardVars, texts>>

\* begin_wait
BeginWait(t) ==
    /\ lead[t].pc = "register"
    /\ lead' = [lead EXCEPT ![t] = At("wait")]
    /\ slot' = [slot EXCEPT !.waiters = @ + 1]
    /\ UNCHANGED <<agentVars, events, rowVars, noteVars, turn, heardVars, texts>>

\* end_wait, at the agent's settle, the deadline, Ctrl+B or the turn's
\* cancellation: where the agent stands, and the held event released, observed
\* by a call that reports it.
EndWait(t) ==
    LET reporting == ~Interrupted(t)
        s == [slot EXCEPT !.waiters = @ - 1, !.observed = @ \/ (reporting /\ slot.held)]
    IN
    /\ lead[t].pc = "wait"
    /\ IF s.waiters = 0 /\ s.held
       THEN /\ slot' = [s EXCEPT !.held = FALSE, !.observed = FALSE,
                                 !.owed = IF s.observed THEN @ ELSE @ \cup {s.run}]
            /\ events' = Append(events, Settled(s.run, s.observed))
       ELSE slot' = s /\ UNCHANGED events
    /\ IF reporting /\ ~Running(slot) THEN lead' = [lead EXCEPT ![t] = Reporting] ELSE Back(t)
    /\ UNCHANGED <<agentVars, rowVars, noteVars, turn, heardVars, texts>>

\* Were the owed notice left to be posted.
ReportKeepsOwed(t) ==
    /\ lead[t].pc = "report"
    /\ Retract({note \in Range(board) : note.kind = "end" /\ note.run = lead[t].run})
    /\ told' = told \cup {lead[t].run}
    /\ Back(t)
    /\ UNCHANGED <<slot, agentVars, events, rowVars, cells, posted, turn, stale, texts>>
\* report_settled: the run's notice is spent, its notes are taken back, and the
\* earlier runs' unread answers go with the report.
Report(t) ==
    LET run == lead[t].run IN
    /\ lead[t].pc = "report"
    /\ slot' = [slot EXCEPT !.owed = @ \ {run}]
    /\ Retract({note \in Range(board) : \/ note.kind = "end" /\ note.run <= run
                                        \/ ResumeNote(note) /\ slot.done})
    /\ told' = told \cup {run} \cup {r \in EndRuns(board) : r < run}
    /\ Back(t)
    /\ UNCHANGED <<agentVars, events, rowVars, cells, posted, turn, stale, texts>>

\* agentkill: its own result reports the stop.
AgentKill(t) ==
    /\ AtLoop(t) /\ "kill" \in Calls /\ DrainInTime
    /\ Retract({note \in Range(board) : ResumeNote(note)})
    /\ IF slot.done THEN UNCHANGED <<slot, cancelled, events, told>>
       ELSE /\ slot' = [slot EXCEPT !.inputs = <<>>, !.killed = TRUE, !.byUser = FALSE,
                                    !.done = TRUE]
            /\ cancelled' = cancelled \cup {slot.run}
            /\ events' = Append(events, Message("Stopped", FALSE))
            /\ told' = told \cup {slot.run}
    /\ UNCHANGED <<thread, windows, mute, rowVars, cells, posted, leadVars, stale, texts>>

\* Were agentsend to continue an agent whoever stopped it.
AgentSendToStopped(t) ==
    /\ AtLoop(t) /\ "send" \in Calls
    /\ texts < MaxTexts /\ texts' = texts + 1
    /\ LET s == [slot EXCEPT !.inputs = Append(@, "lead")] IN
       \/ slot.busy /\ ~slot.killed /\ slot' = s /\ UNCHANGED <<events, thread, mute>>
       \/ CanContinue /\ slot.run < MaxRuns
          /\ BeginContinuation(s, <<Message("Resumed", FALSE)>>, Announced(s))
    /\ UNCHANGED <<windows, cancelled, rowVars, noteVars, leadVars, heardVars>>

\* agentsend: onto a running agent's queue, or the start of a continuation; an
\* error to one the user stopped or that is still stopping.
AgentSend(t) ==
    /\ AtLoop(t) /\ "send" \in Calls
    /\ texts < MaxTexts /\ texts' = texts + 1
    /\ ~slot.byUser
    /\ LET s == [slot EXCEPT !.inputs = Append(@, "lead")] IN
       \/ slot.busy /\ ~slot.killed /\ slot' = s /\ UNCHANGED <<events, thread, mute>>
       \/ CanContinue /\ slot.run < MaxRuns
          /\ BeginContinuation(s, <<Message("Resumed", FALSE)>>, Announced(s))
    /\ UNCHANGED <<windows, cancelled, rowVars, noteVars, leadVars, heardVars>>

-----------------------------------------------------------------------------
(* The session loop.                                                       *)

\* A turn begins on a message of the user's, ends on its own, or is interrupted.
Submit ==
    /\ loop.pc = "ready" /\ ~turn.active /\ turn.n < MaxTurns
    /\ turn' = [n |-> turn.n + 1, active |-> TRUE]
    /\ lead' = [lead EXCEPT ![turn.n + 1] = At("loop")]
    /\ UNCHANGED <<slot, agentVars, events, rowVars, noteVars, heardVars, texts>>
TurnEnds ==
    /\ loop.pc = "ready" /\ turn.active
    /\ lead[turn.n].pc = "loop" \/ "esc" \in Calls
    /\ Dispatch(board, cells)
    /\ UNCHANGED <<slot, agentVars, events, rowVars, posted, texts>>

Final == roster.status = "final"
Reopened == [status |-> "running", stopped |-> FALSE]

Quiet == UNCHANGED <<noteVars, leadVars, heardVars>>
\* A drain only posts; the channel's own branch dispatches if the session is idle.
PostFrom(kind, run, how) ==
    IF loop.pc = "ready" THEN PostAndDispatch(kind, run, how)
    ELSE Post(kind, run, how) /\ UNCHANGED <<retracted, leadVars, heardVars>>

\* handle_agent_message, then - but for a drain - the idle session's dispatch.
FoldSettled(e) ==
    /\ roster' = [roster EXCEPT !.status = "final"]
    /\ slot' = IF e.flag THEN slot ELSE [slot EXCEPT !.owed = @ \ {e.run}]
    /\ IF ~Final /\ ~e.flag /\ e.run \in slot.owed
       THEN PostFrom("end", e.run, "answer") ELSE Quiet
\* Were a row the user stopped reopened too.
FoldSteeredReopens(e) ==
    /\ UNCHANGED slot
    /\ roster' = IF Final THEN Reopened ELSE roster
    /\ IF Final /\ e.flag /\ ~slot.done THEN PostFrom("resume", slot.run, "resume") ELSE Quiet
FoldSteered(e) ==
    /\ UNCHANGED slot
    /\ roster' = IF Final /\ ~roster.stopped THEN Reopened ELSE roster
    /\ IF Final /\ ~roster.stopped /\ e.flag /\ ~slot.done
       THEN PostFrom("resume", slot.run, "resume") ELSE Quiet
FoldStopped ==
    /\ roster' = [roster EXCEPT !.status = "final"]
    /\ UNCHANGED slot /\ Quiet
OnAgentMessage ==
    LET e == Head(events) IN
    /\ loop.pc \in {"ready", "drain"} /\ events # <<>>
    /\ events' = Tail(events)
    /\ CASE e.type = "Settled" -> FoldSettled(e)
         [] e.type = "Steered" -> FoldSteered(e)
         [] e.type = "Stopped" -> FoldStopped
         [] OTHER -> UNCHANGED <<slot, roster>> /\ Quiet
    /\ UNCHANGED <<agentVars, loop, texts, waived>>

\* x on a row that is running: the row settles and kill stops the run going; then
\* the notice is posted, unless a call waiting on the agent reports the stop.
StopAgent ==
    /\ loop.pc = "ready" /\ ~Final /\ "stop" \in Calls
    /\ roster' = [status |-> "final", stopped |-> TRUE]
    /\ cancelled' = cancelled \cup {slot.run}
    /\ slot' = [slot EXCEPT !.inputs = <<>>, !.killed = TRUE, !.byUser = TRUE, !.done = TRUE]
    /\ loop' = [pc |-> "stop", run |-> slot.run, watched |-> ~slot.done /\ slot.waiters > 0]
    /\ waived' = waived \cup ((0 .. slot.run) \ told)
    /\ UNCHANGED <<thread, windows, mute, events, texts>>
    /\ Quiet
Ready == [pc |-> "ready", run |-> 0, watched |-> FALSE]
StopPosts ==
    /\ loop.pc = "stop"
    /\ loop' = Ready
    /\ IF loop.watched THEN Quiet ELSE PostAndDispatch("end", loop.run, "stop")
    /\ UNCHANGED <<slot, agentVars, events, roster, texts, waived>>

\* Enter in the agent's view: spawn_agent_chat queues the message on a running
\* agent, or else begins a continuation.
AgentChat ==
    /\ loop.pc = "ready" /\ "chat" \in Calls
    /\ texts < MaxTexts /\ texts' = texts + 1
    /\ IF slot.busy /\ ~slot.killed
       THEN slot' = [slot EXCEPT !.inputs = Append(@, "user")] /\ UNCHANGED loop
       ELSE loop' = [Ready EXCEPT !.pc = "chat"] /\ UNCHANGED slot
    /\ UNCHANGED <<agentVars, events, roster, waived>>
    /\ Quiet
ChatContinues ==
    /\ loop.pc = "chat"
    /\ IF CanContinue
       THEN /\ slot.run < MaxRuns /\ BeginContinuation(slot, <<>>, TRUE)
            /\ loop' = [Ready EXCEPT !.pc = "drain"]
       ELSE loop' = Ready /\ UNCHANGED <<slot, events, thread, mute>>
    /\ UNCHANGED <<windows, cancelled, roster, texts, waived>>
    /\ Quiet
\* Its channel drained, the row is reopened, and the lead told that the agent
\* runs again - while that run is going.
ChatStarted ==
    /\ loop.pc = "drain" /\ events = <<>>
    /\ loop' = Ready
    /\ roster' = IF Final THEN Reopened ELSE roster
    /\ IF Final /\ ~slot.done THEN PostAndDispatch("resume", slot.run, "resume")
       ELSE IF ~turn.active /\ cells # <<>> THEN Dispatch(board, cells) /\ UNCHANGED posted
       ELSE Quiet
    /\ UNCHANGED <<slot, agentVars, events, texts, waived>>

-----------------------------------------------------------------------------

\* A run launched in the background by the lead's first turn.
Init ==
    /\ slot = [busy |-> TRUE, done |-> FALSE, killed |-> FALSE, byUser |-> FALSE, run |-> 0,
                stored |-> FALSE, waiters |-> 0, held |-> FALSE, observed |-> FALSE,
                owed |-> {}, inputs |-> <<>>]
    /\ thread = "start"
    /\ windows = [r \in Runs |-> "closed"]
    /\ cancelled = {} /\ mute = {}
    /\ events = <<>>
    /\ roster = Reopened
    /\ loop = Ready
    /\ board = <<>> /\ retracted = {} /\ cells = <<>> /\ posted = 0
    /\ turn = [n |-> 1, active |-> TRUE]
    /\ lead = [t \in Turns |-> At(IF t = 1 THEN "loop" ELSE "gone")]
    /\ texts = 0
    /\ told = {} /\ waived = {} /\ stale = {}

AgentStep == ReadInputs \/ RunEnds \/ Settle
             \/ \E r \in Runs : WindowLooks(r) \/ WindowContinues(r)
LeadStep == \E t \in Turns : \/ TakeBoard(t) \/ AgentOutput(t) \/ BeginWait(t) \/ EndWait(t)
                            \/ Report(t) \/ AgentKill(t) \/ AgentSend(t)
LoopStep == \/ Submit \/ TurnEnds \/ OnAgentMessage
            \/ StopAgent \/ StopPosts \/ AgentChat \/ ChatContinues \/ ChatStarted
Next == AgentStep \/ LeadStep \/ LoopStep
Spec == Init /\ [][Next]_vars

-----------------------------------------------------------------------------

Notes == [n : Nat, kind : {"end", "resume"}, run : Runs, how : {"answer", "stop", "resume"}]
TypeOK ==
    /\ slot \in [busy : BOOLEAN, done : BOOLEAN, killed : BOOLEAN, byUser : BOOLEAN,
                  run : Runs, stored : BOOLEAN, waiters : 0 .. MaxTurns, held : BOOLEAN,
                  observed : BOOLEAN, owed : SUBSET Runs, inputs : Seq({"lead", "user"})]
    /\ thread \in {"none", "start", "run", "ended", "reaped"}
    /\ windows \in [Runs -> {"closed", "look", "continue"}]
    /\ cancelled \subseteq Runs /\ mute \subseteq Runs
    /\ events \in Seq([type : {"Settled", "Steered", "Stopped", "Resumed"}, run : Runs,
                        flag : BOOLEAN])
    /\ roster \in [status : {"running", "final"}, stopped : BOOLEAN]
    /\ loop \in [pc : {"ready", "stop", "chat", "drain"}, run : Runs, watched : BOOLEAN]
    /\ board \in Seq(Notes) /\ cells \in Seq(Notes)
    /\ retracted \subseteq Nat /\ posted \in Nat
    /\ lead \in [Turns -> [pc : {"gone", "loop", "register", "wait", "report"}, run : Runs]]
    /\ turn \in [n : Turns, active : BOOLEAN]
    /\ texts \in 0 .. MaxTexts
    /\ told \subseteq Runs /\ waived \subseteq Runs
    /\ stale \subseteq {"answer", "stop", "resume"}

-----------------------------------------------------------------------------

\* What the lead reads is news.  A note of a run's answer is never read after the
\* run's end was handed over, by a report, an earlier note or the lead's own stop
\* (docs/agent-tools.md, "One notice per answer"); the note that the user started a
\* run, never after that run's end, unless the agent has started over since ("A
\* resume is news when it starts").
NotesAreNews == {"answer", "resume"} \cap stale = {}

\* A run that ended is told, or its answer is on its way: held for a wait, owed
\* and on the channel, posted, or about to be reported.  A stop by the user waives
\* what it cut off or overtook, and a mute run's answer is nobody's to announce.
EndedRuns == 0 .. (IF slot.busy THEN slot.run - 1 ELSE slot.run)
OnItsWay ==
    (IF slot.held THEN {slot.run} ELSE {})
    \cup {r \in slot.owed : \E i \in DOMAIN events : events[i].type = "Settled" /\ events[i].run = r}
    \cup EndRuns(board)
    \cup {lead[t].run : t \in {x \in Turns : lead[x].pc = "report"}}
NoAnswerLost == EndedRuns \subseteq told \cup waived \cup mute \cup OnItsWay

\* No message sent to the agent is stranded: one still queued has a run going, or
\* a thread in its settle window, to read it.
InputsAreRead ==
    slot.inputs # <<>> => thread # "none" \/ \E r \in Runs : windows[r] # "closed"

\* Neither way loses what was said: not the agent's answers, not the messages to it.
NothingSaidIsLost == NoAnswerLost /\ InputsAreRead

\* A held cell is recorded only if its note reached the lead: the cells held are
\* those of the notes pending and of the notes taken back, one each.
CellsMatchBoard ==
    /\ IsInjective(cells)
    /\ {note.n : note \in Range(cells)} = {note.n : note \in Range(board)} \cup retracted

\* Once the channel is read, the row of a run that is over is shown over, unless
\* its end is held for a wait.
RowsSettle ==
    events = <<>> /\ loop.pc = "ready" /\ slot.done => Final \/ slot.held

\* What the session shows and holds is what the board and the registry say.
ShownAsItIs == CellsMatchBoard /\ RowsSettle

\* An agent the user stopped runs again for a message the user sends it; nothing of
\* the lead's, and no message queued before the stop, brings it back, but for a
\* continuation that a settle window had decided on before the stop.  A window that
\* looks after the stop decides on none.
StopIsFinal ==
    [][slot.byUser =>
        /\ ~slot'.byUser => \/ loop.pc = "chat"
                            \/ \E r \in Runs : windows[r] = "continue" /\ windows'[r] = "closed"
        /\ \A r \in Runs : windows[r] = "look" => windows'[r] # "continue"]_vars
=============================================================================
