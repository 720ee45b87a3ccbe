---------------------------- MODULE ShellNotices ----------------------------
(***************************************************************************)
(* One background session and who hears of it: the output and exit state   *)
(* its calls share (pty/session.rs::SessionIo, one lock), its entry on the *)
(* registry and the notes that speak of it (background.rs, another lock),  *)
(* the queue of the subagent that may have launched it (agents.rs), the    *)
(* session loop that turns its events into notes and cells                 *)
(* (tui/background.rs), and the readers' calls (llm/exec.rs): the lead's   *)
(* and the subagent's, one of each at a time.  Every step is what happens  *)
(* under one hold of a lock.                                               *)
(***************************************************************************)
EXTENDS Integers, Sequences, FiniteSets, Functions, Queues

CONSTANTS
    Owners,         \* who may have launched the session
    MaxCalls,       \* bound: companion calls of the two readers
    MaxOutput,      \* bound: pieces of output
    MaxInterrupts   \* bound: interrupts of the lead and stops of the agent

Readers == {"lead", "agent"}

ASSUME OwnersAssumption == Owners \subseteq Readers
ASSUME ShellBoundsAssumption == {MaxCalls, MaxOutput, MaxInterrupts} \subseteq Nat

VARIABLES
    owner,      \* the launch's origin: the agent's id, or the lead's conversation
    io,         \* the SessionIo
    monitor,    \* where its monitor is: "run", "now", "waiter", "done"
    task,       \* the registry's entry: "none", "live", "exited", "gone"
    unread,     \* its UnreadExit: "none", "unposted", "posted", "claimed"
    board,      \* the pending notes about it, in posting order
    retracted,  \* the numbers of the notes taken back
    posted,     \* the last note's number
    agentq,     \* the notes routed to the agent's pending inputs
    agent,      \* the agent's run: "busy", "settled", "killed"
    events,     \* the registry's event channel, unread
    row,        \* whether the session is on the app's list
    held,       \* pending_bg: the cells held
    stream,     \* the numbers of the notes the running turn read, their events unread
    cells,      \* the cells recorded in the history
    turn,       \* whether the lead's turn is running
    calls,      \* reader |-> its call: the lock it takes next, how its wait ended, the
                \* notes it took back, and whether it was interrupted
    made,       \* companion calls made
    reports,    \* reader |-> calls that told it of the exit
    notes,      \* reader |-> exit notes it read
    seen,       \* reader |-> the output its looks have shown
    late,       \* the readers whose call began to wait on a session already finalized, or
                \* whose stop gave up waiting for the exit
    watched,    \* whether a call that waited for the exit reported it
    dropped,    \* whether an interrupted call had already covered the exit
    interrupts  \* interrupts so far

ioVars == <<io, monitor, task, unread>>
noteVars == <<board, retracted, posted, agentq>>
loopVars == <<events, row, held, cells>>
boundVars == <<made, interrupts>>
heardVars == <<reports, notes, seen, late, watched, dropped>>
vars == <<owner, io, monitor, task, unread, board, retracted, posted, agentq, agent, events, row, held,
          stream, cells, turn, calls, reports, notes, seen, late, watched,
          dropped, made, interrupts>>

Numbers(ns) == {note.n : note \in Range(ns)}
ExitsIn(ns) == {note \in Range(ns) : note.kind = "exit"}
Exits(ns) == Cardinality(ExitsIn(ns))
IdleCall == [pc |-> "idle", end |-> "none", took |-> {}, lost |-> FALSE]

Init ==
    /\ owner \in Owners
    /\ io = [waiters |-> 0, announced |-> FALSE, finished |-> FALSE, finalized |-> FALSE,
             reported |-> FALSE, seq |-> 0, looked |-> 0, told |-> 0]
    /\ monitor = "run" /\ task = "none" /\ unread = "none"
    /\ board = <<>> /\ retracted = {} /\ posted = 0
    /\ agentq = <<>> /\ agent = "busy"
    /\ events = <<>> /\ row = FALSE /\ held = <<>> /\ stream = {} /\ cells = {}
    /\ turn = TRUE
    /\ calls = [r \in Readers |-> IdleCall]
    /\ reports = [r \in Readers |-> 0] /\ notes = [r \in Readers |-> 0]
    /\ seen = [r \in Readers |-> 0]
    /\ late = {} /\ watched = FALSE /\ dropped = FALSE /\ made = 0 /\ interrupts = 0

-----------------------------------------------------------------------------
(* The session and its monitor.                                            *)

\* SessionIo::prompt_seen
PromptSeen == io.told <= io.looked

Output ==
    /\ task = "live" /\ ~io.finished /\ io.seq < MaxOutput
    /\ io' = [io EXCEPT !.seq = @ + 1]
    /\ UNCHANGED <<owner, monitor, task, unread, noteVars, agent, loopVars, stream, turn, calls,
                   heardVars, boundVars>>

\* take_unseen_prompt: the session stopped to ask, and nobody is waiting on it.
TellPrompt ==
    /\ io.announced /\ io.waiters = 0 /\ ~io.finished
    /\ io.seq > io.looked /\ PromptSeen
    /\ io' = [io EXCEPT !.told = io.seq]
    /\ events' = Append(events, "waiting")
    /\ UNCHANGED <<owner, monitor, task, unread, noteVars, agent, row, held, cells, stream, turn,
                   calls, heardVars, boundVars>>

\* What leaves with the registry's entry when the exit is finalized.
EndTask(observed) ==
    /\ task' = "gone"
    /\ IF io.announced
       THEN /\ unread' = IF observed THEN unread ELSE "unposted"
            /\ events' = Append(events, IF observed THEN "observed" ELSE "exited")
       ELSE UNCHANGED <<unread, events>>

Finish ==
    /\ task = "live" /\ ~io.finished
    /\ io' = [io EXCEPT !.finished = TRUE, !.finalized = io.waiters = 0]
    /\ monitor' = IF io.waiters = 0 THEN "now" ELSE "waiter"
    /\ UNCHANGED <<owner, task, unread, noteVars, agent, loopVars, stream, turn, calls,
                   heardVars, boundVars>>

\* The monitor's second lock: the exit is reported now, or left to the waiting call,
\* which may have finalized it already.
Register ==
    /\ monitor \in {"now", "waiter"}
    /\ monitor' = "done"
    /\ IF monitor = "now"
       THEN EndTask(FALSE)
       ELSE /\ task' = IF task = "live" THEN "exited" ELSE task
            /\ UNCHANGED <<unread, events>>
    /\ UNCHANGED <<owner, io, noteVars, agent, row, held, cells, stream, turn, calls,
                   heardVars, boundVars>>

-----------------------------------------------------------------------------
(* A reader's calls.  A call's pc is the lock it takes next.               *)

Goto(r, pc) == calls' = [calls EXCEPT ![r].pc = pc]
GotoWith(r, pc, end) == calls' = [calls EXCEPT ![r].pc = pc, ![r].end = end]

\* May reader r make a call: the lead in its turn, the agent in its run?
Calling(r) == /\ calls[r].pc = "idle"
              /\ IF r = "lead" THEN turn ELSE agent = "busy"

\* Were a launch's session born with nobody waiting.
BornUnwaited(background) == [io EXCEPT !.announced = background]
\* register: a launching call waits from the session's birth; one sent to the
\* background is announced.
Born(background) ==
    [io EXCEPT !.announced = background, !.waiters = IF background THEN 0 ELSE 1]

Launch(background) ==
    /\ task = "none" /\ Calling(owner)
    /\ io' = Born(background)
    /\ task' = "live"
    /\ IF background
       THEN /\ events' = Append(events, "started")
            /\ UNCHANGED calls
       ELSE /\ GotoWith(owner, "launched", "none")
            /\ UNCHANGED events
    /\ UNCHANGED <<owner, monitor, unread, noteVars, agent, row, held, cells, stream, turn,
                   heardVars, boundVars>>

\* How a wait may end: by the exit, which it looks for first, by the session's settling,
\* by a stop (its waits run out in the end), by the interrupt or by Ctrl+B, both only when
\* the exit has not come before the wait; or before it, the input refused.
MayEnd(r, end) ==
    CASE end = "exited"    -> io.finished
      [] end = "stopped"   -> TRUE
      [] end = "running"   -> ~io.finished
      [] end = "cancelled" -> calls[r].lost /\ ~io.finalized
      [] end = "handoff"   -> r = "lead" /\ ~io.finalized
      [] end = "refused"   -> task # "live"

Covers(end) == end \in {"exited", "stopped"}

\* The call's result: the report reaches the reader unless its turn was interrupted.
Return(r) ==
    LET covers == Covers(calls[r].end) IN
    /\ calls' = [calls EXCEPT ![r] = IdleCall]
    /\ reports' = [reports EXCEPT ![r] = IF covers /\ ~calls[r].lost THEN @ + 1 ELSE @]
    /\ dropped' = (dropped \/ (covers /\ calls[r].lost))

\* run_tty past its wait: a command still running is announced to the loop.
LaunchWaited(r, end) ==
    /\ calls[r].pc = "launched"
    /\ end \notin {"stopped", "refused"} /\ MayEnd(r, end)
    /\ IF end \in {"running", "handoff"}
       THEN /\ io' = [io EXCEPT !.announced = TRUE]
            /\ events' = Append(events, "started")
       ELSE UNCHANGED <<io, events>>
    /\ GotoWith(r, IF end \in {"running", "exited"} THEN "launchlook" ELSE "ending", end)
    /\ UNCHANGED <<owner, monitor, task, unread, noteVars, agent, row, held, cells, stream,
                   turn, heardVars, boundVars>>

\* SessionIo::look
LookedBy(r) == [io EXCEPT !.looked = io.seq, !.reported = @ \/ Covers(calls[r].end)]

Look(r) ==
    /\ calls[r].pc \in {"launchlook", "look"}
    /\ io' = LookedBy(r)
    /\ seen' = [seen EXCEPT ![r] = io.seq]
    /\ Goto(r, IF calls[r].pc = "look" THEN "retract" ELSE "ending")
    /\ UNCHANGED <<owner, monitor, task, unread, noteVars, agent, loopVars, stream, turn,
                   reports, notes, late, watched, dropped, boundVars>>

\* end_wait: the last call out of a finished session finalizes the exit.
EndWait(r) ==
    LET last == io.finished /\ ~io.finalized /\ io.waiters = 1 IN
    /\ calls[r].pc = "ending"
    /\ io' = [io EXCEPT !.waiters = @ - 1, !.finalized = @ \/ last]
    /\ IF last
       THEN /\ Goto(r, IF io.reported THEN "observed" ELSE "unobserved")
            /\ UNCHANGED <<reports, dropped>>
       ELSE Return(r)
    /\ UNCHANGED <<owner, monitor, task, unread, noteVars, agent, loopVars, stream, turn,
                   notes, seen, late, watched, boundVars>>

\* BackgroundRegistry::finalize
Finalize(r) ==
    /\ calls[r].pc \in {"observed", "unobserved"}
    /\ EndTask(calls[r].pc = "observed")
    /\ watched' = (watched \/ calls[r].pc = "observed")
    /\ Return(r)
    /\ UNCHANGED <<owner, io, monitor, noteVars, agent, row, held, cells, stream, turn, notes,
                   seen, late, boundVars>>

\* A companion call, its id known from a report: the session is on the registry.
LookUp(r) ==
    /\ Calling(r) /\ made < MaxCalls
    /\ io.announced /\ task \in {"live", "exited"}
    /\ made' = made + 1
    /\ Goto(r, "found")
    /\ UNCHANGED <<owner, ioVars, noteVars, agent, loopVars, stream, turn, heardVars,
                   interrupts>>

BeginWait(r) ==
    /\ calls[r].pc = "found"
    /\ io' = [io EXCEPT !.waiters = @ + 1]
    /\ late' = IF io.finalized THEN late \cup {r} ELSE late
    /\ Goto(r, "waiting")
    /\ UNCHANGED <<owner, monitor, task, unread, noteVars, agent, loopVars, stream, turn,
                   reports, notes, seen, watched, dropped, boundVars>>

\* Does the stop give up, its last wait (SESSION_STOP_WAIT) over before the exit?
GivesUp(r, end) == end = "stopped" /\ ~io.finished /\ ~calls[r].lost

\* run_session past its wait, or its stop.
Waited(r, end) ==
    /\ calls[r].pc = "waiting"
    /\ MayEnd(r, end)
    /\ late' = IF GivesUp(r, end) THEN late \cup {r} ELSE late
    /\ GotoWith(r, IF end \in {"cancelled", "refused"} THEN "ending" ELSE "look", end)
    /\ UNCHANGED <<owner, ioVars, noteVars, agent, loopVars, stream, turn, reports, notes,
                   seen, watched, dropped, boundVars>>

-----------------------------------------------------------------------------
(* Taking notes back.                                                      *)

\* Inner::retract_shell: every note on the board is this session's.
RetractShell ==
    /\ board' = <<>>
    /\ retracted' = retracted \cup Numbers(board)

\* retract_shell_notices: the lead's off the board, the agent's out of its queue.
RetractNotices(r) ==
    /\ calls[r].pc = "retract"
    /\ IF r = "lead"
       THEN /\ RetractShell
            /\ Goto(r, "ending")
            /\ UNCHANGED agentq
       ELSE /\ agentq' = <<>>
            /\ calls' = [calls EXCEPT ![r].pc = "retracting", ![r].took = Numbers(agentq)]
            /\ UNCHANGED <<board, retracted>>
    /\ UNCHANGED <<owner, ioVars, posted, agent, loopVars, stream, turn, heardVars, boundVars>>

\* UnreadExit::claimable_by
ClaimableBy(r) ==
    \/ unread = "unposted" /\ owner = r
    \/ unread = "posted" /\ r = "lead"

\* Were a claim of an exit not yet posted not remembered.
ClaimUnmarked == "unposted"
\* What a claim leaves of the unread exit.
ClaimLeaves == IF unread = "unposted" THEN "claimed" ELSE "none"

\* A companion call of a session that ended, its exit on the registry still: the reader's
\* own is claimed; another's, or one claimed before, is an error to the call.
ClaimBoard(r) ==
    /\ Calling(r) /\ made < MaxCalls
    /\ task = "gone" /\ io.announced /\ unread # "none"
    /\ made' = made + 1
    /\ IF ClaimableBy(r)
       THEN /\ unread' = ClaimLeaves
            /\ RetractShell
            /\ calls' = [calls EXCEPT ![r].pc = "claimed", ![r].end = "exited"]
       ELSE UNCHANGED <<calls, unread, board, retracted>>
    /\ UNCHANGED <<owner, io, monitor, task, posted, agentq, agent, loopVars, stream, turn,
                   heardVars, interrupts>>

\* claim_routed_exit: the agent takes the exit's note out of its own queue.
ClaimRouted ==
    LET exits == ExitsIn(agentq) IN
    /\ Calling("agent") /\ made < MaxCalls
    /\ task = "gone" /\ unread = "none" /\ exits # {}
    /\ agentq' = Without(agentq, exits)
    /\ calls' = [calls EXCEPT !["agent"].pc = "claiming", !["agent"].end = "exited",
                              !["agent"].took = {note.n : note \in exits}]
    /\ made' = made + 1
    /\ UNCHANGED <<owner, ioVars, board, retracted, posted, agent, loopVars, stream, turn,
                   heardVars, interrupts>>

\* The board learns, under its own lock, of the notes the agent's queue gave back.
JoinRetracted ==
    /\ calls["agent"].pc \in {"claiming", "retracting"}
    /\ retracted' = retracted \cup calls["agent"].took
    /\ Goto("agent", IF calls["agent"].pc = "claiming" THEN "claimed" ELSE "ending")
    /\ UNCHANGED <<owner, ioVars, board, posted, agentq, agent, loopVars, stream, turn,
                   heardVars, boundVars>>

\* claimed_exit_report
ReportClaimed(r) ==
    /\ calls[r].pc = "claimed"
    /\ io' = LookedBy(r)
    /\ seen' = [seen EXCEPT ![r] = io.seq]
    /\ Return(r)
    /\ UNCHANGED <<owner, monitor, task, unread, noteVars, agent, loopVars, stream, turn,
                   notes, late, watched, boundVars>>

-----------------------------------------------------------------------------
(* The session loop, and who reads its notes.                              *)

\* take_pending_notices by the lead: an exit whose note is read is no longer claimable.
HearBoard(b, u) ==
    /\ notes' = [notes EXCEPT !["lead"] = @ + Exits(b)]
    /\ board' = <<>>
    /\ unread' = IF Exits(b) > 0 THEN "none" ELSE u

\* dispatch_after_turn: the cells not taken back are recorded, the notes nobody read
\* start the turn that reads them.
Dispatch(b, h, u) ==
    /\ cells' = cells \cup {note \in Range(h) : note.n \notin retracted}
    /\ retracted' = retracted \ Numbers(h)
    /\ held' = <<>>
    /\ HearBoard(b, u)
    /\ stream' = {}
    /\ turn' = (b # <<>>)

\* report_bg_completion's defer: the cell waits for the turn's end, if one is running.
Defer(b, h, u) ==
    IF turn
    THEN /\ board' = b /\ held' = h /\ unread' = u
         /\ UNCHANGED <<cells, retracted, stream, turn, notes>>
    ELSE Dispatch(b, h, u)

\* Were a prompt's note posted without asking whether it was looked at.
CoveredExits(kind) == kind = "exit" /\ unread = "claimed"
\* post_exit_notice, post_waiting_notice, take_shell_notice: does the model have it?
Covered(kind) ==
    IF kind = "exit" THEN unread = "claimed" ELSE task # "gone" /\ PromptSeen

\* report_bg_completion
ReportCompletion(kind) ==
    LET note == [n |-> posted + 1, kind |-> kind, at |-> io.told] IN
    IF Covered(kind)
    THEN /\ unread' = IF kind = "exit" THEN "none" ELSE unread
         /\ UNCHANGED <<board, retracted, posted, agentq, held, cells, stream, turn, notes>>
    ELSE /\ posted' = posted + 1
         /\ IF owner = "agent" /\ agent = "busy"
            THEN /\ agentq' = Append(agentq, note)
                 /\ Defer(board, Append(held, note), IF kind = "exit" THEN "none" ELSE unread)
            ELSE /\ UNCHANGED agentq
                 /\ Defer(Append(board, note), Append(held, note),
                          IF kind = "exit" THEN "posted" ELSE unread)

OnBgEvent ==
    /\ events # <<>>
    /\ events' = Tail(events)
    /\ row' = (Head(events) \in {"started", "waiting"})
    /\ CASE Head(events) = "exited" -> ReportCompletion("exit")
         [] Head(events) = "waiting" -> ReportCompletion("waiting")
         [] OTHER -> UNCHANGED <<unread, board, retracted, posted, agentq, held, cells,
                                 stream, turn, notes>>
    /\ UNCHANGED <<owner, io, monitor, task, agent, calls, reports, seen, late, watched,
                   dropped, boundVars>>

\* The lead's thread before a round: the board is read, the loop told of each note.
LeadReads ==
    /\ turn /\ board # <<>>
    /\ calls["lead"].pc = "idle" \/ calls["lead"].lost
    /\ HearBoard(board, unread)
    /\ stream' = stream \cup Numbers(board)
    /\ UNCHANGED <<owner, io, monitor, task, retracted, posted, agentq, agent, loopVars, turn,
                   calls, reports, seen, late, watched, dropped, boundVars>>

\* settle_delivered_notice
NoticeDelivered ==
    /\ \E n \in stream :
       LET due == {note \in Range(held) : note.n = n} IN
       /\ \A m \in stream : n <= m
       /\ stream' = stream \ {n}
       /\ cells' = cells \cup due
       /\ held' = Without(held, due)
    /\ UNCHANGED <<owner, ioVars, noteVars, agent, events, row, turn, calls, heardVars,
                   boundVars>>

TurnEnds ==
    /\ turn /\ stream = {}
    /\ calls["lead"].pc = "idle" \/ calls["lead"].lost
    /\ Dispatch(board, held, unread)
    /\ UNCHANGED <<owner, io, monitor, task, posted, agentq, agent, events, row, calls,
                   reports, seen, late, watched, dropped, boundVars>>

\* Esc inside a call: the turn ends at once, its thread goes on to the call's end.
Interrupt ==
    /\ turn /\ interrupts < MaxInterrupts
    /\ calls["lead"].pc # "idle" /\ ~calls["lead"].lost
    /\ interrupts' = interrupts + 1
    /\ calls' = [calls EXCEPT !["lead"].lost = TRUE]
    /\ Dispatch(board, held, unread)
    /\ UNCHANGED <<owner, io, monitor, task, posted, agentq, agent, events, row,
                   reports, seen, late, watched, dropped, made>>

Submit ==
    /\ ~turn
    /\ turn' = TRUE
    /\ UNCHANGED <<owner, ioVars, noteVars, agent, loopVars, stream, calls, heardVars,
                   boundVars>>

\* take_pending_inputs by the agent's run.
AgentReads ==
    /\ agent = "busy" /\ calls["agent"].pc = "idle" /\ agentq # <<>>
    /\ notes' = [notes EXCEPT !["agent"] = @ + Exits(agentq)]
    /\ agentq' = <<>>
    /\ UNCHANGED <<owner, ioVars, board, retracted, posted, agent, loopVars, stream, turn,
                   calls, reports, seen, late, watched, dropped, boundVars>>

\* The agent's run ends: only with nothing in its queue, or it goes on.
AgentSettles ==
    /\ agent = "busy" /\ calls["agent"].pc = "idle" /\ agentq = <<>>
    /\ agent' = "settled"
    /\ UNCHANGED <<owner, ioVars, noteVars, loopVars, stream, turn, calls, heardVars,
                   boundVars>>

\* The agent is stopped: its queue goes with it.
AgentStopped ==
    /\ agent = "busy" /\ interrupts < MaxInterrupts
    /\ agent' = "killed"
    /\ agentq' = <<>>
    /\ calls' = [calls EXCEPT !["agent"].lost = calls["agent"].pc # "idle"]
    /\ interrupts' = interrupts + 1
    /\ UNCHANGED <<owner, ioVars, board, retracted, posted, loopVars, stream, turn, heardVars, made>>

-----------------------------------------------------------------------------
Ends == {"exited", "stopped", "running", "cancelled", "handoff", "refused"}

Call(r) ==
    \/ \E end \in Ends : LaunchWaited(r, end) \/ Waited(r, end)
    \/ Look(r)
    \/ RetractNotices(r)
    \/ EndWait(r)
    \/ Finalize(r)
    \/ LookUp(r)
    \/ BeginWait(r)
    \/ ClaimBoard(r)
    \/ ReportClaimed(r)

Next ==
    \/ \E background \in BOOLEAN : Launch(background)
    \/ Output \/ TellPrompt \/ Finish \/ Register
    \/ \E r \in Readers : Call(r)
    \/ ClaimRouted \/ JoinRetracted
    \/ OnBgEvent \/ NoticeDelivered
    \/ LeadReads \/ TurnEnds \/ Interrupt \/ Submit
    \/ AgentReads \/ AgentSettles \/ AgentStopped

Spec == Init /\ [][Next]_vars

-----------------------------------------------------------------------------
(* Properties.                                                             *)

Note == [n : Nat \ {0}, kind : {"exit", "waiting"}, at : 0 .. MaxOutput]
CallState ==
    [pc : {"idle", "launched", "launchlook", "ending", "observed", "unobserved", "found",
           "waiting", "look", "retract", "retracting", "claiming", "claimed"},
     end : Ends \cup {"none"}, took : SUBSET (1 .. posted), lost : BOOLEAN]

\* Types, with three bounds no assignment keeps by itself: every call that ends a wait
\* had begun one (end_wait's saturating subtraction never saturates), looks and prompts
\* are of output that came, and a note number is used once.
TypeOK ==
    /\ owner \in Owners
    /\ io \in [waiters : 0 .. 2, announced : BOOLEAN, finished : BOOLEAN, finalized : BOOLEAN,
               reported : BOOLEAN, seq : 0 .. MaxOutput, looked : 0 .. MaxOutput,
               told : 0 .. MaxOutput]
    /\ io.looked <= io.seq /\ io.told <= io.seq
    /\ monitor \in {"run", "now", "waiter", "done"}
    /\ task \in {"none", "live", "exited", "gone"}
    /\ unread \in {"none", "unposted", "posted", "claimed"}
    /\ posted \in Nat
    /\ board \in Seq(Note) /\ held \in Seq(Note) /\ agentq \in Seq(Note)
    /\ cells \subseteq Note
    /\ retracted \cup stream \cup Numbers(board) \cup Numbers(held) \cup Numbers(agentq)
            \subseteq 1 .. posted
    /\ events \in Seq({"started", "waiting", "exited", "observed"})
    /\ agent \in {"busy", "settled", "killed"}
    /\ row \in BOOLEAN /\ turn \in BOOLEAN /\ watched \in BOOLEAN /\ dropped \in BOOLEAN
    /\ calls \in [Readers -> CallState]
    /\ reports \in [Readers -> Nat] /\ notes \in [Readers -> Nat]
    /\ seen \in [Readers -> 0 .. MaxOutput]
    /\ late \subseteq Readers
    /\ made \in 0 .. MaxCalls /\ interrupts \in 0 .. MaxInterrupts

Told(r) == reports[r] + notes[r]
ExitCell == \E note \in cells : note.kind = "exit"

\* One notice per exit (docs/bash-tools.md): whatever a call, the loop and a claim do in
\* whichever order, no reader reads two notes of the exit, or one whose exit a call of its
\* own has reported, and no report to the lead is repeated by a cell of the history its
\* next request carries.  A call that began to wait on a session already finalized is
\* left out, since between its lookup and its wait the exit went to the loop as well; so
\* is a stop that gave up its wait, since it says so before the exit has come.
ExitToldOnce ==
    /\ \A r \in Readers \ late : notes[r] <= IF reports[r] = 0 THEN 1 ELSE 0
    /\ owner = "lead" /\ "lead" \notin late /\ reports["lead"] > 0 => ~ExitCell

\* Nothing is under way any more.
AtRest == /\ task = "gone" /\ events = <<>> /\ ~turn /\ agent # "busy"
          /\ \A r \in Readers : calls[r].pc = "idle"

\* An exit is never lost between the monitor, the call that waits, the loop and a claim:
\* when all is over, a call that waited for it reported it, or its own reader heard it
\* (the lead for an agent no longer there), unless an interrupted call had covered it.
\* What an unannounced launch leaves is its own call's report.
NoExitLost ==
    AtRest /\ io.announced =>
        watched \/ dropped \/ Told(owner) > 0 \/ ExitCell
            \/ (owner = "agent" /\ Told("lead") > 0)

\* The exit reaches whom it concerns: not twice, and not never.
ExitReachesOnce == ExitToldOnce /\ NoExitLost

\* The notes reader r will read.
Unheard(r) == IF r = "lead" THEN board ELSE agentq

\* While the session is on the registry, no reader has a note coming that says it waits at
\* a prompt the reader's own look has shown: whichever of the look and the note came first
\* (docs/bash-tools.md, post_waiting_notice, retract_shell_notices).
PromptIsNews ==
    task # "gone" =>
        \A r \in Readers : calls[r].pc # "retract" =>
            \A note \in Range(Unheard(r)) : note.kind = "waiting" => note.at > seen[r]
=============================================================================
