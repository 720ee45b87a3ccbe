------------------------------ MODULE TurnLoop ------------------------------
(***************************************************************************)
(* The session loop of Alter Zero and the one backend turn it has in       *)
(* flight: tui/turn.rs, tui/stream.rs, tui/actions.rs (the thread that     *)
(* owns the App), app/queue.rs and app/turn.rs (the App's turn state),     *)
(* steer.rs (the queue shared with the backend) and the loop of            *)
(* llm/agent.rs::run_agent (the backend thread).                           *)
(*                                                                         *)
(* `app` is the App, one record, changed by operators named for its        *)
(* methods.  `worker` is the backend thread whose channel the loop still   *)
(* reads; `chan` is that channel.  Abandoning a turn drops the channel and *)
(* cancels the token, so all an abandoned thread can still touch is what   *)
(* it shares with its successor: the steer queue and the notice board.     *)
(* `ghosts` counts the abandoned threads that are past their last cancel   *)
(* check and about to drain one of the two.                                *)
(***************************************************************************)
EXTENDS Integers, Sequences, FiniteSets, SequencesExt

CONSTANTS
    Msgs,           \* the messages the user may type (each is one draft)
    Shells,         \* the `!` commands the user may type
    Notices,        \* background notices, each posted at most once
    ModelNotices,   \* those of a command or agent the model started
    Paths,          \* bound: which of a turn's optional branches are explored
    MaxErrors,      \* bound: no prompt is blocked past this many errors on record
    MaxRounds,      \* bound: requests one turn makes
    MaxRetries,     \* bound: attempts of one turn lost to a dropped connection
    MaxPieces,      \* bound: pieces one attempt streams
    MaxCompacts,    \* bound: /compact turns
    MaxClears,      \* bound: /clear commands
    MaxGhosts,      \* bound: abandoned threads about to drain
    MaxUnread,      \* bound: a thread waits while the loop has this many events to read
    MaxContinuations \* src: unfinished replies continued in a row

ASSUME BoundsAssumption ==
    /\ {MaxErrors, MaxRounds, MaxRetries, MaxPieces, MaxCompacts, MaxClears, MaxGhosts,
        MaxUnread, MaxContinuations} \subseteq Nat
ASSUME PathsAssumption ==
    Paths \subseteq {"note", "blocked", "think", "draft", "fail", "stop", "unfinished",
                     "tools", "limit"}
ASSUME NoticeAssumption == ModelNotices \subseteq Notices
ASSUME DraftAssumption == Msgs \cap Shells = {} /\ (Msgs \cup Shells) \cap Notices = {}

VARIABLES
    unsent,     \* the drafts that are with the user: not submitted, or handed back
    composer,   \* those of them the composer's one text is made of
    app,        \* the App
    chan,       \* reply_rx: what the live worker sent and the loop has not read
    worker,     \* the in-flight backend thread
    wire,       \* the conversation that thread has put to the model
    ghosts,     \* abandoned threads about to drain the board / the steer queue
    steerQ,     \* SteerQueue, shared by the loop and every backend thread
    board,      \* BackgroundRegistry's pending notices, shared the same way
    posted,     \* the notices posted so far
    compacts, clears,   \* spent bounds
    dropped     \* drafts and notices a /clear threw away, and drafts the composer
                \* lost to a submission handed back over them

vars == <<unsent, composer, app, chan, worker, wire, ghosts, steerQ, board, posted,
          compacts, clears, dropped>>

Drafts == Msgs \cup Shells
NoFloor == -1
Nothing == 0    \* no streamed text: attempts are numbered from 1

(***************************************************************************)
(* History items and wire messages are <<kind, value>> pairs.  Assistant   *)
(* text and reasoning carry the number of the attempt that streamed them,  *)
(* a tool item the number of its call.                                     *)
(***************************************************************************)
User(m)    == <<"user", m>>
Asst(n)    == <<"asst", n>>
Tool(c)    == <<"tool", c>>
Note(n)    == <<"note", n>>
Hook       == <<"hook", 0>>
Reasoning  == <<"reasoning", 0>>
Error      == <<"error", 0>>
Shell(c)   == <<"shell", c>>
Summary    == <<"summary", 0>>
Compaction == <<"compaction", 0>>

IsUser(item) == item[1] = "user"
IsHook(item) == item[1] = "hook"

\* The elements of s up to, and after, its longest suffix whose items all
\* satisfy P and lie past position `floor`.
TailStart(s, floor, P(_)) ==
    CHOOSE i \in 0 .. Len(s) :
        /\ \A j \in (i + 1) .. Len(s) : j > floor /\ P(s[j])
        /\ i = 0 \/ i <= floor \/ ~P(s[i])
Before(s, floor, P(_)) == SubSeq(s, 1, TailStart(s, floor, P))
After(s, floor, P(_))  == SubSeq(s, TailStart(s, floor, P) + 1, Len(s))

\* context.rs::derive_history_into: the conversation a history derives.  A
\* compaction keeps the user messages before its marker (the token budget is
\* not modelled) and replaces the rest by its summary.
Conversational == {"user", "asst", "tool", "note", "hook", "error", "shell", "compaction"}
Spoken(item) == item[1] \in Conversational
Context(h) ==
    LET cuts == {i \in 1 .. Len(h) : h[i] = Compaction}
        cut  == CHOOSE i \in cuts : \A j \in cuts : j <= i
    IN  IF cuts = {} THEN SelectSeq(h, Spoken)
        ELSE SelectSeq(SubSeq(h, 1, cut), IsUser) \o
             SelectSeq(SubSeq(h, cut, Len(h)), Spoken)

-----------------------------------------------------------------------------
(* The App's methods: each maps an App to the App it leaves.               *)

Push(a, item) == [a EXCEPT !.history = Append(@, item)]

\* flush_streaming_segment
FlushSegment(a) ==
    IF a.text = Nothing THEN a ELSE [Push(a, Asst(a.text)) EXCEPT !.text = Nothing]

\* settle_reasoning: a phase with content flushes the text ahead of it and is
\* recorded; a blank one leaves nothing.
SettleReasoning(a) ==
    IF ~a.thought THEN a ELSE [Push(FlushSegment(a), Reasoning) EXCEPT !.thought = FALSE]

\* begin_stream
BeginStream(a) == [a EXCEPT !.mode = "reply", !.text = Nothing, !.thought = FALSE,
                            !.draft = FALSE, !.steeredThisTurn = FALSE]

\* begin_shell: the command's bubble, and its call live at once.
BeginShell(a, cmd) == [Push(a, Shell(cmd)) EXCEPT !.mode = "shell", !.text = Nothing,
                                                  !.thought = FALSE, !.draft = FALSE,
                                                  !.live = <<cmd>>]

\* begin_compact
BeginCompact(a) == [a EXCEPT !.mode = "compact", !.text = Nothing, !.thought = FALSE]

\* record_user_message, once per message of the batch
RecordBatch(a, ms) == [a EXCEPT !.history = @ \o [i \in DOMAIN ms |-> User(ms[i])]]

\* fail_live_queue: every live call resolves as failed, in order.
FailLive(a) == [a EXCEPT !.history = @ \o [i \in DOMAIN a.live |-> Tool(a.live[i])],
                         !.live = <<>>]

\* settle_bg_completions: every held cell settles.
SettleHeld(a) == [a EXCEPT !.history = @ \o [i \in DOMAIN a.held |-> Note(a.held[i])],
                           !.held = <<>>]

\* Were the cell left held once its notice is recorded.
SettleDeliveredKeepsHeld(a, n) == IF n \in Range(a.held) THEN Push(a, Note(n)) ELSE a

\* settle_delivered_notice
SettleDelivered(a, n) ==
    IF n \in Range(a.held) THEN [Push(a, Note(n)) EXCEPT !.held = RemoveFirst(@, n)] ELSE a

\* deliver_steered: the bubble is recorded whether or not a row was waiting.
DeliverSteered(a, m) ==
    [Push(FlushSegment(a), User(m)) EXCEPT !.steered = RemoveFirst(@, m),
                                           !.steeredThisTurn = TRUE]

\* reclaim_steered: what the turn never read, as one batch, ahead of the queue.
ReclaimSteered(a) ==
    IF a.steered = <<>> THEN a
    ELSE [a EXCEPT !.queued = <<[shell |-> FALSE, texts |-> a.steered]>> \o @,
                   !.steered = <<>>]

\* Were a message merged into whatever is queued last.
QueueDraftMergesAnyKind(a, d, newBatch) ==
    IF d \in Msgs /\ ~newBatch /\ a.queued # <<>>
    THEN [a EXCEPT !.queued[Len(a.queued)].texts = Append(@, d)]
    ELSE [a EXCEPT !.queued = Append(@, [shell |-> d \in Shells, texts |-> <<d>>])]

\* queue_draft / queue_shell
QueueDraft(a, d, newBatch) ==
    IF d \in Msgs /\ ~newBatch /\ a.queued # <<>> /\ ~Last(a.queued).shell
    THEN [a EXCEPT !.queued[Len(a.queued)].texts = Append(@, d)]
    ELSE [a EXCEPT !.queued = Append(@, [shell |-> d \in Shells, texts |-> <<d>>])]

\* turn_steerable
TurnSteerable(a) == a.mode = "reply"

\* track_attempt: where the attempt now streaming began.
AttemptOutput == {"Chunk", "ThinkingStart", "ThinkingChunk", "ThinkingEnd", "ToolCallDelta"}
TrackAttempt(a, e) ==
    IF e[1] \in AttemptOutput
    THEN [a EXCEPT !.floor = IF @ = NoFloor THEN Len(a.history) ELSE @]
    ELSE IF e[1] = "Retrying" THEN a ELSE [a EXCEPT !.floor = NoFloor]

\* What an attempt can have put on the record.
Attempted(item) == item[1] \in {"reasoning", "asst"}

\* Were only the text still streaming withdrawn, or all since the mark.
WithdrawAttemptTextOnly(a) ==
    [a EXCEPT !.text = Nothing, !.thought = FALSE, !.draft = FALSE, !.floor = NoFloor]
WithdrawAttemptToMark(a) ==
    [a EXCEPT !.text = Nothing, !.thought = FALSE, !.draft = FALSE, !.floor = NoFloor,
              !.history = IF a.floor = NoFloor THEN @ ELSE SubSeq(@, 1, a.floor)]

\* withdraw_attempt: the failed attempt is void, on screen and in the record.
WithdrawAttempt(a) ==
    [a EXCEPT !.text = Nothing, !.thought = FALSE, !.draft = FALSE, !.floor = NoFloor,
              !.history = IF a.floor = NoFloor THEN @ ELSE Before(@, a.floor, Attempted)]

\* finish_compact / finish_stream, settle_bg_completions, the summary
OnStreamDone(a) ==
    IF a.mode = "compact"
    THEN SettleHeld([Push(a, Compaction) EXCEPT !.mode = "idle", !.draft = FALSE])
    ELSE LET b == SettleHeld(FlushSegment([a EXCEPT !.draft = FALSE]))
         IN  [(IF a.mode = "shell" THEN b ELSE Push(b, Summary)) EXCEPT !.mode = "idle"]

\* The Error arm: settle_reasoning, then fail_stream.
FailStream(a) ==
    LET b == FailLive(FlushSegment(SettleReasoning(a)))
    IN  [Push(b, Error) EXCEPT !.mode = "idle", !.draft = FALSE]

\* block_prompt: the submission comes back off the record from under the hook
\* notes above it, and the notice is recorded.
BlockedMsgs(a) == After(Before(a.history, 0, IsHook), 0, IsUser)
BlockPrompt(a) ==
    LET under == Before(a.history, 0, IsHook)
    IN  [a EXCEPT !.history = Before(under, 0, IsUser) \o After(a.history, 0, IsHook)
                              \o <<Error>>,
                  !.mode = "idle", !.draft = FALSE]

\* on_stream_event, the arms that do not end the turn.
OnStreamEvent(a0, e) ==
    LET a == TrackAttempt(a0, e) IN
    CASE e[1] = "Chunk" /\ a.mode # "compact" -> [a EXCEPT !.text = e[2]]
      [] e[1] = "ThinkingChunk" -> [a EXCEPT !.thought = TRUE]
      [] e[1] = "ThinkingEnd"   -> SettleReasoning(a)
      [] e[1] = "Retrying"      -> WithdrawAttempt(a)
      [] e[1] = "HookNote" /\ a.mode # "compact" -> Push(FlushSegment(a), Hook)
      [] e[1] = "ToolCallDelta" -> [FlushSegment(a) EXCEPT !.draft = TRUE]
      [] e[1] = "ToolBatch"     -> [FlushSegment(a) EXCEPT !.live = <<e[2]>>]
      [] e[1] = "ToolEnd" /\ a.live # <<>> ->
            [Push(a, Tool(Head(a.live))) EXCEPT !.live = Tail(@), !.draft = FALSE]
      [] e[1] = "Steered"       -> DeliverSteered(a, e[2])
      [] e[1] = "NoticeDelivered" /\ a.mode # "compact" ->
            SettleDelivered(FlushSegment(a), e[2])
      [] OTHER -> a

-----------------------------------------------------------------------------
(* The backend threads.  `base` and `batch` only remember how long the     *)
(* record was when the turn started and what the user submitted into it.   *)

NoWorker == [kind |-> "none", pc |-> "gone", base |-> 0, batch |-> <<>>,
             att |-> 0, rounds |-> 0, lost |-> 0, pieces |-> 0, thinking |-> FALSE,
             said |-> FALSE, drafting |-> FALSE, unfinished |-> 0]

\* `batch` is empty for a turn the loop starts on its own.
ReplyWorker(h, batch) ==
    [NoWorker EXCEPT !.kind = "reply", !.pc = "opening",
                     !.base = Len(h) - Len(batch), !.batch = batch]
ShellWorker(h)   == [NoWorker EXCEPT !.kind = "shell", !.pc = "running", !.base = Len(h) - 1]
CompactWorker(h) == [NoWorker EXCEPT !.kind = "compact", !.pc = "round", !.att = 1,
                                     !.base = Len(h)]

\* start_turn, run_shell, start_background_turn and no turn at all, as the App
\* and the worker they leave.
StartTurn(a, batch) ==
    LET b == BeginStream(RecordBatch(a, batch))
    IN  [app |-> b, worker |-> ReplyWorker(b.history, batch)]
RunShell(a, cmd) ==
    LET b == BeginShell(a, cmd) IN [app |-> b, worker |-> ShellWorker(b.history)]
StartBackgroundTurn(a) == [app |-> BeginStream(a), worker |-> ReplyWorker(a.history, <<>>)]
Rest(a) == [app |-> a, worker |-> NoWorker]

\* flush_next_queued, else the automatic turn about the `unheard` notes.
NextTurn(unheard, b) ==
    LET c == [b EXCEPT !.queued = Tail(@)]
        next == Head(b.queued)
    IN  IF b.queued # <<>>
        THEN IF next.shell THEN RunShell(c, next.texts[1]) ELSE StartTurn(c, next.texts)
        ELSE IF Range(unheard) \cap ModelNotices # {} THEN StartBackgroundTurn(b)
        ELSE Rest(b)

\* Were the unread steers forgotten, or the held cells.
AfterTurnForgetsSteers(a, unheard) == NextTurn(unheard, SettleHeld(a))
AfterTurnLeavesHeld(a, unheard) == NextTurn(unheard, ReclaimSteered(a))

\* What dispatch_after_turn starts, with `unheard` the notes still on the board.
AfterTurn(a, unheard) == NextTurn(unheard, ReclaimSteered(SettleHeld(a)))

\* LlmBackend::spawn puts the context the history derives to the model.
Launch(started) ==
    /\ app' = started.app
    /\ worker' = started.worker
    /\ wire' = IF started.worker.kind = "reply" THEN Context(started.app.history) ELSE <<>>

\* dispatch_after_turn
DispatchAfterTurn(a, unheard) ==
    /\ Launch(AfterTurn(a, unheard))
    /\ board' = <<>>
    /\ steerQ' = <<>>

\* Were the old channel read on.
AbandonInflightKeepsChannel == UNCHANGED <<chan, ghosts>>

\* abandon_inflight: cancel the token and drop the channel, never joining the
\* thread.  One past the cancel check at its loop's top still drains what it
\* came for; one before it stops there.
AbandonInflight ==
    /\ chan' = <<>>
    /\ \/ worker.pc # "steer" /\ UNCHANGED ghosts
       \/ /\ worker.pc \in DOMAIN ghosts
          /\ ghosts[worker.pc] < MaxGhosts
          /\ ghosts' = [ghosts EXCEPT ![worker.pc] = @ + 1]

-----------------------------------------------------------------------------
(* The user, on the loop's thread.                                         *)

Idle == app.mode = "idle"

\* The draft is typed into an empty composer, or its text erased (Ctrl+C, or by
\* hand): nothing else of the session moves.
Editing == UNCHANGED <<unsent, app, chan, worker, wire, ghosts, steerQ, board, posted,
                       compacts, clears, dropped>>
Type(d) == composer = {} /\ d \in unsent /\ composer' = {d} /\ Editing
Erase == composer # {} /\ composer' = {} /\ Editing

\* The draft leaves the composer as one message; of several texts recalled as one
\* the user sends one and keeps the others for later.
Sent(d) == unsent' = unsent \ {d} /\ composer' = {}

\* recall_input's set_text: the composer's text is replaced, whatever it was.
Restore(back) ==
    /\ composer' = back
    /\ unsent' = (unsent \ composer) \cup back
    /\ dropped' = dropped \cup composer
NothingBack == UNCHANGED <<unsent, composer, dropped>>

\* Alt+Up's: the composer is empty.
Recalled(back) ==
    /\ composer = {}
    /\ composer' = back
    /\ unsent' = unsent \cup back

\* Enter at rest: Submit or RunShell
Submit(d) ==
    /\ Idle /\ d \in composer
    /\ Launch(IF d \in Msgs THEN StartTurn(app, <<d>>) ELSE RunShell(app, d))
    /\ Sent(d)
    /\ UNCHANGED <<chan, ghosts, steerQ, board, posted, compacts, clears, dropped>>

\* Enter mid-turn: steer_draft hands a message to a turn that can read one, and
\* queues anything else.
Enter(d) ==
    /\ ~Idle /\ d \in composer
    /\ IF TurnSteerable(app) /\ d \in Msgs
       THEN /\ app' = [app EXCEPT !.steered = Append(@, d)]
            /\ steerQ' = Append(steerQ, d)
       ELSE app' = QueueDraft(app, d, FALSE) /\ UNCHANGED steerQ
    /\ Sent(d)
    /\ UNCHANGED <<chan, worker, wire, ghosts, board, posted, compacts, clears, dropped>>

\* Tab mid-turn: a follow-up of its own.
QueueFollowUp(d) ==
    /\ ~Idle /\ d \in composer
    /\ app' = QueueDraft(app, d, TRUE)
    /\ Sent(d)
    /\ UNCHANGED <<chan, worker, wire, ghosts, steerQ, board, posted, compacts, clears,
                   dropped>>

\* Alt+Up: the last queued entry comes back to an empty composer.
RecallLastQueued ==
    /\ app.queued # <<>>
    /\ app' = [app EXCEPT !.queued = Front(@)]
    /\ Recalled(Range(Last(app.queued).texts))
    /\ UNCHANGED <<chan, worker, wire, ghosts, steerQ, board, posted, compacts, clears,
                   dropped>>

\* Were the row taken down without asking the shared queue.
RecallSteeredRow ==
    /\ app.queued = <<>> /\ app.steered # <<>>
    /\ app' = [app EXCEPT !.steered = Front(@)]
    /\ Recalled({Last(app.steered)})
    /\ UNCHANGED <<chan, worker, wire, ghosts, steerQ, board, posted, compacts, clears,
                   dropped>>

\* Alt+Up past an empty queue: only what the shared queue still holds can come
\* back (its fallback finds nothing: the queue is empty).
RecallSteered ==
    /\ app.queued = <<>> /\ app.steered # <<>> /\ steerQ # <<>>
    /\ steerQ' = Front(steerQ)
    /\ app' = [app EXCEPT !.steered = RemoveFirst(@, Last(steerQ))]
    /\ Recalled({Last(steerQ)})
    /\ UNCHANGED <<chan, worker, wire, ghosts, board, posted, compacts, clears, dropped>>

\* Were a steered message the turn has read no reason to keep it.
UndoableAfterSteer(a) ==
    /\ a.mode # "compact"
    /\ a.history # <<>> /\ IsUser(Last(a.history))
    /\ a.text = Nothing /\ ~a.draft /\ a.live = <<>>
    /\ a.queued = <<>> /\ a.steered = <<>>

\* interrupt_turn's question: has the turn left anything behind?
Undoable(a) ==
    /\ a.mode # "compact"
    /\ a.history # <<>> /\ IsUser(Last(a.history))
    /\ a.text = Nothing /\ ~a.draft /\ a.live = <<>>
    /\ a.queued = <<>> /\ a.steered = <<>> /\ ~a.steeredThisTurn

\* Nothing to keep: the submission goes back to the composer, over what is there.
Undo(a) == [a EXCEPT !.mode = "idle", !.history = Before(@, 0, IsUser), !.draft = FALSE]
Undone(a) == After(a.history, 0, IsUser)

\* Kept: the partial reply, the failed calls, the notice, the held cells and
\* the summary - the last two notices not for a shell, the summary not for a
\* compaction.
Keep(a) ==
    LET b == FailLive(FlushSegment(a))
        c == IF a.mode = "shell" THEN b ELSE Push(b, Error)
        d == SettleHeld(c)
    IN  [(IF a.mode = "reply" THEN Push(d, Summary) ELSE d)
            EXCEPT !.mode = "idle", !.draft = FALSE]

\* Esc, whatever the composer holds
Interrupt ==
    LET a == SettleReasoning(app) IN
    /\ ~Idle
    /\ AbandonInflight
    /\ IF Undoable(a)
       THEN /\ Restore({item[2] : item \in Range(Undone(a))})
            /\ DispatchAfterTurn(Undo(a), board)
       ELSE /\ DispatchAfterTurn(Keep(a), board)
            /\ NothingBack
    /\ UNCHANGED <<posted, compacts, clears>>

\* /compact, refused mid-turn and on an empty conversation.  A command is typed, so
\* no draft is in the composer.
StartCompactTurn ==
    /\ Idle /\ compacts < MaxCompacts /\ composer = {}
    /\ Context(app.history) # <<>>
    /\ compacts' = compacts + 1
    /\ Launch([app |-> BeginCompact(app), worker |-> CompactWorker(app.history)])
    /\ UNCHANGED <<unsent, composer, chan, ghosts, steerQ, board, posted, clears, dropped>>

NewApp == [history |-> <<>>, mode |-> "idle", text |-> Nothing, thought |-> FALSE,
           draft |-> FALSE, live |-> <<>>, floor |-> NoFloor, queued |-> <<>>,
           steered |-> <<>>, steeredThisTurn |-> FALSE, held |-> <<>>]

\* Every draft and notice an App holds.
Recorded(a, P(_)) == {a.history[i][2] : i \in {j \in DOMAIN a.history : P(a.history[j])}}
QueuedDrafts(a) == UNION {Range(a.queued[i].texts) : i \in DOMAIN a.queued}
IsDraft(item) == item[1] \in {"user", "shell"}
IsNote(item) == item[1] = "note"
HeldBy(a) == Recorded(a, IsDraft) \cup Recorded(a, IsNote) \cup QueuedDrafts(a)
             \cup Range(a.steered) \cup Range(a.held)

\* Were the waiting rows left by a /clear.
ClearLeavesQueue ==
    /\ clears < MaxClears /\ composer = {}
    /\ clears' = clears + 1
    /\ AbandonInflight
    /\ app' = [NewApp EXCEPT !.queued = app.queued]
    /\ worker' = NoWorker
    /\ wire' = <<>>
    /\ board' = <<>>
    /\ steerQ' = <<>>
    /\ dropped' = dropped \cup HeldBy(app)
    /\ UNCHANGED <<unsent, composer, posted, compacts>>

\* /clear: clear_conversation kills the turn and forgets everything but where
\* the last attempt began and whether the turn was steered.
ClearConversation ==
    /\ clears < MaxClears /\ composer = {}
    /\ clears' = clears + 1
    /\ AbandonInflight
    /\ app' = [NewApp EXCEPT !.floor = app.floor, !.steeredThisTurn = app.steeredThisTurn]
    /\ worker' = NoWorker
    /\ wire' = <<>>
    /\ board' = <<>>
    /\ steerQ' = <<>>
    /\ dropped' = dropped \cup HeldBy(app)
    /\ UNCHANGED <<unsent, composer, posted, compacts>>

-----------------------------------------------------------------------------
(* The loop's other inputs.                                                *)

\* on_bg_event / report_bg_completion: the note goes on the board, its cell is
\* held, and an idle session dispatches at once.
PostNotice(n) ==
    LET a == [app EXCEPT !.held = Append(@, n)] IN
    /\ n \notin posted
    /\ posted' = posted \cup {n}
    /\ IF Idle
       THEN DispatchAfterTurn(a, Append(board, n))
       ELSE /\ app' = a
            /\ board' = Append(board, n)
            /\ UNCHANGED <<worker, wire, steerQ>>
    /\ UNCHANGED <<unsent, composer, chan, ghosts, compacts, clears, dropped>>

\* on_reply_event: the next event of the live channel; one that ends the turn
\* dispatches what waits.
Terminal == {"StreamDone", "Error", "PromptBlocked"}
Ended(a0, e) ==
    LET a == TrackAttempt(a0, e) IN
    CASE e[1] = "StreamDone" -> OnStreamDone(a)
      [] e[1] = "Error"      -> FailStream(a)
      [] OTHER               -> BlockPrompt(a)
OnReplyEvent ==
    LET e == Head(chan) IN
    /\ chan # <<>>
    /\ chan' = Tail(chan)
    /\ IF e[1] \in Terminal
       THEN DispatchAfterTurn(Ended(app, e), board)
       ELSE /\ app' = OnStreamEvent(app, e)
            /\ UNCHANGED <<worker, wire, board, steerQ>>
    /\ IF e[1] = "PromptBlocked" /\ BlockedMsgs(app) # <<>>
       THEN Restore({item[2] : item \in Range(BlockedMsgs(app))})
       ELSE NothingBack
    /\ UNCHANGED <<ghosts, posted, compacts, clears>>

-----------------------------------------------------------------------------
(* The live backend thread: LlmBackend::spawn, then run_agent's loop.      *)

Send(events) == Len(chan) < MaxUnread /\ chan' = chan \o events
Event(kind) == <<kind, 0>>
WorkerOnly == UNCHANGED <<unsent, composer, app, ghosts, posted, compacts, clears, dropped>>
Local == WorkerOnly /\ UNCHANGED <<steerQ, board>>
Unsaid == Local /\ UNCHANGED wire

Errors == Cardinality({i \in DOMAIN app.history : app.history[i] = Error})

\* turn_start: the session and prompt hooks, which may add context or refuse
\* the prompt.  A turn the loop started itself has no prompt to refuse.
Open ==
    /\ worker.pc = "opening"
    /\ \E noted \in {<<>>, <<Hook>>}, blocked \in BOOLEAN :
          LET notes == [i \in DOMAIN noted |-> Event("HookNote")] IN
          /\ blocked => worker.batch # <<>> /\ "blocked" \in Paths /\ Errors < MaxErrors
          /\ noted # <<>> => "note" \in Paths
          /\ worker' = [worker EXCEPT !.pc = IF blocked THEN "gone" ELSE "board"]
          /\ wire' = wire \o noted
          /\ Send(IF blocked THEN Append(notes, Event("PromptBlocked")) ELSE notes)
    /\ Local

\* The loop's top.  Past the cancel check, pending_inputs takes the board's notes
\* and then the steered messages; each is announced and pushed, notes first.
TakeBoard ==
    /\ worker.pc = "board"
    /\ board' = <<>>
    /\ Send([i \in DOMAIN board |-> <<"NoticeDelivered", board[i]>>])
    /\ worker' = [worker EXCEPT !.pc = "steer"]
    /\ wire' = wire \o [i \in DOMAIN board |-> Note(board[i])]
    /\ WorkerOnly /\ UNCHANGED steerQ

NextAttempt(w) == [w EXCEPT !.att = @ + 1, !.pieces = 0, !.thinking = FALSE,
                           !.said = FALSE, !.drafting = FALSE]

TakeSteer ==
    /\ worker.pc = "steer"
    /\ steerQ' = <<>>
    /\ Send([i \in DOMAIN steerQ |-> <<"Steered", steerQ[i]>>])
    /\ worker' = [NextAttempt(worker) EXCEPT !.pc = "round", !.rounds = @ + 1]
    /\ wire' = wire \o [i \in DOMAIN steerQ |-> User(steerQ[i])]
    /\ WorkerOnly /\ UNCHANGED board

\* stream_round, one attempt's pieces: a thinking phase, text, and (once the
\* text is over) a call still being generated.
Streaming == worker.pc = "round" /\ ~worker.drafting /\ worker.pieces < MaxPieces
EndThinking == IF worker.thinking THEN <<Event("ThinkingEnd")>> ELSE <<>>
Think ==
    /\ Streaming /\ ~worker.thinking /\ "think" \in Paths
    /\ worker' = [worker EXCEPT !.pieces = @ + 1, !.thinking = TRUE]
    /\ Send(<<Event("ThinkingStart"), Event("ThinkingChunk")>>)
    /\ Unsaid
Speak ==
    /\ Streaming
    /\ worker' = [worker EXCEPT !.pieces = @ + 1, !.thinking = FALSE, !.said = TRUE]
    /\ Send(Append(EndThinking, <<"Chunk", worker.att>>))
    /\ Unsaid
DraftCall ==
    /\ Streaming /\ worker.kind = "reply" /\ "draft" \in Paths
    /\ worker' = [worker EXCEPT !.drafting = TRUE, !.thinking = FALSE]
    /\ Send(Append(EndThinking, Event("ToolCallDelta")))
    /\ Unsaid

\* run_attempts: the connection drops, and the request is sent again.
Retry ==
    /\ worker.pc = "round" /\ worker.lost < MaxRetries
    /\ worker' = [NextAttempt(worker) EXCEPT !.lost = @ + 1]
    /\ Send(<<Event("Retrying")>>)
    /\ Unsaid

\* RoundOutcome::Failed, run_stream's give-up for a /compact turn, and a round
\* of calls past the turn's call limit (whose stream ended well).
RoundFailed ==
    /\ worker.pc = "round" /\ "fail" \in Paths
    /\ worker' = [worker EXCEPT !.pc = "gone"]
    /\ \E ended \in {<<>>, EndThinking} : Send(Append(ended, Event("Error")))
    /\ Unsaid

\* The wire once an ended attempt's text is in it.
Heard == IF worker.said THEN Append(wire, Asst(worker.att)) ELSE wire
CanContinue == worker.rounds < MaxRounds
GoOn == [worker EXCEPT !.pc = "board", !.said = FALSE, !.thinking = FALSE, !.drafting = FALSE]

\* RoundOutcome::Complete: the Stop hooks may keep the turn going.
RoundComplete ==
    /\ worker.pc = "round" /\ worker.said /\ ~worker.drafting
    /\ \/ /\ worker' = [worker EXCEPT !.pc = "gone", !.said = FALSE] /\ wire' = Heard
          /\ Send(Append(EndThinking, Event("StreamDone")))
       \/ /\ worker.kind = "reply" /\ CanContinue /\ "stop" \in Paths
          /\ worker' = [GoOn EXCEPT !.unfinished = 0]
          /\ wire' = Append(Heard, Hook)
          /\ Send(Append(EndThinking, Event("HookNote")))
    /\ Local

\* continue_unfinished: an empty or cut-off reply asks the model to go on, up
\* to MAX_CONTINUATIONS times in a row.
RoundUnfinished ==
    /\ worker.pc = "round" /\ worker.kind = "reply" /\ ~worker.drafting
    /\ "unfinished" \in Paths
    /\ \/ /\ worker.unfinished >= MaxContinuations
          /\ worker' = [worker EXCEPT !.pc = "gone"] /\ UNCHANGED wire
          /\ Send(Append(EndThinking, Event("Error")))
       \/ /\ worker.unfinished < MaxContinuations /\ CanContinue
          /\ worker' = [GoOn EXCEPT !.unfinished = @ + 1]
          /\ wire' = Append(Heard, Hook)
          /\ Send(Append(EndThinking, Event("HookNote")))
    /\ Local

\* RoundOutcome::ToolCalls: the round's call (one stands for the batch) is
\* announced, then run, and its result put on the wire.  Calls are numbered
\* by the attempt that asked for them.  A round that used the limit up ends the
\* turn on an error.
ToolCalls ==
    /\ worker.pc = "round" /\ worker.kind = "reply" /\ CanContinue /\ "tools" \in Paths
    /\ worker' = [worker EXCEPT !.pc = "tools", !.said = FALSE, !.thinking = FALSE,
                                !.drafting = FALSE, !.unfinished = 0]
    /\ wire' = Heard
    /\ Send(EndThinking \o <<<<"ToolBatch", worker.att>>>>)
    /\ Local
ToolDone ==
    /\ worker.pc = "tools"
    /\ wire' = Append(wire, Tool(worker.att))
    /\ \/ /\ worker' = GoOn
          /\ Send(<<Event("ToolEnd")>>)
       \/ /\ "limit" \in Paths
          /\ worker' = [worker EXCEPT !.pc = "gone"]
          /\ Send(<<Event("ToolEnd"), Event("Error")>>)
    /\ Local

\* spawn_shell_command: the `!` command's own thread.
ShellDone ==
    /\ worker.pc = "running"
    /\ worker' = [worker EXCEPT !.pc = "gone"]
    /\ Send(<<Event("ToolEnd"), Event("StreamDone")>>)
    /\ Unsaid

-----------------------------------------------------------------------------
(* The abandoned threads.  What they announce goes to a dropped channel.   *)

GhostTakesBoard ==
    /\ ghosts["board"] > 0 /\ ghosts["steer"] < MaxGhosts
    /\ ghosts' = [ghosts EXCEPT !["board"] = @ - 1, !["steer"] = @ + 1]
    /\ board' = <<>>
    /\ UNCHANGED <<unsent, composer, app, chan, worker, wire, steerQ, posted, compacts, clears,
                   dropped>>
GhostTakesSteer ==
    /\ ghosts["steer"] > 0
    /\ ghosts' = [ghosts EXCEPT !["steer"] = @ - 1]
    /\ steerQ' = <<>>
    /\ UNCHANGED <<unsent, composer, app, chan, worker, wire, board, posted, compacts, clears,
                   dropped>>

-----------------------------------------------------------------------------

Init ==
    /\ unsent = Drafts
    /\ composer = {}
    /\ app = NewApp
    /\ chan = <<>>
    /\ worker = NoWorker
    /\ wire = <<>>
    /\ ghosts = [pc \in {"board", "steer"} |-> 0]
    /\ steerQ = <<>>
    /\ board = <<>>
    /\ posted = {}
    /\ compacts = 0
    /\ clears = 0
    /\ dropped = {}

UserStep ==
    \/ \E d \in Drafts : Type(d) \/ Submit(d) \/ Enter(d) \/ QueueFollowUp(d)
    \/ Erase
    \/ RecallLastQueued
    \/ RecallSteered
    \/ Interrupt
    \/ StartCompactTurn
    \/ ClearConversation
WorkerStep ==
    \/ Open \/ TakeBoard \/ TakeSteer
    \/ Think \/ Speak \/ DraftCall \/ Retry
    \/ RoundFailed \/ RoundComplete \/ RoundUnfinished
    \/ ToolCalls \/ ToolDone \/ ShellDone
GhostStep == GhostTakesBoard \/ GhostTakesSteer

Next ==
    \/ UserStep
    \/ \E n \in Notices : PostNotice(n)
    \/ OnReplyEvent
    \/ WorkerStep
    \/ GhostStep

Spec == Init /\ [][Next]_vars

\* The loop reads what it was sent and a backend thread gets on with its turn;
\* no fairness is asked of the user.
FairSpec == Spec /\ WF_vars(OnReplyEvent) /\ WF_vars(WorkerStep)

-----------------------------------------------------------------------------
(* Types.                                                                  *)

Modes == {"idle", "reply", "shell", "compact"}
Items ==
    ({"user"} \X Msgs) \cup ({"shell"} \X Shells) \cup ({"note"} \X Notices)
    \cup ({"asst"} \X (Nat \ {0})) \cup ({"tool"} \X (Nat \cup Shells))
    \cup {Hook, Reasoning, Error, Summary, Compaction}
Events ==
    ({"Steered"} \X Msgs) \cup ({"NoticeDelivered"} \X Notices)
    \cup ({"Chunk", "ToolBatch"} \X Nat)
    \cup ({"ThinkingStart", "ThinkingChunk", "ThinkingEnd", "ToolCallDelta", "HookNote",
            "ToolEnd", "Retrying", "StreamDone", "Error", "PromptBlocked"}
           \X {0})
Entries == [shell : {FALSE}, texts : Seq(Msgs) \ {<<>>}]
           \cup [shell : {TRUE}, texts : Seq(Shells) \ {<<>>}]
Apps ==
    [history : Seq(Items), mode : Modes, text : Nat, thought : BOOLEAN, draft : BOOLEAN,
     live : Seq(Nat \cup Shells), floor : Nat \cup {NoFloor}, queued : Seq(Entries),
     steered : Seq(Msgs), steeredThisTurn : BOOLEAN, held : Seq(Notices)]
Workers ==
    [kind : {"none", "reply", "shell", "compact"},
     pc : {"gone", "opening", "board", "steer", "round", "tools", "running"},
     base : Nat, batch : Seq(Msgs), att : Nat, rounds : Nat, lost : Nat,
     pieces : Nat, thinking : BOOLEAN, said : BOOLEAN, drafting : BOOLEAN, unfinished : Nat]

\* Every variable holds a value of its type: the queues hold drafts and notices
\* of the right kind, the channel only events the backend sends.  (RecordIsWire
\* says what `wire` holds.)
TypeOK ==
    /\ unsent \subseteq Drafts /\ composer \subseteq unsent
    /\ app \in Apps
    /\ chan \in Seq(Events)
    /\ worker \in Workers
    /\ ghosts \in [{"board", "steer"} -> 0 .. MaxGhosts]
    /\ steerQ \in Seq(Msgs)
    /\ board \in Seq(Notices)
    /\ posted \subseteq Notices
    /\ compacts \in Nat /\ clears \in Nat
    /\ dropped \subseteq Drafts \cup Notices

-----------------------------------------------------------------------------
(* Safety.                                                                 *)

Announced(kind) == {chan[i][2] : i \in {j \in DOMAIN chan : chan[j][1] = kind}}
At(s, x) == {i \in DOMAIN s : s[i] = x}
QueuePlaces(q, d) == UNION {{<<"queued", i, k>> : k \in At(q[i].texts, d)} : i \in DOMAIN q}

\* Where a draft is, each time it is there, and where a notice is.
Places(d) ==
    ({"record"} \X (At(app.history, User(d)) \cup At(app.history, Shell(d))))
    \cup QueuePlaces(app.queued, d)
    \cup ({"steered"} \X At(app.steered, d))
    \cup {<<"with the user", 0>> : x \in unsent \cap {d}}
    \cup {<<"lost", 0>> : x \in dropped \cap {d}}
NoticePlaces(n) ==
    ({"record"} \X At(app.history, Note(n))) \cup ({"held"} \X At(app.held, n))
    \cup {<<"lost", 0>> : x \in dropped \cap {n}}

\* Every draft the user typed is in exactly one place - with the user, queued,
\* handed to the turn, on the record, or lost to a /clear or to a submission that
\* came back over it in the composer - whatever the order of Enter, Tab, Alt+Up,
\* Esc, the backend's read of the shared queue and its announcement.  What a
\* submission that comes back may overwrite, UndoTakesTheSubmission says.
EveryDraftInOnePlace == \A d \in Drafts : \E p \in Places(d) : Places(d) = {p}

\* A notice is recorded once: posted, it is held, on the record or lost to a /clear, never
\* two of them, never twice, however the board's reader and the turn's end
\* interleave.
EveryNoticeOnce ==
    \A n \in Notices : IF n \in posted THEN \E p \in NoticePlaces(n) : NoticePlaces(n) = {p}
                       ELSE NoticePlaces(n) = {}

\* The App holds a copy of whatever the backend may still read or has announced:
\* the steer queue and the Steered events in flight name waiting rows, the board
\* and the NoticeDelivered events in flight name held cells.  A shell or compact
\* turn is never steered.
SharedQueuesMirrored ==
    /\ Range(steerQ) \cup Announced("Steered") \subseteq Range(app.steered)
    /\ Range(board) \cup Announced("NoticeDelivered") \subseteq Range(app.held)
    /\ app.mode # "reply" => app.steered = <<>>

\* At rest nothing waits: no queued turn, no unread steer, no held cell and no
\* note the model is owed a turn for, whichever path ended the turn - each one
\* dispatches - and no thread is left that could still speak.
NothingWaitsAtRest ==
    Idle => /\ app.queued = <<>> /\ app.steered = <<>> /\ app.held = <<>>
            /\ board = <<>> /\ steerQ = <<>> /\ chan = <<>>
            /\ worker = NoWorker

\* At rest nothing is half done: no text that is not on the record, no call left
\* running on screen, no open thinking phase.
NothingLiveAtRest ==
    Idle => app.text = Nothing /\ app.live = <<>> /\ ~app.thought /\ ~app.draft

\* A busy session has a thread of its own kind behind it, and that thread is
\* still at work or has the turn's end - sent once, and last - in the channel:
\* no order of events leaves the session busy with nobody to end the turn.
NoTurnIsStranded ==
    /\ ~Idle => /\ worker.kind = app.mode
                /\ worker.pc = "gone" => chan # <<>> /\ Last(chan)[1] \in Terminal
    /\ \A i \in DOMAIN chan :
          chan[i][1] \in Terminal => i = Len(chan) /\ worker.pc = "gone"

\* Adjacent pieces of one attempt's text read as one message.
Merged(s) == SelectSeq([i \in DOMAIN s |-> IF i > 1 /\ s[i] = s[i - 1] /\ s[i][1] = "asst"
                                           THEN Reasoning ELSE s[i]],
                       LAMBDA item : item # Reasoning)

\* The record agrees with the wire: the conversation the App's history derives,
\* once the events in flight are folded in, is message for message what the
\* backend thread has put to the model - steered messages, notices, hook notes,
\* tool results and retried attempts each where the model met them
\* (background.md, "Where a notice lands").
Folded == FoldLeft(OnStreamEvent, app, SelectSeq(chan, LAMBDA e : e[1] \notin Terminal))
RecordIsWire ==
    worker.kind = "reply" =>
        Merged(Context(FlushSegment(Folded).history)) = Merged(Heard)

\* The record is the wire while a turn runs, and whole when none does, however often
\* the attempt was lost and started over.
RecordIsWhole == RecordIsWire /\ NothingLiveAtRest

\* Each notice is recorded once, at the place where the model met it.
NoticesAsHeard == EveryNoticeOnce /\ RecordIsWire

-----------------------------------------------------------------------------
(* What a step may never do.                                               *)

Standing == IF Idle THEN Len(app.history) ELSE worker.base

\* Only a /clear touches what was on the record before the running turn: an undo,
\* a blocked prompt or a retried attempt takes back nothing older.
EarlierTurnsStand ==
    [][clears' = clears => IsPrefix(SubSeq(app.history, 1, Standing), app'.history)]_vars

\* A message taken back off the record is the submission of the turn that ends
\* there, whole: it is the composer's text from then on, nothing the turn itself put
\* on the record but hook notes goes with it, and the only draft lost is the one
\* that text replaced.  No other step but a /clear loses a draft or a notice.
UndoTakesTheSubmission ==
    [][LET back == Recorded(app, IsDraft) \ Recorded(app', IsDraft)
           lost == dropped' \ dropped
       IN  clears' = clears =>
            IF back = {} THEN lost = {}
            ELSE /\ back = Range(worker.batch)
                 /\ composer' = back /\ lost = composer
                 /\ \A i \in worker.base + 1 .. Len(app.history) :
                       IsUser(app.history[i]) \/ IsHook(app.history[i])]_vars

-----------------------------------------------------------------------------
(* Liveness.                                                               *)

Waiting(d) == d \in QueuedDrafts(app) \cup Range(app.steered)

\* A draft the user queued or steered does not wait forever: it is recorded, or
\* the user took it back or wiped it.
QueuedIsDispatched == \A d \in Drafts : Waiting(d) ~> ~Waiting(d)

\* A held notice is recorded in the end, read mid-turn or not.
NoticeLands == \A n \in Notices : n \in Range(app.held) ~> n \notin Range(app.held)

\* Nothing that waits for a turn or in one waits for ever.
WaitingIsServed == QueuedIsDispatched /\ NoticeLands
=============================================================================
