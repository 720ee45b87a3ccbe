# Alter Zero in TLA+

Alter Zero is a terminal coding agent: one Rust process in which an event loop
owns the whole application state, threads talk to language models and run
tools, and a few registries are shared between them under locks. This directory
holds TLA+ models of that machinery, the TLC configurations that check them on
small instances, and TLAPS proofs of what holds on every instance. Paths are
relative to the repository; `src/src/...` is the crate's source, `src/docs/...`
its design notes.

## 1. The system

### 1.1 Parts, state and operations

| Part | Code | State | Operations |
| --- | --- | --- | --- |
| Session loop | `src/src/tui/` (`turn.rs`, `stream.rs`, `actions.rs`, `event_loop.rs`) | the in-flight turn's channel `reply_rx` and cancel token; clocks; the App | start, steer, queue, interrupt, undo, clear a turn; fold each stream event; dispatch what waits when a turn ends |
| App turn state | `src/src/app/` (`mod.rs`, `turn.rs`, `queue.rs`), `src/src/context.rs` | `history`, streamed text, open thought, live calls, attempt mark, `queued`, `steered`, held notices | record, flush, withdraw an attempt, block or undo a prompt, derive the model's context |
| Steer queue | `src/src/steer.rs` | messages handed to the running turn | push (loop), take (backend), take_last (loop) |
| Backend turn | `src/src/llm/agent.rs`, `backend.rs`, `retry.rs` | the conversation put to the model, rounds, retries, continuations | rounds: read notes, read steers, request, tools, hooks, end |
| Background registry | `src/src/background.rs` | sessions of shell commands, the board of pending notes, unread exits, the Ctrl+B latch | launch, settle, post, take, retract, claim |
| Agents registry | `src/src/agents.rs` | per agent: run number, outcome, waiters, a held terminal event, notices owed, pending inputs | register, wait, settle, kill, stop, resume, continue, report |
| Companion tools | `src/src/llm/agent_tools.rs` | - | `agentoutput`, `agentsend`, `agentkill` on the lead's thread |
| Roster | `src/src/tui/agent.rs`, `src/src/app/agent.rs` | a row per agent, groups, held agent notices | fold an agent's events, stop, chat |
| Permission and ask gates | `src/src/permission.rs`, `src/src/ask.rs` | rules of the session, the requests open | a tool thread waits, the user answers, Esc withdraws |
| Recorder, resume, backtrack | `src/src/tui/recorder.rs`, `src/src/session.rs`, `src/src/app/backtrack.rs` | the session file, what of the history it holds | append, rewrite, load, cut |
| Checkpoints | `src/src/checkpoint.rs` | snapshots of the work tree by history length | take, find, forget |
| MCP connections | `src/src/llm/mcp/manager.rs`, `src/src/tui/mcp.rs` | per server its status, connection, generation, tools and the flags of a listing; the session's switch; the sign-in running | connect, reconnect, switch off and on, review, restart, list tools again, call, sign in |
| Refresh tokens | `src/src/llm/chatgpt.rs`, `claude.rs`, `cline.rs`, `copilot.rs`, `antigravity.rs`, `keystore.rs`, `src/src/tui/login.rs` | per provider a cache of bearers, a gate, what each retired token became, the tokens a sign-in dropped; the `.env` store and the loop's copy of it | authorize (look up, exchange, persist, note, settle), forget, save |
| Tools, PTY, hooks, classifier, providers, settings, rendering, composer | the rest of `src/src/` | files, processes, parsers, painting | - |

`PROJECT.json` lists every part with its status; a part "partly" modelled says
what is left out.

### 1.2 How they interact

* The loop is one thread. It selects over the terminal, `reply_rx` (the running
  turn's stream), the agents' channel, the background sessions' channel, timers
  and workers' results. It never joins a thread: ending a turn early cancels its
  token and drops its receiver.
* A backend thread sends `StreamEvent`s and drains, at each round's top, two
  queues it shares with the loop: the board (notes of background work) and the
  steer queue (messages the user typed while it ran). What it drains it
  announces (`NoticeDelivered`, `Steered`), and the loop records it when it reads
  the announcement; the App keeps its own copy (`held`, `steered`) until then.
* An abandoned thread may still be past its cancel check and drain a queue that
  now belongs to the next turn.
* An MCP server's connect, its listings, the calls of every turn and agent and the
  sign-ins run on threads of their own; each takes the manager's lock for a moment,
  asks whether the generation is still the one it began with, and sends an event the
  loop answers with a fresh snapshot.
* Every request of a subscription asks for a bearer on its own thread. Those that
  find none cached go through a gate one at a time, and the refresh may hand back a
  new refresh token, which the thread writes to the store. A sign-in's handler, on
  the loop, takes the same locks one by one and never the gate.
* A background agent's thread settles its run in the agents registry, under a
  lock; the registry sends the run's end to the loop, or holds it for a call that
  waits on the agent. The loop posts notes for the lead on the board.

### 1.3 What is hard, and what makes each part right

* Session loop and queues: interleavings of keys, events in flight, a thread that
  reads the shared queues, and abandoned threads. Right when every draft is in
  exactly one place; when a busy session always has a thread that will end its
  turn; when an idle session has nothing waiting; when queued work is dispatched.
* Record against wire: retries void what they streamed, notices and steers land
  mid-reply, `/compact` and `/clear` cut. Right when the history derives exactly
  the conversation the backend put to the model, and nothing rewrites an earlier
  turn.
* Agents: one answer may reach the lead through a waiting call, a look at the
  agent, a note, or not at all; runs follow each other while events of the last
  are unread. Right when each run's end is told once, when no message to an agent
  is stranded, and when rows and held cells agree with the registry.
* Background sessions: the monitor, two readers' calls, the loop and a claim hand
  one exit about under two locks, and a prompt's note races the look that answers
  it. Right when an exit is told once and never lost, and no prompt is told after
  it was seen.
* Gates: a thread blocks on an answer while prompts are answered, swept by a rule,
  withdrawn, dropped, timed out or queued behind each other. Right when every
  waiting thread has an answer coming, nothing runs that nobody granted, and the
  user's draft comes back.
* Rounds of calls: agents, task calls, ordinary calls and refused ones resolve in
  orders of their own, and a later request is derived from what was recorded.
  Right when each call is recorded once and the derived request is the one the
  model saw.
* Recorder and checkpoints: the file follows a history that grows, is cut and is
  rewritten, through crashes and torn lines. Right when the file gives back a
  conversation the user saw, and a rewind restores the tree that went with it.
* MCP connections: a connect, a listing, a call or a sign-in may end after its
  server was reconnected, switched off or signed into anew. Right when the tools
  kept, shown and offered are the live connection's; when nothing connects that is
  switched off and nothing stays "connecting" for ever; when a sign-in's page stays
  its own; and when a change the server tells of is listed.
* Refresh tokens: presenting a retired one is final. Right when threads whose
  configs hold different tokens of one chain all present the live one, when the
  store holds what the next launch can use, through a kill or a sign-in at any
  step, and when a bearer older than a sign-in does not outlive it.

## 2. The modules

| Module | What it is |
| --- | --- |
| `TurnLoop` | the session loop, the App's turn state, the shared queues and one backend turn |
| `TurnLoopProofs` | TLAPS: type correctness, no turn is stranded, rest is quiet; every draft and every notice is in one place, the shared queues mirror the App's rows; a turn takes back its own submission and nothing older, and leaves nothing half done |
| `ToolRounds` | a round of tool calls: the backend that runs it, the cells it becomes, the request derived from them |
| `AgentNotices` | one background agent, the lead's companion calls, and what the lead is told |
| `AgentNoticesProofs` | TLAPS: notes are news, nothing said is lost, what is shown is so, a stop is final |
| `ShellNotices` | one background session, the calls of two readers, and what each is told |
| `ShellNoticesProofs` | TLAPS: an exit reaches its reader once and is never lost, a prompt's note is news |
| `PermissionGate` | the permission and ask gates, the modal and its queues, the idle clock |
| `PermissionGateProofs` | TLAPS: requests keep their place, nothing is granted without consent, modals give back, questions time out when away |
| `SessionRecord` | the recorder, the session file, resume, rewind, checkpoints and crashes |
| `Journal` | what the recorder promises; `SessionRecord` implements it |
| `SessionRecordProofs` | TLAPS: the file follows the session, rewinds take their work, and the refinement of `Journal` |
| `McpConnections` | one MCP server: its connects, listings, calls, restarts and sign-ins, the switches over it, and what the menu and the model see |
| `McpConnectionsProofs` | TLAPS: tools follow the server, connects obey the switches, pages keep their flow, late calls leave newer connections, a restart that was overtaken excepted |
| `TokenRefresh` | the refresh token of one subscription: requests, rotations, the store, and the sign-in that replaces it |
| `TokenRefreshProofs` | TLAPS: the chain of tokens is held, bearers are current, the newest token stands |
| `Queues` | `filter` and `retain`, shared by the modules that keep queues |
| `QueuesProofs` | TLAPS: what they return, and induction over queues |
| `MC...` | the instances TLC checks (symmetry of drafts, of models) |

Each module is one part of the system with what touches it. They meet in shared
ideas rather than shared variables: the board of `TurnLoop` is the one
`AgentNotices` and `ShellNotices` post on; the round that `TurnLoop` takes as one
call is `ToolRounds`; the call that waits for consent inside a round is an asker
of `PermissionGate`; the history whose growth and cuts `SessionRecord` records is
`TurnLoop`'s; a call of `McpConnections` is one that a round of `ToolRounds` runs. A request of
`TokenRefresh` is one a backend of `TurnLoop` or `AgentNotices` makes.

### 2.1 TurnLoop

`app` is one record, changed by operators named for the App's methods
(`FlushSegment`, `WithdrawAttempt`, `DeliverSteered`, `BlockPrompt`, ...);
`OnStreamEvent` is the fold of one event. `worker` is the thread whose channel
the loop still reads, `chan` that channel, `wire` what the thread has put to the
model. `steerQ` and `board` are the shared queues, `ghosts` the abandoned threads
about to drain one of them. `unsent` holds the drafts that are with the user, and
`composer` those of them its one text is made of: one as typed, or several that came
back joined.

The user's actions are those of the keys: type and erase, submit or steer (Enter),
queue (Tab), recall (Alt+Up, into an empty composer), interrupt or undo (Esc), `!`
commands, `/compact`, `/clear`. What an undo or a refused prompt gives back replaces
the composer's text (`Restore`); the text it replaced is in `dropped`.
The loop's one reading action is `OnReplyEvent`. The backend's actions are the
steps of `run_agent`: `Open`, `TakeBoard`, `TakeSteer`, the pieces of an attempt
(`Think`, `Speak`, `DraftCall`), `Retry`, and the outcomes of a round
(`RoundFailed`, `RoundComplete`, `RoundUnfinished`, `ToolCalls`, `ToolDone`).

Abstractions. A message, command or notice is an identity, typed or posted once.
Assistant text carries the number of the attempt that streamed it. One call
stands for the batch of a round. `base` and `batch` of the worker are history
variables: where its turn began on the record, and what it was submitted with.
Of several texts that came back as one, the user sends one and keeps the others.
Left out: the history that ↑ recalls from, the offline banner, agent groups and the order of calls in a round
(`ToolRounds`), images, permission and ask prompts,
hook configuration (a hook adds a note, refuses the prompt or makes the turn go
on), the token budget of a compaction, the floor a resumed session puts under
undo (0 here), task lists, the checkpoint taken when a turn is dispatched, and
painting.

### 2.2 AgentNotices

`slot` is the agent's `AgentSlot`; each method of `AgentRegistry` holds one lock
and is one step. `thread` is the current run's thread from its first round to
its settle; `windows` the threads past their settle, in the window where a late
message continues the agent. `events` is the agents' channel, `roster` the row,
`loop` where the session loop is inside a handler that is not atomic
(`stop_agent` between `kill` and its note, `agent_chat` between queueing,
continuing and draining). `board`, `retracted` and `cells` are the notes, the
retracted numbers and the held cells. `lead` holds the threads of the lead's
turns: an interrupted turn's thread goes on inside its call. `told`, `waived`, `mute`
and `stale` are history variables for the properties: the runs whose end the
lead knows, the runs an `x` stopped or overtook, the runs begun past a settle window's
look that no message announces to the row (it is still shown stopped, or another run
has read the messages), and the kinds of note that were
read though the lead knew what they said.

`told` counts an end as handed over when a call's report takes it, also if the
turn was interrupted during that very step. A cell is recorded as its note is
read (the order of `NoticeDelivered` is `TurnLoop`'s subject), and so is an
abandoned thread's drain of the board. Left out: foreground groups, several
agents, retention and eviction, `/clear`, quit, the row sweep.

`Late` names two delays the code leaves to timing. With `Late = {}`, as in the
passing run: the interrupted call of an old turn leaves its wait (a 50 ms poll)
before a model's next answer asks for a call ("wait"), and the run a chat starts does
not end in the few instructions before the chat drains the channel ("drain"). The
settle window's look and its continuation are two steps, whatever comes between.

### 2.3 ToolRounds

The backend half is `run_agent` on one round: `ToolCalls` announces the round
under its ids and spends the budget, `Launch` starts the agents (those a hook
refuses, those in the background, those waited for), `Answered` ends the wait for
them, `RunCall` runs or refuses one ordinary or task call, `EndRound` answers the
calls the limit refused and puts every answer to the model. `wire` is what the
model was told. The session half is `OnStreamEvent`, which opens the round,
stamps cells with id, position and batch (`StartToolBatch`, `RecordTaskCall`,
`StartAgentGroup`), resolves them, and ends the turn; `Interrupt` and the error
settle what is live. `Replay` is the derivation: ids claimed or minted (`Claim`),
records of a batch joined (`Joined`), put in the model's order (`InOrder`). A
turn starts from `Replay` of the history.

`Hooked` says whether a hook may refuse an agent's launch. Such a call is told
before its round is announced and its record has no id, place or batch, so the
request derived from it is not the one the model saw (section 5):
`RoundsReplay` leaves out a history with one (`LaunchesRefused`), while
`RequestsPair` and `CallsAccounted` hold of it too.

A call is its round and its place. An error is sent as a note of the user's, merged
with a neighbour of that role. Text, arguments and their rewriting by hooks,
images, and notices that land inside a round are left out; the thread of an
interrupted turn is forgotten once the next one starts, since nothing it then
does is heard. `shown` and `ran` are history variables.

### 2.4 ShellNotices

One session. `io` is the state its calls share under one lock (`SessionIo`),
`task` its entry on the registry and `unread` its unread exit, under another;
`board`, `retracted` and `posted` the notes; `agentq` the queue of the agent that
may own it; `events`, `row`, `held` and `cells` the loop's side. Every step is
what happens under one hold of a lock: a call's `pc` names the lock it takes
next. So the monitor's finish and its registration are two steps, as are
`end_wait` and `finalize`, and a call's lookup and the beginning of its wait.
`reports`, `notes`, `seen`, `late`, `watched` and `dropped` are history variables.

Left out: other sessions, more than one call of a reader at a time, `/clear`, the
output and its file, the session cap, the Ctrl+B latch, an agent started again,
and `forget_exit`. A kill is the process ending, which it may at any time; a stop's
wait may run out before the exit comes (`GivesUp`); a dispatch's two locks are one
step.

### 2.5 PermissionGate

An asker is a thread, one per turn of the lead and one per background agent;
`Consult`, `Reviewed`, `Raise`, `AskUser`, `Wake` and `Resolve` are the approve
seam and the two gates' waits. `modal` is what is on screen, the two queues behind
it, the composer and the draft the modal displaced. The loop takes one arm of its
select and then its tail (`AfterIteration`: release what was dropped, mark what is
shown). `clock` is the ask timer. A rule is one scope; the parsing of commands
into rules, the permissions file and the scratchpad are left out, and a
question's tabs and options are one field typed into. `consent` and `idle` are
history variables: who granted a request, and how long the user has been away.

### 2.6 SessionRecord and Journal

`app` is the record with its undo floor and whether it was changed other than by
growing; `recorder` the `SessionRecorder`; `files` the session files as sequences
of lines. `AfterIteration` syncs: append, rewrite or create. `Backtrack`,
`Withdraw`, `BlockPrompt` and `Interrupt` cut the history; `EndTurn` takes a
checkpoint; `Crash` loses any tail of the last write and may tear its last line.
`Resume` reads a file back.

`Journal` is the promise: the saved copy of a conversation is the conversation as
it was, up to some point; nothing taken back comes back by being saved late; open
gives the copy back. `SessionRecord` maps `talk` to the history, `saved` to what
each file would load, and `open` to the active file, and TLC checks
`KeepsTheJournal`, that is `J!Spec`. A crash tears the last line three ways
(`Tears`): whole but for its newline, unparsable, or cut inside a character; the
last makes the file unreadable, and `Journal` lets the copy go with it. The
recorder's `safe` is the part of its file sure to be on disk, which no code keeps:
what stood in the file before the last write.

Assumed: earlier writes are durable when a later one is torn; no write or
snapshot fails; nobody else edits the tree or the file; one message starts a turn.

### 2.7 McpConnections

One server, `entry` its kind and who declared it. `server` is its `ServerState`
and `inner` what the manager keeps beside it; a connection is named by the
generation of the connect that opened it. `connects` and `listings` are the
workers under way, `calls` and `flows` the threads of calls and of sign-ins,
`loop` where the session loop is inside a handler of two locks (`set_disabled` and
`set_active` before their connects), `events` the MCP channel, `ui` the open menu,
the page of a sign-in and the tools last offered to the model. Each step is one
hold of the manager's lock and the event sent after it: `ConnectLands`,
`ListingEnds`, `CallRelists`, `CallRefused`, `RestartDead`, `FlowEnds` are the ends
of threads, each with its question about the generation; `SpawnConnect` is what
the user, a restart and a sign-in all end with. `ReadEvent` takes the snapshot.
`owed` is a history variable: the connection in use told of a change no listing
has answered; so is a call's `left`, the generation its restart left the server at,
from which `Overtaken` tells a restart that somebody came before.

Two adjacent events that only say "changed" are read as one. A catalog is a
model value. Left out: a second server, shutdown, servers a policy blocks, stored
tokens and the steps of OAuth (a connect or a call ends in its outcome), the lock
a transport's requests share, the code pasted by hand, and the files the switches
are saved in.

### 2.8 TokenRefresh

A token is its sign-in (`grant`) and its place in the chain of rotations, so that
the server is one number per grant (`live`). A thread's `pc` is where it is in
`authorize_with`: waiting at the gate, its exchange out, before the write, before
`note_rotation`, before the cache's lock. `loop` is the same of
`finish_device_login`: before the names are recorded, the cache cleared, the token
saved. `store` is the `.env` file and `known` the loop's copy, which new configs
are built from. `Providers` says what differs: ChatGPT, Claude and Cline rotate and
keep the forgotten names; Copilot never rotates; Antigravity keeps no names.
`lost` and `unsaved` are the faults: an answer that never came, a kill before the
write, a write that failed. `born` and `epoch` are history: which sign-ins a
bearer came after.

A cached bearer that is past its time is dropped at once, which no lookup can tell
from leaving it. Resolving an alias and looking it up are one step, and so are the
second look and the exchange it leads to: nobody else rotates while the gate is
held, and a sign-in names a token whose aliases nobody holds. A sign-in gives a
new token where tokens rotate, and may give the same one where they do not. Left
out: the exchange with which Copilot's sign-in checks itself, a token in the
environment, a second provider in the same file, two programs on one file.

## 3. The runs

Only `tokens` checks for deadlock: elsewhere a session at rest may stay there for
ever.

| Run | Instance | Shows |
| --- | --- | --- |
| `turn_messages` | 2 messages, 2 commands, tools, refused prompts, unfinished replies, an error, a `/clear`, a ghost | each draft in one place (one that a submission given back replaced counts as lost), the shared queues mirrored, no turn stranded, nothing waiting at rest, an undo takes the submission only, and replaces no more than the composer's text |
| `turn_retry` | 2 messages, 2 rounds, every path through them but the Stop hooks', a lost attempt | the record is the wire, nothing half done at rest, earlier turns stand |
| `turn_notices` | 1 message, 2 notices, 2 rounds, a `/compact`, a turn the Stop hooks keep going, a ghost; with fairness | each notice recorded once, where the model met it; drafts are dispatched and notices land |
| `rounds` | 3 calls in rounds of up to 3, 2 turns, with and without provider ids, no limit and a limit of 2, hooks that refuse a launch | the derived request is what the model saw; requests pair calls with results; each call is run or refused for the limit, and kept once |
| `agent_notices` | 2 runs, 2 turns, 2 messages, all calls, Esc and `x` | notes are news and no answer is lost, messages are read, a stop is final but for a continuation decided before it, cells and row agree with the registry |
| `shells` | the lead's or an agent's session, 2 companion calls, 2 outputs, an interrupt | an exit is told once, but to a call that began to wait too late or gave up, and never lost; a prompt is told only while news |
| `gate` | a turn and an agent, 2 requests, every answer, Esc, stop, clear, load; with fairness | a waiting thread is answered, in one place, by consent; waits end; the modal gives back what it took |
| `record` | 4 items, 2 files, a crash with each way to tear a line, a change of model | the recorder implements `Journal`; file and checkpoints fit the history; a rewind restores the right tree |
| `mcp` | a user's server over HTTP and a project's over stdio, 2 operations of the user, 2 sign-ins, a call, 2 catalogs | what is kept, shown and offered is the live connection's; what is off stays off; a page has its sign-in; changes are listed; a late 401 or death disturbs no newer connection |
| `tokens` | 2 threads, 2 sign-ins, 2 rotations of each grant, the three kinds of provider; faults and restarts at any time | no retired token is presented or stored but by a fault; no exchange goes out while a bearer of its grant is cached; nothing older survives a sign-in, in the cache or in the store |
| `gate_forced`, `mcp_listed` | the smallest that show it | counterexamples (section 5) |

Bounds. Every bound is a constant named in its module.

* `TurnLoop`: two messages and two commands are what it takes for one draft to
  run, one to be steered and one to be queued at once; two rounds for something
  to arrive between a tool's result and the next request, and for a lost attempt to
  follow a round that stands; two pieces for an attempt to put text or a thought on
  the record and then be lost (`turn_retry`); one ghost for a drain that races a
  successor. `MaxUnread` bounds the channel by making the thread wait: with two or
  three unread events a thread can send an announcement and the turn's end before
  the loop looks. `turn_retry` makes do with one, its invariant being of the record
  with the unread events folded in, and with no ghost. `MaxContinuations` is the
  code's own limit of unfinished replies, set small.
* `ToolRounds`: three calls are one round with all three kinds, or a round after a
  round; a limit of two is spent inside such a round and between two; the second
  turn is the one that derives.
* `AgentNotices`: a second run is what makes a note or a held event stale; two
  turns make one interrupted in a call and one that follows it.
* `ShellNotices`: two companion calls let the lead and the agent meet in every
  pair of steps; the second output is the one a look has not shown.
* `PermissionGate`: two requests are one on screen and one queued; a wait of one
  unit already tells a whole wait from part of one. `Left` keeps Shift+Tab to one
  mode, since the others differ only in what `Allows` answers.
* `SessionRecord`: a checkpoint is stale when the history was cut below it and has
  grown past it again, which takes four items; two files make a session resumed
  and one that is not. The change of model comes by the first item.
* `McpConnections`: two operations are one that starts something and one that
  overtakes it (a sign-in and the one that supersedes it, a reconnect and a switch
  off, a disable and an enable); startup's own connect, the restarts and the
  sign-ins' connects come besides. Two catalogs tell an old listing from a new one.
  The two servers have between them every kind of ending a call has, both ways a
  server is switched off, and the review. An "sse" server adds no step these two
  do not have.
* `TokenRefresh`: two rotations are one more than an alias that was not repointed
  survives; two sign-ins make one whose refreshes are out when the next lands. Two
  threads are one behind the gate and one holding it.

Fairness. `TurnLoop`: `WF(OnReplyEvent)`, since the loop selects over `reply_rx`
on every turn of its loop, and `WF(WorkerStep)`, since a backend thread is an OS
thread whose blocking calls have timeouts; nothing of abandoned threads. The
bounds on rounds and retries make a turn finite, as the call limit and the retry
budget do in the code. `PermissionGate`: weak fairness of each thread's `Wake` and
`Resolve`, of `AfterIteration` and of time; strong fairness of the arms that read
the turn's stream and the clock, since the loop's `select!` polls its branches in a
random order and each may be overtaken by keys for a while; nothing of the agents'
channel, which these waits do not need. Nothing is asked of the user anywhere.

Each property of a passing run has a mutant: a definition changed as a plausible
bug would change it (named next to the definition it replaces), for which TLC
finds the property violated.

## 4. What is proved

`TurnLoopProofs` proves `TypeCorrect`: `Spec => []TypeOK`, for any finite or
infinite sets of messages, commands and notices and any bounds. It assumes what
`TurnLoop` assumes: bounds are naturals, a draft is a message or a command and
not both. The argument is one lemma per operator on the App (what it keeps of
`Apps`), one for the fold of an event, and one case per action. The longest-tail
lemmas say that the `CHOOSE` of `TailStart` picks a position, from the least
natural of a set.

It also proves `NeverStranded` (`[]NoTurnIsStranded`) and `RestIsQuiet`
(`[]NothingWaitsAtRest`). Neither is inductive alone. To end a turn, the loop
must know that the channel ends with the event it reads, so that nothing of that
turn is left behind: that is `NoTurnIsStranded`. To start one, it must know that
no old thread or event is there: that is `NothingWaitsAtRest` at the idle state
the start leaves. The invariant proved is their conjunction with `TypeOK`,
`TurnEnds`. The frame lemmas say which events leave the mode alone (all but the
terminal ones); `DispatchEnds` covers every path that ends a turn, which is where
the queues are emptied or the next turn is launched; the backend's actions are
proved by what they send: quiet events while at work, one terminal event last.

Its second part proves `NoDraftLost` (`[]EveryDraftInOnePlace`), `CopiesAgree`
(`[]SharedQueuesMirrored`) and `NoNoticeTwice` (`[]EveryNoticeOnce`). They assume that
messages, commands and notices are different things (`DraftAssumption`). None is
inductive, for two reasons. An announcement that has been sent and not read moves a
draft when it is read, so the places must be known to agree with the channel; and a
queue that loses one of two equal rows loses nothing, so that no row is doubled must be
known before one is taken. The invariant, `NothingLost`, adds to `TurnEnds` that what
the App keeps, what is with the user and what was lost are apart and together all
there is (`AllThere`), that history, queue, steered rows and held cells share nothing
and repeat nothing (`NoneTwice`), and that what the shared queues and the channel name
is still held, each once among them (`Mirrored`). It is a statement on what sequences
carry, for a function that says what an element carries (`Carried`, `Apart`), so one set
of lemmas on joining, cutting and taking out serves items, queue entries, events and
rows. The App's methods then fall in two kinds: those that move nothing (`SameStock`) and
those that move a draft from one place to another, each with a lemma of its own. The
turns' ends come from `TurnEnds`: an idle session has nothing unread, so what `Submit`
starts meets no late announcement.

Its third part proves the two action properties, `EarlierTurnsKept`
(`EarlierTurnsStand`) and `SubmissionsComeBackWhole` (`UndoTakesTheSubmission`). Three
steps cut the record: an undo, a blocked prompt and a retried attempt. Each cuts a
suffix of items of one kind, by looking at the record alone, so what it may reach is
known only from what lies past the turn's base. That is `TurnStands`: an idle record
ends on a line, which is no message, hook note or item of an attempt, so a turn begins
behind one (`Grounded`); a reply's submission heads its turn and is all the user said in
it until a steered message is read (`Submitted`); a command's turn records nothing that
could be taken back (`CommandOnly`); until its hooks have let it go on, a turn shows
only their notes (`NotesAlone`). The mark of an attempt (`attempt_floor`) outlives a
`/clear` and may then lie before a later turn's base: it is that line, not the mark,
that protects the turns before. `Reworks` says how a step may change a record past its
first items, keeping every draft in its place; every step either does no more than that
(`AddsOn`) or first hands the submission back (`HandsBack`, `Proceeds`), the loop's
dispatch after an undo included.

Its fourth part proves `RestIsSettled` (`[]NothingLiveAtRest`, the second half of
`RecordIsWhole`). An interrupt or a failure ends a phase or a call the backend never
closed, and an event that would open one may still be unread, so what is open is read
off the App and the channel together: it is open in the App, or an unread event opens
it, and no later event closes it (`StillOpen`). The invariant, `InHand`, says that only
a thread that is itself in the phase or at the call leaves one open, or an error behind
it that closes all when it is read; a turn's `StreamDone` is sent by neither.

`ShellNoticesProofs` proves `ShellTypes`, `ExitsReachOnce` (`[]ExitReachesOnce`) and
`PromptsAreNews` (`[]PromptIsNews`), for any number of calls, pieces of output and
interrupts and either owner. Nothing of it is inductive, since the exit is told by
handing it on: the monitor, the last call out of the session, the loop's event, a note
on the board or in the agent's queue with its cell, a claim, a report. The invariant,
`ShellInv`, says where it is at each stage. `CallsHold` and `SessionHolds` tie a call's
place to the session: a wait that began in time keeps the exit from being finalized, so
whoever ends it knows that nobody else has told; one thread finalizes.
`ExitOnItsWay` is the way out: before the registry lets go of the entry there is no note of the
exit, then one event at most, then one note at most, in one reader's queue, and a note
read is off every other. `HeardOnce` is the way it may not go: once a call has told a
reader, the event, the note and the cell that could tell it again are claimed, taken
back or settled (`Deaf`, `Silent`). `ExitSafe` is the converse: once off the registry, the exit
has been heard, or is in a place from which it will be: an event not read, a call that
covers it, the board, or a held cell that nobody takes back (`CellWillShow`). That a note
taken back by a call is the one that call covers, and no other's, is where
`NotesHold` is needed: notes are numbered apart and the exit has one. `PromptsHold` says
that a note of a prompt on its way is younger than what its reader has seen. Steps are taken by
whose they are (the session's, a reader's, the loop's, the agent's), and the loop's by
way of the queues it is about to leave (`Way`, `WhereWith`): the board and the held
cells with the new note on them, which it then keeps or settles at once.

`AgentNoticesProofs` proves, for any number of runs, turns and messages and any of the
calls, `NoticeTypes`, `CellsAreOfNotes` (`[]CellsMatchBoard`) and `MessagesAreRead`
(`[]InputsAreRead`) whatever the delays, and the rest under the delays it needs:
`ShownAsItIsHolds` (`[]ShownAsItIs`) and `NothingIsLost` (`[]NothingSaidIsLost`)
without "drain", `NotesStayNews` (`[]NotesAreNews`) without "wait" and "drain".
`StopsAreFinal` (`StopIsFinal`) needs none. Section 2.2 says why the code's timing
excludes each.
The invariant is `NoticesInv`. Its idea is to look ahead: whether an answer will be
posted as its event is read depends on the row at that time, so `OpenAfter(n)` says of the
row what it will be once `n` of the unread events are folded in. An end that meets an
open row is of a run not known (`NewsHold`), and the end of a run not known will meet
an open row (`LostHold`); together the two say that the row is the session's memory of
whom it still owes an answer. The row of an agent that is over will be shown over
(`RowHolds`), an owed notice has its event (`SentHold`), and numbers tell notes and
cells apart (`NumbersHold`). Steps are sorted by what they do to the run (`Kinds`: a
run reads, ends, settles, begins, is killed, is stopped; a held end is released; an
event is folded in; or nothing of that), and each part of the invariant is carried over
the kinds.

`TokenRefreshProofs` proves `TokenChainIsHeld`, `BearersStayCurrent` and
`NewestTokenStands`, for any set of threads, any providers and bounds.
`ProvidersAssumption` is that every provider is of one of the kinds the code has.
What a refresh presents is right only because of where every other token leads, so
the invariant, `ChainInv`, says that of all of them: each retired token the alias map
knows leads to the live one in one hop, unless the thread that holds the gate is
about to note it (`HolderKnows`, `OneSuccessor`); the store and the cache follow, or
a fault is on record (`StoreFollows`, `CacheFollows`); what a sign-in dropped stays
dropped (`SignInStands`, `ForgottenStays`).

`McpConnectionsProofs` proves `ToolsFollow`, `ConnectsObey`, `PageKeepsItsFlow` and the
action property `LateCallsLeaveNewer`. The code compares generations and acts; the
invariant, `McpInv`, says why that is enough: no worker holds a generation the server
has not reached, no two hold the same one for the same work, and a worker that holds
the current one finds the server as it left it and the switches on its side
(`ConnectsFit`, `ListingsFit`, `SwitchesFit`). A restart compares none when it
connects: `RestartsFit`, invariant beside `McpInv`, says what it finds while the
generation it left stands, and `GenerationMoves` that a connection, or a connect that
may land, comes only with a new one.

`PermissionGateProofs` proves `RequestsAreAskedOnce`, `NoGrantWithoutConsent`,
`ModalsGiveBack` and `QuestionsTimeOutWhenAway`. None is inductive: that a queue holds
a request once needs that no event still on its way carries it, and who may wait on
what. `GateInv` says it of all places at once: a request raised is on its way,
queued, on screen or answered, in one of these and once; a question on its way is the
one the turn in flight waits on; and the clock has counted no more than the user was
away (`ClockFits`).

`SessionRecordProofs` proves `RecordFollowsSession`, `RewindsTakeTheirWork` and
`RecorderKeepsTheJournal`, the refinement of `Journal`, for any number of items, files,
crashes and models. `RecordInv` has three ideas. A crash leaves some first part of a
file, so a file is sound when each of its first parts is: its checkpoints fit the items
before them (`FileFits`). A checkpoint fits a conversation if it was taken in it and
holds no work of what follows (`Fit`); all of the recorder's do, save those a rewind
leaves behind until the next sync, which finds the history changed (`CheckpointsOK`).
And the file holds what the recorder believes it does (`MirrorOK`). Each step then is
one of five (`Says`, `Saves`, `Leaves`, `Opens`, `Dies`), and each of the five a step of
`Journal`: what stays of a conversation is some first part of it, and what is added is
numbered after all that it and any file hold (`Grew`). That an undo takes back its own
submission and no more is part of it (`AppOK`): nothing of the user's is last before a
running turn.

`QueuesProofs` has the lemmas on `filter` and `retain` that `PermissionGateProofs`,
`SessionRecordProofs`, `TurnLoopProofs`, `ShellNoticesProofs` and `AgentNoticesProofs`
need, and those on the ends of a queue. `Picked` is a
function recursive on the length, where `SelectSeq` and the folds take an operator that
no prover here can instantiate. Induction over a queue goes through the set of the
lengths for which a claim holds (`SetInduction`, `QueueInduction`), by well-foundedness
of the naturals.

Model-checked only: of `TurnLoop`, that the record is the wire (`RecordIsWire`, the other
half of `RecordIsWhole` and of `NoticesAsHeard`), and all of `ToolRounds`.
Liveness (`WaitsEnd`, and
`WaitingIsServed` of the `turn_notices` run) is out of the prover's reach, and so are
RECURSIVE operators and folds, which `RecordIsWire` and `RoundsReplay` rest on.

## 5. Where code and documents part

Two are runs TLC must find violated; `PROJECT.json` quotes the lines.

* `gate_forced`: a call a hook forced to ask, queued behind another prompt, is
  approved by the sweep when the answer to that one sets a rule. The request does
  not carry that it was forced.
* `mcp_listed`: a server is reconnected while its tools are listed again. The
  listing's worker sees another generation and returns
  (`src/src/llm/mcp/manager.rs:790-796`) with `relisting` still set (`:775`), and
  neither `drop_connection` nor `spawn_connect` resets it: every change the new
  connection tells only sets `relist_again`, and no notification lists it for the
  rest of the session (`src/docs/mcp.md:1323`). `ChangeIsListed` says what holds
  otherwise, leaving out a flag so left (`FlagLeft`).

Others came up while modelling and are kept out of the passing runs by a named
exemption, an assumption or a bound:

* The mark of where the running attempt began (`attempt_floor`) outlives a
  `/clear` (`src/src/app/mod.rs:1281`), and an undo: when two messages were
  dispatched together and Esc takes the submission back, a shorter resubmission
  keeps the larger mark (`get_or_insert` in `src/src/app/turn.rs:479-516`). A lost
  connection then withdraws nothing and the voided text stays on the record, which
  `src/docs/offline.md` says is withdrawn. `turn_messages` has no retry, and
  `turn_retry` has no `/clear` and no notices.
* The settle window asks for messages and for the token
  (`src/src/llm/backend.rs:2005-2008`), then begins the continuation under another
  lock, which does not ask whether the agent was stopped
  (`src/src/agents.rs:2997-3007`). An `x` between the two is undone, where
  `src/src/agents.rs:543-544` has it final; `StopIsFinal` names that continuation as
  its one exception. The row still shows the stop, and a `Steered` event does not
  reopen such a row, so the answers of that run, and of those the lead starts with
  `agentsend`, post no note until a chat reopens the row. The same happens to a run
  whose messages another one read in between (an `agentkill`, then an `agentsend`).
  `NoAnswerLost` leaves those runs out (`mute`).
* Alt+Up waits for an empty composer "so it never clobbers a draft"
  (`src/docs/queue.md:204`), but an undo and a refused prompt write the submission over
  whatever the composer holds (`src/src/app/turn.rs:650`, `801`,
  `src/src/app/input_history.rs:304-315`), "so nothing typed is lost" (`turn.rs:770`):
  submit one message, steer another, take it back with Alt+Up, press Esc, and the
  first replaces the second. ↑ finds a message as it was last sent, and not at all if it
  was only typed. `EveryDraftInOnePlace` counts it as lost; `UndoTakesTheSubmission`
  says that nothing else is.
* A sign-in records its own new token as forgotten (`src/src/llm/chatgpt.rs:783-785`),
  and only a refresh that settles drains the record. The first refresh begun after
  the sign-in finds itself there (`:1145-1147`), keeps no bearer, and a thread that
  waited for it exchanges again, where `src/docs/chatgpt.md:102-104` has one caller
  exchange. The run has those states: `BearersAreCurrent` speaks of bearers that are
  cached, and does not say that threads which miss together share one exchange. The
  cost is an exchange; no token is lost by it. `claude.rs`, `cline.rs` and
  `copilot.rs` do the same.
* A call that found its connection dead drops it under one lock and connects the
  server anew under another, with no generation in hand
  (`src/src/llm/mcp/manager.rs:1495-1498`): a Reconnect of the user's in between is
  superseded, its connection dropped where it already landed. The 401 beside it says
  that a reconnect which landed meanwhile must not be torn down (`:1434-1436`).
  `NewerStands` names the case (`Overtaken`).
* `x` on an agent asks `kill` whether a wait will report the stop, but posts its
  note later, outside the lock: a report or the lead's own kill in between makes
  the note a second telling (`src/src/tui/agent.rs:653`,
  `src/docs/agent-tools.md:331`). `NotesAreNews` speaks of answers and resumes.
* A chat starts a run before it drains the channel, so the drain may fold the end
  of that run into the row of the last one (`src/src/tui/agent.rs:747`); `Late`
  leaves it out.
* A request read after its agent was stopped opens a prompt nobody will act on
  (`src/src/tui/agent.rs:108`, `src/docs/permissions.md:85-94`).
* A thread remembers option 2 once more when it wakes (`src/src/llm/approval.rs:348`):
  a Shift+Tab pressed since the answer leaves the gate's mode and the footer out of
  step. No property is kept for it.
* A call whose lookup meets the exit and which then begins to wait reports the
  exit though its note is posted as well (`src/src/llm/exec.rs:693`, `766`):
  `ExitToldOnce` leaves such a reader out (`late`). So it does one whose stop gave up
  waiting (`SESSION_STOP_WAIT`, `src/src/llm/exec.rs:960-972`): it reports the command
  stopped, and the exit that comes later posts its note.
* A prompt's note is posted after its session's exit was claimed
  (`src/src/background.rs:1370-1378`), where `src/docs/bash-tools.md` says that a
  note posted after the look is not posted at all; `PromptIsNews` speaks of a
  session still on the registry.
* A claim leaves a waiting note already routed to the agent's own queue
  (`src/src/background.rs:1426-1432`), and a claim or look cut by Esc drops its
  report (`dropped`).
* A resume restores the file's last checkpoint (`src/src/tui/resume.rs:398`), which
  a turn cut by a crash never took: the transcript then shows work the tree no
  longer holds. A write that fails drops its lines until the next rewrite
  (`src/src/tui/recorder.rs:278-282`); the model's writes do not fail.
* A line torn inside a character makes the session file invalid UTF-8, and
  `read_to_string` (`src/src/tui/resume.rs:307`, `src/src/tui/startup.rs:149`)
  refuses the whole of it, sound lines included, where `src/docs/resume.md:136-137`
  says malformed lines are skipped. `Journal` lets a crash keep none of the copy (`Die`).
* An agent call a hook refuses is told before its round is announced
  (`src/src/llm/agent.rs:544-549`, `575`), so its record has no id, place or batch and
  the next turn's request is not the one the model saw, which
  `src/docs/prompt-caching.md:147-162` wants; `LaunchesRefused` leaves it out.
* `spawn_connect` asks whether the server is held and MCP active, not whether it is
  disabled (`src/src/llm/mcp/manager.rs`): a restart or a finished sign-in whose
  connect comes after the user disabled the server, or a Reconnect on a menu not
  yet refreshed, connects it again. `SwitchedOffStaysOff` speaks of the session's
  switch and of the review's hold.
* A sign-in superseded or cancelled while its code is exchanged still completes: it
  stores its token, says so, and closes the page of the newer one
  (`src/src/llm/mcp/manager.rs:36-39`, `src/docs/mcp.md:1188-1193`).
  `PageHasItsFlow` leaves out the moment its event is unread.
* A call told to list the tools again keeps what it listed over a newer listing of
  the worker (the generation is the same); the next change mends it.
* A refresh token that the environment exports outranks the store
  (`src/src/tui/config.rs:149-160`), so a rotation written to the store is not what
  the next launch presents, which `src/docs/chatgpt.md:126-129` wants; `TokenRefresh`
  has no such token.
* A write of a rotated token that failed leaves an older one in the store, which a
  later rotation by a config of another age does not recognise as its chain
  (`src/src/llm/chatgpt.rs:1203-1208`) and never replaces. `StoreIsLive` leaves out
  grants a write of which failed (`unsaved`).
* Other rounds that do not replay: an agent call with arguments that do not parse
  or a type that does not exist leaves no record
  (`src/src/llm/backend.rs:1547-1575`); a notice of the user's own recorded
  mid-round splits it; arguments a hook rewrote are recorded in place of the
  model's. That calls an Esc keeps from being announced leave no record is
  documented (`src/docs/parallel-tools.md`, Limitations).

## 6. Plan

1. Done: `TurnLoop` with its proofs, `AgentNotices`, `ToolRounds`, `ShellNotices`,
   `PermissionGate`, `SessionRecord` with `Journal`, `McpConnections`, `TokenRefresh`.
2. Proofs, done: types of every module but `ToolRounds`, and the safety of
   `PermissionGate`, `McpConnections`, `TokenRefresh`, `SessionRecord`,
   `TurnLoop`, `ShellNotices` and `AgentNotices`. Left: `ToolRounds` (types, with
   `CallsAccounted`) and `RecordIsWire`, once what they fold is a recursive function.
3. Models still worth writing: the retry policy's budgets (`next_step`,
   `src/src/llm/retry.rs:170`, a pure decision its own tests cover case by case)
   against a reference; the Ctrl+B latch; foreground agent groups and their
   shared wait; an abstract mailbox (posted, then read or retracted, once) that
   both boards implement.

## 7. Not modelled

Providers' wire formats, the flows that sign in, tools and process I/O, PTY screens, the
command classifier, settings files, rendering and the composer are I/O, parsers
or painting with no protocol of their own; `PROJECT.json` gives the reason for
each, and they are the larger part of the code. Of the state machines, the retry budgets,
the Ctrl+B latch, foreground agent groups and the shutdown of MCP's servers are
left to the plan above. The tests inside the sources make up a large share of the
lines counted with them and are read, not modelled.
