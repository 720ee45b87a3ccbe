---------------------------- MODULE SessionRecord ----------------------------
(***************************************************************************)
(* The saved conversation: the recorder that mirrors the history to the    *)
(* session file at the bottom of every iteration (tui/recorder.rs), what   *)
(* reads it back (session.rs, tui/resume.rs), the checkpoints that ride    *)
(* along (checkpoint.rs), the rewinds, and the process dying at any moment *)
(* with the last write torn.                                               *)
(*                                                                         *)
(* An item is a number, in the order of recording, and a kind; a commit of *)
(* the checkpoint store is the work it holds and the history it was taken  *)
(* at.                                                                     *)
(***************************************************************************)
EXTENDS Integers, Sequences, FiniteSets, SequencesExt, Queues

CONSTANTS
    Models,     \* the selections a session may run
    Tears,      \* how a crash may leave a line half written
    MaxItems,   \* bound: items recorded
    MaxFiles,   \* bound: session files
    MaxCrashes, \* bound: crashes
    MaxPicks,   \* bound: changes of model
    LastPick    \* bound: items recorded by the last of them

ASSUME ModelsAssumption == Models # {} /\ "none" \notin Models
ASSUME TearsAssumption == Tears \subseteq {"newline", "junk", "cut"}
ASSUME RecordBoundsAssumption == 
    {MaxItems, MaxFiles, MaxCrashes, MaxPicks, LastPick} \subseteq Nat

None == 0
NoTurn == -1

VARIABLES
    app,        \* [history, floor, turn, moved]: App's record, its undo floor, the length
                \* the running turn began at, and whether the history was changed other
                \* than by growing since the recorder last looked (history_generation)
    recorder,   \* SessionRecorder, and the lines of its file sure to be on disk (safe)
    files,      \* the session files, in the order they were created
    tree,       \* the work tree: the work items whose edits it holds
    phase,      \* "down", "top" of the loop, or "bottom" when its tail is still to run
    recordedIds,\* items numbered so far
    crashes, picks

vars == <<app, recorder, files, tree, phase, recordedIds, crashes, picks>>

Kinds == {"user", "said", "work"}
Ids(items) == {items[i].id : i \in DOMAIN items}

-----------------------------------------------------------------------------
(* Session files.  A line is [type, holds]; "junk" is a line no reader can  *)
(* parse, "cut" one that ends inside a character.                           *)

MetaLine == [type |-> "meta"]
ModelLine(model) == [type |-> "model", holds |-> model]
ItemLine(item) == [type |-> "item", holds |-> item]
CheckpointLine(cp) == [type |-> "checkpoint", holds |-> cp]
Junk == [type |-> "junk"]
Cut == [type |-> "cut"]

\* What the lines of a type hold, in their order.
Held(lines, type) ==
    LET held[n \in 0 .. Len(lines)] ==
            IF n = 0 THEN <<>>
            ELSE IF lines[n].type = type THEN Append(held[n - 1], lines[n].holds)
            ELSE held[n - 1]
    IN held[Len(lines)]
ItemLines(items) == [i \in DOMAIN items |-> ItemLine(items[i])]
CheckpointLines(cps) == [i \in DOMAIN cps |-> CheckpointLine(cps[i])]

\* parse_session, parse_checkpoints, parse_model: lines of no known type are skipped.
ParsedItems(lines) == Held(lines, "item")
ParsedCheckpoints(lines) == Held(lines, "checkpoint")
ParsedModel(lines) ==
    LET models == Held(lines, "model") IN IF models = <<>> THEN "none" ELSE Last(models)

\* A file loads if it is text and has its meta line.
Loads(lines) ==
    /\ \A i \in DOMAIN lines : lines[i].type # "cut"
    /\ \E i \in DOMAIN lines : lines[i].type = "meta"

\* Appending `new` to a file whose last line may have lost its newline.
Glued(lines, torn, new) ==
    IF torn /\ new # <<>> THEN Front(lines) \o <<Junk>> \o Tail(new) ELSE lines \o new

-----------------------------------------------------------------------------
(* The checkpoints.                                                        *)

Newest(S) == CHOOSE i \in S : \A j \in S : j <= i

\* Were the newest snapshot picked, whatever it follows.
RestoreNewest(cps, len) ==
    LET fit == DOMAIN cps IN IF fit = {} THEN None ELSE Newest(fit)

\* restore_target: the greatest `after` within len, the last of those.
RestoreTarget(cps, len) ==
    LET fit == {i \in DOMAIN cps : cps[i].after <= len}
        latest == {i \in fit : \A j \in fit : cps[j].after <= cps[i].after} IN
    IF fit = {} THEN None ELSE Newest(latest)

\* Were none dropped.
RetainAll(cps, len) == cps

\* retain_surviving
RetainSurviving(cps, len) == Picked(cps, {i \in DOMAIN cps : cps[i].after <= len})

\* restore_to: the tree is the target's, if there is one.
Restored(cps, len) ==
    LET target == RestoreTarget(cps, len) IN IF target = None THEN tree ELSE cps[target].tree

\* checkpoint_turn_end, and the snapshots at startup and /clear.
Snapshot(history) == [after |-> Len(history), of |-> history, tree |-> tree]

-----------------------------------------------------------------------------
(* The recorder.                                                           *)

\* recorded_selection, selection_pending
RecordedModel(r) == IF r.keep THEN r.written ELSE r.model
ModelPending(r) == RecordedModel(r) # "none" /\ RecordedModel(r) # r.written

NewModelLine(r) ==
    IF RecordedModel(r) = "none" THEN <<>> ELSE <<ModelLine(RecordedModel(r))>>

Fresh(model) ==
    [active |-> None, recorded |-> 0, repair |-> FALSE, cps |-> <<>>, flushed |-> 0,
     model |-> model, written |-> "none", keep |-> FALSE, safe |-> 0]

\* A sync's outcome: the recorder, and the files.
Outcome(r, fs) == [recorder |-> r, files |-> fs]

\* rewrite: the file is replaced, truncated first.
Rewrite(r, history) ==
    LET cps == RetainSurviving(r.cps, Len(history)) IN
    Outcome([r EXCEPT !.recorded = Len(history), !.repair = FALSE, !.cps = cps,
                      !.flushed = Len(cps), !.written = RecordedModel(r), !.safe = 0],
            [files EXCEPT ![r.active] =
                [lines |-> <<MetaLine>> \o NewModelLine(r) \o ItemLines(history)
                            \o CheckpointLines(cps),
                 torn |-> FALSE]])

\* create_session: the meta line, and the model's right after it.
Created(r) ==
    Outcome([r EXCEPT !.active = Len(files) + 1, !.written = RecordedModel(r)],
            Append(files, [lines |-> <<MetaLine>> \o NewModelLine(r), torn |-> FALSE]))

\* append: the newline a torn line lost, the model line, the new items, the new
\* checkpoints.
AppendNew(r0, history) ==
    LET made == IF r0.active = None THEN Created(r0) ELSE Outcome(r0, files)
        r == made.recorder
        file == made.files[r.active]
        new == (IF ModelPending(r) THEN NewModelLine(r) ELSE <<>>)
               \o ItemLines(SubSeq(history, r.recorded + 1, Len(history)))
               \o CheckpointLines(SubSeq(r.cps, r.flushed + 1, Len(r.cps))) IN
    Outcome([r EXCEPT !.recorded = Len(history), !.repair = FALSE,
                      !.written = IF ModelPending(r) THEN RecordedModel(r) ELSE @,
                      !.flushed = Len(r.cps),
                      !.safe = IF r0.active = None THEN 0 ELSE Len(file.lines)],
            [made.files EXCEPT ![r.active] =
                [lines |-> Glued(file.lines, file.torn /\ ~r.repair, new), torn |-> FALSE]])

\* sync
Synced(r, history, moved) ==
    LET grew == Len(history) > r.recorded
        pending == Len(r.cps) > r.flushed \/ ModelPending(r) IN
    CASE r.active # None /\ (moved \/ Len(history) < r.recorded) -> Rewrite(r, history)
      [] r.active = None /\ grew -> AppendNew(r, history)
      [] r.active # None /\ ~moved /\ Len(history) >= r.recorded /\ (grew \/ pending) ->
            AppendNew(r, history)
      [] OTHER -> Outcome(r, files)

\* sync, by length and by the history's generation.
Sync(a, r) ==
    LET done == Synced(r, a.history, a.moved) IN
    /\ recorder' = done.recorder
    /\ files' = done.files
    /\ app' = [a EXCEPT !.moved = FALSE]

-----------------------------------------------------------------------------
NewApp == [history |-> <<>>, floor |-> 0, turn |-> NoTurn, moved |-> FALSE]

\* seed_checkpoints: the session starts from a snapshot of the tree.
Seeded(model) == [Fresh(model) EXCEPT !.cps = <<Snapshot(<<>>)>>]

Init ==
    /\ app = NewApp
    /\ files = <<>>
    /\ tree = {}
    /\ \E model \in Models :
        recorder = [Fresh(model) EXCEPT !.cps = <<[after |-> 0, of |-> <<>>, tree |-> {}]>>]
    /\ phase = "top"
    /\ recordedIds = 0 /\ crashes = 0 /\ picks = 0

-----------------------------------------------------------------------------
(* One arm of the loop.                                                    *)

Arm == phase = "top" /\ phase' = "bottom"
Idle == app.turn = NoTurn

Item(n, kind) == [id |-> recordedIds + n, kind |-> kind]
Said(a, n, kind) == [a EXCEPT !.history = Append(@, Item(n, kind))]
\* There is room for n more items, and for the file they would create.
Room(n) ==
    /\ recordedIds + n <= MaxItems
    /\ recordedIds' = recordedIds + n
    /\ recorder.active = None => Len(files) < MaxFiles

\* start_turn: the message is recorded and saved before the thread is spawned.
StartTurn ==
    /\ Arm /\ Idle /\ Room(1)
    /\ Sync([Said(app, 1, "user") EXCEPT !.turn = Len(app.history)], recorder)
    /\ UNCHANGED <<tree, crashes, picks>>

\* A reply, a notice or a steered message lands during a turn, or a note at rest.
Record(kind) ==
    /\ Arm /\ Room(1)
    /\ kind = "user" => ~Idle
    /\ app' = Said(app, 1, kind)
    /\ UNCHANGED <<recorder, files, tree, crashes, picks>>

\* A tool of the turn edits files, and its call is recorded.
Work ==
    /\ Arm /\ ~Idle /\ Room(1)
    /\ app' = Said(app, 1, "work")
    /\ tree' = tree \cup {recordedIds + 1}
    /\ UNCHANGED <<recorder, files, crashes, picks>>

\* withdraw_attempt: the trailing texts and thoughts of the attempt, at least one.
Withdraw ==
    /\ Arm /\ ~Idle
    /\ \E len \in app.turn .. Len(app.history) - 1 :
        /\ \A i \in len + 1 .. Len(app.history) : app.history[i].kind = "said"
        /\ app' = [app EXCEPT !.history = SubSeq(@, 1, len), !.moved = TRUE]
    /\ UNCHANGED <<recorder, files, tree, recordedIds, crashes, picks>>

\* take_trailing_user_messages, down to the undo floor.
Undone(a) ==
    LET last == {i \in a.floor .. Len(a.history) :
                    \A j \in i + 1 .. Len(a.history) : a.history[j].kind = "user"}
        len == CHOOSE i \in last : \A j \in last : i <= j IN
    [a EXCEPT !.history = SubSeq(@, 1, len), !.moved = TRUE]

\* dispatch_after_turn over the ended turn's record a, n items past the counter: the
\* tree is snapshotted, a held notice recorded, and what is queued starts the next
\* turn, which saves.
AfterTurn(a, n, held, queued) ==
    LET over == [a EXCEPT !.turn = NoTurn]
        r == [recorder EXCEPT !.cps = Append(@, Snapshot(a.history))]
        noted == IF held THEN Said(over, n + 1, "said") ELSE over
        used == IF held THEN n + 1 ELSE n IN
    /\ Room(IF queued THEN used + 1 ELSE used)
    /\ IF queued
       THEN Sync([Said(noted, used + 1, "user") EXCEPT !.turn = Len(noted.history)], r)
       ELSE app' = noted /\ recorder' = r /\ UNCHANGED files

\* on_stream_done, or fail_stream: a last text or notice is recorded.
EndTurn(held, queued) ==
    /\ Arm /\ ~Idle
    /\ AfterTurn(Said(app, 1, "said"), 1, held, queued)
    /\ UNCHANGED <<tree, crashes, picks>>

\* interrupt_turn: the submission is undone when nothing came of it.
Interrupt(held, queued) ==
    /\ Arm /\ ~Idle
    /\ IF Len(app.history) = app.turn + 1 /\ Last(app.history).kind = "user"
       THEN AfterTurn(Undone(app), 0, held, queued)
       ELSE AfterTurn(Said(app, 1, "said"), 1, held, queued)
    /\ UNCHANGED <<tree, crashes, picks>>

\* block_prompt: the submission is taken back and a notice recorded in its place.
BlockPrompt(held, queued) ==
    /\ Arm /\ ~Idle
    /\ Len(app.history) = app.turn + 1 /\ Last(app.history).kind = "user"
    /\ AfterTurn(Said(Undone(app), 1, "said"), 1, held, queued)
    /\ UNCHANGED <<tree, crashes, picks>>

\* Were the undo floor left where it was.
CutBackOver(a, len) == [a EXCEPT !.history = SubSeq(@, 1, len), !.moved = TRUE]

\* truncate_history
CutBack(a, len) ==
    [a EXCEPT !.history = SubSeq(@, 1, len), !.floor = len, !.moved = TRUE]

\* confirm_backtrack: the history is cut before a user message, and the tree restored.
Backtrack ==
    /\ Arm /\ Idle
    /\ \E i \in DOMAIN app.history :
        /\ app.history[i].kind = "user"
        /\ app' = CutBack(app, i - 1)
        /\ tree' = Restored(recorder.cps, i - 1)
    /\ UNCHANGED <<recorder, files, recordedIds, crashes, picks>>

\* clear_conversation: a fresh session, its file not yet created.
Clear ==
    /\ Arm /\ app.history # <<>>
    /\ app' = [NewApp EXCEPT !.moved = TRUE]
    /\ recorder' = Seeded(recorder.model)
    /\ UNCHANGED <<files, tree, recordedIds, crashes, picks>>

\* Were a torn tail not looked for.
EndsWhole(f) == FALSE

\* file_missing_final_newline
EndsMidLine(f) == files[f].torn

\* load_session and adopt: the file's items, checkpoints and model are taken over; a
\* model that cannot be run is kept on record.
Adopt(f, honoured) ==
    LET lines == files[f].lines
        cps == ParsedCheckpoints(lines)
        model == ParsedModel(lines) IN
    /\ tree' = Restored(cps, MaxItems)
    /\ app' = [NewApp EXCEPT !.history = ParsedItems(lines), !.floor = Len(ParsedItems(lines))]
    /\ recorder' =
        [active |-> f, recorded |-> Len(ParsedItems(lines)), repair |-> EndsMidLine(f),
         cps |-> cps, flushed |-> Len(cps),
         model |-> IF honoured THEN model ELSE recorder.model,
         written |-> model, keep |-> ~honoured /\ model # "none",
         safe |-> Len(lines)]

\* resume_session, and apply_startup after Boot: any other file that loads.
Resume ==
    /\ Arm /\ Idle
    /\ \E f \in DOMAIN files, honoured \in BOOLEAN :
        /\ f # recorder.active /\ Loads(files[f].lines)
        /\ LET model == ParsedModel(files[f].lines) IN
            IF honoured THEN model # "none" ELSE model # recorder.model
        /\ Adopt(f, honoured)
    /\ UNCHANGED <<files, recordedIds, crashes, picks>>

\* set_model; a /model pick drops a kept record as well.
SetModel(model, picked) ==
    /\ Arm /\ model # recorder.model
    /\ picks < MaxPicks /\ picks' = picks + 1 /\ recordedIds <= LastPick
    /\ recorder' = [recorder EXCEPT !.model = model, !.keep = @ /\ ~picked]
    /\ UNCHANGED <<app, files, tree, recordedIds, crashes>>

\* The bottom of the iteration.
AfterIteration ==
    /\ phase = "bottom" /\ phase' = "top"
    /\ Sync(app, recorder)
    /\ UNCHANGED <<tree, recordedIds, crashes, picks>>

-----------------------------------------------------------------------------
(* The process.                                                            *)

Gone == phase' = "down" /\ app' = NewApp /\ recorder' = Fresh(recorder.model)

\* shutdown: the last change is saved.
Quit ==
    /\ phase = "top"
    /\ Gone
    /\ UNCHANGED <<files, tree, recordedIds, crashes, picks>>

\* A write that was under way keeps its first n lines, the last of them possibly torn.
TornAt(file, n, tear) ==
    CASE tear = "whole" -> [file EXCEPT !.lines = SubSeq(@, 1, n)]
      [] tear = "newline" -> [file EXCEPT !.lines = SubSeq(@, 1, n), !.torn = TRUE]
      [] tear = "junk" -> [file EXCEPT !.lines = Append(SubSeq(@, 1, n - 1), Junk), !.torn = TRUE]
      [] tear = "cut" -> [file EXCEPT !.lines = Append(SubSeq(@, 1, n - 1), Cut), !.torn = TRUE]

\* The process or the machine dies; only the last write may not have reached the disk.
Crash ==
    /\ phase # "down"
    /\ crashes < MaxCrashes /\ crashes' = crashes + 1
    /\ Gone
    /\ \/ UNCHANGED files
       \/ /\ recorder.active # None
          /\ \E n \in recorder.safe .. Len(files[recorder.active].lines),
                tear \in Tears \cup {"whole"} :
                /\ tear # "whole" => n > recorder.safe
                /\ files' = [files EXCEPT ![recorder.active] = TornAt(@, n, tear)]
    /\ UNCHANGED <<tree, recordedIds, picks>>

\* A new process: nothing of the last one but what is on disk.
Boot ==
    /\ phase = "down" /\ phase' = "bottom"
    /\ recorder' = Seeded(recorder.model)
    /\ UNCHANGED <<app, files, tree, recordedIds, crashes, picks>>

-----------------------------------------------------------------------------
TurnStep ==
    \/ StartTurn \/ Work \/ Withdraw
    \/ \E kind \in {"user", "said"} : Record(kind)
    \/ \E held, queued \in BOOLEAN :
        EndTurn(held, queued) \/ Interrupt(held, queued) \/ BlockPrompt(held, queued)

Next ==
    \/ TurnStep
    \/ Backtrack \/ Clear \/ Resume
    \/ \E model \in Models, picked \in BOOLEAN : SetModel(model, picked)
    \/ AfterIteration \/ Quit \/ Crash \/ Boot

Spec == Init /\ [][Next]_vars

-----------------------------------------------------------------------------
(* Properties.                                                             *)

Items == [id : 1 .. MaxItems, kind : Kinds]
Checkpoints == [after : 0 .. MaxItems, of : Seq(Items), tree : SUBSET (1 .. MaxItems)]
LineTypes == {"meta", "model", "item", "checkpoint", "junk", "cut"}

\* The types of the variables.
TypeOK ==
    /\ app.history \in Seq(Items) /\ app.floor \in 0 .. Len(app.history)
    /\ app.turn \in NoTurn .. Len(app.history) /\ app.moved \in BOOLEAN
    /\ recorder.active \in 0 .. Len(files) /\ recorder.recorded \in 0 .. MaxItems
    /\ recorder.cps \in Seq(Checkpoints) /\ recorder.flushed \in 0 .. Len(recorder.cps)
    /\ recorder.model \in Models /\ recorder.written \in Models \cup {"none"}
    /\ {recorder.keep, recorder.repair} \subseteq BOOLEAN
    /\ recorder.active # None => recorder.safe \in 0 .. Len(files[recorder.active].lines)
    /\ \A f \in DOMAIN files :
        /\ files[f].torn \in BOOLEAN
        /\ \A i \in DOMAIN files[f].lines : files[f].lines[i].type \in LineTypes
    /\ tree \subseteq 1 .. MaxItems /\ phase \in {"down", "top", "bottom"}
    /\ recordedIds \in 0 .. MaxItems /\ crashes \in 0 .. MaxCrashes /\ picks \in 0 .. MaxPicks

\* What a file would give back.
Saved(f) ==
    IF f \in DOMAIN files /\ Loads(files[f].lines) THEN ParsedItems(files[f].lines) ELSE <<>>

\* The recorder keeps the promise of Journal: whatever the rewinds, retries, refused
\* prompts, clears, quits, crashes and torn writes, a saved conversation is the one
\* that was on screen, up to some point, and /resume opens it as saved.
J == INSTANCE Journal WITH
        Conversations <- 1 .. MaxFiles,
        Nowhere <- None,
        talk <- app.history,
        saved <- [f \in 1 .. MaxFiles |-> Saved(f)],
        open <- recorder.active
KeepsTheJournal == J!Spec

\* Between iterations the file says what the session does: its items, its checkpoints
\* "in lockstep" (docs/checkpoint.md), and the model a resume should run.
FileMirrorsSession ==
    phase = "top" /\ recorder.active # None =>
        LET lines == files[recorder.active].lines IN
        /\ ParsedItems(lines) = app.history
        /\ ParsedCheckpoints(lines) = recorder.cps
        /\ ParsedModel(lines) = RecordedModel(recorder)

\* Every checkpoint a rewind could pick was taken when the conversation was just what
\* the rewind leaves of it: none describes a future that was taken back, or another
\* conversation, though both are keyed by length alone.
CheckpointsFitHistory ==
    phase = "top" =>
        \A i \in DOMAIN recorder.cps :
            LET cp == recorder.cps[i] IN
            /\ cp.after <= Len(app.history)
            /\ cp.of = SubSeq(app.history, 1, cp.after)

\* The record is the session's: its file, and what a rewind would restore from.
RecordHolds == FileMirrorsSession /\ CheckpointsFitHistory

\* A backtrack that restores the tree takes back the work of every call it takes back.
RewoundWorkIsGone ==
    [][Backtrack /\ RestoreTarget(recorder.cps, Len(app'.history)) # None =>
        tree' \cap (Ids(app.history) \ Ids(app'.history)) = {}]_vars
=============================================================================
