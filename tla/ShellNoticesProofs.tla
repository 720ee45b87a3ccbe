------------------------- MODULE ShellNoticesProofs -------------------------
(***************************************************************************)
(* Who hears of a background session, for any number of calls, pieces of   *)
(* output and interrupts: a prompt's note is news, and the exit is told    *)
(* once and never lost.  The exit is a token: before it is finalized, with *)
(* the monitor or the last call; after, an event unread, a note on one     *)
(* queue, a cell, a claim or a report - and in one of them only as far as  *)
(* each reader is concerned.                                               *)
(***************************************************************************)
EXTENDS ShellNotices, QueuesProofs, FiniteSetTheorems

\* The calls that count among the session's waiters, that finalize the exit, that claim it.
InWait == {"launched", "launchlook", "waiting", "look", "retract", "retracting", "ending"}
Finalizing == {"observed", "unobserved"}
Claiming == {"claiming", "claimed"}
Waits(r) == IF calls[r].pc \in InWait THEN 1 ELSE 0

\* What a call's place says of its end and of the session: a wait that began before the exit
\* was finalized keeps it from being finalized, and one that begins after covers it.
CallHolds(r) ==
    /\ calls[r].pc \in {"idle", "launched", "found", "waiting"} => calls[r].end = "none"
    /\ calls[r].pc \in {"launched", "launchlook"} => r = owner /\ r \notin late /\ io.told = 0
    /\ calls[r].pc \in InWait /\ io.finalized => r \in late
    /\ calls[r].pc \in {"look", "retract", "retracting"} /\ io.finalized => Covers(calls[r].end)
    /\ calls[r].pc \in {"retract", "retracting", "ending"} \cup Finalizing /\ Covers(calls[r].end)
            => io.reported
    /\ calls[r].pc = "unobserved" => ~Covers(calls[r].end)
    /\ Covers(calls[r].end) => io.finished \/ calls[r].lost \/ r \in late
    /\ calls[r].pc \in Finalizing => io.finalized /\ task # "gone" /\ monitor # "now"
    /\ calls[r].pc \in Claiming => task = "gone" /\ calls[r].end = "exited"
    /\ calls[r].pc \in {"retracting", "claiming"} => r = "agent"
    /\ calls[r].pc = "found" => task # "none"
CallsHold == \A r \in Readers : CallHolds(r)

\* The session's life: the waiters are the calls that wait, and one thread finalizes.
SessionHolds ==
    /\ io.waiters = Waits("lead") + Waits("agent")
    /\ ~(calls["lead"].pc \in Finalizing /\ calls["agent"].pc \in Finalizing)
    /\ task = "none" => ~io.announced /\ ~io.finished /\ io.told = 0 /\ io.waiters = 0
                       /\ late = {}
    /\ monitor = "now" => io.finalized /\ task # "gone"
    /\ io.finalized => io.finished
    /\ task = "gone" => io.finalized

\* The notes on their way: numbered apart, one of the exit at most, in one reader's queue.
Pending == Range(board) \cup Range(agentq) \cup Range(held)
NotesHold ==
    /\ \A a, b \in Pending : a.n = b.n \/ (a.kind = "exit" /\ b.kind = "exit") => a = b
    /\ Range(board) \cap Range(agentq) = {}
    /\ agentq # <<>> => owner = "agent"
    /\ ~turn => board = <<>> /\ held = <<>>

\* How far the exit has come: to nobody, to the loop's event, to a queue, to one reader.
NoExitYet ==
    /\ ~ExitCell
    /\ \A note \in Pending : note.kind # "exit"
    /\ \A r \in Readers : notes[r] = 0
AtMostOne(s, e) == \A i, j \in DOMAIN s : s[i] = e /\ s[j] = e => i = j
ExitOnItsWay ==
    /\ task # "gone" => unread = "none" /\ NoExitYet
    /\ AtMostOne(events, "exited")
    /\ unread \in {"unposted", "claimed"} <=> "exited" \in Range(events)
    /\ unread \in {"unposted", "claimed"} => NoExitYet
    /\ unread = "posted" =>
          /\ ~ExitCell /\ \A r \in Readers : notes[r] = 0
          /\ ExitsIn(agentq) = {}
          /\ \A note \in ExitsIn(held) :
                note.n \notin stream /\ (note \in Range(board) \/ note.n \in retracted)
    /\ ExitsIn(board) # {} => unread = "posted"
    /\ ExitsIn(agentq) # {} => \A r \in Readers : notes[r] = 0
    /\ notes["lead"] + notes["agent"] <= 1

\* A reader a call of its own has told of the exit, or is about to, hears of it no more.
Heard(r) == r \notin late /\ (reports[r] > 0 \/ calls[r].pc \in Claiming)
Deaf(r) ==
    /\ io.finished /\ (io.finalized \/ io.reported)
    /\ monitor # "now" /\ \A q \in Readers : calls[q].pc # "unobserved"
    /\ unread # "unposted"
    /\ ExitsIn(Unheard(r)) = {}
    /\ notes[r] = 0
HeardOnce ==
    /\ \A r \in Readers : Heard(r) => Deaf(r)
    /\ owner = "lead" /\ Heard("lead") =>
          /\ ~ExitCell
          /\ \A note \in ExitsIn(held) : note.n \in retracted \ stream

\* Where the exit is, once it left the registry.
KnownOf == watched \/ dropped \/ Told(owner) > 0 \/ ExitCell \/ (owner = "agent" /\ Told("lead") > 0)
CellWillShow(note) == note.n \notin retracted \cup Numbers(board) \cup calls["agent"].took
ExitSafe ==
    task = "gone" /\ io.announced =>
        \/ KnownOf
        \/ unread = "unposted"
        \/ \E r \in {owner, "lead"} : Covers(calls[r].end)
        \/ ExitsIn(board) # {}
        \/ \E note \in ExitsIn(held) : CellWillShow(note)

\* A prompt's note is later than every look.
PromptsHold ==
    /\ \A r \in Readers : seen[r] <= io.looked
    /\ "waiting" \in Range(events) => io.told > 0
    /\ \A note \in Range(board) \cup Range(agentq) : note.kind = "waiting" => note.at \in 1 .. io.told
    /\ PromptIsNews

\* The inductive invariant.
ShellInv ==
    /\ TypeOK
    /\ CallsHold /\ SessionHolds
    /\ NotesHold /\ ExitOnItsWay /\ HeardOnce /\ ExitSafe
    /\ PromptsHold

-----------------------------------------------------------------------------
(* Notes.                                                                  *)

LEMMA CountType ==
    ASSUME NEW s \in Seq(Note)
    PROVE  /\ Exits(s) \in Nat
           /\ Exits(s) = 0 <=> ExitsIn(s) = {}
           /\ (\A a, b \in ExitsIn(s) : a = b) => Exits(s) <= 1
<1>1. s \in Surjection(DOMAIN s, Range(s)) /\ DOMAIN s = 1 .. Len(s) /\ Len(s) \in Nat
    BY LenProperties DEF Surjection, Range
<1>2. IsFiniteSet(Range(s))
    BY <1>1, FS_Interval, FS_Surjection
<1>3. IsFiniteSet(ExitsIn(s))
    BY <1>2, FS_Subset DEF ExitsIn
<1>4. Exits(s) \in Nat /\ (Exits(s) = 0 <=> ExitsIn(s) = {})
    BY <1>3, FS_CardinalityType, FS_EmptySet DEF Exits
<1>5. ASSUME \A a, b \in ExitsIn(s) : a = b PROVE Exits(s) <= 1
  <2>1. CASE ExitsIn(s) = {}
    BY <1>4, <2>1
  <2>2. CASE ExitsIn(s) # {}
    <3>1. PICK a : a \in ExitsIn(s)
        BY <2>2
    <3>2. ExitsIn(s) = {a}
        BY <1>5, <3>1
    <3>3. Cardinality({a}) = 1
        BY FS_Singleton
    <3>4. Exits(s) = 1
        BY <3>2, <3>3 DEF Exits
    <3>5. QED
        BY <3>4
  <2>3. QED
    BY <2>1, <2>2
<1>6. QED
    BY <1>4, <1>5

LEMMA EmptyNotes ==
    /\ <<>> \in Seq(Note) /\ Range(<<>>) = {} /\ Numbers(<<>>) = {} /\ ExitsIn(<<>>) = {}
<1>1. <<>> \in Seq(Note) /\ Range(<<>>) = {}
    BY EmptyRange, EmptySeq
<1>2. QED
    BY <1>1 DEF Numbers, ExitsIn

LEMMA AddNote ==
    ASSUME NEW s \in Seq(Note), NEW note \in Note
    PROVE  /\ Append(s, note) \in Seq(Note)
           /\ Range(Append(s, note)) = Range(s) \cup {note}
           /\ Numbers(Append(s, note)) = Numbers(s) \cup {note.n}
           /\ ExitsIn(Append(s, note)) = ExitsIn(s) \cup (IF note.kind = "exit" THEN {note} ELSE {})
<1>1. Append(s, note) \in Seq(Note) /\ Range(Append(s, note)) = Range(s) \cup {note}
    BY AppendFacts
<1>2. QED
    BY <1>1 DEF Numbers, ExitsIn

LEMMA DropNotes ==
    ASSUME NEW s \in Seq(Note), NEW S
    PROVE  /\ Without(s, S) \in Seq(Note)
           /\ Range(Without(s, S)) = Range(s) \ S
           /\ Numbers(Without(s, S)) \subseteq Numbers(s)
           /\ ExitsIn(Without(s, S)) = ExitsIn(s) \ S
<1>1. Without(s, S) \in Seq(Note) /\ Range(Without(s, S)) = Range(s) \ S
    BY WithoutFacts
<1>2. QED
    BY <1>1 DEF Numbers, ExitsIn

LEMMA NotesAreNotes ==
    ASSUME NEW s \in Seq(Note)
    PROVE  Range(s) \subseteq Note /\ ExitsIn(s) \subseteq Range(s)
<1>1. Range(s) \subseteq Note
    BY LenProperties DEF Range
<1>2. QED
    BY <1>1 DEF ExitsIn

-----------------------------------------------------------------------------
(* The types.                                                              *)

\* The type invariant in parts: most steps touch one or two.
SessionIo == [waiters : 0 .. 2, announced : BOOLEAN, finished : BOOLEAN, finalized : BOOLEAN,
              reported : BOOLEAN, seq : 0 .. MaxOutput, looked : 0 .. MaxOutput,
              told : 0 .. MaxOutput]
IoTypes == io \in SessionIo /\ io.looked <= io.seq /\ io.told <= io.seq
CallTypes == calls \in [Readers -> CallState]
NoteTypes ==
    /\ posted \in Nat
    /\ board \in Seq(Note) /\ held \in Seq(Note) /\ agentq \in Seq(Note)
    /\ cells \subseteq Note
    /\ retracted \cup stream \cup Numbers(board) \cup Numbers(held) \cup Numbers(agentq)
            \subseteq 1 .. posted
StateTypes ==
    /\ owner \in Owners
    /\ monitor \in {"run", "now", "waiter", "done"}
    /\ task \in {"none", "live", "exited", "gone"}
    /\ unread \in {"none", "unposted", "posted", "claimed"}
    /\ events \in Seq({"started", "waiting", "exited", "observed"})
    /\ agent \in {"busy", "settled", "killed"}
    /\ row \in BOOLEAN /\ turn \in BOOLEAN /\ watched \in BOOLEAN /\ dropped \in BOOLEAN
CountTypes ==
    /\ reports \in [Readers -> Nat] /\ notes \in [Readers -> Nat]
    /\ seen \in [Readers -> 0 .. MaxOutput]
    /\ late \subseteq Readers
    /\ made \in 0 .. MaxCalls /\ interrupts \in 0 .. MaxInterrupts

LEMMA TypeParts ==
    /\ TypeOK <=> IoTypes /\ CallTypes /\ NoteTypes /\ StateTypes /\ CountTypes
    /\ TypeOK' <=> IoTypes' /\ CallTypes' /\ NoteTypes' /\ StateTypes' /\ CountTypes'
<1>1. TypeOK <=> IoTypes /\ CallTypes /\ NoteTypes /\ StateTypes /\ CountTypes
    BY DEF TypeOK, IoTypes, SessionIo, CallTypes, NoteTypes, StateTypes, CountTypes
<1>2. TypeOK' <=> IoTypes' /\ CallTypes' /\ NoteTypes' /\ StateTypes' /\ CountTypes'
    BY DEF TypeOK, IoTypes, SessionIo, CallTypes, NoteTypes, StateTypes, CountTypes
<1>3. QED
    BY <1>1, <1>2

LEMMA InitTypes == Init => TypeOK
<1> SUFFICES ASSUME Init PROVE TypeOK
    OBVIOUS
<1>1. MaxOutput \in Nat /\ MaxCalls \in Nat /\ MaxInterrupts \in Nat
    BY ShellBoundsAssumption
<1>2. IoTypes
    BY <1>1 DEF Init, IoTypes, SessionIo
<1>3. CallTypes
  <2>1. IdleCall \in CallState
    BY DEF IdleCall, CallState
  <2>2. QED
    BY <2>1 DEF Init, CallTypes
<1>4. NoteTypes
    BY EmptyNotes DEF Init, NoteTypes
<1>5. StateTypes
    BY EmptySeq DEF Init, StateTypes
<1>6. CountTypes
    BY <1>1 DEF Init, CountTypes
<1>7. QED
    BY <1>2, <1>3, <1>4, <1>5, <1>6, TypeParts
\* The steps by whose they are: the session's, a reader's, the loop's, the agent's.
SessionStep == Output \/ TellPrompt \/ Finish \/ Register \/ \E background \in BOOLEAN : Launch(background)
WaitStep(r) == BeginWait(r) \/ Look(r) \/ EndWait(r) \/ Finalize(r) \/ LookUp(r)
               \/ \E end \in Ends : LaunchWaited(r, end) \/ Waited(r, end)
NoteStep(r) == RetractNotices(r) \/ ClaimBoard(r) \/ ReportClaimed(r)
RoutedStep == ClaimRouted \/ JoinRetracted
LoopStep == OnBgEvent \/ NoticeDelivered \/ LeadReads \/ TurnEnds \/ Interrupt \/ Submit
AgentStep == AgentReads \/ AgentSettles \/ AgentStopped

LEMMA Steps ==
    Next <=> \/ SessionStep
             \/ \E r \in Readers : WaitStep(r) \/ NoteStep(r)
             \/ RoutedStep \/ LoopStep \/ AgentStep
BY DEF Next, Call, SessionStep, WaitStep, NoteStep, RoutedStep, LoopStep, AgentStep

\* What a launch, a look and the end of a wait do to the session.
BornAs(s, b, n) == [s EXCEPT !.announced = b, !.waiters = n]
LookedAs(s, b) == [s EXCEPT !.looked = s.seq, !.reported = b]
EndedAs(s, b) == [s EXCEPT !.waiters = s.waiters - 1, !.finalized = b]
FinishedAs(s, b) == [s EXCEPT !.finished = TRUE, !.finalized = b]
WaitedOn(s) == [s EXCEPT !.waiters = s.waiters + 1]
Written(s) == [s EXCEPT !.seq = s.seq + 1]
PromptTold(s) == [s EXCEPT !.told = s.seq]
Announced(s) == [s EXCEPT !.announced = TRUE]

LEMMA BornRecord ==
    ASSUME NEW s \in SessionIo, NEW b \in BOOLEAN, NEW n \in {0, 1}, NEW t, t = BornAs(s, b, n)
    PROVE  /\ t \in SessionIo
           /\ t.waiters = n /\ t.announced = b /\ t.finished = s.finished
           /\ t.finalized = s.finalized /\ t.reported = s.reported
           /\ t.seq = s.seq /\ t.looked = s.looked /\ t.told = s.told
<1>1. n \in 0 .. 2
    OBVIOUS
<1>2. t \in SessionIo
    BY <1>1, ShellBoundsAssumption DEF SessionIo, BornAs
<1>3. QED
    BY <1>2 DEF SessionIo, BornAs

LEMMA LookRecord ==
    ASSUME NEW s \in SessionIo, NEW b \in BOOLEAN, NEW t, t = LookedAs(s, b)
    PROVE  /\ t \in SessionIo
           /\ t.waiters = s.waiters /\ t.announced = s.announced /\ t.finished = s.finished
           /\ t.finalized = s.finalized /\ t.reported = b
           /\ t.seq = s.seq /\ t.looked = s.seq /\ t.told = s.told
<1>1. t \in SessionIo
    BY ShellBoundsAssumption DEF SessionIo, LookedAs
<1>2. QED
    BY <1>1 DEF SessionIo, LookedAs

LEMMA EndRecord ==
    ASSUME NEW s \in SessionIo, NEW b \in BOOLEAN, s.waiters \in 1 .. 2, NEW t, t = EndedAs(s, b)
    PROVE  /\ t \in SessionIo
           /\ t.waiters = s.waiters - 1 /\ t.announced = s.announced /\ t.finished = s.finished
           /\ t.finalized = b /\ t.reported = s.reported
           /\ t.seq = s.seq /\ t.looked = s.looked /\ t.told = s.told
<1>1. s.waiters - 1 \in 0 .. 2
    OBVIOUS
<1>2. t \in SessionIo
    BY <1>1, ShellBoundsAssumption DEF SessionIo, EndedAs
<1>3. QED
    BY <1>2 DEF SessionIo, EndedAs

LEMMA FinishRecord ==
    ASSUME NEW s \in SessionIo, NEW b \in BOOLEAN, NEW t, t = FinishedAs(s, b)
    PROVE  /\ t \in SessionIo
           /\ t.waiters = s.waiters /\ t.announced = s.announced /\ t.finished
           /\ t.finalized = b /\ t.reported = s.reported
           /\ t.seq = s.seq /\ t.looked = s.looked /\ t.told = s.told
<1>1. t \in SessionIo
    BY ShellBoundsAssumption DEF SessionIo, FinishedAs
<1>2. QED
    BY <1>1 DEF SessionIo, FinishedAs

LEMMA WaitedOnRecord ==
    ASSUME NEW s \in SessionIo, s.waiters \in 0 .. 1, NEW t, t = WaitedOn(s)
    PROVE  /\ t \in SessionIo
           /\ t.waiters = s.waiters + 1 /\ t.announced = s.announced /\ t.finished = s.finished
           /\ t.finalized = s.finalized /\ t.reported = s.reported
           /\ t.seq = s.seq /\ t.looked = s.looked /\ t.told = s.told
<1>1. s.waiters + 1 \in 0 .. 2
    OBVIOUS
<1>2. t \in SessionIo
    BY <1>1, ShellBoundsAssumption DEF SessionIo, WaitedOn
<1>3. QED
    BY <1>2 DEF SessionIo, WaitedOn

LEMMA WrittenRecord ==
    ASSUME NEW s \in SessionIo, s.seq < MaxOutput, NEW t, t = Written(s)
    PROVE  /\ t \in SessionIo
           /\ t.waiters = s.waiters /\ t.announced = s.announced /\ t.finished = s.finished
           /\ t.finalized = s.finalized /\ t.reported = s.reported
           /\ t.seq = s.seq + 1 /\ t.looked = s.looked /\ t.told = s.told
<1>1. t \in SessionIo
    BY ShellBoundsAssumption DEF SessionIo, Written
<1>2. QED
    BY <1>1 DEF SessionIo, Written

LEMMA PromptToldRecord ==
    ASSUME NEW s \in SessionIo, NEW t, t = PromptTold(s)
    PROVE  /\ t \in SessionIo
           /\ t.waiters = s.waiters /\ t.announced = s.announced /\ t.finished = s.finished
           /\ t.finalized = s.finalized /\ t.reported = s.reported
           /\ t.seq = s.seq /\ t.looked = s.looked /\ t.told = s.seq
<1>1. t \in SessionIo
    BY ShellBoundsAssumption DEF SessionIo, PromptTold
<1>2. QED
    BY <1>1 DEF SessionIo, PromptTold

LEMMA AnnouncedRecord ==
    ASSUME NEW s \in SessionIo, NEW t, t = Announced(s)
    PROVE  /\ t \in SessionIo
           /\ t.waiters = s.waiters /\ t.announced /\ t.finished = s.finished
           /\ t.finalized = s.finalized /\ t.reported = s.reported
           /\ t.seq = s.seq /\ t.looked = s.looked /\ t.told = s.told
<1>1. t \in SessionIo
    BY ShellBoundsAssumption DEF SessionIo, Announced
<1>2. QED
    BY <1>1 DEF SessionIo, Announced

\* The session after each step that touches it, field by field.
LEMMA LookIo ==
    ASSUME IoTypes, NEW r \in Readers, io' = LookedBy(r)
    PROVE  /\ io' \in SessionIo
           /\ io'.waiters = io.waiters /\ io'.announced = io.announced
           /\ io'.finished = io.finished /\ io'.finalized = io.finalized
           /\ io'.reported <=> io.reported \/ Covers(calls[r].end)
           /\ io'.seq = io.seq /\ io'.looked = io.seq /\ io'.told = io.told
<1>0. io \in SessionIo
    BY DEF IoTypes
<1> DEFINE b == io.reported \/ Covers(calls[r].end)
<1>1. b \in BOOLEAN /\ io' = LookedAs(io, b)
    BY DEF LookedAs, LookedBy
<1>2. b <=> io.reported \/ Covers(calls[r].end)
    OBVIOUS
<1> HIDE DEF b
<1>3. /\ io' \in SessionIo
      /\ io'.waiters = io.waiters /\ io'.announced = io.announced
      /\ io'.finished = io.finished /\ io'.finalized = io.finalized
      /\ io'.reported = b
      /\ io'.seq = io.seq /\ io'.looked = io.seq /\ io'.told = io.told
    BY <1>0, <1>1, LookRecord
<1>4. QED
    BY <1>2, <1>3

LEMMA LaunchIo ==
    ASSUME IoTypes, NEW background \in BOOLEAN, io' = Born(background)
    PROVE  /\ io' \in SessionIo
           /\ io'.waiters = IF background THEN 0 ELSE 1
           /\ io'.announced <=> background
           /\ io'.finished = io.finished /\ io'.finalized = io.finalized
           /\ io'.reported = io.reported
           /\ io'.seq = io.seq /\ io'.looked = io.looked /\ io'.told = io.told
<1>0. io \in SessionIo
    BY DEF IoTypes
<1> DEFINE n == IF background THEN 0 ELSE 1
<1>1. n \in {0, 1} /\ io' = BornAs(io, background, n)
    BY DEF BornAs, Born
<1>2. n = IF background THEN 0 ELSE 1
    OBVIOUS
<1> HIDE DEF n
<1>3. /\ io' \in SessionIo
      /\ io'.waiters = n /\ io'.announced = background
      /\ io'.finished = io.finished /\ io'.finalized = io.finalized
      /\ io'.reported = io.reported
      /\ io'.seq = io.seq /\ io'.looked = io.looked /\ io'.told = io.told
    BY <1>0, <1>1, BornRecord
<1>4. QED
    BY <1>2, <1>3

Last == io.finished /\ ~io.finalized /\ io.waiters = 1
LEMMA EndWaitIo ==
    ASSUME IoTypes, io.waiters \in 1 .. 2, NEW r \in Readers, EndWait(r)
    PROVE  /\ io' \in SessionIo
           /\ io'.waiters = io.waiters - 1 /\ io'.announced = io.announced
           /\ io'.finished = io.finished /\ io'.reported = io.reported
           /\ io'.finalized <=> io.finalized \/ Last
           /\ io'.seq = io.seq /\ io'.looked = io.looked /\ io'.told = io.told
<1>0. io \in SessionIo
    BY DEF IoTypes
<1> DEFINE b == io.finalized \/ Last
<1>1. b \in BOOLEAN /\ io' = EndedAs(io, b)
    BY DEF EndedAs, EndWait, Last
<1>2. b <=> io.finalized \/ Last
    OBVIOUS
<1> HIDE DEF b
<1>3. /\ io' \in SessionIo
      /\ io'.waiters = io.waiters - 1 /\ io'.announced = io.announced
      /\ io'.finished = io.finished /\ io'.finalized = b
      /\ io'.reported = io.reported
      /\ io'.seq = io.seq /\ io'.looked = io.looked /\ io'.told = io.told
    BY <1>0, <1>1, EndRecord
<1>4. QED
    BY <1>2, <1>3

LEMMA FinishIo ==
    ASSUME IoTypes, Finish
    PROVE  /\ io' \in SessionIo
           /\ io'.waiters = io.waiters /\ io'.announced = io.announced /\ io'.finished
           /\ io'.finalized <=> io.waiters = 0
           /\ io'.reported = io.reported
           /\ io'.seq = io.seq /\ io'.looked = io.looked /\ io'.told = io.told
<1>0. io \in SessionIo
    BY DEF IoTypes
<1> DEFINE b == (io.waiters = 0)
<1>1. b \in BOOLEAN /\ io' = FinishedAs(io, b)
    BY DEF FinishedAs, Finish
<1>2. b <=> io.waiters = 0
    OBVIOUS
<1> HIDE DEF b
<1>3. /\ io' \in SessionIo
      /\ io'.waiters = io.waiters /\ io'.announced = io.announced
      /\ io'.finished /\ io'.finalized = b
      /\ io'.reported = io.reported
      /\ io'.seq = io.seq /\ io'.looked = io.looked /\ io'.told = io.told
    BY <1>0, <1>1, FinishRecord
<1>4. QED
    BY <1>2, <1>3

LEMMA OutputIo ==
    ASSUME IoTypes, Output
    PROVE  /\ io' \in SessionIo
           /\ io'.waiters = io.waiters /\ io'.announced = io.announced
           /\ io'.finished = io.finished /\ io'.finalized = io.finalized
           /\ io'.reported = io.reported
           /\ io'.seq = io.seq + 1 /\ io'.looked = io.looked /\ io'.told = io.told
<1>1. io' = Written(io) /\ io.seq < MaxOutput
    BY DEF Output, Written
<1>2. QED
    BY <1>1, WrittenRecord DEF IoTypes

LEMMA TellPromptIo ==
    ASSUME IoTypes, TellPrompt
    PROVE  /\ io' \in SessionIo
           /\ io'.waiters = io.waiters /\ io'.announced = io.announced
           /\ io'.finished = io.finished /\ io'.finalized = io.finalized
           /\ io'.reported = io.reported
           /\ io'.seq = io.seq /\ io'.looked = io.looked /\ io'.told = io.seq
<1>1. io' = PromptTold(io)
    BY DEF TellPrompt, PromptTold
<1>2. QED
    BY <1>1, PromptToldRecord DEF IoTypes

LEMMA BeginWaitIo ==
    ASSUME IoTypes, io.waiters \in 0 .. 1, NEW r \in Readers, BeginWait(r)
    PROVE  /\ io' \in SessionIo
           /\ io'.waiters = io.waiters + 1 /\ io'.announced = io.announced
           /\ io'.finished = io.finished /\ io'.finalized = io.finalized
           /\ io'.reported = io.reported
           /\ io'.seq = io.seq /\ io'.looked = io.looked /\ io'.told = io.told
<1>1. io' = WaitedOn(io)
    BY DEF BeginWait, WaitedOn
<1>2. QED
    BY <1>1, WaitedOnRecord DEF IoTypes

LEMMA LaunchWaitedIo ==
    ASSUME IoTypes, NEW r \in Readers, NEW end \in Ends, LaunchWaited(r, end)
    PROVE  /\ io' \in SessionIo
           /\ io'.waiters = io.waiters
           /\ io'.announced <=> io.announced \/ end \in {"running", "handoff"}
           /\ io'.finished = io.finished /\ io'.finalized = io.finalized
           /\ io'.reported = io.reported
           /\ io'.seq = io.seq /\ io'.looked = io.looked /\ io'.told = io.told
<1>1. CASE end \in {"running", "handoff"}
  <2>1. io' = Announced(io)
    BY <1>1 DEF LaunchWaited, Announced
  <2>2. QED
    BY <1>1, <2>1, AnnouncedRecord DEF IoTypes
<1>2. CASE end \notin {"running", "handoff"}
  <2>1. io' = io
    BY <1>2 DEF LaunchWaited
  <2>2. QED
    BY <1>2, <2>1 DEF IoTypes
<1>3. QED
    BY <1>1, <1>2

LEMMA Bounds == MaxOutput \in Nat /\ MaxCalls \in Nat /\ MaxInterrupts \in Nat
BY ShellBoundsAssumption

LEMMA IoTypesStep ==
    ASSUME TypeOK, CallsHold, SessionHolds, Next
    PROVE  IoTypes'
<1>0. IoTypes /\ MaxOutput \in Nat /\ io.seq \in Nat
  <2>1. IoTypes /\ MaxOutput \in Nat
    BY TypeParts, Bounds
  <2>2. QED
    BY <2>1 DEF IoTypes, SessionIo
<1>1. CASE SessionStep
  <2>1. CASE Output
    <3>1. io.seq \in Nat /\ io.looked \in Nat /\ io.told \in Nat
        BY <1>0 DEF IoTypes, SessionIo
    <3>2. QED
        BY <1>0, <2>1, <3>1, OutputIo DEF IoTypes
  <2>2. CASE TellPrompt
    <3>1. io.seq \in Nat
        BY <1>0 DEF IoTypes, SessionIo
    <3>2. QED
        BY <1>0, <2>2, <3>1, TellPromptIo DEF IoTypes
  <2>3. CASE Finish
    BY <1>0, <2>3, FinishIo DEF IoTypes
  <2>4. CASE Register
    BY <1>0, <2>4 DEF Register, IoTypes
  <2>5. ASSUME NEW background \in BOOLEAN, Launch(background) PROVE IoTypes'
    BY <1>0, <2>5, LaunchIo DEF Launch, IoTypes
  <2>6. QED
    BY <1>1, <2>1, <2>2, <2>3, <2>4, <2>5 DEF SessionStep
<1>2. ASSUME NEW r \in Readers, WaitStep(r) PROVE IoTypes'
  <2>1. CASE BeginWait(r)
    <3>1. io.waiters \in 0 .. 1
        BY <2>1 DEF BeginWait, SessionHolds, Waits, InWait, Readers
    <3>2. QED
        BY <1>0, <2>1, <3>1, BeginWaitIo DEF IoTypes
  <2>2. CASE Look(r)
    BY <1>0, <2>2, LookIo DEF Look, IoTypes
  <2>3. CASE EndWait(r)
    <3>1. io.waiters \in 1 .. 2
        BY <2>3 DEF EndWait, SessionHolds, Waits, InWait, Readers
    <3>2. QED
        BY <1>0, <2>3, <3>1, EndWaitIo DEF IoTypes
  <2>4. CASE Finalize(r) \/ LookUp(r)
    BY <1>0, <2>4 DEF Finalize, LookUp, ioVars, IoTypes
  <2>5. ASSUME NEW end \in Ends, LaunchWaited(r, end) PROVE IoTypes'
    BY <1>0, <2>5, LaunchWaitedIo DEF IoTypes
  <2>6. ASSUME NEW end \in Ends, Waited(r, end) PROVE IoTypes'
    BY <1>0, <2>6 DEF Waited, ioVars, IoTypes
  <2>7. QED
    BY <1>2, <2>1, <2>2, <2>3, <2>4, <2>5, <2>6 DEF WaitStep
<1>3. ASSUME NEW r \in Readers, NoteStep(r) PROVE IoTypes'
  <2>1. CASE RetractNotices(r) \/ ClaimBoard(r)
    BY <1>0, <2>1 DEF RetractNotices, ClaimBoard, ioVars, IoTypes
  <2>2. CASE ReportClaimed(r)
    BY <1>0, <2>2, LookIo DEF ReportClaimed, IoTypes
  <2>3. QED
    BY <1>3, <2>1, <2>2 DEF NoteStep
<1>4. CASE RoutedStep \/ LoopStep \/ AgentStep
  <2>1. io' = io
    BY <1>4 DEF RoutedStep, LoopStep, AgentStep, ClaimRouted, JoinRetracted, OnBgEvent,
       NoticeDelivered, LeadReads, TurnEnds, Interrupt, Submit, AgentReads, AgentSettles,
       AgentStopped, ioVars
  <2>2. QED
    BY <1>0, <2>1 DEF IoTypes
<1>5. QED
    BY <1>1, <1>2, <1>3, <1>4, Steps
\* A reader's call after a step, field by field.
Pcs == {"idle", "launched", "launchlook", "ending", "observed", "unobserved", "found",
        "waiting", "look", "retract", "retracting", "claiming", "claimed"}
CallBecomes(r, pc, end, took, lost) ==
    /\ calls'[r].pc = pc /\ calls'[r].end = end /\ calls'[r].took = took
    /\ calls'[r].lost = lost
    /\ \A q \in Readers : q # r => calls'[q] = calls[q]

LEMMA CallSet ==
    ASSUME CallTypes, posted' = posted, NEW r \in Readers, NEW c \in CallState,
           calls' = [calls EXCEPT ![r] = c]
    PROVE  CallTypes' /\ CallBecomes(r, c.pc, c.end, c.took, c.lost)
<1>1. calls'[r] = c /\ \A q \in Readers : q # r => calls'[q] = calls[q]
    BY DEF CallTypes
<1>2. calls' \in [Readers -> CallState]
    BY DEF CallTypes
<1>3. CallState' = CallState
    BY DEF CallState
<1>4. QED
    BY <1>1, <1>2, <1>3 DEF CallTypes, CallBecomes

LEMMA CallParts ==
    ASSUME CallTypes, NEW r \in Readers
    PROVE  /\ calls[r] \in CallState
           /\ calls[r].pc \in Pcs /\ calls[r].end \in Ends \cup {"none"}
           /\ calls[r].took \subseteq 1 .. posted /\ calls[r].lost \in BOOLEAN
BY DEF CallTypes, CallState, Pcs

LEMMA GotoCall ==
    ASSUME CallTypes, posted' = posted, NEW r \in Readers, NEW pc \in Pcs, Goto(r, pc)
    PROVE  CallTypes' /\ CallBecomes(r, pc, calls[r].end, calls[r].took, calls[r].lost)
<1> DEFINE c == [calls[r] EXCEPT !.pc = pc]
<1>1. /\ c \in CallState /\ c.pc = pc /\ c.end = calls[r].end
      /\ c.took = calls[r].took /\ c.lost = calls[r].lost
    BY CallParts DEF CallState, Pcs
<1>2. calls' = [calls EXCEPT ![r] = c]
    BY DEF Goto
<1> HIDE DEF c
<1>3. CallTypes' /\ CallBecomes(r, c.pc, c.end, c.took, c.lost)
    BY <1>1, <1>2, CallSet
<1>4. QED
    BY <1>1, <1>3

LEMMA GotoWithCall ==
    ASSUME CallTypes, posted' = posted, NEW r \in Readers, NEW pc \in Pcs,
           NEW end \in Ends \cup {"none"}, GotoWith(r, pc, end)
    PROVE  CallTypes' /\ CallBecomes(r, pc, end, calls[r].took, calls[r].lost)
<1> DEFINE c == [calls[r] EXCEPT !.pc = pc, !.end = end]
<1>1. /\ c \in CallState /\ c.pc = pc /\ c.end = end
      /\ c.took = calls[r].took /\ c.lost = calls[r].lost
    BY CallParts DEF CallState, Pcs
<1>2. calls' = [calls EXCEPT ![r] = c]
    BY DEF GotoWith
<1> HIDE DEF c
<1>3. CallTypes' /\ CallBecomes(r, c.pc, c.end, c.took, c.lost)
    BY <1>1, <1>2, CallSet
<1>4. QED
    BY <1>1, <1>3

LEMMA ReturnCall ==
    ASSUME CallTypes, CountTypes, posted' = posted, NEW r \in Readers, Return(r)
    PROVE  /\ CallTypes' /\ CallBecomes(r, "idle", "none", {}, FALSE)
           /\ reports' \in [Readers -> Nat]
           /\ \A q \in Readers : reports'[q] =
                IF q = r /\ Covers(calls[r].end) /\ ~calls[r].lost THEN reports[q] + 1
                ELSE reports[q]
           /\ dropped' \in BOOLEAN
           /\ dropped' <=> dropped \/ (Covers(calls[r].end) /\ calls[r].lost)
<1>1. IdleCall \in CallState /\ IdleCall.pc = "idle" /\ IdleCall.end = "none"
      /\ IdleCall.took = {} /\ IdleCall.lost = FALSE
    BY DEF IdleCall, CallState
<1>2. CallTypes' /\ CallBecomes(r, IdleCall.pc, IdleCall.end, IdleCall.took, IdleCall.lost)
  <2>1. calls' = [calls EXCEPT ![r] = IdleCall]
    BY DEF Return
  <2>2. QED
    BY <1>1, <2>1, CallSet
<1>3. reports' \in [Readers -> Nat] /\ \A q \in Readers : reports'[q] =
                IF q = r /\ Covers(calls[r].end) /\ ~calls[r].lost THEN reports[q] + 1
                ELSE reports[q]
    BY DEF Return, CountTypes
<1>4. dropped' \in BOOLEAN /\ (dropped' <=> dropped \/ (Covers(calls[r].end) /\ calls[r].lost))
    BY DEF Return
<1>5. QED
    BY <1>1, <1>2, <1>3, <1>4

LEMMA TakenCall ==
    ASSUME CallTypes, posted' = posted, NEW r \in Readers, NEW pc \in Pcs,
           NEW end \in Ends \cup {"none"}, NEW took \in SUBSET (1 .. posted),
           calls' = [calls EXCEPT ![r].pc = pc, ![r].end = end, ![r].took = took]
    PROVE  CallTypes' /\ CallBecomes(r, pc, end, took, calls[r].lost)
<1> DEFINE c == [calls[r] EXCEPT !.pc = pc, !.end = end, !.took = took]
<1>1. /\ c \in CallState /\ c.pc = pc /\ c.end = end
      /\ c.took = took /\ c.lost = calls[r].lost
    BY CallParts DEF CallState, Pcs
<1>2. calls' = [calls EXCEPT ![r] = c]
    OBVIOUS
<1> HIDE DEF c
<1>3. CallTypes' /\ CallBecomes(r, c.pc, c.end, c.took, c.lost)
    BY <1>1, <1>2, CallSet
<1>4. QED
    BY <1>1, <1>3

LEMMA LostCall ==
    ASSUME CallTypes, posted' = posted, NEW r \in Readers, NEW lost \in BOOLEAN,
           calls' = [calls EXCEPT ![r].lost = lost]
    PROVE  CallTypes' /\ CallBecomes(r, calls[r].pc, calls[r].end, calls[r].took, lost)
<1> DEFINE c == [calls[r] EXCEPT !.lost = lost]
<1>1. /\ c \in CallState /\ c.pc = calls[r].pc /\ c.end = calls[r].end
      /\ c.took = calls[r].took /\ c.lost = lost
    BY CallParts DEF CallState
<1>2. calls' = [calls EXCEPT ![r] = c]
    OBVIOUS
<1> HIDE DEF c
<1>3. CallTypes' /\ CallBecomes(r, c.pc, c.end, c.took, c.lost)
    BY <1>1, <1>2, CallSet
<1>4. QED
    BY <1>1, <1>3

\* The calls after each of the other steps that touch them.
LEMMA RetractCall ==
    ASSUME CallTypes, NoteTypes, NEW r \in Readers, RetractNotices(r)
    PROVE  /\ CallTypes'
           /\ r = "lead" =>
                CallBecomes(r, "ending", calls[r].end, calls[r].took, calls[r].lost)
           /\ r = "agent" =>
                CallBecomes(r, "retracting", calls[r].end, Numbers(agentq), calls[r].lost)
<1>1. posted' = posted
    BY DEF RetractNotices
<1>2. CASE r = "lead"
    BY <1>1, <1>2, GotoCall DEF RetractNotices, Pcs
<1>3. CASE r = "agent"
  <2> DEFINE c == [calls[r] EXCEPT !.pc = "retracting", !.took = Numbers(agentq)]
  <2>1. Numbers(agentq) \in SUBSET (1 .. posted)
    BY DEF NoteTypes
  <2>2. /\ c \in CallState /\ c.pc = "retracting" /\ c.end = calls[r].end
        /\ c.took = Numbers(agentq) /\ c.lost = calls[r].lost
    BY <2>1, CallParts DEF CallState
  <2>3. calls' = [calls EXCEPT ![r] = c]
    BY <1>3 DEF RetractNotices
  <2> HIDE DEF c
  <2>4. CallTypes' /\ CallBecomes(r, c.pc, c.end, c.took, c.lost)
    BY <1>1, <2>2, <2>3, CallSet
  <2>5. QED
    BY <1>3, <2>2, <2>4
<1>4. QED
    BY <1>2, <1>3 DEF Readers

LEMMA ClaimBoardCall ==
    ASSUME CallTypes, NEW r \in Readers, ClaimBoard(r)
    PROVE  /\ CallTypes'
           /\ ClaimableBy(r) =>
                CallBecomes(r, "claimed", "exited", calls[r].took, calls[r].lost)
           /\ ~ClaimableBy(r) => calls' = calls
<1>1. posted' = posted
    BY DEF ClaimBoard
<1>2. CASE ClaimableBy(r)
  <2> DEFINE c == [calls[r] EXCEPT !.pc = "claimed", !.end = "exited"]
  <2>1. /\ c \in CallState /\ c.pc = "claimed" /\ c.end = "exited"
        /\ c.took = calls[r].took /\ c.lost = calls[r].lost
    BY CallParts DEF CallState, Ends
  <2>2. calls' = [calls EXCEPT ![r] = c]
    BY <1>2 DEF ClaimBoard
  <2> HIDE DEF c
  <2>3. CallTypes' /\ CallBecomes(r, c.pc, c.end, c.took, c.lost)
    BY <1>1, <2>1, <2>2, CallSet
  <2>4. QED
    BY <1>2, <2>1, <2>3
<1>3. CASE ~ClaimableBy(r)
  <2>1. calls' = calls
    BY <1>3 DEF ClaimBoard
  <2>2. QED
    BY <1>1, <1>3, <2>1 DEF CallTypes, CallState
<1>4. QED
    BY <1>2, <1>3

LEMMA ClaimRoutedCall ==
    ASSUME CallTypes, NoteTypes, ClaimRouted
    PROVE  /\ CallTypes'
           /\ CallBecomes("agent", "claiming", "exited", {note.n : note \in ExitsIn(agentq)},
                          calls["agent"].lost)
<1> DEFINE took == {note.n : note \in ExitsIn(agentq)}
<1>1. posted' = posted
    BY DEF ClaimRouted
<1>2. took \in SUBSET (1 .. posted)
    BY DEF NoteTypes, ExitsIn, Numbers
<1>3. calls' = [calls EXCEPT !["agent"].pc = "claiming", !["agent"].end = "exited",
                             !["agent"].took = took]
    BY DEF ClaimRouted
<1> HIDE DEF took
<1>4. "agent" \in Readers /\ "claiming" \in Pcs /\ "exited" \in Ends \cup {"none"}
    BY DEF Readers, Pcs, Ends
<1>5. CallTypes' /\ CallBecomes("agent", "claiming", "exited", took, calls["agent"].lost)
    BY <1>1, <1>2, <1>3, <1>4, TakenCall
<1>6. QED
    BY <1>5 DEF took

\* Where a waited call goes, and where the other steps leave it.
WaitedTo(end) == IF end \in {"cancelled", "refused"} THEN "ending" ELSE "look"
LaunchedTo(end) == IF end \in {"running", "exited"} THEN "launchlook" ELSE "ending"

LEMMA WaitCalls ==
    ASSUME TypeOK, NEW r \in Readers
    PROVE  /\ BeginWait(r) => CallTypes'
                /\ CallBecomes(r, "waiting", calls[r].end, calls[r].took, calls[r].lost)
           /\ LookUp(r) => CallTypes'
                /\ CallBecomes(r, "found", calls[r].end, calls[r].took, calls[r].lost)
           /\ Look(r) => CallTypes'
                /\ CallBecomes(r, IF calls[r].pc = "look" THEN "retract" ELSE "ending",
                               calls[r].end, calls[r].took, calls[r].lost)
           /\ \A end \in Ends : LaunchWaited(r, end) => CallTypes'
                /\ CallBecomes(r, LaunchedTo(end), end, calls[r].took, calls[r].lost)
           /\ \A end \in Ends : Waited(r, end) => CallTypes'
                /\ CallBecomes(r, WaitedTo(end), end, calls[r].took, calls[r].lost)
           /\ EndWait(r) /\ Last => CallTypes'
                /\ CallBecomes(r, IF io.reported THEN "observed" ELSE "unobserved",
                               calls[r].end, calls[r].took, calls[r].lost)
<1>0. CallTypes
    BY TypeParts
<1>1. ASSUME BeginWait(r) PROVE Goto(r, "waiting") /\ posted' = posted
    BY <1>1 DEF BeginWait, noteVars
<1>2. ASSUME LookUp(r) PROVE Goto(r, "found") /\ posted' = posted
    BY <1>2 DEF LookUp, noteVars
<1>3. ASSUME Look(r)
      PROVE  Goto(r, IF calls[r].pc = "look" THEN "retract" ELSE "ending") /\ posted' = posted
    BY <1>3 DEF Look, noteVars
<1>4. ASSUME NEW end \in Ends, LaunchWaited(r, end)
      PROVE  GotoWith(r, LaunchedTo(end), end) /\ posted' = posted
    BY <1>4 DEF LaunchWaited, LaunchedTo, noteVars
<1>5. ASSUME NEW end \in Ends, Waited(r, end)
      PROVE  GotoWith(r, WaitedTo(end), end) /\ posted' = posted
    BY <1>5 DEF Waited, WaitedTo, noteVars
<1>6. ASSUME EndWait(r), Last
      PROVE  Goto(r, IF io.reported THEN "observed" ELSE "unobserved") /\ posted' = posted
    BY <1>6 DEF EndWait, Last, noteVars
<1>7. /\ {"waiting", "found", "retract", "ending", "observed", "unobserved"} \subseteq Pcs
      /\ \A end \in Ends : LaunchedTo(end) \in Pcs /\ WaitedTo(end) \in Pcs
    BY DEF Pcs, LaunchedTo, WaitedTo
<1>8. (IF calls[r].pc = "look" THEN "retract" ELSE "ending") \in Pcs
      /\ (IF io.reported THEN "observed" ELSE "unobserved") \in Pcs
    BY <1>7
<1>9. QED
    BY <1>0, <1>1, <1>2, <1>3, <1>4, <1>5, <1>6, <1>7, <1>8, GotoCall, GotoWithCall

LEMMA CallTypesStep ==
    ASSUME TypeOK, Next
    PROVE  CallTypes'
<1>0. CallTypes /\ NoteTypes /\ CountTypes
    BY TypeParts
<1>1. ASSUME calls' = calls, posted' \in {posted, posted + 1} PROVE CallTypes'
  <2>1. posted \in Nat
    BY <1>0 DEF NoteTypes
  <2>2. 1 .. posted \subseteq 1 .. posted'
    BY <1>1, <2>1
  <2>3. CallState \subseteq CallState'
    BY <2>2 DEF CallState
  <2>4. QED
    BY <1>0, <1>1, <2>3 DEF CallTypes
<1>2. CASE SessionStep
  <2>1. CASE Output \/ TellPrompt \/ Finish \/ Register
    BY <1>1, <2>1 DEF Output, TellPrompt, Finish, Register, noteVars
  <2>2. ASSUME NEW background \in BOOLEAN, Launch(background) PROVE CallTypes'
    <3>1. posted' = posted /\ owner \in Readers
        BY <2>2, OwnersAssumption DEF Launch, noteVars, TypeOK
    <3>2. CASE background
        BY <1>1, <2>2, <3>1, <3>2 DEF Launch
    <3>3. CASE ~background
      <4>1. GotoWith(owner, "launched", "none")
        BY <2>2, <3>3 DEF Launch
      <4>2. QED
        BY <1>0, <3>1, <4>1, GotoWithCall DEF Pcs
    <3>4. QED
        BY <3>2, <3>3
  <2>3. QED
    BY <1>2, <2>1, <2>2 DEF SessionStep
<1>3. ASSUME NEW r \in Readers, WaitStep(r) PROVE CallTypes'
  <2>1. CASE EndWait(r) /\ ~Last
    <3>1. Return(r) /\ posted' = posted
        BY <2>1 DEF EndWait, Last, noteVars
    <3>2. QED
        BY <1>0, <3>1, ReturnCall
  <2>2. CASE Finalize(r)
    <3>1. Return(r) /\ posted' = posted
        BY <2>2 DEF Finalize, noteVars
    <3>2. QED
        BY <1>0, <3>1, ReturnCall
  <2>3. QED
    BY <1>3, <2>1, <2>2, WaitCalls DEF WaitStep
<1>4. ASSUME NEW r \in Readers, NoteStep(r) PROVE CallTypes'
  <2>1. CASE ReportClaimed(r)
    <3>1. Return(r) /\ posted' = posted
        BY <2>1 DEF ReportClaimed, noteVars
    <3>2. QED
        BY <1>0, <3>1, ReturnCall
  <2>2. QED
    BY <1>0, <1>4, <2>1, RetractCall, ClaimBoardCall DEF NoteStep
<1>5. CASE RoutedStep
  <2>1. CASE ClaimRouted
    BY <1>0, <2>1, ClaimRoutedCall
  <2>2. CASE JoinRetracted
    <3> DEFINE pc == IF calls["agent"].pc = "claiming" THEN "claimed" ELSE "ending"
    <3>1. Goto("agent", pc) /\ posted' = posted /\ pc \in Pcs /\ "agent" \in Readers
        BY <2>2 DEF JoinRetracted, Pcs, Readers
    <3> HIDE DEF pc
    <3>2. QED
        BY <1>0, <3>1, GotoCall
  <2>3. QED
    BY <1>5, <2>1, <2>2 DEF RoutedStep
<1>6. CASE LoopStep
  <2>1. CASE OnBgEvent
    BY <1>1, <2>1 DEF OnBgEvent, ReportCompletion
  <2>2. CASE NoticeDelivered \/ LeadReads \/ TurnEnds \/ Submit
    BY <1>1, <2>2 DEF NoticeDelivered, LeadReads, TurnEnds, Submit, noteVars
  <2>3. CASE Interrupt
    <3>1. calls' = [calls EXCEPT !["lead"].lost = TRUE] /\ posted' = posted /\ "lead" \in Readers
        BY <2>3 DEF Interrupt, Readers
    <3>2. QED
        BY <1>0, <3>1, LostCall
  <2>4. QED
    BY <1>6, <2>1, <2>2, <2>3 DEF LoopStep
<1>7. CASE AgentStep
  <2>1. CASE AgentReads \/ AgentSettles
    BY <1>1, <2>1 DEF AgentReads, AgentSettles, noteVars
  <2>2. CASE AgentStopped
    <3> DEFINE lost == calls["agent"].pc # "idle"
    <3>1. /\ calls' = [calls EXCEPT !["agent"].lost = lost] /\ posted' = posted
          /\ "agent" \in Readers /\ lost \in BOOLEAN
        BY <2>2 DEF AgentStopped, Readers
    <3> HIDE DEF lost
    <3>2. QED
        BY <1>0, <3>1, LostCall
  <2>3. QED
    BY <1>7, <2>1, <2>2 DEF AgentStep
<1>8. QED
    BY <1>2, <1>3, <1>4, <1>5, <1>6, <1>7, Steps

-----------------------------------------------------------------------------
(* What the loop does to the notes.                                        *)

NewNote(kind) == [n |-> posted + 1, kind |-> kind, at |-> io.told]
Routed == owner = "agent" /\ agent = "busy"

LEMMA HearBoardEffect ==
    ASSUME CountTypes, NEW b \in Seq(Note), NEW u, HearBoard(b, u)
    PROVE  /\ notes' \in [Readers -> Nat]
           /\ notes'["lead"] = notes["lead"] + Exits(b) /\ notes'["agent"] = notes["agent"]
           /\ board' = <<>>
           /\ unread' = IF ExitsIn(b) = {} THEN u ELSE "none"
<1>1. Exits(b) \in Nat /\ (Exits(b) = 0 <=> ExitsIn(b) = {})
    BY CountType
<1>2. notes' = [notes EXCEPT !["lead"] = notes["lead"] + Exits(b)] /\ board' = <<>>
      /\ unread' = IF Exits(b) > 0 THEN "none" ELSE u
    BY DEF HearBoard
<1> HIDE DEF Exits
<1>3. notes' \in [Readers -> Nat] /\ notes'["lead"] = notes["lead"] + Exits(b)
      /\ notes'["agent"] = notes["agent"]
    BY <1>1, <1>2 DEF CountTypes, Readers
<1>4. unread' = IF ExitsIn(b) = {} THEN u ELSE "none"
    BY <1>1, <1>2
<1>5. QED
    BY <1>2, <1>3, <1>4

LEMMA DispatchEffect ==
    ASSUME CountTypes, NEW b \in Seq(Note), NEW h \in Seq(Note), NEW u, Dispatch(b, h, u)
    PROVE  /\ notes' \in [Readers -> Nat]
           /\ notes'["lead"] = notes["lead"] + Exits(b) /\ notes'["agent"] = notes["agent"]
           /\ unread' = IF ExitsIn(b) = {} THEN u ELSE "none"
           /\ cells' = cells \cup {note \in Range(h) : note.n \notin retracted}
           /\ retracted' = retracted \ Numbers(h)
           /\ board' = <<>> /\ held' = <<>> /\ stream' = {}
           /\ turn' \in BOOLEAN
BY HearBoardEffect DEF Dispatch

\* A step that posts a note, and one that finds it covered.
LEMMA ReportEffect ==
    ASSUME TypeOK, NEW kind \in {"exit", "waiting"}, ReportCompletion(kind)
    PROVE  \/ /\ Covered(kind)
              /\ unread' = IF kind = "exit" THEN "none" ELSE unread
              /\ UNCHANGED <<board, retracted, posted, agentq, held, cells, stream, turn, notes>>
           \/ /\ ~Covered(kind) /\ posted' = posted + 1
              /\ Append(held, NewNote(kind)) \in Seq(Note)
              /\ \/ /\ Routed /\ agentq' = Append(agentq, NewNote(kind))
                    /\ Defer(board, Append(held, NewNote(kind)),
                             IF kind = "exit" THEN "none" ELSE unread)
                 \/ /\ ~Routed /\ agentq' = agentq
                    /\ Append(board, NewNote(kind)) \in Seq(Note)
                    /\ Defer(Append(board, NewNote(kind)), Append(held, NewNote(kind)),
                             IF kind = "exit" THEN "posted" ELSE unread)
<1>1. NewNote(kind) \in Note
    BY DEF NewNote, Note, TypeOK
<1>2. board \in Seq(Note) /\ held \in Seq(Note)
    BY DEF TypeOK
<1>3. Append(held, NewNote(kind)) \in Seq(Note) /\ Append(board, NewNote(kind)) \in Seq(Note)
    BY <1>1, <1>2, AddNote
<1> DEFINE note == NewNote(kind)
<1>4. ReportCompletion(kind) =
        IF Covered(kind)
        THEN /\ unread' = IF kind = "exit" THEN "none" ELSE unread
             /\ UNCHANGED <<board, retracted, posted, agentq, held, cells, stream, turn, notes>>
        ELSE /\ posted' = posted + 1
             /\ IF owner = "agent" /\ agent = "busy"
                THEN /\ agentq' = Append(agentq, note)
                     /\ Defer(board, Append(held, note), IF kind = "exit" THEN "none" ELSE unread)
                ELSE /\ UNCHANGED agentq
                     /\ Defer(Append(board, note), Append(held, note),
                              IF kind = "exit" THEN "posted" ELSE unread)
    BY DEF ReportCompletion, NewNote
<1> HIDE DEF note
<1>5. CASE Covered(kind)
    BY <1>4, <1>5
<1>6. CASE ~Covered(kind)
  <2>1. CASE Routed
    BY <1>3, <1>4, <1>6, <2>1 DEF Routed, note
  <2>2. CASE ~Routed
    BY <1>3, <1>4, <1>6, <2>2 DEF Routed, note
  <2>3. QED
    BY <2>1, <2>2
<1>7. QED
    BY <1>5, <1>6

\* An event of the loop: what it reads, and what that makes of the notes.
LEMMA EventEffect ==
    ASSUME TypeOK, OnBgEvent
    PROVE  /\ events # <<>> /\ events' = Tail(events)
           /\ row' \in BOOLEAN
           /\ \/ Head(events) = "exited" /\ ReportCompletion("exit")
              \/ Head(events) = "waiting" /\ ReportCompletion("waiting")
              \/ /\ Head(events) \notin {"exited", "waiting"}
                 /\ UNCHANGED <<unread, board, retracted, posted, agentq, held, cells, stream,
                                turn, notes>>
BY DEF OnBgEvent

LEMMA DispatchTypes ==
    ASSUME CountTypes, cells \subseteq Note, posted' \in Nat, retracted \subseteq 1 .. posted',
           NEW b \in Seq(Note), NEW h \in Seq(Note), NEW u, Dispatch(b, h, u),
           agentq' \in Seq(Note), Numbers(agentq') \subseteq 1 .. posted'
    PROVE  NoteTypes'
<1>1. /\ cells' = cells \cup {note \in Range(h) : note.n \notin retracted}
      /\ retracted' = retracted \ Numbers(h)
      /\ board' = <<>> /\ held' = <<>> /\ stream' = {}
    BY DispatchEffect
<1>2. Range(h) \subseteq Note
    BY NotesAreNotes
<1>3. cells' \subseteq Note
    BY <1>1, <1>2
<1>4. /\ board' \in Seq(Note) /\ held' \in Seq(Note)
      /\ Numbers(board') = {} /\ Numbers(held') = {}
    BY <1>1, EmptyNotes
<1>5. QED
    BY <1>1, <1>3, <1>4 DEF NoteTypes

LEMMA DeferTypes ==
    ASSUME CountTypes, cells \subseteq Note, posted' \in Nat,
           retracted \cup stream \subseteq 1 .. posted',
           NEW b \in Seq(Note), NEW h \in Seq(Note), NEW u, Defer(b, h, u),
           Numbers(b) \cup Numbers(h) \subseteq 1 .. posted',
           agentq' \in Seq(Note), Numbers(agentq') \subseteq 1 .. posted'
    PROVE  NoteTypes'
<1>1. CASE turn
    BY <1>1 DEF Defer, NoteTypes
<1>2. CASE ~turn
    BY <1>2, DispatchTypes DEF Defer
<1>3. QED
    BY <1>1, <1>2

LEMMA ReportTypes ==
    ASSUME TypeOK, NEW kind \in {"exit", "waiting"}, ReportCompletion(kind)
    PROVE  NoteTypes'
<1>0. NoteTypes /\ CountTypes
    BY TypeParts
<1> DEFINE note == NewNote(kind)
<1>1. note \in Note /\ note.n = posted + 1
    BY DEF NewNote, Note, TypeOK
<1> HIDE DEF note
<1>2. /\ Numbers(Append(board, note)) = Numbers(board) \cup {posted + 1}
      /\ Numbers(Append(held, note)) = Numbers(held) \cup {posted + 1}
      /\ Numbers(Append(agentq, note)) = Numbers(agentq) \cup {posted + 1}
      /\ Append(board, note) \in Seq(Note) /\ Append(held, note) \in Seq(Note)
      /\ Append(agentq, note) \in Seq(Note)
    BY <1>0, <1>1, AddNote DEF NoteTypes
<1>3. \/ UNCHANGED <<board, retracted, posted, agentq, held, cells, stream>>
      \/ /\ posted' = posted + 1
         /\ agentq' \in {agentq, Append(agentq, note)}
         /\ \E b \in {board, Append(board, note)} : \E u : Defer(b, Append(held, note), u)
    BY ReportEffect DEF note
<1>4. CASE UNCHANGED <<board, retracted, posted, agentq, held, cells, stream>>
    BY <1>0, <1>4 DEF NoteTypes, Numbers
<1>5. ASSUME posted' = posted + 1, agentq' \in {agentq, Append(agentq, note)},
             NEW b \in {board, Append(board, note)}, NEW u, Defer(b, Append(held, note), u)
      PROVE  NoteTypes'
  <2>1. posted \in Nat /\ 1 .. posted \subseteq 1 .. posted' /\ posted + 1 \in 1 .. posted'
    BY <1>0, <1>5 DEF NoteTypes
  <2>2. /\ b \in Seq(Note) /\ Numbers(b) \cup Numbers(Append(held, note)) \subseteq 1 .. posted'
        /\ agentq' \in Seq(Note) /\ Numbers(agentq') \subseteq 1 .. posted'
    BY <1>0, <1>2, <1>5, <2>1 DEF NoteTypes
  <2>3. cells \subseteq Note /\ retracted \cup stream \subseteq 1 .. posted' /\ posted' \in Nat
    BY <1>0, <1>5, <2>1 DEF NoteTypes
  <2>4. QED
    BY <1>0, <1>2, <1>5, <2>2, <2>3, DeferTypes
<1>6. QED
    BY <1>3, <1>4, <1>5

LEMMA NoteTypesStep ==
    ASSUME TypeOK, Next
    PROVE  NoteTypes'
<1>0. NoteTypes /\ CountTypes /\ CallTypes
    BY TypeParts
<1>1. ASSUME UNCHANGED <<board, retracted, posted, agentq, held, cells, stream>> PROVE NoteTypes'
    BY <1>0, <1>1 DEF NoteTypes, Numbers
<1>2. CASE SessionStep
    BY <1>1, <1>2 DEF SessionStep, Output, TellPrompt, Finish, Register, Launch, noteVars, loopVars
<1>3. ASSUME NEW r \in Readers, WaitStep(r) PROVE NoteTypes'
    BY <1>1, <1>3 DEF WaitStep, BeginWait, Look, EndWait, Finalize, LookUp, LaunchWaited, Waited,
       noteVars, loopVars
<1>4. ASSUME NEW r \in Readers, NoteStep(r) PROVE NoteTypes'
  <2>1. CASE ReportClaimed(r)
    BY <1>1, <2>1 DEF ReportClaimed, noteVars, loopVars
  <2>2. ASSUME UNCHANGED <<posted, held, cells, stream>>, board' \in {board, <<>>},
               agentq' \in {agentq, <<>>}, retracted' \in {retracted, retracted \cup Numbers(board)}
        PROVE  NoteTypes'
    <3>1. /\ board' \in Seq(Note) /\ Numbers(board') \subseteq 1 .. posted
          /\ agentq' \in Seq(Note) /\ Numbers(agentq') \subseteq 1 .. posted
        BY <1>0, <2>2, EmptyNotes DEF NoteTypes
    <3>2. Numbers(held') = Numbers(held)
        BY <2>2
    <3>3. QED
        BY <1>0, <2>2, <3>1, <3>2 DEF NoteTypes
  <2>3. CASE RetractNotices(r)
    BY <2>2, <2>3 DEF RetractNotices, RetractShell, loopVars
  <2>4. CASE ClaimBoard(r)
    BY <2>2, <2>4 DEF ClaimBoard, RetractShell, loopVars
  <2>5. QED
    BY <1>4, <2>1, <2>3, <2>4 DEF NoteStep
<1>5. CASE RoutedStep
  <2>1. CASE ClaimRouted
    <3>1. agentq' = Without(agentq, ExitsIn(agentq))
          /\ UNCHANGED <<board, retracted, posted, held, cells, stream>>
        BY <2>1 DEF ClaimRouted, loopVars
    <3>2. agentq' \in Seq(Note) /\ Numbers(agentq') \subseteq Numbers(agentq)
        BY <1>0, <3>1, DropNotes DEF NoteTypes
    <3>3. Numbers(held') = Numbers(held) /\ Numbers(board') = Numbers(board)
        BY <3>1
    <3>4. QED
        BY <1>0, <3>1, <3>2, <3>3 DEF NoteTypes
  <2>2. CASE JoinRetracted
    <3>1. calls["agent"].took \subseteq 1 .. posted
        BY <1>0, CallParts DEF Readers
    <3>2. retracted' = retracted \cup calls["agent"].took
          /\ UNCHANGED <<board, agentq, posted, held, cells, stream>>
        BY <2>2 DEF JoinRetracted, loopVars
    <3>3. Numbers(held') = Numbers(held) /\ Numbers(board') = Numbers(board)
          /\ Numbers(agentq') = Numbers(agentq)
        BY <3>2
    <3>4. QED
        BY <1>0, <3>1, <3>2, <3>3 DEF NoteTypes
  <2>3. QED
    BY <1>5, <2>1, <2>2 DEF RoutedStep
<1>6. CASE LoopStep
  <2>1. CASE OnBgEvent
    <3>1. CASE Head(events) \notin {"exited", "waiting"}
        BY <1>1, <2>1, <3>1 DEF OnBgEvent
    <3>2. QED
        BY <2>1, <3>1, EventEffect, ReportTypes
  <2>2. CASE NoticeDelivered
    <3>1. PICK n \in stream :
             /\ stream' = stream \ {n}
             /\ cells' = cells \cup {note \in Range(held) : note.n = n}
             /\ held' = Without(held, {note \in Range(held) : note.n = n})
             /\ UNCHANGED <<board, retracted, posted, agentq>>
        BY <2>2 DEF NoticeDelivered, noteVars
    <3>2. held' \in Seq(Note) /\ Numbers(held') \subseteq Numbers(held)
        BY <1>0, <3>1, DropNotes DEF NoteTypes
    <3>3. cells' \subseteq Note
        BY <1>0, <3>1, NotesAreNotes DEF NoteTypes
    <3>4. Numbers(board') = Numbers(board) /\ Numbers(agentq') = Numbers(agentq)
        BY <3>1
    <3>5. QED
        BY <1>0, <3>1, <3>2, <3>3, <3>4 DEF NoteTypes
  <2>3. CASE LeadReads
    <3>1. /\ board' = <<>> /\ stream' = stream \cup Numbers(board)
          /\ UNCHANGED <<retracted, posted, agentq, held, cells>>
        BY <2>3 DEF LeadReads, HearBoard, loopVars
    <3>2. Numbers(held') = Numbers(held) /\ Numbers(agentq') = Numbers(agentq)
        BY <3>1
    <3>3. QED
        BY <1>0, <3>1, <3>2, EmptyNotes DEF NoteTypes
  <2>4. CASE TurnEnds \/ Interrupt
    <3>1. Dispatch(board, held, unread) /\ posted' = posted /\ agentq' = agentq
        BY <2>4 DEF TurnEnds, Interrupt
    <3>2. agentq' \in Seq(Note) /\ Numbers(agentq') \subseteq 1 .. posted'
        BY <1>0, <3>1 DEF NoteTypes
    <3>3. posted' \in Nat /\ retracted \subseteq 1 .. posted' /\ cells \subseteq Note
          /\ board \in Seq(Note) /\ held \in Seq(Note)
        BY <1>0, <3>1 DEF NoteTypes
    <3>4. QED
        BY <1>0, <3>1, <3>2, <3>3, DispatchTypes
  <2>5. CASE Submit
    BY <1>1, <2>5 DEF Submit, noteVars, loopVars
  <2>6. QED
    BY <1>6, <2>1, <2>2, <2>3, <2>4, <2>5 DEF LoopStep
<1>7. CASE AgentStep
  <2>1. agentq' \in {agentq, <<>>} /\ UNCHANGED <<board, retracted, posted, held, cells, stream>>
    BY <1>7 DEF AgentStep, AgentReads, AgentSettles, AgentStopped, noteVars, loopVars
  <2>2. agentq' \in Seq(Note) /\ Numbers(agentq') \subseteq 1 .. posted
    BY <1>0, <2>1, EmptyNotes DEF NoteTypes
  <2>3. Numbers(held') = Numbers(held) /\ Numbers(board') = Numbers(board)
    BY <2>1
  <2>4. QED
    BY <1>0, <2>1, <2>2, <2>3 DEF NoteTypes
<1>8. QED
    BY <1>2, <1>3, <1>4, <1>5, <1>6, <1>7, Steps

EventKinds == {"started", "waiting", "exited", "observed"}

LEMMA AddEvent ==
    ASSUME NEW s \in Seq(EventKinds), NEW e \in EventKinds
    PROVE  Append(s, e) \in Seq(EventKinds) /\ Range(Append(s, e)) = Range(s) \cup {e}
BY AppendFacts

LEMMA EndTaskTypes ==
    ASSUME StateTypes, NEW seen1 \in BOOLEAN, EndTask(seen1)
    PROVE  /\ task' = "gone"
           /\ unread' \in {"none", "unposted", "posted", "claimed"}
           /\ events' \in Seq(EventKinds)
<1>1. events \in Seq(EventKinds)
    BY DEF StateTypes, EventKinds
<1>2. Append(events, "observed") \in Seq(EventKinds) /\ Append(events, "exited") \in Seq(EventKinds)
    BY <1>1, AddEvent DEF EventKinds
<1>3. QED
    BY <1>1, <1>2 DEF EndTask, StateTypes

LEMMA DeferState ==
    ASSUME CountTypes, turn \in BOOLEAN,
           NEW b \in Seq(Note), NEW h \in Seq(Note),
           NEW u \in {"none", "unposted", "posted", "claimed"}, Defer(b, h, u)
    PROVE  /\ unread' \in {"none", "unposted", "posted", "claimed"} /\ turn' \in BOOLEAN
           /\ notes' \in [Readers -> Nat]
<1>1. CASE turn
    BY <1>1 DEF Defer, CountTypes
<1>2. CASE ~turn
    BY <1>2, DispatchEffect DEF Defer
<1>3. QED
    BY <1>1, <1>2

LEMMA ReportState ==
    ASSUME TypeOK, NEW kind \in {"exit", "waiting"}, ReportCompletion(kind)
    PROVE  /\ unread' \in {"none", "unposted", "posted", "claimed"} /\ turn' \in BOOLEAN
           /\ notes' \in [Readers -> Nat]
<1>0. /\ StateTypes /\ CountTypes
      /\ turn \in BOOLEAN /\ unread \in {"none", "unposted", "posted", "claimed"}
      /\ board \in Seq(Note)
    BY TypeParts DEF StateTypes, NoteTypes
<1> DEFINE note == NewNote(kind)
<1> HIDE DEF note
<1>1. \/ /\ unread' = IF kind = "exit" THEN "none" ELSE unread
         /\ UNCHANGED <<turn, notes>>
      \/ /\ Append(held, note) \in Seq(Note)
         /\ \E b \in Seq(Note), u \in {"none", "posted", unread} : Defer(b, Append(held, note), u)
    BY <1>0, ReportEffect DEF note
<1>2. QED
    BY <1>0, <1>1, DeferState DEF CountTypes

LEMMA StateTypesStep ==
    ASSUME TypeOK, Next
    PROVE  StateTypes'
<1>0. StateTypes /\ CountTypes /\ events \in Seq(EventKinds) /\ NoteTypes
    BY TypeParts DEF StateTypes, EventKinds
<1>1. /\ Append(events, "started") \in Seq(EventKinds)
      /\ Append(events, "waiting") \in Seq(EventKinds)
    BY <1>0, AddEvent DEF EventKinds
<1>2. CASE SessionStep
  <2>1. CASE Output
    BY <1>0, <2>1 DEF Output, StateTypes, loopVars, heardVars
  <2>2. CASE TellPrompt
    BY <1>0, <1>1, <2>2 DEF TellPrompt, StateTypes, heardVars, EventKinds
  <2>3. CASE Finish
    BY <1>0, <2>3 DEF Finish, StateTypes, loopVars, heardVars
  <2>4. CASE Register
    <3>1. CASE monitor = "now"
      <4>1. EndTask(FALSE) /\ monitor' = "done"
            /\ UNCHANGED <<owner, agent, row, turn, watched, dropped>>
        BY <2>4, <3>1 DEF Register, heardVars
      <4>2. QED
        BY <1>0, <4>1, EndTaskTypes DEF StateTypes, EventKinds
    <3>2. CASE monitor # "now"
        BY <1>0, <2>4, <3>2 DEF Register, StateTypes, heardVars
    <3>3. QED
        BY <3>1, <3>2
  <2>5. ASSUME NEW background \in BOOLEAN, Launch(background) PROVE StateTypes'
    BY <1>0, <1>1, <2>5 DEF Launch, StateTypes, heardVars, EventKinds
  <2>6. QED
    BY <1>2, <2>1, <2>2, <2>3, <2>4, <2>5 DEF SessionStep
<1>3. ASSUME NEW r \in Readers, WaitStep(r) PROVE StateTypes'
  <2>1. CASE BeginWait(r) \/ Look(r) \/ LookUp(r)
    BY <1>0, <2>1 DEF BeginWait, Look, LookUp, StateTypes, ioVars, loopVars, heardVars
  <2>2. CASE EndWait(r)
    <3>1. dropped' \in BOOLEAN
        BY <1>0, <2>2 DEF EndWait, Return, StateTypes
    <3>2. QED
        BY <1>0, <2>2, <3>1 DEF EndWait, StateTypes, loopVars
  <2>3. CASE Finalize(r)
    <3> DEFINE observed == calls[r].pc = "observed"
    <3>1. EndTask(observed) /\ observed \in BOOLEAN
        BY <2>3 DEF Finalize
    <3>2. dropped' \in BOOLEAN /\ watched' \in BOOLEAN
        BY <2>3 DEF Finalize, Return
    <3>3. UNCHANGED <<owner, monitor, agent, row, turn>>
        BY <2>3 DEF Finalize
    <3> HIDE DEF observed
    <3>4. QED
        BY <1>0, <3>1, <3>2, <3>3, EndTaskTypes DEF StateTypes, EventKinds
  <2>4. ASSUME NEW end \in Ends, LaunchWaited(r, end) PROVE StateTypes'
    <3>1. events' \in Seq(EventKinds) /\ UNCHANGED <<owner, monitor, task, unread, agent, row, turn,
                                                     watched, dropped>>
        BY <1>0, <1>1, <2>4 DEF LaunchWaited, heardVars
    <3>2. QED
        BY <1>0, <3>1 DEF StateTypes, EventKinds
  <2>5. ASSUME NEW end \in Ends, Waited(r, end) PROVE StateTypes'
    BY <1>0, <2>5 DEF Waited, StateTypes, ioVars, loopVars, heardVars
  <2>6. QED
    BY <1>3, <2>1, <2>2, <2>3, <2>4, <2>5 DEF WaitStep
<1>4. ASSUME NEW r \in Readers, NoteStep(r) PROVE StateTypes'
  <2>1. CASE ReportClaimed(r)
    <3>1. dropped' \in BOOLEAN
        BY <2>1 DEF ReportClaimed, Return
    <3>2. QED
        BY <1>0, <2>1, <3>1 DEF ReportClaimed, StateTypes, loopVars
  <2>2. CASE RetractNotices(r)
    BY <1>0, <2>2 DEF RetractNotices, StateTypes, ioVars, loopVars, heardVars
  <2>3. CASE ClaimBoard(r)
    BY <1>0, <2>3 DEF ClaimBoard, ClaimLeaves, StateTypes, loopVars, heardVars
  <2>4. QED
    BY <1>4, <2>1, <2>2, <2>3 DEF NoteStep
<1>5. CASE RoutedStep \/ AgentStep
    BY <1>0, <1>5 DEF RoutedStep, ClaimRouted, JoinRetracted, AgentStep, AgentReads, AgentSettles,
       AgentStopped, StateTypes, ioVars, loopVars, heardVars
<1>6. CASE LoopStep
  <2>1. CASE OnBgEvent
    <3>1. events' \in Seq(EventKinds) /\ row' \in BOOLEAN
        BY <1>0, <2>1, EventEffect, TailFacts
    <3>2. unread' \in {"none", "unposted", "posted", "claimed"} /\ turn' \in BOOLEAN
        BY <1>0, <2>1, EventEffect, ReportState DEF StateTypes
    <3>3. UNCHANGED <<owner, monitor, task, agent, watched, dropped>>
        BY <2>1 DEF OnBgEvent
    <3>4. QED
        BY <1>0, <3>1, <3>2, <3>3 DEF StateTypes, EventKinds
  <2>2. CASE NoticeDelivered \/ Submit
    BY <1>0, <2>2 DEF NoticeDelivered, Submit, StateTypes, ioVars, loopVars, heardVars
  <2>3. CASE LeadReads
    <3>1. unread' \in {"none", "unposted", "posted", "claimed"}
        BY <1>0, <2>3 DEF LeadReads, HearBoard, StateTypes
    <3>2. QED
        BY <1>0, <2>3, <3>1 DEF LeadReads, StateTypes, loopVars
  <2>4. CASE TurnEnds \/ Interrupt
    <3>1. Dispatch(board, held, unread) /\ UNCHANGED <<owner, monitor, task, events, agent, row,
                                                       watched, dropped>>
        BY <2>4 DEF TurnEnds, Interrupt
    <3>2. board \in Seq(Note) /\ held \in Seq(Note)
        BY <1>0 DEF NoteTypes
    <3>3. unread' \in {"none", "unposted", "posted", "claimed"} /\ turn' \in BOOLEAN
        BY <1>0, <3>1, <3>2, DispatchEffect DEF StateTypes
    <3>4. QED
        BY <1>0, <3>1, <3>3 DEF StateTypes
  <2>5. QED
    BY <1>6, <2>1, <2>2, <2>3, <2>4 DEF LoopStep
<1>7. QED
    BY <1>2, <1>3, <1>4, <1>5, <1>6, Steps

LEMMA CountTypesStep ==
    ASSUME TypeOK, Next
    PROVE  CountTypes'
<1>0. CountTypes /\ IoTypes /\ CallTypes /\ NoteTypes /\ MaxCalls \in Nat /\ MaxInterrupts \in Nat
    BY TypeParts, Bounds
<1>1. ASSUME UNCHANGED <<reports, notes, seen, late, made, interrupts>> PROVE CountTypes'
    BY <1>0, <1>1 DEF CountTypes
<1>2. io.seq \in 0 .. MaxOutput
    BY <1>0 DEF IoTypes, SessionIo
<1>3. ASSUME NEW r \in Readers, seen' = [seen EXCEPT ![r] = io.seq]
      PROVE  seen' \in [Readers -> 0 .. MaxOutput]
    BY <1>0, <1>2, <1>3 DEF CountTypes
<1>4. ASSUME NEW r \in Readers, Return(r), posted' = posted PROVE reports' \in [Readers -> Nat]
    BY <1>0, <1>4, ReturnCall
<1>5. /\ made < MaxCalls => made + 1 \in 0 .. MaxCalls
      /\ interrupts < MaxInterrupts => interrupts + 1 \in 0 .. MaxInterrupts
    BY <1>0 DEF CountTypes
<1>6. CASE SessionStep
    BY <1>1, <1>6 DEF SessionStep, Output, TellPrompt, Finish, Register, Launch, heardVars, boundVars
<1>7. ASSUME NEW r \in Readers, WaitStep(r) PROVE CountTypes'
  <2>1. CASE BeginWait(r)
    BY <1>0, <2>1 DEF BeginWait, CountTypes, boundVars
  <2>2. CASE Look(r)
    BY <1>0, <1>3, <2>2 DEF Look, CountTypes, boundVars
  <2>3. CASE LookUp(r)
    BY <1>0, <1>5, <2>3 DEF LookUp, CountTypes, heardVars
  <2>4. CASE EndWait(r)
    <3>1. reports' \in [Readers -> Nat]
      <4>1. CASE Last
        BY <1>0, <2>4, <4>1 DEF EndWait, Last, CountTypes
      <4>2. CASE ~Last
        BY <1>4, <2>4, <4>2 DEF EndWait, Last, noteVars
      <4>3. QED
        BY <4>1, <4>2
    <3>2. QED
        BY <1>0, <2>4, <3>1 DEF EndWait, CountTypes, boundVars
  <2>5. CASE Finalize(r)
    <3>1. reports' \in [Readers -> Nat]
        BY <1>4, <2>5 DEF Finalize, noteVars
    <3>2. QED
        BY <1>0, <2>5, <3>1 DEF Finalize, CountTypes, boundVars
  <2>6. ASSUME NEW end, Waited(r, end) PROVE CountTypes'
    BY <1>0, <2>6 DEF Waited, CountTypes, boundVars
  <2>7. QED
    BY <1>1, <1>7, <2>1, <2>2, <2>3, <2>4, <2>5, <2>6 DEF WaitStep, LaunchWaited, heardVars, boundVars
<1>8. ASSUME NEW r \in Readers, NoteStep(r) PROVE CountTypes'
  <2>1. CASE RetractNotices(r)
    BY <1>1, <2>1 DEF RetractNotices, heardVars, boundVars
  <2>2. CASE ClaimBoard(r)
    BY <1>0, <1>5, <2>2 DEF ClaimBoard, CountTypes, heardVars
  <2>3. CASE ReportClaimed(r)
    <3>1. reports' \in [Readers -> Nat] /\ seen' \in [Readers -> 0 .. MaxOutput]
        BY <1>3, <1>4, <2>3 DEF ReportClaimed, noteVars
    <3>2. QED
        BY <1>0, <2>3, <3>1 DEF ReportClaimed, CountTypes, boundVars
  <2>4. QED
    BY <1>8, <2>1, <2>2, <2>3 DEF NoteStep
<1>9. CASE RoutedStep
    BY <1>0, <1>1, <1>5, <1>9 DEF RoutedStep, ClaimRouted, JoinRetracted, CountTypes, heardVars, boundVars
<1>10. CASE LoopStep
  <2>1. CASE OnBgEvent
    <3>1. notes' \in [Readers -> Nat]
        BY <1>0, <2>1, EventEffect, ReportState DEF CountTypes
    <3>2. QED
        BY <1>0, <2>1, <3>1 DEF OnBgEvent, CountTypes, boundVars
  <2>2. CASE NoticeDelivered \/ Submit
    BY <1>1, <2>2 DEF NoticeDelivered, Submit, heardVars, boundVars
  <2>3. CASE LeadReads
    <3>1. HearBoard(board, unread) /\ board \in Seq(Note)
        BY <1>0, <2>3 DEF LeadReads, NoteTypes
    <3>2. notes' \in [Readers -> Nat]
        BY <1>0, <3>1, HearBoardEffect
    <3>3. QED
        BY <1>0, <2>3, <3>2 DEF LeadReads, CountTypes, boundVars
  <2>4. CASE TurnEnds \/ Interrupt
    <3>1. Dispatch(board, held, unread) /\ board \in Seq(Note) /\ held \in Seq(Note)
        BY <1>0, <2>4 DEF TurnEnds, Interrupt, NoteTypes
    <3>2. notes' \in [Readers -> Nat]
        BY <1>0, <3>1, DispatchEffect
    <3>3. QED
        BY <1>0, <1>5, <2>4, <3>2 DEF TurnEnds, Interrupt, CountTypes, boundVars
  <2>5. QED
    BY <1>10, <2>1, <2>2, <2>3, <2>4 DEF LoopStep
<1>11. CASE AgentStep
  <2>1. CASE AgentReads
    <3>1. Exits(agentq) \in Nat
        BY <1>0, CountType DEF NoteTypes
    <3>2. notes' = [notes EXCEPT !["agent"] = notes["agent"] + Exits(agentq)]
        BY <2>1 DEF AgentReads
    <3> HIDE DEF Exits
    <3>3. notes' \in [Readers -> Nat]
        BY <1>0, <3>1, <3>2 DEF CountTypes, Readers
    <3>4. QED
        BY <1>0, <2>1, <3>3 DEF AgentReads, CountTypes, boundVars
  <2>2. CASE AgentSettles
    BY <1>1, <2>2 DEF AgentSettles, heardVars, boundVars
  <2>3. CASE AgentStopped
    BY <1>0, <1>5, <2>3 DEF AgentStopped, CountTypes, heardVars
  <2>4. QED
    BY <1>11, <2>1, <2>2, <2>3 DEF AgentStep
<1>12. QED
    BY <1>6, <1>7, <1>8, <1>9, <1>10, <1>11, Steps

LEMMA TypesStep ==
    ASSUME TypeOK, CallsHold, SessionHolds, Next
    PROVE  TypeOK'
BY IoTypesStep, CallTypesStep, NoteTypesStep, StateTypesStep, CountTypesStep, TypeParts

-----------------------------------------------------------------------------
(* The calls and the session's life.                                       *)

\* A call keeps its bargain through a step of somebody else's.
LEMMA OtherCall ==
    ASSUME NEW q \in Readers, CallHolds(q), calls'[q] = calls[q], owner' = owner,
           q \in late' <=> q \in late,
           io.reported => io'.reported,
           io.finished => io'.finished,
           io.finalized => io'.finalized,
           io'.finalized => io.finalized \/ calls[q].pc \notin InWait,
           calls[q].pc \in {"launched", "launchlook"} => io'.told = io.told,
           calls[q].pc \in Finalizing => task' # "gone" /\ monitor' # "now",
           task = "gone" => task' = "gone", task' = "none" => task = "none"
    PROVE  CallHolds(q)'
BY DEF CallHolds, InWait, Finalizing, Claiming

LEMMA Waiters ==
    ASSUME SessionHolds
    PROVE  /\ io.waiters = 0 => \A r \in Readers : calls[r].pc \notin InWait
           /\ \A r, q \in Readers : r # q /\ calls[r].pc \in InWait /\ io.waiters = 1
                  => calls[q].pc \notin InWait
           /\ \A r \in Readers : calls[r].pc \in InWait => io.waiters \in 1 .. 2
           /\ \A r \in Readers : calls[r].pc \notin InWait => io.waiters \in 0 .. 1
BY DEF SessionHolds, Waits, Readers

\* The session's part, when the calls and the session stay.
LEMMA SessionFrame ==
    ASSUME SessionHolds, calls' = calls, UNCHANGED <<task, monitor, late>>,
           io'.waiters = io.waiters, io'.announced = io.announced, io'.finished = io.finished,
           io'.told = io.told, io'.finalized = io.finalized
    PROVE  SessionHolds'
BY DEF SessionHolds, Waits

LEMMA CallsFrame ==
    ASSUME CallsHold, SessionHolds, UNCHANGED <<io, monitor, task, owner, calls, late>>
    PROVE  CallsHold' /\ SessionHolds'
<1>1. CallsHold'
    BY OtherCall DEF CallsHold, CallHolds
<1>2. SessionHolds'
    BY SessionFrame
<1>3. QED
    BY <1>1, <1>2

LEMMA SessionCalls ==
    ASSUME TypeOK, CallsHold, SessionHolds, SessionStep
    PROVE  CallsHold' /\ SessionHolds'
<1>0. IoTypes /\ CallTypes /\ owner \in Readers
    BY TypeParts, OwnersAssumption DEF StateTypes
<1>1. CASE Output
  <2>1. /\ io'.waiters = io.waiters /\ io'.announced = io.announced
        /\ io'.finished = io.finished /\ io'.finalized = io.finalized
        /\ io'.reported = io.reported /\ io'.told = io.told
    BY <1>0, <1>1, OutputIo
  <2>2. UNCHANGED <<owner, monitor, task, calls, late>>
    BY <1>1 DEF Output, heardVars
  <2>3. CallsHold'
    <3>1. ASSUME NEW q \in Readers PROVE CallHolds(q)'
        BY <2>1, <2>2, OtherCall DEF CallsHold, CallHolds
    <3>2. QED
        BY <3>1 DEF CallsHold
  <2>4. QED
    BY <2>1, <2>2, <2>3, SessionFrame
<1>2. CASE TellPrompt
  <2>1. /\ io'.waiters = io.waiters /\ io'.announced = io.announced
        /\ io'.finished = io.finished /\ io'.finalized = io.finalized
        /\ io'.reported = io.reported
    BY <1>0, <1>2, TellPromptIo
  <2>2. UNCHANGED <<owner, monitor, task, calls, late>> /\ io.waiters = 0 /\ io.announced
    BY <1>2 DEF TellPrompt, heardVars
  <2>3. \A q \in Readers : calls[q].pc \notin {"launched", "launchlook"}
    BY <2>2, Waiters DEF InWait
  <2>4. CallsHold'
    <3>1. ASSUME NEW q \in Readers PROVE CallHolds(q)'
        BY <2>1, <2>2, <2>3, OtherCall DEF CallsHold, CallHolds
    <3>2. QED
        BY <3>1 DEF CallsHold
  <2>5. SessionHolds'
    BY <2>1, <2>2 DEF SessionHolds, Waits
  <2>6. QED
    BY <2>4, <2>5
<1>3. CASE Finish
  <2>1. /\ io'.waiters = io.waiters /\ io'.announced = io.announced
        /\ io'.finished /\ (io'.finalized <=> io.waiters = 0)
        /\ io'.reported = io.reported /\ io'.told = io.told
    BY <1>0, <1>3, FinishIo
  <2>2. /\ UNCHANGED <<owner, task, calls, late>> /\ task = "live" /\ ~io.finished
        /\ monitor' = IF io.waiters = 0 THEN "now" ELSE "waiter"
    BY <1>3 DEF Finish, heardVars
  <2>3. ~io.finalized /\ \A q \in Readers : calls[q].pc \notin Finalizing
    BY <2>2 DEF SessionHolds, CallsHold, CallHolds
  <2>4. io.waiters = 0 => \A q \in Readers : calls[q].pc \notin InWait
    BY Waiters
  <2>5. CallsHold'
    <3>1. ASSUME NEW q \in Readers PROVE CallHolds(q)'
        BY <2>1, <2>2, <2>3, <2>4, OtherCall DEF CallsHold
    <3>2. QED
        BY <3>1 DEF CallsHold
  <2>6. SessionHolds'
    BY <2>1, <2>2, <2>3 DEF SessionHolds, Waits
  <2>7. QED
    BY <2>5, <2>6
<1>4. CASE Register
  <2>1. /\ UNCHANGED <<io, owner, calls, late>> /\ monitor' = "done"
        /\ monitor = "now" => task' = "gone"
        /\ monitor # "now" => task' \in {task, "exited"} /\ (task # "live" => task' = task)
    BY <1>4 DEF Register, EndTask, heardVars
  <2>2. monitor = "now" => io.finalized /\ \A q \in Readers : calls[q].pc \notin Finalizing
    BY DEF SessionHolds, CallsHold, CallHolds
  <2>3. CallsHold'
    <3>1. ASSUME NEW q \in Readers PROVE CallHolds(q)'
      <4>1. calls[q].pc \in Finalizing => task' # "gone" /\ monitor' # "now"
        BY <2>1, <2>2 DEF CallsHold, CallHolds
      <4>2. QED
        BY <2>1, <4>1, OtherCall DEF CallsHold
    <3>2. QED
        BY <3>1 DEF CallsHold
  <2>4. SessionHolds'
    BY <2>1, <2>2 DEF SessionHolds, Waits
  <2>5. QED
    BY <2>3, <2>4
<1>5. ASSUME NEW background \in BOOLEAN, Launch(background) PROVE CallsHold' /\ SessionHolds'
  <2>1. /\ io'.waiters = IF background THEN 0 ELSE 1
        /\ io'.announced <=> background
        /\ io'.finished = io.finished /\ io'.finalized = io.finalized
        /\ io'.reported = io.reported /\ io'.told = io.told
    BY <1>0, <1>5, LaunchIo DEF Launch
  <2>2. /\ UNCHANGED <<owner, monitor, late>> /\ task = "none" /\ task' = "live"
        /\ calls[owner].pc = "idle" /\ posted' = posted
    BY <1>5 DEF Launch, Calling, heardVars, noteVars
  <2>3. /\ io.told = 0 /\ io.waiters = 0 /\ ~io.finished /\ ~io.finalized
        /\ late = {} /\ \A q \in Readers : calls[q].pc \notin InWait
    BY <2>2, Waiters DEF SessionHolds
  <2>4. \A q \in Readers : calls[q].pc \notin Finalizing \cup Claiming
    BY <2>2, <2>3 DEF CallsHold, CallHolds
  <2>5. CASE background
    <3>1. calls' = calls
        BY <1>5, <2>5 DEF Launch
    <3>2. ASSUME NEW q \in Readers PROVE CallHolds(q)'
        BY <2>1, <2>2, <2>4, <3>1, OtherCall DEF CallsHold
    <3>3. SessionHolds'
        BY <2>1, <2>2, <2>3, <2>5, <3>1 DEF SessionHolds, Waits
    <3>4. QED
        BY <3>2, <3>3 DEF CallsHold
  <2>6. CASE ~background
    <3>1. CallBecomes(owner, "launched", "none", calls[owner].took, calls[owner].lost)
      <4>1. GotoWith(owner, "launched", "none")
        BY <1>5, <2>6 DEF Launch
      <4>2. "launched" \in Pcs /\ "none" \in Ends \cup {"none"}
        BY DEF Pcs
      <4>3. QED
        BY <1>0, <2>2, <4>1, <4>2, GotoWithCall
    <3>2. ASSUME NEW q \in Readers, q # owner PROVE CallHolds(q)'
        BY <2>1, <2>2, <2>4, <3>1, <3>2, OtherCall DEF CallsHold, CallBecomes
    <3>3. CallHolds(owner)'
        BY <2>1, <2>2, <2>3, <3>1 DEF CallHolds, CallBecomes, InWait, Finalizing, Claiming, Covers
    <3>4. SessionHolds'
        BY <1>0, <2>1, <2>2, <2>3, <2>6, <3>1 DEF SessionHolds, Waits, CallBecomes, InWait, Readers, Finalizing
    <3>5. QED
        BY <2>2, <3>2, <3>3, <3>4 DEF CallsHold
  <2>7. QED
    BY <2>5, <2>6
<1>6. QED
    BY <1>1, <1>2, <1>3, <1>4, <1>5 DEF SessionStep

LEMMA EndsAllowed ==
    ASSUME NEW r \in Readers, NEW end \in Ends, MayEnd(r, end)
    PROVE  /\ end = "exited" => io.finished
           /\ end = "stopped" /\ ~GivesUp(r, end) => io.finished \/ calls[r].lost
           /\ end = "running" => ~io.finished
           /\ end \in {"cancelled", "handoff"} => ~io.finalized
BY DEF MayEnd, GivesUp, Ends

LEMMA WaitCallsHold ==
    ASSUME TypeOK, CallsHold, SessionHolds, NEW r \in Readers, WaitStep(r)
    PROVE  CallsHold' /\ SessionHolds'
<1>0. IoTypes /\ CallTypes /\ CountTypes
    BY TypeParts
<1>1. CASE BeginWait(r)
  <2>1. /\ CallBecomes(r, "waiting", calls[r].end, calls[r].took, calls[r].lost)
        /\ calls[r].pc = "found" /\ UNCHANGED <<task, monitor, owner>>
        /\ late' = IF io.finalized THEN late \cup {r} ELSE late
    BY <1>1, WaitCalls DEF BeginWait
  <2>2. /\ io'.waiters = io.waiters + 1 /\ io'.announced = io.announced
        /\ io'.finished = io.finished /\ io'.finalized = io.finalized
        /\ io'.reported = io.reported /\ io'.told = io.told
    BY <1>0, <1>1, <2>1, Waiters, BeginWaitIo DEF InWait
  <2>3. ASSUME NEW q \in Readers, q # r PROVE CallHolds(q)'
    BY <2>1, <2>2, <2>3, OtherCall DEF CallsHold, CallHolds, CallBecomes
  <2>4. CallHolds(r)'
    BY <2>1, <2>2 DEF CallsHold, CallHolds, CallBecomes, InWait, Finalizing, Claiming, Covers
  <2>5. SessionHolds'
    BY <2>1, <2>2 DEF SessionHolds, CallsHold, CallHolds, Waits, CallBecomes, InWait, Readers, Finalizing
  <2>6. QED
    BY <2>3, <2>4, <2>5 DEF CallsHold
<1>2. CASE Look(r)
  <2> DEFINE pc == IF calls[r].pc = "look" THEN "retract" ELSE "ending"
  <2>1. /\ CallBecomes(r, pc, calls[r].end, calls[r].took, calls[r].lost)
        /\ calls[r].pc \in {"launchlook", "look"} /\ UNCHANGED <<task, monitor, owner, late>>
    BY <1>2, WaitCalls DEF Look
  <2>2. /\ io'.waiters = io.waiters /\ io'.announced = io.announced
        /\ io'.finished = io.finished /\ io'.finalized = io.finalized
        /\ (io'.reported <=> io.reported \/ Covers(calls[r].end)) /\ io'.told = io.told
    BY <1>0, <1>2, LookIo DEF Look
  <2>3. ASSUME NEW q \in Readers, q # r PROVE CallHolds(q)'
    BY <2>1, <2>2, <2>3, OtherCall DEF CallsHold, CallHolds, CallBecomes
  <2>4. CallHolds(r)'
    BY <2>1, <2>2 DEF CallsHold, CallHolds, CallBecomes, InWait, Finalizing, Claiming
  <2>5. SessionHolds'
    BY <2>1, <2>2 DEF SessionHolds, Waits, CallBecomes, InWait, Readers, Finalizing
  <2>6. QED
    BY <2>3, <2>4, <2>5 DEF CallsHold
<1>3. CASE EndWait(r)
  <2>1. /\ calls[r].pc = "ending" /\ io.waiters \in 1 .. 2
        /\ UNCHANGED <<task, monitor, owner, late>> /\ posted' = posted
    BY <1>3, Waiters DEF EndWait, InWait, noteVars
  <2>2. /\ io'.waiters = io.waiters - 1 /\ io'.announced = io.announced
        /\ io'.finished = io.finished /\ io'.reported = io.reported /\ io'.told = io.told
        /\ (io'.finalized <=> io.finalized \/ Last)
    BY <1>0, <1>3, <2>1, EndWaitIo
  <2>3. Last => \A q \in Readers : q # r => calls[q].pc \notin InWait
    BY <2>1, Waiters DEF Last, InWait
  <2>4. \E pc, end, took, lost :
            /\ CallBecomes(r, pc, end, took, lost)
            /\ Last => /\ pc = IF io.reported THEN "observed" ELSE "unobserved"
                       /\ end = calls[r].end /\ lost = calls[r].lost
            /\ ~Last => pc = "idle" /\ end = "none"
    <3>1. CASE Last
        BY <1>3, <3>1, WaitCalls
    <3>2. CASE ~Last
      <4>1. Return(r)
        BY <1>3, <3>2 DEF EndWait, Last
      <4>2. QED
        BY <1>0, <2>1, <3>2, <4>1, ReturnCall
    <3>3. QED
        BY <3>1, <3>2
  <2>5. ASSUME NEW q \in Readers, q # r PROVE CallHolds(q)'
    BY <2>1, <2>2, <2>3, <2>4, <2>5, OtherCall DEF CallsHold, CallHolds, CallBecomes
  <2>6. CallHolds(r)'
    <3>1. CASE Last
        BY <2>1, <2>2, <2>4, <3>1 DEF CallsHold, CallHolds, CallBecomes, InWait, Finalizing, Claiming, SessionHolds, Last
    <3>2. CASE ~Last
        BY <2>1, <2>2, <2>4, <3>2 DEF CallHolds, CallBecomes, InWait, Finalizing, Claiming, Covers
    <3>3. QED
        BY <3>1, <3>2
  <2>7. SessionHolds'
    <3>1. CASE Last
      <4>1. \A q \in Readers : calls[q].pc \notin Finalizing
        BY <3>1 DEF CallsHold, CallHolds, Last
      <4>2. QED
        BY <2>1, <2>2, <2>4, <3>1, <4>1 DEF SessionHolds, Waits, CallBecomes, InWait, Readers, Finalizing, Last
    <3>2. CASE ~Last
        BY <2>1, <2>2, <2>4, <3>2 DEF SessionHolds, Waits, CallBecomes, InWait, Readers, Finalizing
    <3>3. QED
        BY <3>1, <3>2
  <2>8. QED
    BY <2>5, <2>6, <2>7 DEF CallsHold
<1>4. CASE Finalize(r)
  <2>1. /\ calls[r].pc \in Finalizing /\ task' = "gone" /\ posted' = posted
        /\ UNCHANGED <<io, monitor, owner, late>> /\ Return(r)
    BY <1>4 DEF Finalize, EndTask, Finalizing, noteVars
  <2>2. CallBecomes(r, "idle", "none", {}, FALSE)
    BY <1>0, <2>1, ReturnCall
  <2>3. \A q \in Readers : q # r => calls[q].pc \notin Finalizing
    BY <2>1 DEF SessionHolds, Readers
  <2>4. ASSUME NEW q \in Readers, q # r PROVE CallHolds(q)'
    BY <2>1, <2>2, <2>3, <2>4, OtherCall DEF CallsHold, CallBecomes
  <2>5. CallHolds(r)'
    BY <2>1, <2>2 DEF CallHolds, CallBecomes, InWait, Finalizing, Claiming, Covers
  <2>6. SessionHolds'
    BY <2>1, <2>2, <2>3 DEF SessionHolds, CallsHold, CallHolds, Waits, CallBecomes, InWait, Readers, Finalizing
  <2>7. QED
    BY <2>4, <2>5, <2>6 DEF CallsHold
<1>5. CASE LookUp(r)
  <2>1. /\ CallBecomes(r, "found", calls[r].end, calls[r].took, calls[r].lost)
        /\ calls[r].pc = "idle" /\ UNCHANGED <<io, task, monitor, owner, late>> /\ task # "none"
    BY <1>5, WaitCalls DEF LookUp, Calling, ioVars, heardVars
  <2>2. ASSUME NEW q \in Readers, q # r PROVE CallHolds(q)'
    BY <2>1, <2>2, OtherCall DEF CallsHold, CallHolds, CallBecomes
  <2>3. CallHolds(r)'
    BY <2>1 DEF CallsHold, CallHolds, CallBecomes, InWait, Finalizing, Claiming, Covers
  <2>4. SessionHolds'
    BY <2>1 DEF SessionHolds, Waits, CallBecomes, InWait, Readers, Finalizing
  <2>5. QED
    BY <2>2, <2>3, <2>4 DEF CallsHold
<1>6. ASSUME NEW end \in Ends, LaunchWaited(r, end) PROVE CallsHold' /\ SessionHolds'
  <2>1. /\ CallBecomes(r, LaunchedTo(end), end, calls[r].took, calls[r].lost)
        /\ calls[r].pc = "launched" /\ UNCHANGED <<task, monitor, owner, late>>
        /\ end \notin {"stopped", "refused"} /\ MayEnd(r, end)
    BY <1>6, WaitCalls DEF LaunchWaited, heardVars
  <2>2. /\ io'.waiters = io.waiters
        /\ io'.announced <=> io.announced \/ end \in {"running", "handoff"}
        /\ io'.finished = io.finished /\ io'.finalized = io.finalized
        /\ io'.reported = io.reported /\ io'.told = io.told
    BY <1>0, <1>6, LaunchWaitedIo
  <2>3. ASSUME NEW q \in Readers, q # r PROVE CallHolds(q)'
    BY <2>1, <2>2, <2>3, OtherCall DEF CallsHold, CallHolds, CallBecomes
  <2>4. CallHolds(r)'
    BY <2>1, <2>2, EndsAllowed DEF CallsHold, CallHolds, CallBecomes, LaunchedTo, InWait, Finalizing,
       Claiming, Covers, Ends
  <2>5. task # "none"
    BY <2>1, Waiters DEF SessionHolds, InWait
  <2>6. SessionHolds'
    BY <2>1, <2>2, <2>5 DEF SessionHolds, Waits, CallBecomes, LaunchedTo, InWait, Readers, Finalizing
  <2>7. QED
    BY <2>3, <2>4, <2>6 DEF CallsHold
<1>7. ASSUME NEW end \in Ends, Waited(r, end) PROVE CallsHold' /\ SessionHolds'
  <2>1. /\ CallBecomes(r, WaitedTo(end), end, calls[r].took, calls[r].lost)
        /\ calls[r].pc = "waiting" /\ UNCHANGED <<io, task, monitor, owner>>
        /\ late' = IF GivesUp(r, end) THEN late \cup {r} ELSE late
        /\ MayEnd(r, end)
    BY <1>7, WaitCalls DEF Waited, ioVars
  <2>2. ASSUME NEW q \in Readers, q # r PROVE CallHolds(q)'
    BY <2>1, <2>2, OtherCall DEF CallsHold, CallHolds, CallBecomes
  <2>3. io.finalized => io.finished
    BY DEF SessionHolds
  <2>4. CallHolds(r)'
    BY <2>1, <2>3, EndsAllowed DEF CallsHold, CallHolds, CallBecomes, WaitedTo, InWait, Finalizing,
       Claiming, Covers, Ends
  <2>5. task # "none"
    BY <2>1, Waiters DEF SessionHolds, InWait
  <2>6. SessionHolds'
    BY <2>1, <2>5 DEF SessionHolds, Waits, CallBecomes, WaitedTo, InWait, Readers, Finalizing
  <2>7. QED
    BY <2>2, <2>4, <2>6 DEF CallsHold
<1>8. QED
    BY <1>1, <1>2, <1>3, <1>4, <1>5, <1>6, <1>7 DEF WaitStep

LEMMA NoteCallsHold ==
    ASSUME TypeOK, CallsHold, SessionHolds, NEW r \in Readers, NoteStep(r)
    PROVE  CallsHold' /\ SessionHolds'
<1>0. IoTypes /\ CallTypes /\ CountTypes /\ NoteTypes
    BY TypeParts
<1>1. CASE RetractNotices(r)
  <2>1. /\ \E pc, took : /\ CallBecomes(r, pc, calls[r].end, took, calls[r].lost)
                         /\ pc = IF r = "lead" THEN "ending" ELSE "retracting"
        /\ calls[r].pc = "retract" /\ UNCHANGED <<io, task, monitor, owner, late>>
    BY <1>0, <1>1, RetractCall DEF RetractNotices, ioVars, heardVars, Readers
  <2>2. ASSUME NEW q \in Readers, q # r PROVE CallHolds(q)'
    BY <2>1, <2>2, OtherCall DEF CallsHold, CallHolds, CallBecomes
  <2>3. CallHolds(r)'
    BY <2>1 DEF CallsHold, CallHolds, CallBecomes, InWait, Finalizing, Claiming, Readers
  <2>4. SessionHolds'
    BY <2>1 DEF SessionHolds, Waits, CallBecomes, InWait, Readers, Finalizing
  <2>5. QED
    BY <2>2, <2>3, <2>4 DEF CallsHold
<1>2. CASE ClaimBoard(r)
  <2>1. /\ calls[r].pc = "idle" /\ UNCHANGED <<io, task, monitor, owner, late>> /\ task = "gone"
        /\ io.finished
    BY <1>2 DEF ClaimBoard, Calling, heardVars, SessionHolds
  <2>2. CASE ClaimableBy(r)
    <3>1. CallBecomes(r, "claimed", "exited", calls[r].took, calls[r].lost)
        BY <1>0, <1>2, <2>2, ClaimBoardCall
    <3>2. ASSUME NEW q \in Readers, q # r PROVE CallHolds(q)'
        BY <2>1, <3>1, <3>2, OtherCall DEF CallsHold, CallHolds, CallBecomes
    <3>3. CallHolds(r)'
        BY <2>1, <3>1 DEF CallsHold, CallHolds, CallBecomes, InWait, Finalizing, Claiming
    <3>4. SessionHolds'
        BY <2>1, <3>1 DEF SessionHolds, Waits, CallBecomes, InWait, Readers, Finalizing
    <3>5. QED
        BY <3>2, <3>3, <3>4 DEF CallsHold
  <2>3. CASE ~ClaimableBy(r)
    <3>1. calls' = calls
        BY <1>0, <1>2, <2>3, ClaimBoardCall
    <3>2. QED
        BY <2>1, <3>1, CallsFrame
  <2>4. QED
    BY <2>2, <2>3
<1>3. CASE ReportClaimed(r)
  <2>1. /\ calls[r].pc = "claimed" /\ UNCHANGED <<task, monitor, owner, late>>
        /\ CallBecomes(r, "idle", "none", {}, FALSE)
    <3>1. Return(r) /\ posted' = posted
        BY <1>3 DEF ReportClaimed, noteVars
    <3>2. CallBecomes(r, "idle", "none", {}, FALSE)
        BY <1>0, <3>1, ReturnCall
    <3>3. QED
        BY <1>3, <3>2 DEF ReportClaimed
  <2>2. /\ io'.waiters = io.waiters /\ io'.announced = io.announced
        /\ io'.finished = io.finished /\ io'.finalized = io.finalized
        /\ (io'.reported <=> io.reported \/ Covers(calls[r].end)) /\ io'.told = io.told
    BY <1>0, <1>3, LookIo DEF ReportClaimed
  <2>3. ASSUME NEW q \in Readers, q # r PROVE CallHolds(q)'
    BY <2>1, <2>2, <2>3, OtherCall DEF CallsHold, CallHolds, CallBecomes
  <2>4. CallHolds(r)'
    BY <2>1 DEF CallHolds, CallBecomes, InWait, Finalizing, Claiming, Covers
  <2>5. SessionHolds'
    BY <2>1, <2>2 DEF SessionHolds, Waits, CallBecomes, InWait, Readers, Finalizing
  <2>6. QED
    BY <2>3, <2>4, <2>5 DEF CallsHold
<1>4. QED
    BY <1>1, <1>2, <1>3 DEF NoteStep

LEMMA OtherCallsHold ==
    ASSUME TypeOK, CallsHold, SessionHolds, RoutedStep \/ LoopStep \/ AgentStep
    PROVE  CallsHold' /\ SessionHolds'
<1>0. CallTypes /\ NoteTypes /\ "lead" \in Readers /\ "agent" \in Readers
    BY TypeParts DEF Readers
<1>1. UNCHANGED <<io, monitor, task, owner, late>>
    BY DEF RoutedStep, LoopStep, AgentStep, ClaimRouted, JoinRetracted, OnBgEvent,
       NoticeDelivered, LeadReads, TurnEnds, Interrupt, Submit, AgentReads, AgentSettles,
       AgentStopped, ioVars, heardVars
<1>2. ASSUME NEW r \in Readers, NEW pc, NEW end, NEW took, NEW lost,
             CallBecomes(r, pc, end, took, lost), CallHolds(r)',
             (pc \in InWait <=> calls[r].pc \in InWait), (pc \in Finalizing <=> calls[r].pc \in Finalizing)
      PROVE  CallsHold' /\ SessionHolds'
  <2>1. ASSUME NEW q \in Readers, q # r PROVE CallHolds(q)'
    BY <1>1, <1>2, <2>1, OtherCall DEF CallsHold, CallHolds, CallBecomes
  <2>2. SessionHolds'
    BY <1>1, <1>2 DEF SessionHolds, Waits, CallBecomes, Readers
  <2>3. QED
    BY <1>2, <2>1, <2>2 DEF CallsHold
<1>3. CASE ClaimRouted
  <2>1. /\ CallBecomes("agent", "claiming", "exited", {note.n : note \in ExitsIn(agentq)},
                       calls["agent"].lost)
        /\ calls["agent"].pc = "idle" /\ task = "gone" /\ io.finished
    BY <1>0, <1>3, ClaimRoutedCall DEF ClaimRouted, Calling, SessionHolds
  <2>2. CallHolds("agent")'
    BY <1>1, <2>1 DEF CallsHold, CallHolds, CallBecomes, InWait, Finalizing, Claiming
  <2>3. QED
    BY <1>0, <1>2, <2>1, <2>2 DEF InWait, Finalizing
<1>4. CASE JoinRetracted
  <2> DEFINE pc == IF calls["agent"].pc = "claiming" THEN "claimed" ELSE "ending"
  <2>1. /\ CallBecomes("agent", pc, calls["agent"].end, calls["agent"].took, calls["agent"].lost)
        /\ calls["agent"].pc \in {"claiming", "retracting"}
    <3>1. Goto("agent", pc) /\ posted' = posted /\ pc \in Pcs
        BY <1>4 DEF JoinRetracted, Pcs
    <3>2. calls["agent"].pc \in {"claiming", "retracting"}
        BY <1>4 DEF JoinRetracted
    <3> HIDE DEF pc
    <3>3. QED
        BY <1>0, <3>1, <3>2, GotoCall
  <2>2. CallHolds("agent")'
    BY <1>0, <1>1, <2>1 DEF CallsHold, CallHolds, CallBecomes, InWait, Finalizing, Claiming
  <2>3. /\ pc \in InWait <=> calls["agent"].pc \in InWait
        /\ pc \in Finalizing <=> calls["agent"].pc \in Finalizing
    BY <2>1 DEF InWait, Finalizing
  <2> HIDE DEF pc
  <2>4. QED
    BY <1>0, <1>2, <2>1, <2>2, <2>3
<1>5. CASE Interrupt
  <2>1. /\ CallBecomes("lead", calls["lead"].pc, calls["lead"].end, calls["lead"].took, TRUE)
        /\ calls["lead"].pc # "idle"
    BY <1>0, <1>5, LostCall DEF Interrupt
  <2>2. CallHolds("lead")'
    BY <1>0, <1>1, <2>1 DEF CallsHold, CallHolds, CallBecomes, InWait, Finalizing, Claiming
  <2>3. QED
    BY <1>0, <1>2, <2>1, <2>2
<1>6. CASE AgentStopped
  <2> DEFINE lost == calls["agent"].pc # "idle"
  <2>1. CallBecomes("agent", calls["agent"].pc, calls["agent"].end, calls["agent"].took, lost)
    <3>1. /\ calls' = [calls EXCEPT !["agent"].lost = lost] /\ posted' = posted
          /\ lost \in BOOLEAN
        BY <1>6 DEF AgentStopped
    <3> HIDE DEF lost
    <3>2. QED
        BY <1>0, <3>1, LostCall
  <2>2. CallHolds("agent")'
    BY <1>0, <1>1, <2>1 DEF CallsHold, CallHolds, CallBecomes, InWait, Finalizing, Claiming, Covers
  <2> HIDE DEF lost
  <2>3. QED
    BY <1>0, <1>2, <2>1, <2>2
<1>7. CASE OnBgEvent \/ NoticeDelivered \/ LeadReads \/ TurnEnds \/ Submit \/ AgentReads \/ AgentSettles
  <2>1. calls' = calls
    BY <1>7 DEF OnBgEvent, NoticeDelivered, LeadReads, TurnEnds, Submit, AgentReads, AgentSettles
  <2>2. QED
    BY <1>1, <2>1, CallsFrame
<1>8. QED
    BY <1>3, <1>4, <1>5, <1>6, <1>7 DEF RoutedStep, LoopStep, AgentStep

LEMMA CallsStep ==
    ASSUME TypeOK, CallsHold, SessionHolds, Next
    PROVE  CallsHold' /\ SessionHolds'
BY SessionCalls, WaitCallsHold, NoteCallsHold, OtherCallsHold, Steps

-----------------------------------------------------------------------------
(* The notes keep apart.                                                   *)

LEMMA FewerNotes ==
    ASSUME NotesHold, Range(board)' \subseteq Range(board), Range(agentq)' \subseteq Range(agentq),
           Range(held)' \subseteq Range(held), owner' = owner, agentq = <<>> => agentq' = <<>>,
           ~turn' => board' = <<>> /\ held' = <<>>
    PROVE  NotesHold'
<1>1. Pending' \subseteq Pending
    BY DEF Pending
<1>2. QED
    BY <1>1 DEF NotesHold

LEMMA SameNotes ==
    ASSUME NotesHold, UNCHANGED <<board, agentq, held, owner, turn>>
    PROVE  NotesHold'
BY DEF NotesHold, Pending

LEMMA DeferLeaves ==
    ASSUME NEW b, NEW h, NEW u, Defer(b, h, u)
    PROVE  /\ board' \in {b, <<>>} /\ held' \in {h, <<>>}
           /\ ~turn' => board' = <<>> /\ held' = <<>>
BY DEF Defer, Dispatch, HearBoard

\* A new note is like no other.
LEMMA NewNoteApart ==
    ASSUME TypeOK, NEW kind \in {"exit", "waiting"}
    PROVE  /\ NewNote(kind) \in Note /\ NewNote(kind).n = posted + 1 /\ NewNote(kind).kind = kind
           /\ NewNote(kind).at = io.told
           /\ \A note \in Pending : note.n # posted + 1
           /\ NewNote(kind) \notin Pending
           /\ posted + 1 \notin retracted \cup stream
           /\ \A r \in Readers : posted + 1 \notin calls[r].took
<1>1. NewNote(kind) \in Note /\ NewNote(kind).n = posted + 1 /\ NewNote(kind).kind = kind
      /\ NewNote(kind).at = io.told
    BY DEF NewNote, Note, TypeOK
<1>2. posted \in Nat /\ posted + 1 \notin 1 .. posted
    BY DEF TypeOK
<1>3. \A note \in Pending : note.n \in 1 .. posted
    BY DEF TypeOK, Pending, Numbers
<1>4. retracted \cup stream \subseteq 1 .. posted
    BY DEF TypeOK
<1>5. \A r \in Readers : calls[r].took \subseteq 1 .. posted
    BY TypeParts, CallParts
<1>6. QED
    BY <1>1, <1>2, <1>3, <1>4, <1>5

LEMMA ReportKeepsApart ==
    ASSUME TypeOK, NotesHold, owner' = owner, NEW kind \in {"exit", "waiting"}, ReportCompletion(kind),
           kind = "exit" => \A note \in Pending : note.kind # "exit"
    PROVE  NotesHold'
<1> DEFINE note == NewNote(kind)
<1>1. /\ note \in Note /\ note.n = posted + 1 /\ note.kind = kind
      /\ \A other \in Pending : other.n # posted + 1
      /\ note \notin Pending
    BY NewNoteApart
<1>2. board \in Seq(Note) /\ held \in Seq(Note) /\ agentq \in Seq(Note)
    BY DEF TypeOK
<1>3. \/ UNCHANGED <<board, agentq, held, turn>>
      \/ /\ Routed /\ agentq' = Append(agentq, note)
         /\ \E u : Defer(board, Append(held, note), u)
      \/ /\ agentq' = agentq
         /\ \E u : Defer(Append(board, note), Append(held, note), u)
    BY ReportEffect
<1> HIDE DEF note
<1>4. /\ Range(Append(board, note)) = Range(board) \cup {note}
      /\ Range(Append(held, note)) = Range(held) \cup {note}
      /\ Range(Append(agentq, note)) = Range(agentq) \cup {note}
      /\ Range(<<>>) = {}
    BY <1>1, <1>2, AddNote, EmptyNotes
<1>5. \A a, b \in Pending \cup {note} : a.n = b.n \/ (a.kind = "exit" /\ b.kind = "exit") => a = b
    BY <1>1 DEF NotesHold
<1>6. Range(board) \cap Range(agentq) = {} /\ note \notin Range(board) /\ note \notin Range(agentq)
    BY <1>1 DEF NotesHold, Pending
<1>7. CASE UNCHANGED <<board, agentq, held, turn>>
    BY <1>7, SameNotes
<1>8. ASSUME Routed, agentq' = Append(agentq, note), NEW u, Defer(board, Append(held, note), u)
      PROVE  NotesHold'
  <2>1. /\ board' \in {board, <<>>} /\ held' \in {Append(held, note), <<>>}
        /\ ~turn' => board' = <<>> /\ held' = <<>>
    BY <1>8, DeferLeaves
  <2>2. /\ Range(board') \subseteq Range(board) /\ Range(held') \subseteq Range(held) \cup {note}
        /\ Range(agentq') = Range(agentq) \cup {note}
    BY <1>4, <1>8, <2>1
  <2>3. Pending' \subseteq Pending \cup {note}
    BY <2>2 DEF Pending
  <2>4. Range(board') \cap Range(agentq') = {}
    BY <1>6, <2>2
  <2>5. QED
    BY <1>5, <1>8, <2>1, <2>3, <2>4 DEF NotesHold, Routed
<1>9. ASSUME agentq' = agentq, NEW u, Defer(Append(board, note), Append(held, note), u)
      PROVE  NotesHold'
  <2>1. /\ board' \in {Append(board, note), <<>>} /\ held' \in {Append(held, note), <<>>}
        /\ ~turn' => board' = <<>> /\ held' = <<>>
    BY <1>9, DeferLeaves
  <2>2. /\ Range(board') \subseteq Range(board) \cup {note}
        /\ Range(held') \subseteq Range(held) \cup {note}
        /\ Range(agentq') = Range(agentq)
    BY <1>4, <1>9, <2>1
  <2>3. Pending' \subseteq Pending \cup {note}
    BY <2>2 DEF Pending
  <2>4. Range(board') \cap Range(agentq') = {}
    BY <1>6, <2>2
  <2>5. QED
    BY <1>5, <1>9, <2>1, <2>3, <2>4 DEF NotesHold
<1>10. QED
    BY <1>3, <1>7, <1>8, <1>9

LEMMA NotesStep ==
    ASSUME TypeOK, NotesHold, ExitOnItsWay, Next
    PROVE  NotesHold'
<1>0. board \in Seq(Note) /\ held \in Seq(Note) /\ agentq \in Seq(Note) /\ Range(<<>>) = {}
    BY EmptyNotes DEF TypeOK
<1>1. CASE SessionStep
    BY <1>1, SameNotes DEF SessionStep, Output, TellPrompt, Finish, Register, Launch, noteVars, loopVars
<1>2. ASSUME NEW r \in Readers, WaitStep(r) PROVE NotesHold'
    BY <1>2, SameNotes DEF WaitStep, BeginWait, Look, EndWait, Finalize, LookUp, LaunchWaited, Waited,
       noteVars, loopVars
<1>3. ASSUME NEW r \in Readers, NoteStep(r) PROVE NotesHold'
  <2>1. CASE ReportClaimed(r)
    BY <2>1, SameNotes DEF ReportClaimed, noteVars, loopVars
  <2>2. CASE RetractNotices(r) \/ ClaimBoard(r)
    <3>1. /\ board' \in {board, <<>>} /\ agentq' \in {agentq, <<>>}
          /\ UNCHANGED <<held, owner, turn>>
        BY <2>2 DEF RetractNotices, ClaimBoard, RetractShell, loopVars
    <3>2. /\ Range(board)' \subseteq Range(board) /\ Range(agentq)' \subseteq Range(agentq)
          /\ Range(held)' \subseteq Range(held)
        BY <1>0, <3>1
    <3>3. ~turn' => board' = <<>> /\ held' = <<>>
        BY <3>1 DEF NotesHold
    <3>4. QED
        BY <3>1, <3>2, <3>3, FewerNotes
  <2>3. QED
    BY <1>3, <2>1, <2>2 DEF NoteStep
<1>4. CASE RoutedStep
  <2>1. CASE ClaimRouted
    <3>1. agentq' = Without(agentq, ExitsIn(agentq)) /\ UNCHANGED <<board, held, owner, turn>>
        BY <2>1 DEF ClaimRouted, loopVars
    <3>2. Range(agentq') \subseteq Range(agentq) /\ agentq' \in Seq(Note)
        BY <1>0, <3>1, DropNotes
    <3>3. agentq = <<>> => agentq' = <<>>
        BY <1>0, <3>2, EmptyRange
    <3>4. ~turn' => board' = <<>> /\ held' = <<>>
        BY <3>1 DEF NotesHold
    <3>5. QED
        BY <3>1, <3>2, <3>3, <3>4, FewerNotes
  <2>2. CASE JoinRetracted
    BY <2>2, SameNotes DEF JoinRetracted, loopVars
  <2>3. QED
    BY <1>4, <2>1, <2>2 DEF RoutedStep
<1>5. CASE LoopStep
  <2>1. CASE OnBgEvent
    <3>1. owner' = owner
        BY <2>1 DEF OnBgEvent
    <3>2. CASE Head(events) = "exited" /\ ReportCompletion("exit")
      <4>1. "exited" \in Range(events)
        BY <2>1, <3>2, EventEffect, TailFacts DEF TypeOK
      <4>2. QED
        BY <3>1, <3>2, <4>1, ReportKeepsApart DEF ExitOnItsWay, NoExitYet
    <3>3. CASE Head(events) = "waiting" /\ ReportCompletion("waiting")
        BY <3>1, <3>3, ReportKeepsApart
    <3>4. CASE UNCHANGED <<board, agentq, held, turn>>
        BY <3>1, <3>4, SameNotes
    <3>5. QED
        BY <2>1, <3>2, <3>3, <3>4, EventEffect
  <2>2. CASE NoticeDelivered
    <3>1. PICK n \in stream :
             /\ held' = Without(held, {note \in Range(held) : note.n = n})
             /\ UNCHANGED <<board, agentq, owner, turn>>
        BY <2>2 DEF NoticeDelivered, noteVars
    <3>2. Range(held') \subseteq Range(held) /\ held' \in Seq(Note)
        BY <1>0, <3>1, DropNotes
    <3>3. ~turn' => board' = <<>> /\ held' = <<>>
        BY <1>0, <3>1, <3>2, EmptyRange DEF NotesHold
    <3>4. QED
        BY <3>1, <3>2, <3>3, FewerNotes
  <2>3. CASE LeadReads
    <3>1. board' = <<>> /\ UNCHANGED <<agentq, held, owner, turn>>
        BY <2>3 DEF LeadReads, HearBoard, loopVars
    <3>2. QED
        BY <1>0, <3>1, FewerNotes DEF NotesHold
  <2>4. CASE TurnEnds \/ Interrupt
    <3>1. board' = <<>> /\ held' = <<>> /\ UNCHANGED <<agentq, owner>>
        BY <2>4 DEF TurnEnds, Interrupt, Dispatch, HearBoard
    <3>2. QED
        BY <1>0, <3>1, FewerNotes
  <2>5. CASE Submit
    <3>1. UNCHANGED <<board, agentq, held, owner>> /\ turn'
        BY <2>5 DEF Submit, noteVars, loopVars
    <3>2. QED
        BY <3>1, FewerNotes
  <2>6. QED
    BY <1>5, <2>1, <2>2, <2>3, <2>4, <2>5 DEF LoopStep
<1>6. CASE AgentStep
  <2>1. agentq' \in {agentq, <<>>} /\ UNCHANGED <<board, held, owner, turn>>
    BY <1>6 DEF AgentStep, AgentReads, AgentSettles, AgentStopped, noteVars, loopVars
  <2>2. Range(agentq') \subseteq Range(agentq)
    BY <1>0, <2>1
  <2>3. ~turn' => board' = <<>> /\ held' = <<>>
    BY <2>1 DEF NotesHold
  <2>4. QED
    BY <2>1, <2>2, <2>3, FewerNotes
<1>7. QED
    BY <1>1, <1>2, <1>3, <1>4, <1>5, <1>6, Steps

-----------------------------------------------------------------------------
(* How far the exit has come.                                              *)

\* Nobody has heard of the exit, and no note of it is in any of the three queues.
NoExitIn(b, q, h) ==
    /\ ~ExitCell /\ ExitsIn(b) = {} /\ ExitsIn(q) = {} /\ ExitsIn(h) = {}
    /\ \A r \in Readers : notes[r] = 0
\* The exit's whereabouts, were the unread exit and the three queues u, b, q and h: the loop
\* changes them by way of such intermediate ones.
Way(u, b, q, h) ==
    /\ task # "gone" \/ u \in {"unposted", "claimed"} => NoExitIn(b, q, h)
    /\ u = "posted" =>
          /\ ~ExitCell /\ \A r \in Readers : notes[r] = 0
          /\ ExitsIn(q) = {}
          /\ \A note \in ExitsIn(h) :
                note.n \notin stream /\ (note \in ExitsIn(b) \/ note.n \in retracted)
    /\ ExitsIn(b) # {} => u = "posted"
    /\ ExitsIn(q) # {} => \A r \in Readers : notes[r] = 0
    /\ notes["lead"] + notes["agent"] <= 1
ExitEvent ==
    /\ AtMostOne(events, "exited")
    /\ unread \in {"unposted", "claimed"} <=> "exited" \in Range(events)
    /\ task # "gone" => unread = "none"

LEMMA WayParts ==
    /\ ExitOnItsWay <=> Way(unread, board, agentq, held) /\ ExitEvent
    /\ ExitOnItsWay' <=> Way(unread, board, agentq, held)' /\ ExitEvent'
<1>1. /\ NoExitYet <=> NoExitIn(board, agentq, held)
      /\ NoExitYet' <=> NoExitIn(board, agentq, held)'
    BY DEF NoExitYet, NoExitIn, Pending, ExitsIn
<1>2. /\ \A note \in ExitsIn(held) : note \in Range(board) <=> note \in ExitsIn(board)
      /\ \A note \in ExitsIn(held)' : note \in Range(board)' <=> note \in ExitsIn(board)'
    BY DEF ExitsIn
<1>3. ExitOnItsWay <=> Way(unread, board, agentq, held) /\ ExitEvent
    BY <1>1, <1>2 DEF ExitOnItsWay, Way, ExitEvent
<1>4. ExitOnItsWay' <=> Way(unread, board, agentq, held)' /\ ExitEvent'
    BY <1>1, <1>2 DEF ExitOnItsWay, Way, ExitEvent
<1>5. QED
    BY <1>3, <1>4

\* Taking notes back, or settling one, moves the exit no further than it was.
LEMMA WayShrinks ==
    ASSUME Way(unread, board, agentq, held), unread' = unread, notes' = notes,
           ExitsIn(board)' \subseteq ExitsIn(board), ExitsIn(agentq)' \subseteq ExitsIn(agentq),
           ExitsIn(held)' \subseteq ExitsIn(held),
           stream' \subseteq stream, retracted \subseteq retracted',
           \A note \in ExitsIn(held)' :
               note \in ExitsIn(board) => note \in ExitsIn(board)' \/ note.n \in retracted',
           ExitCell' => ExitCell \/ (unread = "none" /\ task = "gone"),
           task = "gone" => task' = "gone"
    PROVE  Way(unread, board, agentq, held)'
<1>1. task' # "gone" => task # "gone"
    OBVIOUS
<1>2. NoExitIn(board, agentq, held) /\ ~ExitCell' => NoExitIn(board, agentq, held)'
    BY DEF NoExitIn
<1>3. (task # "gone" \/ unread \in {"unposted", "claimed"} => NoExitIn(board, agentq, held))'
    BY <1>1, <1>2 DEF Way, NoExitIn
<1>4. QED
    BY <1>3 DEF Way

\* Some events bring no exit.
LEMMA OtherEvents ==
    ASSUME ExitEvent, TypeOK, NEW e \in EventKinds \ {"exited"}, events' \in {events, Append(events, e)},
           unread' = unread, task = "gone" => task' = "gone"
    PROVE  ExitEvent'
<1>1. CASE events' = events
    BY <1>1 DEF ExitEvent, AtMostOne
<1>2. CASE events' = Append(events, e)
  <2>1. events \in Seq(EventKinds)
    BY DEF TypeOK, EventKinds
  <2>2. Range(events') = Range(events) \cup {e}
    BY <1>2, <2>1, AddEvent
  <2>3. AtMostOne(events', "exited")
    BY <1>2, <2>1 DEF ExitEvent, AtMostOne
  <2>4. QED
    BY <2>2, <2>3 DEF ExitEvent
<1>3. QED
    BY <1>1, <1>2

LEMMA WayFrame ==
    ASSUME Way(unread, board, agentq, held),
           UNCHANGED <<unread, board, agentq, held, cells, notes, stream, retracted>>,
           task = "gone" => task' = "gone"
    PROVE  Way(unread, board, agentq, held)'
<1>1. ExitsIn(board)' = ExitsIn(board) /\ ExitsIn(agentq)' = ExitsIn(agentq)
      /\ ExitsIn(held)' = ExitsIn(held) /\ (ExitCell' <=> ExitCell)
    BY DEF ExitCell
<1>2. QED
    BY <1>1, WayShrinks

\* Nothing of the exit was on its way before, when it leaves the registry.
LEMMA EndTaskWay ==
    ASSUME TypeOK, ExitOnItsWay, task # "gone", NEW told \in BOOLEAN, EndTask(told),
           UNCHANGED <<board, agentq, held, cells, notes, stream, retracted>>
    PROVE  /\ ExitOnItsWay' /\ NoExitIn(board, agentq, held)'
           /\ task' = "gone" /\ (unread' = "unposted" <=> io.announced /\ ~told)
           /\ unread' \in {"none", "unposted"}
<1>1. /\ unread = "none" /\ NoExitIn(board, agentq, held) /\ "exited" \notin Range(events)
      /\ Way(unread, board, agentq, held) /\ ExitEvent
    BY WayParts DEF Way, ExitEvent
<1>2. /\ task' = "gone"
      /\ \/ io.announced /\ ~told /\ unread' = "unposted" /\ events' = Append(events, "exited")
         \/ io.announced /\ told /\ unread' = "none" /\ events' = Append(events, "observed")
         \/ ~io.announced /\ unread' = "none" /\ events' = events
    BY <1>1 DEF EndTask
<1>3. events \in Seq(EventKinds)
    BY DEF TypeOK, EventKinds
<1>4. NoExitIn(board, agentq, held)'
    BY <1>1 DEF NoExitIn, ExitCell
<1>5. Way(unread, board, agentq, held)'
    BY <1>1, <1>2, <1>4 DEF Way, NoExitIn
<1>6. ExitEvent'
  <2>1. CASE events' \in {events, Append(events, "observed")} /\ unread' = "none"
    <3>1. "observed" \in EventKinds \ {"exited"}
        BY DEF EventKinds
    <3>2. QED
        BY <1>1, <1>2, <2>1, <3>1, OtherEvents
  <2>2. CASE events' = Append(events, "exited") /\ unread' = "unposted"
    <3>1. Range(events') = Range(events) \cup {"exited"}
        BY <1>3, <2>2, AddEvent DEF EventKinds
    <3>2. \A i \in DOMAIN events : events[i] # "exited"
        BY <1>1 DEF Range
    <3>3. DOMAIN events = 1 .. Len(events) /\ Len(events) \in Nat
        BY <1>3, LenProperties
    <3>4. DOMAIN Append(events, "exited") = 1 .. Len(events) + 1
          /\ \A i \in 1 .. Len(events) : Append(events, "exited")[i] = events[i]
        BY <1>3, <3>3 DEF EventKinds
    <3>5. AtMostOne(events', "exited")
        BY <2>2, <3>2, <3>3, <3>4 DEF AtMostOne
    <3>6. QED
        BY <1>2, <2>2, <3>1, <3>5 DEF ExitEvent
  <2>3. QED
    BY <1>2, <2>1, <2>2
<1>7. QED
    BY <1>2, <1>4, <1>5, <1>6, WayParts

\* The lead hears the board, the history the cells that stand: the exit passes to one of them.
LEMMA DispatchWay ==
    ASSUME TypeOK, NEW b \in Seq(Note), NEW h \in Seq(Note), NEW u, Way(u, b, agentq', h),
           \A x, y \in ExitsIn(b) : x = y,
           Dispatch(b, h, u), task' = task
    PROVE  /\ Way(unread, board, agentq, held)'
           /\ unread' = IF ExitsIn(b) = {} THEN u ELSE "none"
<1>1. CountTypes
    BY TypeParts
<1>2. /\ notes'["lead"] = notes["lead"] + Exits(b) /\ notes'["agent"] = notes["agent"]
      /\ unread' = IF ExitsIn(b) = {} THEN u ELSE "none"
      /\ cells' = cells \cup {note \in Range(h) : note.n \notin retracted}
      /\ board' = <<>> /\ held' = <<>>
    BY <1>1, DispatchEffect
<1>3. /\ notes["lead"] \in Nat /\ notes["agent"] \in Nat
      /\ Exits(b) \in Nat /\ Exits(b) <= 1 /\ (Exits(b) = 0 <=> ExitsIn(b) = {})
    BY <1>1, CountType DEF CountTypes, Readers
<1>4. ExitsIn(board)' = {} /\ ExitsIn(held)' = {}
    BY <1>2, EmptyNotes
<1>5. ExitCell' <=> ExitCell \/ \E note \in ExitsIn(h) : note.n \notin retracted
    BY <1>2 DEF ExitCell, ExitsIn
<1>6. CASE ExitsIn(b) = {}
  <2>1. unread' = u /\ notes'["lead"] = notes["lead"] /\ notes'["agent"] = notes["agent"]
    BY <1>2, <1>3, <1>6
  <2>2. u = "posted" => ~ExitCell'
    BY <1>5, <1>6 DEF Way
  <2>3. task # "gone" \/ u \in {"unposted", "claimed"} => NoExitIn(board, agentq, held)'
    BY <1>4, <1>5, <2>1 DEF Way, NoExitIn, Readers
  <2>4. QED
    BY <1>2, <1>4, <1>6, <2>1, <2>2, <2>3 DEF Way, Readers
<1>7. CASE ExitsIn(b) # {}
  <2>1. /\ unread' = "none" /\ u = "posted" /\ ExitsIn(agentq') = {}
        /\ notes["lead"] = 0 /\ notes["agent"] = 0 /\ task = "gone"
    BY <1>2, <1>7 DEF Way, NoExitIn, Readers
  <2>2. notes'["lead"] + notes'["agent"] <= 1
    BY <1>2, <1>3, <2>1
  <2>3. QED
    BY <1>2, <1>4, <1>7, <2>1, <2>2 DEF Way
<1>8. QED
    BY <1>2, <1>6, <1>7

LEMMA DeferWay ==
    ASSUME TypeOK, NEW b \in Seq(Note), NEW h \in Seq(Note), NEW u, Way(u, b, agentq', h),
           \A x, y \in ExitsIn(b) : x = y,
           Defer(b, h, u), task' = task
    PROVE  /\ Way(unread, board, agentq, held)'
           /\ unread' \in {u, "none"} /\ (u # "posted" => unread' = u)
<1>1. CASE turn
  <2>1. board' = b /\ held' = h /\ unread' = u /\ UNCHANGED <<cells, retracted, stream, notes>>
    BY <1>1 DEF Defer
  <2>2. NoExitIn(b, agentq', h) => NoExitIn(board, agentq, held)'
    BY <2>1 DEF NoExitIn, ExitCell
  <2>3. QED
    BY <2>1, <2>2 DEF Way, ExitCell
<1>2. CASE ~turn
  <2>1. Dispatch(b, h, u)
    BY <1>2 DEF Defer
  <2>2. /\ Way(unread, board, agentq, held)'
        /\ unread' = IF ExitsIn(b) = {} THEN u ELSE "none"
    BY <2>1, DispatchWay
  <2>3. ExitsIn(b) # {} => u = "posted"
    BY DEF Way
  <2>4. QED
    BY <2>2, <2>3
<1>3. QED
    BY <1>1, <1>2

LEMMA NextEvent ==
    ASSUME NEW s \in Seq(EventKinds), s # <<>>, AtMostOne(s, "exited")
    PROVE  /\ AtMostOne(Tail(s), "exited")
           /\ Head(s) = "exited" => "exited" \in Range(s) /\ "exited" \notin Range(Tail(s))
           /\ Head(s) # "exited" => ("exited" \in Range(Tail(s)) <=> "exited" \in Range(s))
<1>1. /\ DOMAIN s = 1 .. Len(s) /\ Len(s) \in Nat /\ Len(s) # 0
      /\ Head(s) = s[1] /\ Tail(s) \in Seq(EventKinds)
      /\ DOMAIN Tail(s) = 1 .. Len(s) - 1
      /\ \A i \in 1 .. Len(s) - 1 : Tail(s)[i] = s[i + 1]
    BY LenProperties, HeadTailProperties, EmptySeq
<1>2. Head(s) \in Range(s) /\ Range(s) = Range(Tail(s)) \cup {Head(s)}
    BY TailFacts
<1>3. AtMostOne(Tail(s), "exited")
  <2> SUFFICES ASSUME NEW i \in DOMAIN Tail(s), NEW j \in DOMAIN Tail(s),
                      Tail(s)[i] = "exited", Tail(s)[j] = "exited"
               PROVE  i = j
    BY DEF AtMostOne
  <2>1. i + 1 \in DOMAIN s /\ j + 1 \in DOMAIN s /\ s[i + 1] = "exited" /\ s[j + 1] = "exited"
    BY <1>1
  <2>2. i + 1 = j + 1
    BY <2>1 DEF AtMostOne
  <2>3. QED
    BY <1>1, <2>2
<1>4. ASSUME Head(s) = "exited", "exited" \in Range(Tail(s)) PROVE FALSE
  <2>1. PICK i \in DOMAIN Tail(s) : Tail(s)[i] = "exited"
    BY <1>4 DEF Range
  <2>2. i + 1 \in DOMAIN s /\ 1 \in DOMAIN s /\ s[i + 1] = "exited" /\ s[1] = "exited"
    BY <1>1, <1>4, <2>1
  <2>3. i + 1 = 1
    BY <2>2 DEF AtMostOne
  <2>4. QED
    BY <1>1, <2>1, <2>3
<1>5. QED
    BY <1>2, <1>3, <1>4

LEMMA OneExit ==
    ASSUME NotesHold
    PROVE  \A x, y \in ExitsIn(board) \cup ExitsIn(agentq) \cup ExitsIn(held) : x = y
BY DEF NotesHold, Pending, ExitsIn

LEMMA ExitReportWay ==
    ASSUME TypeOK, NotesHold, Way(unread, board, agentq, held), unread \in {"unposted", "claimed"},
           task = "gone", task' = task, ReportCompletion("exit")
    PROVE  Way(unread, board, agentq, held)' /\ unread' \in {"none", "posted"}
<1> DEFINE note == NewNote("exit")
<1>1. /\ note \in Note /\ note.kind = "exit" /\ note.n = posted + 1
      /\ note.n \notin stream
    BY NewNoteApart
<1>2. board \in Seq(Note) /\ held \in Seq(Note) /\ agentq \in Seq(Note)
    BY DEF TypeOK
<1>3. NoExitIn(board, agentq, held)
    BY DEF Way
<1>4. \/ /\ unread' = "none"
         /\ UNCHANGED <<board, retracted, agentq, held, cells, stream, notes>>
      \/ /\ agentq' = Append(agentq, note)
         /\ Defer(board, Append(held, note), "none")
      \/ /\ agentq' = agentq
         /\ Defer(Append(board, note), Append(held, note), "posted")
    BY ReportEffect
<1> HIDE DEF note
<1>5. /\ Append(board, note) \in Seq(Note) /\ ExitsIn(Append(board, note)) = {note}
      /\ Append(held, note) \in Seq(Note) /\ ExitsIn(Append(held, note)) = {note}
      /\ ExitsIn(Append(agentq, note)) = {note}
    BY <1>1, <1>2, <1>3, AddNote DEF NoExitIn
<1>6. notes["lead"] = 0 /\ notes["agent"] = 0
    BY <1>3 DEF NoExitIn, Readers
<1>7. CASE /\ unread' = "none"
           /\ UNCHANGED <<board, retracted, agentq, held, cells, stream, notes>>
  <2>1. NoExitIn(board, agentq, held)'
    BY <1>3, <1>7 DEF NoExitIn, ExitCell
  <2>2. QED
    BY <1>6, <1>7, <2>1 DEF Way, NoExitIn
<1>8. CASE agentq' = Append(agentq, note) /\ Defer(board, Append(held, note), "none")
  <2>1. Way("none", board, agentq', Append(held, note))
    BY <1>3, <1>5, <1>6, <1>8 DEF Way, NoExitIn
  <2>2. QED
    BY <1>2, <1>3, <1>5, <1>8, <2>1, DeferWay DEF NoExitIn
<1>9. CASE agentq' = agentq /\ Defer(Append(board, note), Append(held, note), "posted")
  <2>1. Way("posted", Append(board, note), agentq', Append(held, note))
    BY <1>1, <1>3, <1>5, <1>6, <1>9 DEF Way, NoExitIn
  <2>2. QED
    BY <1>5, <1>9, <2>1, DeferWay
<1>10. QED
    BY <1>4, <1>7, <1>8, <1>9

LEMMA PromptReportWay ==
    ASSUME TypeOK, NotesHold, Way(unread, board, agentq, held), ReportCompletion("waiting"), task' = task
    PROVE  /\ Way(unread, board, agentq, held)'
           /\ unread' \in {unread, "none"}
           /\ unread # "posted" => unread' = unread
<1> DEFINE note == NewNote("waiting")
<1>1. note \in Note /\ note.kind = "waiting" /\ note.kind # "exit"
    BY NewNoteApart
<1>2. board \in Seq(Note) /\ held \in Seq(Note) /\ agentq \in Seq(Note)
    BY DEF TypeOK
<1>3. \/ UNCHANGED <<unread, board, retracted, agentq, held, cells, stream, notes>>
      \/ /\ agentq' = Append(agentq, note)
         /\ Defer(board, Append(held, note), unread)
      \/ /\ agentq' = agentq
         /\ Defer(Append(board, note), Append(held, note), unread)
    BY ReportEffect
<1> HIDE DEF note
<1>4. /\ Append(board, note) \in Seq(Note) /\ ExitsIn(Append(board, note)) = ExitsIn(board)
      /\ Append(held, note) \in Seq(Note) /\ ExitsIn(Append(held, note)) = ExitsIn(held)
      /\ ExitsIn(Append(agentq, note)) = ExitsIn(agentq)
  <2>1. \A s \in Seq(Note) : Append(s, note) \in Seq(Note) /\ ExitsIn(Append(s, note)) = ExitsIn(s)
    BY <1>1, AddNote
  <2>2. QED
    BY <1>2, <2>1
<1>5. \A x, y \in ExitsIn(board) : x = y
    BY OneExit
<1>6. CASE UNCHANGED <<unread, board, retracted, agentq, held, cells, stream, notes>>
    BY <1>6, WayFrame
<1>7. CASE agentq' = Append(agentq, note) /\ Defer(board, Append(held, note), unread)
  <2>1. Way(unread, board, agentq', Append(held, note))
    BY <1>4, <1>7 DEF Way, NoExitIn
  <2>2. QED
    BY <1>2, <1>4, <1>5, <1>7, <2>1, DeferWay
<1>8. CASE agentq' = agentq /\ Defer(Append(board, note), Append(held, note), unread)
  <2>1. Way(unread, Append(board, note), agentq', Append(held, note))
    BY <1>4, <1>8 DEF Way, NoExitIn
  <2>2. \A x, y \in ExitsIn(Append(board, note)) : x = y
    BY <1>4, <1>5
  <2>3. QED
    BY <1>4, <1>8, <2>1, <2>2, DeferWay
<1>9. QED
    BY <1>3, <1>6, <1>7, <1>8

LEMMA EventWay ==
    ASSUME TypeOK, NotesHold, ExitOnItsWay, OnBgEvent
    PROVE  ExitOnItsWay'
<1>1. /\ events # <<>> /\ events' = Tail(events)
      /\ \/ Head(events) = "exited" /\ ReportCompletion("exit")
         \/ Head(events) = "waiting" /\ ReportCompletion("waiting")
         \/ /\ Head(events) \notin {"exited", "waiting"}
            /\ UNCHANGED <<unread, board, retracted, posted, agentq, held, cells, stream, turn, notes>>
    BY EventEffect
<1>2. task' = task
    BY DEF OnBgEvent
<1>3. Way(unread, board, agentq, held) /\ ExitEvent
    BY WayParts
<1>4. events \in Seq(EventKinds)
    BY DEF TypeOK, EventKinds
<1>5. /\ AtMostOne(Tail(events), "exited")
      /\ Head(events) = "exited" => "exited" \in Range(events) /\ "exited" \notin Range(Tail(events))
      /\ Head(events) # "exited" => ("exited" \in Range(Tail(events)) <=> "exited" \in Range(events))
    BY <1>1, <1>3, <1>4, NextEvent DEF ExitEvent
<1>6. CASE Head(events) = "exited" /\ ReportCompletion("exit")
  <2>1. unread \in {"unposted", "claimed"} /\ task = "gone"
    BY <1>3, <1>5, <1>6 DEF ExitEvent
  <2>2. Way(unread, board, agentq, held)' /\ unread' \in {"none", "posted"}
    BY <1>2, <1>3, <1>6, <2>1, ExitReportWay
  <2>3. ExitEvent'
    BY <1>1, <1>2, <1>5, <1>6, <2>1, <2>2 DEF ExitEvent
  <2>4. QED
    BY <2>2, <2>3, WayParts
<1>7. CASE Head(events) = "waiting" /\ ReportCompletion("waiting")
  <2>1. /\ Way(unread, board, agentq, held)'
        /\ unread' \in {unread, "none"}
        /\ unread # "posted" => unread' = unread
    BY <1>2, <1>3, <1>7, PromptReportWay
  <2>2. ExitEvent'
    BY <1>1, <1>2, <1>3, <1>5, <1>7, <2>1 DEF ExitEvent
  <2>3. QED
    BY <2>1, <2>2, WayParts
<1>8. CASE /\ Head(events) \notin {"exited", "waiting"}
           /\ UNCHANGED <<unread, board, retracted, posted, agentq, held, cells, stream, turn, notes>>
  <2>1. Way(unread, board, agentq, held)'
    BY <1>2, <1>3, <1>8, WayFrame
  <2>2. ExitEvent'
    BY <1>1, <1>2, <1>3, <1>5, <1>8 DEF ExitEvent
  <2>3. QED
    BY <2>1, <2>2, WayParts
<1>9. QED
    BY <1>1, <1>6, <1>7, <1>8

\* A step that moves no note and no cell, and ends no task.
LEMMA ExitFrame ==
    ASSUME TypeOK, ExitOnItsWay,
           UNCHANGED <<unread, board, agentq, held, cells, notes, stream, retracted>>,
           task = "gone" <=> task' = "gone",
           \E e \in EventKinds \ {"exited"} : events' \in {events, Append(events, e)}
    PROVE  ExitOnItsWay'
<1>1. Way(unread, board, agentq, held)' /\ ExitEvent'
    BY WayParts, WayFrame, OtherEvents
<1>2. QED
    BY <1>1, WayParts

LEMMA ReaderWay ==
    ASSUME TypeOK, CallsHold, ExitOnItsWay, NEW r \in Readers, WaitStep(r) \/ NoteStep(r)
    PROVE  ExitOnItsWay'
<1>1. Way(unread, board, agentq, held) /\ ExitEvent
    BY WayParts
<1>2. board \in Seq(Note) /\ held \in Seq(Note) /\ agentq \in Seq(Note)
      /\ ExitsIn(<<>>) = {} /\ "started" \in EventKinds \ {"exited"}
    BY EmptyNotes DEF TypeOK, EventKinds
<1>3. CASE BeginWait(r) \/ Look(r) \/ EndWait(r) \/ LookUp(r) \/ ReportClaimed(r)
           \/ \E end \in Ends : Waited(r, end)
  <2>1. UNCHANGED <<task, unread, board, agentq, held, cells, notes, stream, retracted, events>>
    BY <1>3 DEF BeginWait, Look, EndWait, LookUp, ReportClaimed, Waited, ioVars, noteVars, loopVars,
       heardVars
  <2>2. QED
    BY <1>2, <2>1, ExitFrame
<1>4. CASE \E end \in Ends : LaunchWaited(r, end)
  <2>1. /\ UNCHANGED <<task, unread, board, agentq, held, cells, notes, stream, retracted>>
        /\ events' \in {events, Append(events, "started")}
    BY <1>4 DEF LaunchWaited, noteVars, heardVars
  <2>2. QED
    BY <1>2, <2>1, ExitFrame
<1>5. CASE Finalize(r)
  <2>1. task # "gone"
    BY <1>5 DEF Finalize, CallsHold, CallHolds, Finalizing
  <2>2. /\ EndTask(calls[r].pc = "observed")
        /\ UNCHANGED <<board, agentq, held, cells, notes, stream, retracted>>
    BY <1>5 DEF Finalize, noteVars
  <2>3. (calls[r].pc = "observed") \in BOOLEAN
    OBVIOUS
  <2>4. QED
    BY <2>1, <2>2, <2>3, EndTaskWay
<1>6. CASE RetractNotices(r)
  <2>1. /\ UNCHANGED <<unread, task, held, cells, notes, stream, events>>
        /\ \/ board' = <<>> /\ retracted' = retracted \cup Numbers(board) /\ agentq' = agentq
           \/ board' = board /\ retracted' = retracted /\ agentq' = <<>>
    BY <1>6 DEF RetractNotices, RetractShell, ioVars, loopVars, heardVars
  <2>2. /\ ExitsIn(board)' \subseteq ExitsIn(board) /\ ExitsIn(agentq)' \subseteq ExitsIn(agentq)
        /\ ExitsIn(held)' = ExitsIn(held)
    BY <1>2, <2>1
  <2>3. \A note \in ExitsIn(board) : note \in ExitsIn(board)' \/ note.n \in retracted'
    BY <2>1 DEF ExitsIn, Numbers
  <2>4. Way(unread, board, agentq, held)'
    BY <1>1, <2>1, <2>2, <2>3, WayShrinks DEF ExitCell
  <2>5. QED
    BY <1>1, <1>2, <2>1, <2>4, OtherEvents, WayParts
<1>7. CASE ClaimBoard(r)
  <2>1. UNCHANGED <<task, agentq, held, cells, notes, stream, events>> /\ task = "gone"
    BY <1>7 DEF ClaimBoard, loopVars, heardVars
  <2>2. CASE UNCHANGED <<unread, board, retracted>>
    BY <1>2, <2>1, <2>2, ExitFrame
  <2>3. CASE /\ ClaimableBy(r)
             /\ unread' = ClaimLeaves
             /\ board' = <<>> /\ retracted' = retracted \cup Numbers(board)
    <3>1. ExitsIn(board)' = {} /\ ExitsIn(agentq)' = ExitsIn(agentq) /\ ExitsIn(held)' = ExitsIn(held)
          /\ (ExitCell' <=> ExitCell)
        BY <1>2, <2>1, <2>3 DEF ExitCell
    <3>2. \/ unread = "unposted" /\ unread' = "claimed"
          \/ unread = "posted" /\ unread' = "none"
        BY <2>3 DEF ClaimableBy, ClaimLeaves
    <3>3. NoExitIn(board, agentq, held) => NoExitIn(board, agentq, held)'
        BY <2>1, <3>1 DEF NoExitIn
    <3>4. Way(unread, board, agentq, held)'
        BY <1>1, <2>1, <3>1, <3>2, <3>3 DEF Way
    <3>5. ExitEvent'
        BY <1>1, <2>1, <3>2 DEF ExitEvent
    <3>6. QED
        BY <3>4, <3>5, WayParts
  <2>4. QED
    BY <1>7, <2>2, <2>3 DEF ClaimBoard, RetractShell
<1>8. QED
    BY <1>3, <1>4, <1>5, <1>6, <1>7 DEF WaitStep, NoteStep

LEMMA SessionWay ==
    ASSUME TypeOK, CallsHold, SessionHolds, ExitOnItsWay, SessionStep
    PROVE  ExitOnItsWay'
<1>1. "started" \in EventKinds \ {"exited"} /\ "waiting" \in EventKinds \ {"exited"}
    BY DEF EventKinds
<1>2. CASE Output \/ Finish
  <2>1. UNCHANGED <<task, unread, board, agentq, held, cells, notes, stream, retracted, events>>
    BY <1>2 DEF Output, Finish, noteVars, loopVars, heardVars
  <2>2. QED
    BY <1>1, <2>1, ExitFrame
<1>3. CASE TellPrompt
  <2>1. /\ UNCHANGED <<task, unread, board, agentq, held, cells, notes, stream, retracted>>
        /\ events' = Append(events, "waiting")
    BY <1>3 DEF TellPrompt, noteVars, heardVars
  <2>2. QED
    BY <1>1, <2>1, ExitFrame
<1>4. CASE \E background \in BOOLEAN : Launch(background)
  <2>1. /\ UNCHANGED <<unread, board, agentq, held, cells, notes, stream, retracted>>
        /\ events' \in {events, Append(events, "started")}
        /\ task = "none" /\ task' = "live"
    BY <1>4 DEF Launch, noteVars, heardVars
  <2>2. QED
    BY <1>1, <2>1, ExitFrame
<1>5. CASE Register
  <2>1. UNCHANGED <<board, agentq, held, cells, notes, stream, retracted>>
    BY <1>5 DEF Register, noteVars, heardVars
  <2>2. CASE monitor = "now"
    <3>1. EndTask(FALSE)
        BY <1>5, <2>2 DEF Register
    <3>2. task # "gone"
        BY <2>2 DEF SessionHolds
    <3>3. QED
        BY <2>1, <3>1, <3>2, EndTaskWay
  <2>3. CASE monitor # "now"
    <3>1. UNCHANGED <<unread, events>> /\ (task' = "gone" <=> task = "gone")
        BY <1>5, <2>3 DEF Register
    <3>2. QED
        BY <1>1, <2>1, <3>1, ExitFrame
  <2>4. QED
    BY <2>2, <2>3
<1>6. QED
    BY <1>2, <1>3, <1>4, <1>5 DEF SessionStep

LEMMA RoutedWay ==
    ASSUME TypeOK, ExitOnItsWay, RoutedStep
    PROVE  ExitOnItsWay'
<1>1. Way(unread, board, agentq, held) /\ ExitEvent
    BY WayParts
<1>2. agentq \in Seq(Note) /\ "started" \in EventKinds \ {"exited"}
    BY DEF TypeOK, EventKinds
<1>3. /\ UNCHANGED <<unread, task, board, held, cells, notes, stream, events>>
      /\ retracted \subseteq retracted'
      /\ agentq' \in {agentq, Without(agentq, ExitsIn(agentq))}
    BY DEF RoutedStep, ClaimRouted, JoinRetracted, ioVars, loopVars, heardVars
<1>4. ExitsIn(agentq') \subseteq ExitsIn(agentq)
    BY <1>2, <1>3, DropNotes
<1>5. Way(unread, board, agentq, held)'
    BY <1>1, <1>3, <1>4, WayShrinks DEF ExitCell
<1>6. QED
    BY <1>1, <1>2, <1>3, <1>5, OtherEvents, WayParts

LEMMA LoopWay ==
    ASSUME TypeOK, NotesHold, ExitOnItsWay, LoopStep
    PROVE  ExitOnItsWay'
<1>1. Way(unread, board, agentq, held) /\ ExitEvent
    BY WayParts
<1>2. board \in Seq(Note) /\ held \in Seq(Note) /\ agentq \in Seq(Note)
      /\ ExitsIn(<<>>) = {} /\ "started" \in EventKinds \ {"exited"}
    BY EmptyNotes DEF TypeOK, EventKinds
<1>3. \A x, y \in ExitsIn(board) : x = y
    BY OneExit
<1>4. CASE OnBgEvent
    BY <1>4, EventWay
<1>5. CASE NoticeDelivered
  <2>1. PICK n \in stream :
            LET due == {note \in Range(held) : note.n = n} IN
            /\ stream' = stream \ {n} /\ cells' = cells \cup due /\ held' = Without(held, due)
    BY <1>5 DEF NoticeDelivered
  <2>2. UNCHANGED <<unread, task, board, agentq, retracted, notes, events>>
    BY <1>5 DEF NoticeDelivered, ioVars, noteVars, heardVars
  <2>3. ExitsIn(held)' \subseteq ExitsIn(held)
    BY <1>2, <2>1, DropNotes
  <2>4. ASSUME ExitCell', ~ExitCell PROVE unread = "none" /\ task = "gone"
    <3>1. PICK note \in ExitsIn(held) : note.n \in stream
        BY <2>1, <2>4 DEF ExitCell, ExitsIn
    <3>2. QED
        BY <1>1, <3>1 DEF Way, NoExitIn, TypeOK
  <2>5. Way(unread, board, agentq, held)'
    BY <1>1, <2>1, <2>2, <2>3, <2>4, WayShrinks
  <2>6. QED
    BY <1>1, <1>2, <2>2, <2>5, OtherEvents, WayParts
<1>6. CASE LeadReads
  <2>1. /\ HearBoard(board, unread) /\ stream' = stream \cup Numbers(board)
        /\ UNCHANGED <<task, retracted, agentq, held, cells, events>>
    BY <1>6 DEF LeadReads, loopVars
  <2>2. CountTypes
    BY TypeParts
  <2>3. /\ notes'["lead"] = notes["lead"] + Exits(board) /\ notes'["agent"] = notes["agent"]
        /\ board' = <<>>
        /\ unread' = IF ExitsIn(board) = {} THEN unread ELSE "none"
    BY <1>2, <2>1, <2>2, HearBoardEffect
  <2>4. /\ notes["lead"] \in Nat /\ notes["agent"] \in Nat
        /\ Exits(board) \in Nat /\ Exits(board) <= 1 /\ (Exits(board) = 0 <=> ExitsIn(board) = {})
    BY <1>2, <1>3, <2>2, CountType DEF CountTypes, Readers
  <2>5. CASE ExitsIn(board) = {}
    <3>1. /\ unread' = unread /\ notes'["lead"] = notes["lead"] /\ notes'["agent"] = notes["agent"]
          /\ ExitsIn(board)' = {}
        BY <1>2, <2>3, <2>4, <2>5
    <3>2. \A note \in ExitsIn(held) : note.n \notin Numbers(board)
        BY <2>5 DEF NotesHold, Pending, ExitsIn, Numbers
    <3>3. NoExitIn(board, agentq, held) => NoExitIn(board, agentq, held)'
        BY <2>1, <2>5, <3>1 DEF NoExitIn, ExitCell, Readers
    <3>4. Way(unread, board, agentq, held)'
        BY <1>1, <2>1, <2>3, <2>5, <3>1, <3>2, <3>3 DEF Way, ExitCell, Readers
    <3>5. QED
        BY <1>1, <1>2, <2>1, <3>1, <3>4, OtherEvents, WayParts
  <2>6. CASE ExitsIn(board) # {}
    <3>1. /\ unread = "posted" /\ unread' = "none" /\ ExitsIn(agentq) = {} /\ task = "gone"
          /\ notes["lead"] = 0 /\ notes["agent"] = 0 /\ ExitsIn(board)' = {}
        BY <1>1, <1>2, <2>3, <2>6 DEF Way, NoExitIn, Readers
    <3>2. Way(unread, board, agentq, held)'
        BY <2>1, <2>3, <2>4, <3>1 DEF Way
    <3>3. ExitEvent'
        BY <1>1, <2>1, <3>1 DEF ExitEvent
    <3>4. QED
        BY <3>2, <3>3, WayParts
  <2>7. QED
    BY <2>5, <2>6
<1>7. CASE TurnEnds \/ Interrupt
  <2>1. Dispatch(board, held, unread) /\ UNCHANGED <<task, agentq, events>>
    BY <1>7 DEF TurnEnds, Interrupt
  <2>2. Way(unread, board, agentq', held)
    BY <1>1, <2>1 DEF Way, NoExitIn
  <2>3. /\ Way(unread, board, agentq, held)'
        /\ unread' = IF ExitsIn(board) = {} THEN unread ELSE "none"
    BY <1>2, <1>3, <2>1, <2>2, DispatchWay
  <2>4. ExitsIn(board) # {} => unread = "posted"
    BY <1>1 DEF Way
  <2>5. ExitEvent'
    BY <1>1, <2>1, <2>3, <2>4 DEF ExitEvent
  <2>6. QED
    BY <2>3, <2>5, WayParts
<1>8. CASE Submit
  <2>1. UNCHANGED <<task, unread, board, agentq, held, cells, notes, stream, retracted, events>>
    BY <1>8 DEF Submit, ioVars, noteVars, loopVars, heardVars
  <2>2. QED
    BY <1>2, <2>1, ExitFrame
<1>9. QED
    BY <1>4, <1>5, <1>6, <1>7, <1>8 DEF LoopStep

LEMMA AgentWay ==
    ASSUME TypeOK, NotesHold, ExitOnItsWay, AgentStep
    PROVE  ExitOnItsWay'
<1>1. Way(unread, board, agentq, held) /\ ExitEvent
    BY WayParts
<1>2. agentq \in Seq(Note) /\ ExitsIn(<<>>) = {} /\ "started" \in EventKinds \ {"exited"}
    BY EmptyNotes DEF TypeOK, EventKinds
<1>3. /\ UNCHANGED <<unread, task, board, held, cells, stream, retracted, events>>
      /\ agentq' \in {agentq, <<>>}
    BY DEF AgentStep, AgentReads, AgentSettles, AgentStopped, ioVars, noteVars, loopVars
<1>4. ExitEvent'
    BY <1>1, <1>2, <1>3, OtherEvents
<1>5. CASE AgentSettles \/ AgentStopped
  <2>1. notes' = notes
    BY <1>5 DEF AgentSettles, AgentStopped, heardVars
  <2>2. ExitsIn(agentq') \subseteq ExitsIn(agentq)
    BY <1>2, <1>3
  <2>3. Way(unread, board, agentq, held)'
    BY <1>1, <1>3, <2>1, <2>2, WayShrinks DEF ExitCell
  <2>4. QED
    BY <1>4, <2>3, WayParts
<1>6. CASE AgentReads
  <2>1. notes' = [notes EXCEPT !["agent"] = @ + Exits(agentq)] /\ agentq' = <<>>
    BY <1>6 DEF AgentReads
  <2>2. /\ notes \in [Readers -> Nat]
        /\ Exits(agentq) \in Nat /\ Exits(agentq) <= 1 /\ (Exits(agentq) = 0 <=> ExitsIn(agentq) = {})
    BY <1>2, CountType, OneExit DEF TypeOK
  <2>3. /\ notes'["lead"] = notes["lead"] /\ notes'["agent"] = notes["agent"] + Exits(agentq)
        /\ notes["lead"] \in Nat /\ notes["agent"] \in Nat
    BY <2>1, <2>2 DEF Readers
  <2>4. ExitsIn(agentq)' = {}
    BY <1>2, <2>1
  <2>5. CASE ExitsIn(agentq) = {}
    <3>1. notes'["lead"] = notes["lead"] /\ notes'["agent"] = notes["agent"]
        BY <2>2, <2>3, <2>5
    <3>2. NoExitIn(board, agentq, held) => NoExitIn(board, agentq, held)'
        BY <1>3, <2>4, <3>1 DEF NoExitIn, ExitCell, Readers
    <3>3. Way(unread, board, agentq, held)'
        BY <1>1, <1>3, <2>4, <3>1, <3>2 DEF Way, ExitCell, Readers
    <3>4. QED
        BY <1>4, <3>3, WayParts
  <2>6. CASE ExitsIn(agentq) # {}
    <3>1. /\ notes["lead"] = 0 /\ notes["agent"] = 0 /\ unread = "none" /\ task = "gone"
          /\ ExitsIn(board) = {}
        BY <1>1, <2>6 DEF Way, NoExitIn, Readers, TypeOK
    <3>2. Way(unread, board, agentq, held)'
        BY <1>3, <2>2, <2>3, <2>4, <3>1 DEF Way
    <3>3. QED
        BY <1>4, <3>2, WayParts
  <2>7. QED
    BY <2>5, <2>6
<1>7. QED
    BY <1>5, <1>6 DEF AgentStep

LEMMA WayStep ==
    ASSUME TypeOK, CallsHold, SessionHolds, NotesHold, ExitOnItsWay, Next
    PROVE  ExitOnItsWay'
BY Steps, SessionWay, ReaderWay, RoutedWay, LoopWay, AgentWay

-----------------------------------------------------------------------------
(* Whom a report has told.                                                 *)

\* The cell the exit may have held is settled: never to be shown.
Silent == ~ExitCell /\ \A note \in ExitsIn(held) : note.n \in retracted \ stream

LEMMA HeardParts ==
    /\ HeardOnce <=> /\ \A r \in Readers : Heard(r) => Deaf(r)
                     /\ owner = "lead" /\ Heard("lead") => Silent
    /\ HeardOnce' <=> /\ \A r \in Readers : Heard(r)' => Deaf(r)'
                      /\ owner' = "lead" /\ Heard("lead")' => Silent'
<1>1. HeardOnce <=> /\ \A r \in Readers : Heard(r) => Deaf(r)
                    /\ owner = "lead" /\ Heard("lead") => Silent
    BY DEF HeardOnce, Silent
<1>2. HeardOnce' <=> /\ \A r \in Readers : Heard(r)' => Deaf(r)'
                     /\ owner' = "lead" /\ Heard("lead")' => Silent'
    BY DEF HeardOnce, Silent
<1>3. QED
    BY <1>1, <1>2

\* A reader told stays told of, and nobody else is told.
LEMMA SameHeard ==
    ASSUME reports' = reports, late \subseteq late',
           \A r \in Readers : calls'[r].pc \in Claiming => calls[r].pc \in Claiming
    PROVE  \A r \in Readers : Heard(r)' => Heard(r)
BY DEF Heard

\* A step that lets nobody hear of the exit.
Hushed ==
    /\ io.finished => io'.finished
    /\ io.finalized => io'.finalized
    /\ io.reported => io'.reported
    /\ monitor' = "now" => monitor = "now"
    /\ \A r \in Readers : calls'[r].pc = "unobserved" => calls[r].pc = "unobserved"
    /\ unread' = "unposted" => unread = "unposted"
    /\ ExitsIn(board)' \subseteq ExitsIn(board) /\ ExitsIn(agentq)' \subseteq ExitsIn(agentq)
    /\ \A r \in Readers : ExitsIn(Unheard(r)) = {} => notes'[r] = notes[r]

LEMMA DeafFrame ==
    ASSUME NEW r \in Readers, Deaf(r), Hushed
    PROVE  Deaf(r)'
<1>1. ExitsIn(Unheard(r))' \subseteq ExitsIn(Unheard(r))
    BY DEF Hushed, Unheard
<1>2. notes'[r] = notes[r]
    BY DEF Hushed, Deaf
<1>3. QED
    BY <1>1, <1>2 DEF Hushed, Deaf

LEMMA SilentFrame ==
    ASSUME Silent, ExitCell' => ExitCell, ExitsIn(held)' \subseteq ExitsIn(held),
           retracted \subseteq retracted', stream' \subseteq stream
    PROVE  Silent'
BY DEF Silent

LEMMA HeardBy ==
    ASSUME HeardOnce, Hushed, owner' = owner,
           \A r \in Readers : Heard(r)' => Heard(r),
           owner = "lead" /\ Heard("lead") /\ Silent => Silent'
    PROVE  HeardOnce'
<1>1. "lead" \in Readers
    BY DEF Readers
<1>2. QED
    BY <1>1, HeardParts, DeafFrame

LEMMA HeardFrame ==
    ASSUME HeardOnce, Hushed, owner' = owner,
           \A r \in Readers : Heard(r)' => Heard(r),
           ExitCell' => ExitCell, ExitsIn(held)' \subseteq ExitsIn(held),
           retracted \subseteq retracted', stream' \subseteq stream
    PROVE  HeardOnce'
BY HeardBy, SilentFrame

LEMMA NobodyHeard ==
    ASSUME \A r \in Readers : ~Heard(r), \A r \in Readers : Heard(r)' => Heard(r)
    PROVE  HeardOnce'
BY HeardParts DEF Readers

LEMMA HushedFrame ==
    ASSUME io.finished => io'.finished, io.finalized => io'.finalized, io.reported => io'.reported,
           monitor' = "now" => monitor = "now",
           \A r \in Readers : calls'[r].pc = "unobserved" => calls[r].pc = "unobserved",
           unread' = "unposted" => unread = "unposted", UNCHANGED <<board, agentq, notes>>
    PROVE  Hushed
BY DEF Hushed

LEMMA SessionHeard ==
    ASSUME TypeOK, CallsHold, SessionHolds, HeardOnce, SessionStep
    PROVE  HeardOnce'
<1>1. UNCHANGED <<owner, cells, held, retracted, stream, board, agentq, notes, reports, late>>
    BY DEF SessionStep, Output, TellPrompt, Finish, Register, Launch, noteVars, loopVars, heardVars
<1>2. /\ ExitCell' => ExitCell /\ ExitsIn(held)' \subseteq ExitsIn(held)
      /\ retracted \subseteq retracted' /\ stream' \subseteq stream
    BY <1>1 DEF ExitCell
<1>3. IoTypes /\ CallTypes
    BY TypeParts
<1>4. CASE Output \/ TellPrompt
  <2>1. UNCHANGED <<calls, unread, monitor>>
    BY <1>4 DEF Output, TellPrompt
  <2>2. io'.finished = io.finished /\ io'.finalized = io.finalized /\ io'.reported = io.reported
    BY <1>3, <1>4, OutputIo, TellPromptIo
  <2>3. \A r \in Readers : Heard(r)' => Heard(r)
    BY <1>1, <2>1, SameHeard
  <2>4. Hushed
    BY <1>1, <2>1, <2>2, HushedFrame
  <2>5. QED
    BY <1>1, <1>2, <2>3, <2>4, HeardFrame
<1>5. CASE Finish
  <2>1. ~io.finished /\ calls' = calls
    BY <1>5 DEF Finish
  <2>2. \A r \in Readers : ~Heard(r)
    BY <2>1, HeardParts DEF Deaf
  <2>3. QED
    BY <1>1, <2>1, <2>2, SameHeard, NobodyHeard
<1>6. CASE Register
  <2>1. calls' = calls /\ io' = io /\ monitor' = "done"
    BY <1>6 DEF Register
  <2>2. \A r \in Readers : Heard(r)' => Heard(r)
    BY <1>1, <2>1, SameHeard
  <2>3. CASE monitor = "now"
    <3>1. \A r \in Readers : ~Heard(r)
        BY <2>3, HeardParts DEF Deaf
    <3>2. QED
        BY <2>2, <3>1, NobodyHeard
  <2>4. CASE monitor # "now"
    <3>1. unread' = unread
        BY <1>6, <2>4 DEF Register
    <3>2. Hushed
        BY <1>1, <2>1, <3>1, HushedFrame
    <3>3. QED
        BY <1>1, <1>2, <2>2, <3>2, HeardFrame
  <2>5. QED
    BY <2>3, <2>4
<1>7. ASSUME NEW background \in BOOLEAN, Launch(background) PROVE HeardOnce'
  <2>1. task = "none" /\ io' = Born(background)
    BY <1>7 DEF Launch
  <2>2. \A r \in Readers : ~Heard(r)
    BY <2>1, HeardParts DEF Deaf, SessionHolds
  <2>3. \/ calls' = calls
        \/ owner \in Readers /\ CallBecomes(owner, "launched", "none", calls[owner].took, calls[owner].lost)
    <3>1. CASE background
        BY <1>7, <3>1 DEF Launch
    <3>2. CASE ~background
      <4>1. GotoWith(owner, "launched", "none") /\ posted' = posted
        BY <1>7, <3>2 DEF Launch, noteVars
      <4>2. owner \in Readers /\ "launched" \in Pcs /\ "none" \in Ends \cup {"none"}
        BY OwnersAssumption DEF TypeOK, Pcs
      <4>3. QED
        BY <1>3, <4>1, <4>2, GotoWithCall
    <3>3. QED
        BY <3>1, <3>2
  <2>4. \A r \in Readers : Heard(r)' => Heard(r)
    BY <1>1, <2>3, SameHeard DEF CallBecomes, Claiming
  <2>5. QED
    BY <2>2, <2>4, NobodyHeard
<1>8. QED
    BY <1>4, <1>5, <1>6, <1>7 DEF SessionStep

\* The end of a wait that reports the exit, last of the session's or not.
LEMMA EndWaitHeard ==
    ASSUME TypeOK, CallsHold, SessionHolds, ExitOnItsWay, HeardOnce, NEW r \in Readers, EndWait(r)
    PROVE  HeardOnce'
<1>1. UNCHANGED <<owner, monitor, task, unread, cells, held, retracted, stream, board, agentq, notes,
                  late, posted>>
    BY DEF EndWait, noteVars, loopVars
<1>2. /\ ExitCell' => ExitCell /\ ExitsIn(held)' \subseteq ExitsIn(held)
      /\ retracted \subseteq retracted' /\ stream' \subseteq stream
    BY <1>1 DEF ExitCell
<1>3. IoTypes /\ CallTypes /\ CountTypes
    BY TypeParts
<1>4. calls[r].pc = "ending" /\ calls[r].pc \in InWait
    BY DEF EndWait, InWait
<1>5. io.waiters \in 1 .. 2
    BY <1>4, Waiters
<1>6. /\ io'.finished = io.finished /\ io'.reported = io.reported
      /\ io'.finalized <=> io.finalized \/ Last
    BY <1>3, <1>5, EndWaitIo
<1>7. CASE Last
  <2>1. reports' = reports
    BY <1>7 DEF EndWait, Last
  <2>2. CallBecomes(r, IF io.reported THEN "observed" ELSE "unobserved",
                    calls[r].end, calls[r].took, calls[r].lost)
    BY <1>7, WaitCalls
  <2>3. \A q \in Readers : Heard(q)' => Heard(q)
    BY <1>1, <2>1, <2>2, SameHeard DEF CallBecomes, Claiming
  <2>4. CASE io.reported
    <3>1. \A q \in Readers : calls'[q].pc = "unobserved" => calls[q].pc = "unobserved"
        BY <2>2, <2>4 DEF CallBecomes
    <3>2. Hushed
        BY <1>1, <1>6, <3>1, HushedFrame
    <3>3. QED
        BY <1>1, <1>2, <2>3, <3>2, HeardFrame
  <2>5. CASE ~io.reported
    <3>1. \A q \in Readers : ~Heard(q)
        BY <1>7, <2>5, HeardParts DEF Deaf, Last
    <3>2. QED
        BY <2>3, <3>1, NobodyHeard
  <2>6. QED
    BY <2>4, <2>5
<1>8. CASE ~Last
  <2>1. Return(r)
    BY <1>8 DEF EndWait, Last
  <2>2. /\ CallBecomes(r, "idle", "none", {}, FALSE)
        /\ \A q \in Readers : reports'[q] =
             IF q = r /\ Covers(calls[r].end) /\ ~calls[r].lost THEN reports[q] + 1 ELSE reports[q]
    BY <1>1, <1>3, <2>1, ReturnCall
  <2>3. \A q \in Readers : calls'[q].pc = "unobserved" => calls[q].pc = "unobserved"
    BY <2>2 DEF CallBecomes
  <2>4. Hushed
    BY <1>1, <1>6, <2>3, HushedFrame
  <2>5. \A q \in Readers : q # r => (Heard(q)' => Heard(q))
    BY <1>1, <2>2 DEF Heard, CallBecomes
  <2>6. CASE ~(r \notin late /\ Covers(calls[r].end) /\ ~calls[r].lost)
    <3>1. Heard(r)' => Heard(r)
        BY <1>1, <2>2, <2>6 DEF Heard, CallBecomes, Claiming
    <3>2. QED
        BY <1>1, <1>2, <2>4, <2>5, <3>1, HeardFrame
  <2>7. CASE r \notin late /\ Covers(calls[r].end) /\ ~calls[r].lost
    <3>1. /\ ~io.finalized /\ io.reported /\ io.finished
        BY <1>4, <2>7 DEF CallsHold, CallHolds
    <3>2. /\ monitor # "now" /\ task # "gone"
          /\ \A q \in Readers : calls[q].pc # "unobserved"
        BY <3>1 DEF SessionHolds, CallsHold, CallHolds, Finalizing
    <3>3. unread = "none" /\ NoExitIn(board, agentq, held)
        BY <3>2, WayParts DEF ExitEvent, Way
    <3>4. Deaf(r)
        BY <3>1, <3>2, <3>3 DEF Deaf, NoExitIn, Unheard
    <3>5. Deaf(r)'
        BY <2>4, <3>4, DeafFrame
    <3>6. Silent
        BY <3>3 DEF Silent, NoExitIn
    <3>7. Silent'
        BY <1>1, <3>6 DEF Silent, ExitCell
    <3>8. \A q \in Readers : Heard(q)' => Deaf(q)'
        BY <2>4, <2>5, <3>5, HeardParts, DeafFrame
    <3>9. QED
        BY <3>7, <3>8, HeardParts
  <2>8. QED
    BY <2>6, <2>7
<1>9. QED
    BY <1>7, <1>8

LEMMA FinalizeHeard ==
    ASSUME TypeOK, CallsHold, SessionHolds, ExitOnItsWay, HeardOnce, NEW r \in Readers, Finalize(r)
    PROVE  HeardOnce'
<1>1. /\ UNCHANGED <<owner, io, monitor, cells, held, retracted, stream, board, agentq, notes, late, posted>>
      /\ Return(r) /\ EndTask(calls[r].pc = "observed")
    BY DEF Finalize, noteVars
<1>2. CallTypes /\ CountTypes
    BY TypeParts
<1>3. /\ CallBecomes(r, "idle", "none", {}, FALSE)
      /\ \A q \in Readers : reports'[q] =
           IF q = r /\ Covers(calls[r].end) /\ ~calls[r].lost THEN reports[q] + 1 ELSE reports[q]
    BY <1>1, <1>2, ReturnCall
<1>4. calls[r].pc \in Finalizing /\ task # "gone" /\ io.finalized /\ monitor # "now"
    BY DEF Finalize, Finalizing, CallsHold, CallHolds
<1>5. (calls[r].pc = "observed") \in BOOLEAN
    OBVIOUS
<1>6. /\ NoExitIn(board, agentq, held)'
      /\ unread' = "unposted" <=> io.announced /\ ~(calls[r].pc = "observed")
    BY <1>1, <1>4, <1>5, EndTaskWay
<1>7. CASE calls[r].pc = "unobserved"
  <2>1. \A q \in Readers : ~Heard(q)
    BY <1>7, HeardParts DEF Deaf
  <2>2. ~Covers(calls[r].end)
    BY <1>7 DEF CallsHold, CallHolds
  <2>3. reports'[r] = reports[r] /\ \A q \in Readers : reports'[q] = reports[q]
    BY <1>3, <2>2
  <2>4. \A q \in Readers : Heard(q)' => Heard(q)
    BY <1>1, <1>3, <2>3 DEF Heard, CallBecomes, Claiming
  <2>5. QED
    BY <2>1, <2>4, NobodyHeard
<1>8. CASE calls[r].pc = "observed"
  <2>1. unread' # "unposted" /\ io.finished
    BY <1>4, <1>6, <1>8 DEF SessionHolds
  <2>2. \A q \in Readers : calls'[q].pc # "unobserved"
    <3>1. \A q \in Readers : q # r => calls[q].pc \notin Finalizing
        BY <1>4 DEF SessionHolds, Readers
    <3>2. QED
        BY <1>3, <3>1 DEF CallBecomes, Finalizing
  <2>3. \A q \in Readers : Deaf(q)'
    BY <1>1, <1>4, <1>6, <2>1, <2>2 DEF Deaf, NoExitIn, Unheard
  <2>4. Silent'
    BY <1>6 DEF Silent, NoExitIn
  <2>5. QED
    BY <2>3, <2>4, HeardParts
<1>9. QED
    BY <1>4, <1>7, <1>8 DEF Finalizing

LEMMA WaitHeard ==
    ASSUME TypeOK, CallsHold, SessionHolds, ExitOnItsWay, HeardOnce, NEW r \in Readers, WaitStep(r)
    PROVE  HeardOnce'
<1>1. IoTypes /\ CallTypes
    BY TypeParts
<1>2. CASE EndWait(r)
    BY <1>2, EndWaitHeard
<1>3. CASE Finalize(r)
    BY <1>3, FinalizeHeard
<1>4. CASE BeginWait(r) \/ Look(r) \/ LookUp(r) \/ \E end \in Ends : LaunchWaited(r, end) \/ Waited(r, end)
  <2>1. /\ UNCHANGED <<owner, monitor, unread, cells, held, retracted, stream, board, agentq, notes, reports>>
        /\ late \subseteq late'
    BY <1>4 DEF BeginWait, Look, LookUp, LaunchWaited, Waited, ioVars, noteVars, loopVars, heardVars
  <2>2. \E pc \in Pcs \ (Claiming \cup {"unobserved"}) : \E end, took, lost :
          CallBecomes(r, pc, end, took, lost)
    <3>1. \A end \in Ends : {LaunchedTo(end), WaitedTo(end)} \subseteq Pcs \ (Claiming \cup {"unobserved"})
        BY DEF LaunchedTo, WaitedTo, Pcs, Claiming
    <3>2. {"waiting", "found", "retract", "ending"} \subseteq Pcs \ (Claiming \cup {"unobserved"})
        BY DEF Pcs, Claiming
    <3>3. CASE BeginWait(r) \/ LookUp(r) \/ Look(r)
        BY <3>2, <3>3, WaitCalls
    <3>4. ASSUME NEW end \in Ends, LaunchWaited(r, end) \/ Waited(r, end)
          PROVE  \E pc \in Pcs \ (Claiming \cup {"unobserved"}) : \E e, took, lost :
                     CallBecomes(r, pc, e, took, lost)
        BY <3>1, <3>4, WaitCalls
    <3>5. QED
        BY <1>4, <3>3, <3>4
  <2>3. /\ io'.finished = io.finished /\ io'.finalized = io.finalized
        /\ io.reported => io'.reported
    <3>1. CASE BeginWait(r)
      <4>1. io.waiters \in 0 .. 1
        BY <3>1, Waiters DEF BeginWait, InWait
      <4>2. QED
        BY <1>1, <3>1, <4>1, BeginWaitIo
    <3>2. CASE Look(r)
        BY <1>1, <3>2, LookIo DEF Look
    <3>3. CASE LookUp(r) \/ \E end \in Ends : Waited(r, end)
        BY <3>3 DEF LookUp, Waited, ioVars
    <3>4. CASE \E end \in Ends : LaunchWaited(r, end)
        BY <1>1, <3>4, LaunchWaitedIo
    <3>5. QED
        BY <1>4, <3>1, <3>2, <3>3, <3>4
  <2>4. \A q \in Readers : Heard(q)' => Heard(q)
    BY <2>1, <2>2, SameHeard DEF CallBecomes
  <2>5. \A q \in Readers : calls'[q].pc = "unobserved" => calls[q].pc = "unobserved"
    BY <2>2 DEF CallBecomes
  <2>6. Hushed
    BY <2>1, <2>3, <2>5, HushedFrame
  <2>7. /\ ExitCell' => ExitCell /\ ExitsIn(held)' \subseteq ExitsIn(held)
        /\ retracted \subseteq retracted' /\ stream' \subseteq stream
    BY <2>1 DEF ExitCell
  <2>8. QED
    BY <2>1, <2>4, <2>6, <2>7, HeardFrame
<1>5. QED
    BY <1>2, <1>3, <1>4 DEF WaitStep

LEMMA NoteHeard ==
    ASSUME TypeOK, CallsHold, SessionHolds, NotesHold, ExitOnItsWay, HeardOnce, NEW r \in Readers, NoteStep(r)
    PROVE  HeardOnce'
<1>1. IoTypes /\ CallTypes /\ CountTypes /\ NoteTypes
    BY TypeParts
<1>2. board \in Seq(Note) /\ held \in Seq(Note) /\ agentq \in Seq(Note) /\ ExitsIn(<<>>) = {}
    BY EmptyNotes DEF TypeOK
<1>3. CASE RetractNotices(r)
  <2>1. /\ UNCHANGED <<owner, io, monitor, unread, cells, held, stream, notes, reports, late>>
        /\ board' \in {board, <<>>} /\ agentq' \in {agentq, <<>>} /\ retracted \subseteq retracted'
    BY <1>3 DEF RetractNotices, RetractShell, ioVars, loopVars, heardVars
  <2>2. \E pc \in {"ending", "retracting"} : \E end, took, lost : CallBecomes(r, pc, end, took, lost)
    BY <1>1, <1>3, RetractCall DEF Readers
  <2>3. /\ \A q \in Readers : Heard(q)' => Heard(q)
        /\ \A q \in Readers : calls'[q].pc = "unobserved" => calls[q].pc = "unobserved"
    BY <2>1, <2>2, SameHeard DEF CallBecomes, Claiming
  <2>4. ExitsIn(board)' \subseteq ExitsIn(board) /\ ExitsIn(agentq)' \subseteq ExitsIn(agentq)
    BY <1>2, <2>1
  <2>5. Hushed
    BY <2>1, <2>3, <2>4 DEF Hushed
  <2>6. ExitCell' => ExitCell
    BY <2>1 DEF ExitCell
  <2>7. QED
    BY <2>1, <2>3, <2>5, <2>6, HeardFrame
<1>4. CASE ReportClaimed(r)
  <2>1. /\ UNCHANGED <<owner, monitor, unread, cells, held, retracted, stream, board, agentq, notes, late, posted>>
        /\ io' = LookedBy(r) /\ Return(r) /\ calls[r].pc \in Claiming
    BY <1>4 DEF ReportClaimed, noteVars, loopVars, Claiming
  <2>2. io'.finished = io.finished /\ io'.finalized = io.finalized /\ (io.reported => io'.reported)
    BY <1>1, <2>1, LookIo
  <2>3. /\ CallBecomes(r, "idle", "none", {}, FALSE)
        /\ \A q \in Readers : q # r => reports'[q] = reports[q]
    BY <1>1, <2>1, ReturnCall
  <2>4. \A q \in Readers : Heard(q)' => Heard(q)
    BY <2>1, <2>3 DEF Heard, CallBecomes
  <2>5. \A q \in Readers : calls'[q].pc = "unobserved" => calls[q].pc = "unobserved"
    BY <2>3 DEF CallBecomes
  <2>6. Hushed
    BY <2>1, <2>2, <2>5, HushedFrame
  <2>7. /\ ExitCell' => ExitCell /\ ExitsIn(held)' \subseteq ExitsIn(held)
        /\ retracted \subseteq retracted' /\ stream' \subseteq stream
    BY <2>1 DEF ExitCell
  <2>8. QED
    BY <2>1, <2>4, <2>6, <2>7, HeardFrame
<1>5. CASE ClaimBoard(r)
  <2>1. /\ UNCHANGED <<owner, io, monitor, cells, held, stream, agentq, notes, reports, late>>
        /\ task = "gone"
    BY <1>5 DEF ClaimBoard, loopVars, heardVars
  <2>2. CASE ClaimableBy(r)
    <3>1. /\ unread' = ClaimLeaves /\ board' = <<>> /\ retracted' = retracted \cup Numbers(board)
        BY <1>5, <2>2 DEF ClaimBoard, RetractShell
    <3>2. CallBecomes(r, "claimed", "exited", calls[r].took, calls[r].lost)
        BY <1>1, <1>5, <2>2, ClaimBoardCall
    <3>3. /\ io.finished /\ io.finalized /\ monitor # "now"
          /\ \A q \in Readers : calls[q].pc # "unobserved"
        BY <2>1 DEF SessionHolds, CallsHold, CallHolds, Finalizing
    <3>4. /\ \A q \in Readers : calls'[q].pc # "unobserved"
          /\ \A q \in Readers : q # r => (Heard(q)' => Heard(q))
        BY <2>1, <3>2, <3>3 DEF CallBecomes, Heard, Claiming
    <3>5. /\ unread \in {"unposted", "posted"} /\ (unread = "posted" => r = "lead")
          /\ unread' \in {"claimed", "none"}
        BY <2>2, <3>1 DEF ClaimableBy, ClaimLeaves
    <3>6. Way(unread, board, agentq, held)
        BY WayParts
    <3>7. /\ ExitsIn(board)' = {} /\ ExitsIn(agentq)' = ExitsIn(agentq) /\ ExitsIn(agentq) = {}
          /\ \A q \in Readers : notes[q] = 0
        BY <1>2, <2>1, <3>1, <3>5, <3>6 DEF Way, NoExitIn
    <3>8. \A q \in Readers : Deaf(q)'
        BY <2>1, <3>3, <3>4, <3>5, <3>7 DEF Deaf, Unheard
    <3>9. Silent'
      <4>1. ~ExitCell /\ \A note \in ExitsIn(held) : note.n \notin stream /\ (note \in ExitsIn(board) \/ note.n \in retracted)
        BY <3>5, <3>6 DEF Way, NoExitIn
      <4>2. \A note \in ExitsIn(held) : note.n \in retracted'
        BY <3>1, <4>1 DEF ExitsIn, Numbers
      <4>3. QED
        BY <2>1, <4>1, <4>2 DEF Silent, ExitCell
    <3>10. QED
        BY <3>8, <3>9, HeardParts
  <2>3. CASE ~ClaimableBy(r)
    <3>1. UNCHANGED <<calls, unread, board, retracted>>
        BY <1>5, <2>3 DEF ClaimBoard
    <3>2. Hushed /\ \A q \in Readers : Heard(q)' => Heard(q)
        BY <2>1, <3>1, HushedFrame, SameHeard
    <3>3. /\ ExitCell' => ExitCell /\ ExitsIn(held)' \subseteq ExitsIn(held)
          /\ retracted \subseteq retracted' /\ stream' \subseteq stream
        BY <2>1, <3>1 DEF ExitCell
    <3>4. QED
        BY <2>1, <3>2, <3>3, HeardFrame
  <2>4. QED
    BY <2>2, <2>3
<1>6. QED
    BY <1>3, <1>4, <1>5 DEF NoteStep

LEMMA RoutedHeard ==
    ASSUME TypeOK, CallsHold, SessionHolds, NotesHold, ExitOnItsWay, HeardOnce, RoutedStep
    PROVE  HeardOnce'
<1>1. CallTypes /\ NoteTypes
    BY TypeParts
<1>2. agentq \in Seq(Note) /\ "agent" \in Readers
    BY DEF TypeOK, Readers
<1>3. /\ UNCHANGED <<owner, io, monitor, unread, cells, held, stream, board, notes, reports, late, task>>
      /\ retracted \subseteq retracted'
    BY DEF RoutedStep, ClaimRouted, JoinRetracted, ioVars, loopVars, heardVars
<1>4. ExitCell' => ExitCell
    BY <1>3 DEF ExitCell
<1>5. CASE ClaimRouted
  <2>1. /\ task = "gone" /\ unread = "none" /\ ExitsIn(agentq) # {}
        /\ agentq' = Without(agentq, ExitsIn(agentq))
    BY <1>5 DEF ClaimRouted
  <2>2. \E end, took, lost : CallBecomes("agent", "claiming", end, took, lost)
    BY <1>1, <1>5, ClaimRoutedCall
  <2>3. ExitsIn(agentq)' = {}
    BY <1>2, <2>1, DropNotes
  <2>4. /\ io.finished /\ io.finalized /\ monitor # "now"
        /\ \A q \in Readers : calls[q].pc # "unobserved"
    BY <2>1 DEF SessionHolds, CallsHold, CallHolds, Finalizing
  <2>5. \A q \in Readers : calls'[q].pc # "unobserved"
    BY <2>2, <2>4 DEF CallBecomes
  <2>6. Hushed
    BY <1>3, <2>3, <2>5 DEF Hushed
  <2>7. notes["agent"] = 0 /\ agentq # <<>> /\ owner = "agent"
    BY <1>2, <2>1, EmptyNotes DEF ExitOnItsWay, NotesHold
  <2>8. Deaf("agent")'
    BY <1>3, <2>1, <2>3, <2>4, <2>5, <2>7 DEF Deaf, Unheard
  <2>9. Heard("lead")' => Heard("lead")
    BY <1>3, <2>2 DEF Heard, CallBecomes, Readers
  <2>10. QED
    BY <1>3, <2>6, <2>7, <2>8, <2>9, HeardParts, DeafFrame DEF Readers
<1>6. CASE JoinRetracted
  <2>1. agentq' = agentq /\ posted' = posted
        /\ Goto("agent", IF calls["agent"].pc = "claiming" THEN "claimed" ELSE "ending")
    BY <1>6 DEF JoinRetracted
  <2>2. (IF calls["agent"].pc = "claiming" THEN "claimed" ELSE "ending") \in Pcs
    BY DEF Pcs
  <2>3. \E end, took, lost : CallBecomes("agent", IF calls["agent"].pc = "claiming" THEN "claimed" ELSE "ending",
                                          end, took, lost)
    BY <1>1, <1>2, <2>1, <2>2, GotoCall
  <2>4. /\ \A q \in Readers : Heard(q)' => Heard(q)
        /\ \A q \in Readers : calls'[q].pc = "unobserved" => calls[q].pc = "unobserved"
    BY <1>3, <2>3, SameHeard DEF CallBecomes, Claiming
  <2>5. Hushed
    BY <1>3, <2>1, <2>4 DEF Hushed
  <2>6. QED
    BY <1>3, <1>4, <2>4, <2>5, HeardFrame
<1>7. QED
    BY <1>5, <1>6 DEF RoutedStep

\* The lead's hearing of notes with no exit among them, and the settling of the cells held.
LEMMA DispatchHushed ==
    ASSUME TypeOK, NEW b \in Seq(Note), NEW h \in Seq(Note), Dispatch(b, h, unread),
           ExitsIn(b) \subseteq ExitsIn(board), ExitsIn(h) \subseteq ExitsIn(held)
    PROVE  /\ unread' \in {unread, "none"} /\ ExitsIn(board)' = {}
           /\ notes'["agent"] = notes["agent"]
           /\ ExitsIn(board) = {} => notes'["lead"] = notes["lead"]
           /\ Silent => Silent'
<1>1. CountTypes /\ ExitsIn(<<>>) = {}
    BY TypeParts, EmptyNotes
<1>2. /\ notes'["lead"] = notes["lead"] + Exits(b) /\ notes'["agent"] = notes["agent"]
      /\ unread' = IF ExitsIn(b) = {} THEN unread ELSE "none"
      /\ cells' = cells \cup {note \in Range(h) : note.n \notin retracted}
      /\ board' = <<>> /\ held' = <<>>
    BY <1>1, DispatchEffect
<1>3. ExitsIn(board) = {} => notes'["lead"] = notes["lead"]
  <2>1. notes["lead"] \in Nat
    BY <1>1 DEF CountTypes, Readers
  <2>2. Exits(b) \in Nat /\ (Exits(b) = 0 <=> ExitsIn(b) = {})
    BY CountType
  <2>3. QED
    BY <1>2, <2>1, <2>2
<1>4. Silent => Silent'
    BY <1>1, <1>2 DEF Silent, ExitCell, ExitsIn
<1>5. QED
    BY <1>1, <1>2, <1>3, <1>4

LEMMA DeferHushed ==
    ASSUME TypeOK, NEW b \in Seq(Note), NEW h \in Seq(Note), Defer(b, h, unread),
           ExitsIn(b) \subseteq ExitsIn(board), ExitsIn(h) \subseteq ExitsIn(held)
    PROVE  /\ unread' \in {unread, "none"} /\ ExitsIn(board)' \subseteq ExitsIn(board)
           /\ notes'["agent"] = notes["agent"]
           /\ ExitsIn(board) = {} => notes'["lead"] = notes["lead"]
           /\ Silent => Silent'
<1>1. CASE turn
  <2>1. board' = b /\ held' = h /\ unread' = unread /\ UNCHANGED <<cells, retracted, stream, notes>>
    BY <1>1 DEF Defer
  <2>2. QED
    BY <2>1 DEF Silent, ExitCell
<1>2. CASE ~turn
  <2>1. Dispatch(b, h, unread)
    BY <1>2 DEF Defer
  <2>2. QED
    BY <2>1, DispatchHushed
<1>3. QED
    BY <1>1, <1>2

LEMMA EventHeard ==
    ASSUME TypeOK, ExitOnItsWay, HeardOnce, OnBgEvent
    PROVE  HeardOnce'
<1>1. /\ events # <<>> /\ events' = Tail(events)
      /\ \/ Head(events) = "exited" /\ ReportCompletion("exit")
         \/ Head(events) = "waiting" /\ ReportCompletion("waiting")
         \/ /\ Head(events) \notin {"exited", "waiting"}
            /\ UNCHANGED <<unread, board, retracted, posted, agentq, held, cells, stream, turn, notes>>
    BY EventEffect
<1>2. UNCHANGED <<owner, io, monitor, calls, reports, late>>
    BY DEF OnBgEvent
<1>3. \A r \in Readers : Heard(r)' => Heard(r)
    BY <1>2, SameHeard
<1>4. events \in Seq(EventKinds) /\ Way(unread, board, agentq, held) /\ ExitEvent
    BY WayParts DEF TypeOK, EventKinds
<1>5. CASE /\ unread' \in {unread, "none"}
           /\ UNCHANGED <<board, retracted, agentq, held, cells, stream, notes>>
  <2>1. Hushed
    BY <1>2, <1>5, HushedFrame
  <2>2. ExitCell' => ExitCell
    BY <1>5 DEF ExitCell
  <2>3. QED
    BY <1>2, <1>3, <1>5, <2>1, <2>2, HeardFrame
<1>6. CASE Head(events) = "exited" /\ ReportCompletion("exit")
  <2>1. "exited" \in Range(events)
    BY <1>1, <1>4, <1>6, NextEvent DEF ExitEvent
  <2>2. unread \in {"unposted", "claimed"}
    BY <1>4, <2>1 DEF ExitEvent
  <2>3. CASE unread = "unposted"
    <3>1. \A r \in Readers : ~Heard(r)
        BY <2>3, HeardParts DEF Deaf
    <3>2. QED
        BY <1>3, <3>1, NobodyHeard
  <2>4. CASE unread = "claimed"
    <3>1. /\ unread' = "none"
          /\ UNCHANGED <<board, retracted, agentq, held, cells, stream, notes>>
        BY <1>6, <2>4 DEF ReportCompletion, Covered
    <3>2. QED
        BY <1>5, <3>1
  <2>5. QED
    BY <2>2, <2>3, <2>4
<1>7. CASE Head(events) = "waiting" /\ ReportCompletion("waiting")
  <2> DEFINE note == NewNote("waiting")
  <2>1. note \in Note /\ note.kind = "waiting" /\ note.kind # "exit"
    BY NewNoteApart
  <2>2. board \in Seq(Note) /\ held \in Seq(Note) /\ agentq \in Seq(Note)
    BY DEF TypeOK
  <2>3. \/ UNCHANGED <<unread, board, retracted, agentq, held, cells, stream, notes>>
        \/ /\ agentq' = Append(agentq, note)
           /\ Defer(board, Append(held, note), unread)
        \/ /\ agentq' = agentq
           /\ Defer(Append(board, note), Append(held, note), unread)
    BY <1>7, ReportEffect
  <2> HIDE DEF note
  <2>4. \A s \in Seq(Note) : Append(s, note) \in Seq(Note) /\ ExitsIn(Append(s, note)) = ExitsIn(s)
    BY <2>1, AddNote
  <2>5. CASE UNCHANGED <<unread, board, retracted, agentq, held, cells, stream, notes>>
    BY <1>5, <2>5
  <2>6. ASSUME NEW b \in Seq(Note), Defer(b, Append(held, note), unread), ExitsIn(b) = ExitsIn(board),
               ExitsIn(agentq)' = ExitsIn(agentq)
        PROVE  HeardOnce'
    <3>1. Append(held, note) \in Seq(Note) /\ ExitsIn(Append(held, note)) = ExitsIn(held)
        BY <2>2, <2>4
    <3>2. /\ unread' \in {unread, "none"} /\ ExitsIn(board)' \subseteq ExitsIn(board)
          /\ notes'["agent"] = notes["agent"]
          /\ ExitsIn(board) = {} => notes'["lead"] = notes["lead"]
          /\ Silent => Silent'
        BY <2>6, <3>1, DeferHushed
    <3>3. \A r \in Readers : ExitsIn(Unheard(r)) = {} => notes'[r] = notes[r]
        BY <3>2 DEF Unheard, Readers
    <3>4. Hushed
        BY <1>2, <2>6, <3>2, <3>3 DEF Hushed
    <3>5. QED
        BY <1>2, <1>3, <3>2, <3>4, HeardBy
  <2>7. QED
    BY <2>2, <2>3, <2>4, <2>5, <2>6
<1>8. QED
    BY <1>1, <1>5, <1>6, <1>7

LEMMA LoopHeard ==
    ASSUME TypeOK, NotesHold, ExitOnItsWay, HeardOnce, LoopStep
    PROVE  HeardOnce'
<1>1. board \in Seq(Note) /\ held \in Seq(Note) /\ agentq \in Seq(Note) /\ ExitsIn(<<>>) = {}
    BY EmptyNotes DEF TypeOK
<1>2. CallTypes /\ CountTypes
    BY TypeParts
<1>3. CASE OnBgEvent
    BY <1>3, EventHeard
<1>4. CASE NoticeDelivered
  <2>1. PICK n \in stream :
            LET due == {note \in Range(held) : note.n = n} IN
            /\ stream' = stream \ {n} /\ cells' = cells \cup due /\ held' = Without(held, due)
    BY <1>4 DEF NoticeDelivered
  <2>2. UNCHANGED <<owner, io, monitor, calls, reports, late, unread, task, board, agentq, retracted, notes>>
    BY <1>4 DEF NoticeDelivered, ioVars, noteVars, heardVars
  <2>3. ExitsIn(held)' \subseteq ExitsIn(held)
    BY <1>1, <2>1, DropNotes
  <2>4. Silent => Silent'
    BY <2>1, <2>2, <2>3 DEF Silent, ExitCell, ExitsIn
  <2>5. Hushed /\ \A r \in Readers : Heard(r)' => Heard(r)
    BY <2>2, HushedFrame, SameHeard
  <2>6. QED
    BY <2>2, <2>4, <2>5, HeardBy
<1>5. CASE LeadReads
  <2>1. /\ HearBoard(board, unread) /\ stream' = stream \cup Numbers(board)
        /\ UNCHANGED <<owner, io, monitor, calls, reports, late, task, retracted, agentq, held, cells>>
    BY <1>5 DEF LeadReads, loopVars
  <2>2. /\ notes'["lead"] = notes["lead"] + Exits(board) /\ notes'["agent"] = notes["agent"]
        /\ board' = <<>>
        /\ unread' = IF ExitsIn(board) = {} THEN unread ELSE "none"
    BY <1>1, <1>2, <2>1, HearBoardEffect
  <2>3. /\ notes["lead"] \in Nat
        /\ Exits(board) \in Nat /\ (Exits(board) = 0 <=> ExitsIn(board) = {})
    BY <1>1, <1>2, CountType DEF CountTypes, Readers
  <2>4. ExitsIn(board) = {} => notes'["lead"] = notes["lead"]
    BY <2>2, <2>3
  <2>5. \A r \in Readers : ExitsIn(Unheard(r)) = {} => notes'[r] = notes[r]
    BY <2>2, <2>4 DEF Unheard, Readers
  <2>6. Hushed /\ \A r \in Readers : Heard(r)' => Heard(r)
    BY <1>1, <2>1, <2>2, <2>5, SameHeard DEF Hushed
  <2>7. ASSUME Heard("lead"), Silent PROVE Silent'
    <3>1. ExitsIn(board) = {}
        BY <2>7, HeardParts DEF Deaf, Unheard, Readers
    <3>2. \A note \in ExitsIn(held) : note.n \notin Numbers(board)
        BY <3>1 DEF NotesHold, Pending, ExitsIn, Numbers
    <3>3. QED
        BY <2>1, <2>7, <3>2 DEF Silent, ExitCell
  <2>8. QED
    BY <2>1, <2>6, <2>7, HeardBy
<1>6. CASE TurnEnds \/ Interrupt
  <2>1. /\ Dispatch(board, held, unread)
        /\ UNCHANGED <<owner, io, monitor, task, agentq, reports, late, posted>>
    BY <1>6 DEF TurnEnds, Interrupt
  <2>2. \A r \in Readers : calls'[r].pc = calls[r].pc
    <3>1. CASE TurnEnds
        BY <3>1 DEF TurnEnds
    <3>2. CASE Interrupt
      <4>1. calls' = [calls EXCEPT !["lead"].lost = TRUE] /\ "lead" \in Readers /\ TRUE \in BOOLEAN
        BY <3>2 DEF Interrupt, Readers
      <4>2. CallBecomes("lead", calls["lead"].pc, calls["lead"].end, calls["lead"].took, TRUE)
        BY <1>2, <2>1, <4>1, LostCall
      <4>3. QED
        BY <4>2 DEF CallBecomes
    <3>3. QED
        BY <1>6, <3>1, <3>2
  <2>3. /\ unread' \in {unread, "none"} /\ ExitsIn(board)' = {}
        /\ notes'["agent"] = notes["agent"]
        /\ ExitsIn(board) = {} => notes'["lead"] = notes["lead"]
        /\ Silent => Silent'
    BY <1>1, <2>1, DispatchHushed
  <2>4. \A r \in Readers : ExitsIn(Unheard(r)) = {} => notes'[r] = notes[r]
    BY <2>3 DEF Unheard, Readers
  <2>5. Hushed /\ \A r \in Readers : Heard(r)' => Heard(r)
    BY <2>1, <2>2, <2>3, <2>4, SameHeard DEF Hushed
  <2>6. QED
    BY <2>1, <2>3, <2>5, HeardBy
<1>7. CASE Submit
  <2>1. UNCHANGED <<owner, io, monitor, calls, reports, late, unread, board, agentq, retracted, notes,
                    held, cells, stream>>
    BY <1>7 DEF Submit, ioVars, noteVars, loopVars, heardVars
  <2>2. Hushed /\ \A r \in Readers : Heard(r)' => Heard(r)
    BY <2>1, HushedFrame, SameHeard
  <2>3. ExitCell' => ExitCell
    BY <2>1 DEF ExitCell
  <2>4. QED
    BY <2>1, <2>2, <2>3, HeardFrame
<1>8. QED
    BY <1>3, <1>4, <1>5, <1>6, <1>7 DEF LoopStep

LEMMA AgentHeard ==
    ASSUME TypeOK, NotesHold, ExitOnItsWay, HeardOnce, AgentStep
    PROVE  HeardOnce'
<1>1. agentq \in Seq(Note) /\ ExitsIn(<<>>) = {}
    BY EmptyNotes DEF TypeOK
<1>2. CallTypes /\ CountTypes
    BY TypeParts
<1>3. /\ UNCHANGED <<owner, io, monitor, unread, task, board, held, cells, stream, retracted, reports, late, posted>>
      /\ agentq' \in {agentq, <<>>}
    BY DEF AgentStep, AgentReads, AgentSettles, AgentStopped, ioVars, noteVars, loopVars, heardVars
<1>4. \A r \in Readers : calls'[r].pc = calls[r].pc
  <2>1. CASE AgentReads \/ AgentSettles
    BY <2>1 DEF AgentReads, AgentSettles
  <2>2. CASE AgentStopped
    <3>1. calls' = [calls EXCEPT !["agent"].lost = calls["agent"].pc # "idle"] /\ "agent" \in Readers
        BY <2>2 DEF AgentStopped, Readers
    <3> DEFINE lost == calls["agent"].pc # "idle"
    <3>2. lost \in BOOLEAN /\ calls' = [calls EXCEPT !["agent"].lost = lost]
        BY <3>1
    <3> HIDE DEF lost
    <3>3. CallBecomes("agent", calls["agent"].pc, calls["agent"].end, calls["agent"].took, lost)
        BY <1>2, <1>3, <3>1, <3>2, LostCall
    <3>4. QED
        BY <3>3 DEF CallBecomes
  <2>3. QED
    BY <2>1, <2>2 DEF AgentStep
<1>5. \A r \in Readers : ExitsIn(Unheard(r)) = {} => notes'[r] = notes[r]
  <2>1. CASE AgentSettles \/ AgentStopped
    BY <2>1 DEF AgentSettles, AgentStopped, heardVars
  <2>2. CASE AgentReads
    <3>1. notes' = [notes EXCEPT !["agent"] = @ + Exits(agentq)]
        BY <2>2 DEF AgentReads
    <3>2. /\ notes \in [Readers -> Nat]
          /\ Exits(agentq) \in Nat /\ (Exits(agentq) = 0 <=> ExitsIn(agentq) = {})
        BY <1>1, <1>2, CountType DEF CountTypes
    <3>3. QED
        BY <3>1, <3>2 DEF Unheard, Readers
  <2>3. QED
    BY <2>1, <2>2 DEF AgentStep
<1>6. Hushed /\ \A r \in Readers : Heard(r)' => Heard(r)
    BY <1>1, <1>3, <1>4, <1>5, SameHeard DEF Hushed
<1>7. ExitCell' => ExitCell
    BY <1>3 DEF ExitCell
<1>8. QED
    BY <1>3, <1>6, <1>7, HeardFrame

LEMMA HeardStep ==
    ASSUME TypeOK, CallsHold, SessionHolds, NotesHold, ExitOnItsWay, HeardOnce, Next
    PROVE  HeardOnce'
BY Steps, SessionHeard, WaitHeard, NoteHeard, RoutedHeard, LoopHeard, AgentHeard

-----------------------------------------------------------------------------
(* The exit is not lost.                                                   *)

\* What was heard, shown or covered stays so.
Grows ==
    /\ owner' = owner /\ (watched => watched') /\ (dropped => dropped') /\ cells \subseteq cells'
    /\ \A r \in Readers : reports[r] <= reports'[r] /\ notes[r] <= notes'[r]

LEMMA SameGrows ==
    ASSUME TypeOK, UNCHANGED <<owner, watched, dropped, cells, reports, notes>>
    PROVE  Grows
<1>1. \A r \in Readers : reports[r] \in Nat /\ notes[r] \in Nat
    BY DEF TypeOK
<1>2. QED
    BY <1>1 DEF Grows

LEMMA DeferGrows ==
    ASSUME TypeOK, NEW b \in Seq(Note), NEW h \in Seq(Note), NEW u, Defer(b, h, u) \/ Dispatch(b, h, u)
    PROVE  /\ cells \subseteq cells' /\ \A r \in Readers : notes[r] <= notes'[r]
<1>1. CountTypes
    BY TypeParts
<1>2. /\ Exits(b) \in Nat
      /\ \A r \in Readers : notes[r] \in Nat
    BY <1>1, CountType DEF CountTypes
<1>3. CASE Dispatch(b, h, u)
  <2>1. notes'["lead"] = notes["lead"] + Exits(b) /\ notes'["agent"] = notes["agent"] /\ cells \subseteq cells'
    BY <1>1, <1>3, DispatchEffect
  <2>2. QED
    BY <1>2, <2>1 DEF Readers
<1>4. CASE UNCHANGED <<cells, notes>>
    BY <1>2, <1>4
<1>5. QED
    BY <1>3, <1>4 DEF Defer

LEMMA EventGrows ==
    ASSUME TypeOK, OnBgEvent
    PROVE  Grows
<1>1. UNCHANGED <<owner, watched, dropped, reports>>
    BY DEF OnBgEvent
<1>2. CASE UNCHANGED <<cells, notes>>
    BY <1>1, <1>2, SameGrows
<1>3. ASSUME NEW kind \in {"exit", "waiting"}, ReportCompletion(kind) PROVE Grows
  <2>1. \/ UNCHANGED <<cells, notes>>
        \/ \E b \in Seq(Note), h \in Seq(Note) : \E u : Defer(b, h, u)
    <3>1. board \in Seq(Note)
        BY DEF TypeOK
    <3>2. QED
        BY <1>3, <3>1, ReportEffect
  <2>2. CASE \E b \in Seq(Note), h \in Seq(Note) : \E u : Defer(b, h, u)
    <3>1. /\ cells \subseteq cells' /\ \A r \in Readers : notes[r] <= notes'[r]
        BY <2>2, DeferGrows
    <3>2. \A r \in Readers : reports[r] \in Nat
        BY DEF TypeOK
    <3>3. QED
        BY <1>1, <3>1, <3>2 DEF Grows
  <2>3. QED
    BY <1>2, <2>1, <2>2
<1>4. QED
    BY <1>2, <1>3, EventEffect

LEMMA GrowsStep ==
    ASSUME TypeOK, Next
    PROVE  Grows
<1>1. CallTypes /\ CountTypes /\ board \in Seq(Note) /\ held \in Seq(Note) /\ agentq \in Seq(Note)
      /\ \A r \in Readers : reports[r] \in Nat /\ notes[r] \in Nat
    BY TypeParts DEF TypeOK
<1>2. ASSUME NEW r \in Readers, Return(r), posted' = posted, watched => watched',
             UNCHANGED <<owner, cells, notes>>
      PROVE  Grows
  <2>1. /\ \A q \in Readers : reports'[q] =
             IF q = r /\ Covers(calls[r].end) /\ ~calls[r].lost THEN reports[q] + 1 ELSE reports[q]
        /\ dropped' <=> dropped \/ (Covers(calls[r].end) /\ calls[r].lost)
    BY <1>1, <1>2, ReturnCall
  <2>2. \A q \in Readers : reports[q] <= reports'[q] /\ notes[q] <= notes'[q]
    BY <1>1, <1>2, <2>1
  <2>3. QED
    BY <1>2, <2>1, <2>2 DEF Grows
<1>3. CASE SessionStep
    BY <1>3, SameGrows DEF SessionStep, Output, TellPrompt, Finish, Register, Launch, loopVars, heardVars
<1>4. ASSUME NEW r \in Readers, WaitStep(r) \/ NoteStep(r) PROVE Grows
  <2>1. CASE EndWait(r)
    <3>1. UNCHANGED <<owner, cells, notes, watched, posted>> /\ (Return(r) \/ UNCHANGED <<reports, dropped>>)
        BY <2>1 DEF EndWait, noteVars, loopVars
    <3>2. QED
        BY <1>2, <3>1, SameGrows
  <2>2. CASE Finalize(r) \/ ReportClaimed(r)
    <3>1. CASE Finalize(r)
      <4>1. UNCHANGED <<owner, cells, notes, posted>> /\ Return(r)
        BY <3>1 DEF Finalize, noteVars
      <4>2. watched' = (watched \/ calls[r].pc = "observed")
        BY <3>1 DEF Finalize
      <4>3. watched => watched'
        BY <4>2
      <4>4. QED
        BY <1>2, <4>1, <4>3
    <3>2. CASE ReportClaimed(r)
      <4>1. UNCHANGED <<owner, cells, notes, posted, watched>> /\ Return(r)
        BY <3>2 DEF ReportClaimed, noteVars, loopVars
      <4>2. QED
        BY <1>2, <4>1
    <3>3. QED
        BY <2>2, <3>1, <3>2
  <2>3. CASE BeginWait(r) \/ Look(r) \/ LookUp(r) \/ (\E end \in Ends : LaunchWaited(r, end) \/ Waited(r, end))
             \/ RetractNotices(r) \/ ClaimBoard(r)
    BY <2>3, SameGrows DEF BeginWait, Look, LookUp, LaunchWaited, Waited, RetractNotices, ClaimBoard,
       loopVars, heardVars
  <2>4. QED
    BY <1>4, <2>1, <2>2, <2>3 DEF WaitStep, NoteStep
<1>5. CASE RoutedStep
    BY <1>5, SameGrows DEF RoutedStep, ClaimRouted, JoinRetracted, loopVars, heardVars
<1>6. CASE LoopStep
  <2>1. CASE OnBgEvent
    BY <2>1, EventGrows
  <2>2. CASE NoticeDelivered
    <3>1. UNCHANGED <<owner, watched, dropped, reports, notes>> /\ cells \subseteq cells'
        BY <2>2 DEF NoticeDelivered, heardVars
    <3>2. QED
        BY <1>1, <3>1 DEF Grows
  <2>3. CASE LeadReads
    <3>1. UNCHANGED <<owner, watched, dropped, reports, cells>> /\ HearBoard(board, unread)
        BY <2>3 DEF LeadReads, loopVars
    <3>2. notes'["lead"] = notes["lead"] + Exits(board) /\ notes'["agent"] = notes["agent"]
        BY <1>1, <3>1, HearBoardEffect
    <3>3. \A r \in Readers : notes[r] <= notes'[r]
        BY <1>1, <3>2, CountType DEF Readers
    <3>4. QED
        BY <1>1, <3>1, <3>3 DEF Grows
  <2>4. CASE TurnEnds \/ Interrupt
    <3>1. UNCHANGED <<owner, watched, dropped, reports>> /\ Dispatch(board, held, unread)
        BY <2>4 DEF TurnEnds, Interrupt
    <3>2. cells \subseteq cells' /\ \A r \in Readers : notes[r] <= notes'[r]
        BY <1>1, <3>1, DeferGrows
    <3>3. QED
        BY <1>1, <3>1, <3>2 DEF Grows
  <2>5. CASE Submit
    BY <2>5, SameGrows DEF Submit, loopVars, heardVars
  <2>6. QED
    BY <1>6, <2>1, <2>2, <2>3, <2>4, <2>5 DEF LoopStep
<1>7. CASE AgentStep
  <2>1. UNCHANGED <<owner, watched, dropped, reports, cells>>
    BY <1>7 DEF AgentStep, AgentReads, AgentSettles, AgentStopped, loopVars, heardVars
  <2>2. CASE AgentReads
    <3>1. notes' = [notes EXCEPT !["agent"] = @ + Exits(agentq)] /\ notes \in [Readers -> Nat]
        BY <1>1, <2>2 DEF AgentReads, CountTypes
    <3>2. Exits(agentq) \in Nat
        BY <1>1, CountType
    <3>3. \A r \in Readers : notes[r] <= notes'[r]
        BY <1>1, <3>1, <3>2 DEF Readers
    <3>4. QED
        BY <1>1, <2>1, <3>3 DEF Grows
  <2>3. CASE AgentSettles \/ AgentStopped
    BY <2>1, <2>3, SameGrows DEF AgentSettles, AgentStopped, heardVars
  <2>4. QED
    BY <1>7, <2>2, <2>3 DEF AgentStep
<1>8. QED
    BY <1>3, <1>4, <1>5, <1>6, <1>7, Steps

\* The exit's whereabouts once it left the registry.
Whereabouts ==
    \/ KnownOf
    \/ unread = "unposted"
    \/ \E r \in {owner, "lead"} : Covers(calls[r].end)
    \/ ExitsIn(board) # {}
    \/ \E note \in ExitsIn(held) : CellWillShow(note)

LEMMA SafeParts ==
    /\ ExitSafe <=> (task = "gone" /\ io.announced => Whereabouts)
    /\ ExitSafe' <=> (task' = "gone" /\ io'.announced => Whereabouts')
<1>1. ExitSafe <=> (task = "gone" /\ io.announced => Whereabouts)
    BY DEF ExitSafe, Whereabouts
<1>2. ExitSafe' <=> (task' = "gone" /\ io'.announced => Whereabouts')
    BY DEF ExitSafe, Whereabouts
<1>3. QED
    BY <1>1, <1>2

LEMMA KnownStays ==
    ASSUME TypeOK, TypeOK', Grows, KnownOf
    PROVE  KnownOf'
<1>1. \A r \in Readers : /\ reports[r] \in Nat /\ reports'[r] \in Nat
                         /\ notes[r] \in Nat /\ notes'[r] \in Nat
    BY DEF TypeOK
<1>2. \A r \in Readers : Told(r) > 0 => Told(r)' > 0
    BY <1>1 DEF Grows, Told
<1>3. owner \in Readers /\ "lead" \in Readers /\ owner' = owner
    BY OwnersAssumption DEF TypeOK, Readers, Grows
<1>4. Told(owner) > 0 => Told(owner)' > 0
    BY <1>2, <1>3 DEF Told
<1>5. ExitCell => ExitCell'
    BY DEF Grows, ExitCell
<1>6. QED
    BY <1>2, <1>3, <1>4, <1>5 DEF KnownOf, Grows

LEMMA ExitParts ==
    /\ Covers("exited") /\ ~Covers("none")
    /\ TypeOK => owner \in Readers /\ "lead" \in Readers
BY OwnersAssumption DEF Covers, TypeOK, Readers

\* A step that moves neither a note nor the unread exit, and ends no call.
LEMMA WhereaboutsFrame ==
    ASSUME TypeOK, Whereabouts, KnownOf => KnownOf', owner' = owner,
           unread = "unposted" => unread' = "unposted",
           \A r \in Readers : Covers(calls[r].end) => Covers(calls'[r].end),
           UNCHANGED <<board, held, retracted>>,
           calls'["agent"].took \subseteq calls["agent"].took
    PROVE  Whereabouts'
<1>1. \A note : CellWillShow(note) => CellWillShow(note)'
    BY DEF CellWillShow
<1>2. (\E r \in {owner, "lead"} : Covers(calls[r].end)) => (\E r \in {owner, "lead"} : Covers(calls[r].end))'
    BY ExitParts
<1>3. QED
    BY <1>1, <1>2 DEF Whereabouts

LEMMA LeadKnows ==
    ASSUME TypeOK', notes'["lead"] > 0
    PROVE  KnownOf'
<1>1. /\ reports'["lead"] \in Nat /\ notes'["lead"] \in Nat
      /\ owner' \in {"lead", "agent"}
    BY OwnersAssumption DEF TypeOK, Readers
<1>2. Told("lead")' > 0
    BY <1>1 DEF Told
<1>3. owner' = "lead" => Told(owner)' > 0
    BY <1>1 DEF Told
<1>4. QED
    BY <1>1, <1>2, <1>3 DEF KnownOf

\* A call's report is heard, or was dropped with its turn.
LEMMA ReturnKnown ==
    ASSUME TypeOK, TypeOK', NEW r \in Readers, Return(r), Covers(calls[r].end), r \in {owner, "lead"},
           UNCHANGED <<owner, notes, posted>>
    PROVE  KnownOf'
<1>1. CallTypes /\ CountTypes
    BY TypeParts
<1>2. /\ \A q \in Readers : reports'[q] =
           IF q = r /\ Covers(calls[r].end) /\ ~calls[r].lost THEN reports[q] + 1 ELSE reports[q]
      /\ dropped' <=> dropped \/ (Covers(calls[r].end) /\ calls[r].lost)
    BY <1>1, ReturnCall
<1>3. /\ reports[r] \in Nat /\ notes'[r] \in Nat /\ owner' \in {"lead", "agent"}
    BY OwnersAssumption DEF TypeOK, Readers
<1>4. CASE calls[r].lost
    BY <1>2, <1>4 DEF KnownOf
<1>5. CASE ~calls[r].lost
  <2>1. Told(r)' > 0
    BY <1>2, <1>3, <1>5 DEF Told
  <2>2. r = owner => Told(owner)' > 0
    BY <2>1 DEF Told
  <2>3. QED
    BY <1>3, <2>1, <2>2 DEF KnownOf
<1>6. QED
    BY <1>4, <1>5

LEMMA ReturnSafe ==
    ASSUME TypeOK, TypeOK', Whereabouts, KnownOf => KnownOf', NEW r \in Readers, Return(r),
           UNCHANGED <<owner, unread, board, held, retracted, notes, posted>>
    PROVE  Whereabouts'
<1>1. CallTypes /\ CountTypes
    BY TypeParts
<1>2. CallBecomes(r, "idle", "none", {}, FALSE)
    BY <1>1, ReturnCall
<1>3. CASE Covers(calls[r].end) /\ r \in {owner, "lead"}
    BY <1>3, ReturnKnown DEF Whereabouts
<1>4. CASE ~(Covers(calls[r].end) /\ r \in {owner, "lead"})
  <2>1. \A note : CellWillShow(note) => CellWillShow(note)'
    BY <1>2 DEF CellWillShow, CallBecomes, Readers
  <2>2. \A q \in {owner, "lead"} : Covers(calls[q].end) => Covers(calls'[q].end)
    BY <1>2, <1>4, ExitParts DEF CallBecomes
  <2>3. QED
    BY <2>1, <2>2 DEF Whereabouts
<1>5. QED
    BY <1>3, <1>4

LEMMA SessionSafe ==
    ASSUME TypeOK, TypeOK', KnownOf => KnownOf', CallsHold, SessionHolds, ExitOnItsWay, ExitSafe, SessionStep
    PROVE  ExitSafe'
<1>1. UNCHANGED <<owner, board, held, retracted, agentq, cells, notes, stream>>
    BY DEF SessionStep, Output, TellPrompt, Finish, Register, Launch, noteVars, loopVars, heardVars
<1>2. IoTypes
    BY TypeParts
<1>3. CASE Output \/ TellPrompt \/ Finish
  <2>1. UNCHANGED <<calls, unread, task>>
    BY <1>3 DEF Output, TellPrompt, Finish
  <2>2. io'.announced = io.announced
    BY <1>2, <1>3, OutputIo, TellPromptIo, FinishIo
  <2>3. Whereabouts => Whereabouts'
    BY <1>1, <2>1, WhereaboutsFrame
  <2>4. QED
    BY <2>1, <2>2, <2>3, SafeParts
<1>4. CASE Register
  <2>1. UNCHANGED <<io, calls>>
    BY <1>4 DEF Register
  <2>2. CASE monitor = "now"
    <3>1. EndTask(FALSE) /\ task # "gone"
        BY <1>4, <2>2 DEF Register, SessionHolds
    <3>2. unread' = "unposted" <=> io.announced
        BY <1>1, <3>1, EndTaskWay
    <3>3. QED
        BY <2>1, <3>2, SafeParts DEF Whereabouts
  <2>3. CASE monitor # "now"
    <3>1. unread' = unread /\ (task' = "gone" <=> task = "gone")
        BY <1>4, <2>3 DEF Register
    <3>2. Whereabouts => Whereabouts'
        BY <1>1, <2>1, <3>1, WhereaboutsFrame
    <3>3. QED
        BY <2>1, <3>1, <3>2, SafeParts
  <2>4. QED
    BY <2>2, <2>3
<1>5. CASE \E background \in BOOLEAN : Launch(background)
    BY <1>5, SafeParts DEF Launch
<1>6. QED
    BY <1>3, <1>4, <1>5 DEF SessionStep

LEMMA WaitSafe ==
    ASSUME TypeOK, TypeOK', KnownOf => KnownOf', CallsHold, SessionHolds, ExitOnItsWay, ExitSafe,
           NEW r \in Readers, WaitStep(r)
    PROVE  ExitSafe'
<1>1. UNCHANGED <<owner, board, held, retracted, agentq, cells, notes, stream, posted>>
    BY DEF WaitStep, BeginWait, Look, EndWait, Finalize, LookUp, LaunchWaited, Waited, ioVars, noteVars,
       loopVars, heardVars
<1>2. IoTypes /\ CallTypes
    BY TypeParts
<1>3. ASSUME NEW pc, NEW end, NEW lost, CallBecomes(r, pc, end, calls[r].took, lost),
             Covers(calls[r].end) => Covers(end),
             io'.announced = io.announced, UNCHANGED <<task, unread>>
      PROVE  ExitSafe'
  <2>1. /\ \A q \in Readers : Covers(calls[q].end) => Covers(calls'[q].end)
        /\ calls'["agent"].took \subseteq calls["agent"].took
    BY <1>3 DEF CallBecomes, Readers
  <2>2. Whereabouts => Whereabouts'
    BY <1>1, <1>3, <2>1, WhereaboutsFrame
  <2>3. QED
    BY <1>3, <2>2, SafeParts
<1>4. CASE BeginWait(r)
  <2>1. io.waiters \in 0 .. 1
    BY <1>4, Waiters DEF BeginWait, InWait
  <2>2. io'.announced = io.announced /\ UNCHANGED <<task, unread>>
    BY <1>2, <1>4, <2>1, BeginWaitIo DEF BeginWait
  <2>3. QED
    BY <1>3, <1>4, <2>2, WaitCalls
<1>5. CASE Look(r)
  <2>1. io'.announced = io.announced /\ UNCHANGED <<task, unread>>
    BY <1>2, <1>5, LookIo DEF Look
  <2>2. QED
    BY <1>3, <1>5, <2>1, WaitCalls
<1>6. CASE LookUp(r)
  <2>1. UNCHANGED <<io, task, unread>>
    BY <1>6 DEF LookUp, ioVars
  <2>2. QED
    BY <1>3, <1>6, <2>1, WaitCalls
<1>7. ASSUME NEW end \in Ends, Waited(r, end) PROVE ExitSafe'
  <2>1. UNCHANGED <<io, task, unread>> /\ calls[r].end = "none"
    BY <1>7 DEF Waited, ioVars, CallsHold, CallHolds
  <2>2. QED
    BY <1>3, <1>7, <2>1, WaitCalls, ExitParts
<1>8. ASSUME NEW end \in Ends, LaunchWaited(r, end) PROVE ExitSafe'
  <2>1. task' = task /\ calls[r].pc = "launched"
    BY <1>8 DEF LaunchWaited
  <2>2. task # "gone"
    BY <2>1 DEF CallsHold, CallHolds, InWait, SessionHolds
  <2>3. QED
    BY <2>1, <2>2, SafeParts
<1>9. CASE EndWait(r)
  <2>1. io.waiters \in 1 .. 2
    BY <1>9, Waiters DEF EndWait, InWait
  <2>2. io'.announced = io.announced /\ UNCHANGED <<task, unread>>
    BY <1>2, <1>9, <2>1, EndWaitIo DEF EndWait
  <2>3. CASE Last
    BY <1>3, <1>9, <2>2, <2>3, WaitCalls
  <2>4. CASE ~Last
    <3>1. Return(r)
        BY <1>9, <2>4 DEF EndWait, Last
    <3>2. Whereabouts => Whereabouts'
        BY <1>1, <2>2, <3>1, ReturnSafe
    <3>3. QED
        BY <2>2, <3>2, SafeParts
  <2>5. QED
    BY <2>3, <2>4
<1>10. CASE Finalize(r)
  <2>1. /\ EndTask(calls[r].pc = "observed") /\ io' = io
        /\ watched' = (watched \/ calls[r].pc = "observed")
    BY <1>10 DEF Finalize
  <2>2. task # "gone"
    BY <1>10 DEF Finalize, Finalizing, CallsHold, CallHolds
  <2>3. (calls[r].pc = "observed") \in BOOLEAN
    OBVIOUS
  <2>4. unread' = "unposted" <=> io.announced /\ ~(calls[r].pc = "observed")
    BY <1>1, <2>1, <2>2, <2>3, EndTaskWay
  <2>5. calls[r].pc = "observed" => watched'
    BY <2>1
  <2>6. QED
    BY <2>1, <2>4, <2>5, SafeParts DEF Whereabouts, KnownOf
<1>11. QED
    BY <1>4, <1>5, <1>6, <1>7, <1>8, <1>9, <1>10 DEF WaitStep

LEMMA NoteSafe ==
    ASSUME TypeOK, TypeOK', KnownOf => KnownOf', CallsHold, SessionHolds, NotesHold, ExitOnItsWay, ExitSafe,
           NEW r \in Readers, NoteStep(r)
    PROVE  ExitSafe'
<1>1. UNCHANGED <<owner, task, held, cells, notes, stream, posted>>
    BY DEF NoteStep, RetractNotices, ClaimBoard, ReportClaimed, ioVars, noteVars, loopVars, heardVars
<1>2. IoTypes /\ CallTypes /\ NoteTypes
    BY TypeParts
<1>3. CASE RetractNotices(r)
  <2>1. UNCHANGED <<io, unread>> /\ calls[r].pc = "retract"
    BY <1>3 DEF RetractNotices, ioVars
  <2>2. task = "gone" => Covers(calls[r].end)
    BY <2>1 DEF CallsHold, CallHolds, SessionHolds
  <2>3. \E pc, took, lost : CallBecomes(r, pc, calls[r].end, took, lost)
    BY <1>2, <1>3, RetractCall DEF Readers
  <2>4. CASE r \in {owner, "lead"}
    <3>1. task = "gone" => Whereabouts'
        BY <1>1, <2>2, <2>3, <2>4 DEF CallBecomes, Whereabouts
    <3>2. QED
        BY <1>1, <3>1, SafeParts
  <2>5. CASE r \notin {owner, "lead"}
    <3>1. r = "agent" /\ agentq = <<>>
        BY <2>5 DEF Readers, NotesHold
    <3>2. UNCHANGED <<board, retracted>> /\ CallBecomes(r, "retracting", calls[r].end, {}, calls[r].lost)
        BY <1>2, <1>3, <3>1, RetractCall, EmptyNotes DEF RetractNotices
    <3>3. \A q \in Readers : Covers(calls[q].end) => Covers(calls'[q].end)
        BY <3>2 DEF CallBecomes
    <3>4. calls'["agent"].took \subseteq calls["agent"].took
        BY <3>1, <3>2 DEF CallBecomes
    <3>5. Whereabouts => Whereabouts'
        BY <1>1, <2>1, <3>2, <3>3, <3>4, WhereaboutsFrame
    <3>6. QED
        BY <1>1, <2>1, <3>5, SafeParts
  <2>6. QED
    BY <2>4, <2>5
<1>4. CASE ClaimBoard(r)
  <2>1. io' = io
    BY <1>4 DEF ClaimBoard
  <2>2. CASE ClaimableBy(r)
    <3>1. r \in {owner, "lead"}
        BY <2>2 DEF ClaimableBy
    <3>2. calls'[r].end = "exited"
        BY <1>2, <1>4, <2>2, ClaimBoardCall DEF CallBecomes
    <3>3. Whereabouts'
        BY <1>1, <3>1, <3>2, ExitParts DEF Whereabouts
    <3>4. QED
        BY <3>3, SafeParts
  <2>3. CASE ~ClaimableBy(r)
    <3>1. UNCHANGED <<calls, unread, board, retracted>>
        BY <1>4, <2>3 DEF ClaimBoard
    <3>2. Whereabouts => Whereabouts'
        BY <1>1, <3>1, WhereaboutsFrame
    <3>3. QED
        BY <1>1, <2>1, <3>2, SafeParts
  <2>4. QED
    BY <2>2, <2>3
<1>5. CASE ReportClaimed(r)
  <2>1. UNCHANGED <<unread, board, retracted>> /\ io' = LookedBy(r) /\ Return(r)
    BY <1>5 DEF ReportClaimed, noteVars
  <2>2. io'.announced = io.announced
    BY <1>2, <2>1, LookIo
  <2>3. Whereabouts => Whereabouts'
    BY <1>1, <2>1, ReturnSafe
  <2>4. QED
    BY <1>1, <2>2, <2>3, SafeParts
<1>6. QED
    BY <1>3, <1>4, <1>5 DEF NoteStep

LEMMA RoutedSafe ==
    ASSUME TypeOK, KnownOf => KnownOf', NotesHold, ExitSafe, RoutedStep
    PROVE  ExitSafe'
<1>1. UNCHANGED <<owner, task, io, unread, board, held, cells, notes, stream, posted>>
    BY DEF RoutedStep, ClaimRouted, JoinRetracted, ioVars, loopVars, heardVars
<1>2. CallTypes /\ NoteTypes /\ agentq \in Seq(Note) /\ "agent" \in Readers
    BY TypeParts DEF TypeOK, Readers
<1>3. CASE ClaimRouted
  <2>1. calls'["agent"].end = "exited"
    BY <1>2, <1>3, ClaimRoutedCall DEF CallBecomes
  <2>2. ExitsIn(agentq) # {}
    BY <1>3 DEF ClaimRouted
  <2>3. owner = "agent"
    BY <2>2, EmptyNotes DEF NotesHold
  <2>4. Whereabouts'
    BY <1>1, <2>1, <2>3, ExitParts DEF Whereabouts
  <2>5. QED
    BY <2>4, SafeParts
<1>4. CASE JoinRetracted
  <2>1. /\ retracted' = retracted \cup calls["agent"].took
        /\ Goto("agent", IF calls["agent"].pc = "claiming" THEN "claimed" ELSE "ending")
    BY <1>4 DEF JoinRetracted
  <2>2. (IF calls["agent"].pc = "claiming" THEN "claimed" ELSE "ending") \in Pcs
    BY DEF Pcs
  <2>3. \E pc : CallBecomes("agent", pc, calls["agent"].end, calls["agent"].took, calls["agent"].lost)
    BY <1>1, <1>2, <2>1, <2>2, GotoCall
  <2>4. \A q \in Readers : calls'[q].end = calls[q].end /\ calls'[q].took = calls[q].took
    BY <2>3 DEF CallBecomes
  <2>5. \A note : CellWillShow(note) => CellWillShow(note)'
    BY <1>1, <1>2, <2>1, <2>4 DEF CellWillShow
  <2>6. \A q \in {owner, "lead"} : calls'[q].end = calls[q].end
    BY <2>4, ExitParts
  <2>7. Whereabouts => Whereabouts'
    BY <1>1, <2>5, <2>6 DEF Whereabouts
  <2>8. QED
    BY <1>1, <2>7, SafeParts
<1>5. QED
    BY <1>3, <1>4 DEF RoutedStep

\* The whereabouts, were the unread exit, the board and the cells held u, b and h.
WhereWith(u, b, h) ==
    \/ KnownOf
    \/ u = "unposted"
    \/ \E r \in {owner, "lead"} : Covers(calls[r].end)
    \/ ExitsIn(b) # {}
    \/ \E note \in ExitsIn(h) : note.n \notin retracted \cup Numbers(b) \cup calls["agent"].took

LEMMA DispatchSafe ==
    ASSUME TypeOK, TypeOK', KnownOf => KnownOf', NEW b \in Seq(Note), NEW h \in Seq(Note), NEW u,
           Dispatch(b, h, u), WhereWith(u, b, h), owner' = owner,
           \A r \in Readers : calls'[r].end = calls[r].end
    PROVE  Whereabouts'
<1>1. CountTypes
    BY TypeParts
<1>2. /\ notes'["lead"] = notes["lead"] + Exits(b)
      /\ unread' = IF ExitsIn(b) = {} THEN u ELSE "none"
      /\ cells' = cells \cup {note \in Range(h) : note.n \notin retracted}
    BY <1>1, DispatchEffect
<1>3. notes["lead"] \in Nat /\ Exits(b) \in Nat /\ (Exits(b) = 0 <=> ExitsIn(b) = {})
    BY <1>1, CountType DEF CountTypes, Readers
<1>4. CASE ExitsIn(b) # {}
  <2>1. notes'["lead"] > 0
    BY <1>2, <1>3, <1>4
  <2>2. QED
    BY <2>1, LeadKnows DEF Whereabouts
<1>5. CASE ExitsIn(b) = {} /\ u = "unposted"
    BY <1>2, <1>5 DEF Whereabouts
<1>6. CASE \E note \in ExitsIn(h) : note.n \notin retracted \cup Numbers(b) \cup calls["agent"].took
  <2>1. ExitCell'
    BY <1>2, <1>6 DEF ExitCell, ExitsIn
  <2>2. QED
    BY <2>1 DEF Whereabouts, KnownOf
<1>7. CASE \E r \in {owner, "lead"} : Covers(calls[r].end)
    BY <1>7, ExitParts DEF Whereabouts
<1>8. QED
    BY <1>4, <1>5, <1>6, <1>7 DEF WhereWith, Whereabouts

LEMMA DeferSafe ==
    ASSUME TypeOK, TypeOK', KnownOf => KnownOf', NEW b \in Seq(Note), NEW h \in Seq(Note), NEW u,
           Defer(b, h, u), WhereWith(u, b, h), owner' = owner, calls' = calls
    PROVE  Whereabouts'
<1>1. CASE turn
  <2>1. board' = b /\ held' = h /\ unread' = u /\ retracted' = retracted
    BY <1>1 DEF Defer
  <2>2. QED
    BY <2>1 DEF WhereWith, Whereabouts, CellWillShow
<1>2. CASE ~turn
    BY <1>2, DispatchSafe DEF Defer
<1>3. QED
    BY <1>1, <1>2

LEMMA EventSafe ==
    ASSUME TypeOK, TypeOK', KnownOf => KnownOf', ExitSafe, OnBgEvent
    PROVE  ExitSafe'
<1>1. /\ \/ Head(events) = "exited" /\ ReportCompletion("exit")
         \/ Head(events) = "waiting" /\ ReportCompletion("waiting")
         \/ /\ Head(events) \notin {"exited", "waiting"}
            /\ UNCHANGED <<unread, board, retracted, posted, agentq, held, cells, stream, turn, notes>>
    BY EventEffect
<1>2. UNCHANGED <<owner, task, io, calls>>
    BY DEF OnBgEvent
<1>3. CASE /\ unread = "unposted" => unread' = "unposted"
           /\ UNCHANGED <<board, held, retracted>>
    BY <1>2, <1>3, WhereaboutsFrame, SafeParts
<1>4. ASSUME NEW kind \in {"exit", "waiting"}, ReportCompletion(kind) PROVE ExitSafe'
  <2> DEFINE note == NewNote(kind)
  <2>1. /\ note \in Note /\ note.n = posted + 1 /\ note.kind = kind
        /\ \A other \in Pending : other.n # note.n
        /\ note.n \notin retracted /\ note.n \notin calls["agent"].took /\ note.n \notin Numbers(board)
    BY NewNoteApart DEF Pending, Numbers, Readers
  <2>2. board \in Seq(Note) /\ held \in Seq(Note)
    BY DEF TypeOK
  <2>3. \/ /\ kind = "exit" => unread = "claimed"
           /\ kind = "waiting" => unread' = unread
           /\ UNCHANGED <<board, retracted, held>>
        \/ Defer(board, Append(held, note), IF kind = "exit" THEN "none" ELSE unread)
        \/ Defer(Append(board, note), Append(held, note), IF kind = "exit" THEN "posted" ELSE unread)
    BY <1>4, ReportEffect DEF Covered
  <2> HIDE DEF note
  <2>4. /\ Append(board, note) \in Seq(Note) /\ Append(held, note) \in Seq(Note)
        /\ Numbers(Append(board, note)) = Numbers(board) \cup {note.n}
        /\ ExitsIn(board) \subseteq ExitsIn(Append(board, note))
        /\ ExitsIn(held) \subseteq ExitsIn(Append(held, note))
        /\ kind = "exit" => note \in ExitsIn(Append(board, note)) /\ note \in ExitsIn(Append(held, note))
    BY <2>1, <2>2, AddNote
  <2>5. \A other \in ExitsIn(held) : other.n # note.n
    BY <2>1 DEF ExitsIn, Pending
  <2>6. CASE /\ kind = "exit" => unread = "claimed"
             /\ kind = "waiting" => unread' = unread
             /\ UNCHANGED <<board, retracted, held>>
    BY <1>3, <2>6
  <2>7. CASE kind = "exit"
    <3>1. WhereWith("none", board, Append(held, note)) /\ WhereWith("posted", Append(board, note), Append(held, note))
        BY <2>1, <2>4, <2>7 DEF WhereWith
    <3>2. CASE Defer(board, Append(held, note), "none")
        BY <1>2, <2>2, <2>4, <3>1, <3>2, DeferSafe, SafeParts
    <3>3. CASE Defer(Append(board, note), Append(held, note), "posted")
        BY <1>2, <2>2, <2>4, <3>1, <3>3, DeferSafe, SafeParts
    <3>4. QED
        BY <2>3, <2>6, <2>7, <3>2, <3>3
  <2>8. CASE kind = "waiting"
    <3>1. ASSUME Whereabouts PROVE WhereWith(unread, board, Append(held, note))
                                   /\ WhereWith(unread, Append(board, note), Append(held, note))
        BY <2>4, <2>5, <3>1 DEF WhereWith, Whereabouts, CellWillShow
    <3>2. CASE Defer(board, Append(held, note), unread)
      <4>1. Whereabouts => Whereabouts'
        BY <1>2, <2>2, <2>4, <3>1, <3>2, DeferSafe
      <4>2. QED
        BY <1>2, <4>1, SafeParts
    <3>3. CASE Defer(Append(board, note), Append(held, note), unread)
      <4>1. Whereabouts => Whereabouts'
        BY <1>2, <2>2, <2>4, <3>1, <3>3, DeferSafe
      <4>2. QED
        BY <1>2, <4>1, SafeParts
    <3>4. QED
        BY <2>3, <2>6, <2>8, <3>2, <3>3
  <2>9. QED
    BY <2>7, <2>8
<1>5. QED
    BY <1>1, <1>3, <1>4

LEMMA LoopSafe ==
    ASSUME TypeOK, TypeOK', KnownOf => KnownOf', ExitSafe, LoopStep
    PROVE  ExitSafe'
<1>1. board \in Seq(Note) /\ held \in Seq(Note) /\ CallTypes /\ CountTypes
    BY TypeParts DEF TypeOK
<1>2. CASE OnBgEvent
    BY <1>2, EventSafe
<1>3. UNCHANGED <<owner, task, io>>
    BY DEF LoopStep, OnBgEvent, NoticeDelivered, LeadReads, TurnEnds, Interrupt, Submit, ioVars
<1>4. CASE NoticeDelivered
  <2>1. PICK n \in stream :
            LET due == {note \in Range(held) : note.n = n} IN
            /\ cells' = cells \cup due /\ held' = Without(held, due)
    BY <1>4 DEF NoticeDelivered
  <2>2. UNCHANGED <<calls, unread, board, retracted>>
    BY <1>4 DEF NoticeDelivered, ioVars, noteVars
  <2> DEFINE due == {note \in Range(held) : note.n = n}
  <2>3. ExitsIn(held)' = ExitsIn(held) \ due /\ cells' = cells \cup due
    BY <1>1, <2>1, DropNotes
  <2>4. (\E note \in due : note.kind = "exit") => ExitCell'
    BY <2>3 DEF ExitCell
  <2> HIDE DEF due
  <2>5. \A note : CellWillShow(note) => CellWillShow(note)'
    BY <2>2 DEF CellWillShow
  <2>6. ASSUME NEW note \in ExitsIn(held), CellWillShow(note) PROVE Whereabouts'
    <3>1. CASE note \in due
        BY <2>4, <3>1 DEF ExitsIn, Whereabouts, KnownOf
    <3>2. CASE note \notin due
        BY <2>3, <2>5, <2>6, <3>2 DEF Whereabouts
    <3>3. QED
        BY <3>1, <3>2
  <2>7. ASSUME NEW r \in {owner, "lead"}, Covers(calls[r].end) PROVE Whereabouts'
    BY <1>3, <2>2, <2>7 DEF Whereabouts
  <2>8. Whereabouts => Whereabouts'
    BY <2>2, <2>6, <2>7 DEF Whereabouts
  <2>9. QED
    BY <1>3, <2>8, SafeParts
<1>5. CASE LeadReads
  <2>1. HearBoard(board, unread) /\ UNCHANGED <<calls, retracted, held>>
    BY <1>5 DEF LeadReads, loopVars
  <2>2. /\ notes'["lead"] = notes["lead"] + Exits(board) /\ board' = <<>>
        /\ unread' = IF ExitsIn(board) = {} THEN unread ELSE "none"
    BY <1>1, <2>1, HearBoardEffect
  <2>3. notes["lead"] \in Nat /\ Exits(board) \in Nat /\ (Exits(board) = 0 <=> ExitsIn(board) = {})
    BY <1>1, CountType DEF CountTypes, Readers
  <2>4. CASE ExitsIn(board) # {}
    <3>1. notes'["lead"] > 0
        BY <2>2, <2>3, <2>4
    <3>2. QED
        BY <3>1, LeadKnows, SafeParts DEF Whereabouts
  <2>5. CASE ExitsIn(board) = {}
    <3>1. Numbers(board') = {}
        BY <2>2, EmptyNotes
    <3>2. \A note : CellWillShow(note) => CellWillShow(note)'
        BY <2>1, <3>1 DEF CellWillShow
    <3>3. (\E r \in {owner, "lead"} : Covers(calls[r].end)) => (\E r \in {owner, "lead"} : Covers(calls[r].end))'
        BY <1>3, <2>1
    <3>4. Whereabouts => Whereabouts'
        BY <2>1, <2>2, <2>5, <3>2, <3>3 DEF Whereabouts
    <3>5. QED
        BY <1>3, <3>4, SafeParts
  <2>6. QED
    BY <2>4, <2>5
<1>6. CASE TurnEnds \/ Interrupt
  <2>1. Dispatch(board, held, unread) /\ posted' = posted
    BY <1>6 DEF TurnEnds, Interrupt
  <2>2. \A r \in Readers : calls'[r].end = calls[r].end
    <3>1. CASE TurnEnds
        BY <3>1 DEF TurnEnds
    <3>2. CASE Interrupt
      <4>1. calls' = [calls EXCEPT !["lead"].lost = TRUE] /\ "lead" \in Readers /\ TRUE \in BOOLEAN
        BY <3>2 DEF Interrupt, Readers
      <4>2. CallBecomes("lead", calls["lead"].pc, calls["lead"].end, calls["lead"].took, TRUE)
        BY <1>1, <2>1, <4>1, LostCall
      <4>3. QED
        BY <4>2 DEF CallBecomes
    <3>3. QED
        BY <1>6, <3>1, <3>2
  <2>3. Whereabouts => WhereWith(unread, board, held)
    BY DEF Whereabouts, WhereWith, CellWillShow
  <2>4. Whereabouts => Whereabouts'
    BY <1>1, <1>3, <2>1, <2>2, <2>3, DispatchSafe
  <2>5. QED
    BY <1>3, <2>4, SafeParts
<1>7. CASE Submit
  <2>1. UNCHANGED <<calls, unread, board, held, retracted>>
    BY <1>7 DEF Submit, ioVars, noteVars, loopVars
  <2>2. Whereabouts => Whereabouts'
    BY <1>3, <2>1, WhereaboutsFrame
  <2>3. QED
    BY <1>3, <2>2, SafeParts
<1>8. QED
    BY <1>2, <1>4, <1>5, <1>6, <1>7 DEF LoopStep

LEMMA AgentSafe ==
    ASSUME TypeOK, KnownOf => KnownOf', ExitSafe, AgentStep
    PROVE  ExitSafe'
<1>1. UNCHANGED <<owner, task, io, unread, board, held, retracted, posted>>
    BY DEF AgentStep, AgentReads, AgentSettles, AgentStopped, ioVars, noteVars, loopVars
<1>2. CallTypes
    BY TypeParts
<1>3. /\ \A r \in Readers : calls'[r].end = calls[r].end
      /\ calls'["agent"].took = calls["agent"].took
  <2>1. CASE AgentReads \/ AgentSettles
    BY <2>1 DEF AgentReads, AgentSettles
  <2>2. CASE AgentStopped
    <3>1. calls' = [calls EXCEPT !["agent"].lost = calls["agent"].pc # "idle"] /\ "agent" \in Readers
        BY <2>2 DEF AgentStopped, Readers
    <3> DEFINE lost == calls["agent"].pc # "idle"
    <3>2. lost \in BOOLEAN /\ calls' = [calls EXCEPT !["agent"].lost = lost]
        BY <3>1
    <3> HIDE DEF lost
    <3>3. CallBecomes("agent", calls["agent"].pc, calls["agent"].end, calls["agent"].took, lost)
        BY <1>1, <1>2, <3>1, <3>2, LostCall
    <3>4. QED
        BY <3>1, <3>3 DEF CallBecomes
  <2>3. QED
    BY <2>1, <2>2 DEF AgentStep
<1>4. Whereabouts => Whereabouts'
    BY <1>1, <1>3, WhereaboutsFrame
<1>5. QED
    BY <1>1, <1>4, SafeParts

LEMMA SafeStep ==
    ASSUME TypeOK, TypeOK', CallsHold, SessionHolds, NotesHold, ExitOnItsWay, ExitSafe, Next
    PROVE  ExitSafe'
<1>1. KnownOf => KnownOf'
    BY GrowsStep, KnownStays
<1>2. QED
    BY <1>1, Steps, SessionSafe, WaitSafe, NoteSafe, RoutedSafe, LoopSafe, AgentSafe

-----------------------------------------------------------------------------
(* A prompt's note is news.                                                *)

\* Which pcs a call's step may leave behind: none but the taking back leaves "retract".
Retracts(r) == calls[r].pc = "retract" /\ calls'[r].pc # "retract"

LEMMA PromptsFrame ==
    ASSUME PromptsHold, UNCHANGED seen, io'.looked = io.looked, io'.told = io.told,
           "waiting" \in Range(events)' => "waiting" \in Range(events),
           Range(board)' \subseteq Range(board), Range(agentq)' \subseteq Range(agentq),
           task = "gone" => task' = "gone",
           \A r \in Readers : Retracts(r) => Range(Unheard(r))' = {}
    PROVE  PromptsHold'
<1>1. /\ (\A r \in Readers : seen[r] <= io.looked)'
      /\ ("waiting" \in Range(events) => io.told > 0)'
      /\ (\A note \in Range(board) \cup Range(agentq) : note.kind = "waiting" => note.at \in 1 .. io.told)'
    BY DEF PromptsHold
<1>2. PromptIsNews'
  <2> SUFFICES ASSUME task' # "gone", NEW r \in Readers, calls'[r].pc # "retract",
                      NEW note \in Range(Unheard(r))', note.kind = "waiting"
               PROVE  note.at > seen'[r]
    BY DEF PromptIsNews
  <2>1. calls[r].pc # "retract"
    BY DEF Retracts
  <2>2. note \in Range(Unheard(r))
    BY DEF Unheard
  <2>3. task # "gone" /\ seen'[r] = seen[r]
    OBVIOUS
  <2>4. QED
    BY <2>1, <2>2, <2>3 DEF PromptsHold, PromptIsNews
<1>3. QED
    BY <1>1, <1>2 DEF PromptsHold

\* Events other than a prompt's.
LEMMA NoPrompt ==
    ASSUME TypeOK, NEW e \in EventKinds \ {"waiting"}, events' \in {events, Append(events, e)}
    PROVE  "waiting" \in Range(events)' => "waiting" \in Range(events)
<1>1. events \in Seq(EventKinds)
    BY DEF TypeOK, EventKinds
<1>2. Range(Append(events, e)) = Range(events) \cup {e}
    BY <1>1, AddEvent
<1>3. QED
    BY <1>2

LEMMA EndTaskEvents ==
    ASSUME TypeOK, NEW told \in BOOLEAN, EndTask(told)
    PROVE  /\ "waiting" \in Range(events)' => "waiting" \in Range(events)
           /\ task' = "gone"
<1>1. /\ task' = "gone"
      /\ events' \in {events, Append(events, "exited")} \/ events' \in {events, Append(events, "observed")}
    BY DEF EndTask
<1>2. {"exited", "observed"} \subseteq EventKinds \ {"waiting"}
    BY DEF EventKinds
<1>3. QED
    BY <1>1, <1>2, NoPrompt

LEMMA PromptTypes ==
    TypeOK => /\ io.seq \in Nat /\ io.looked \in Nat /\ io.told \in Nat
              /\ io.looked <= io.seq /\ io.told <= io.seq
              /\ \A r \in Readers : seen[r] \in Nat
<1> SUFFICES ASSUME TypeOK
             PROVE  /\ io.seq \in Nat /\ io.looked \in Nat /\ io.told \in Nat
                    /\ io.looked <= io.seq /\ io.told <= io.seq
                    /\ \A r \in Readers : seen[r] \in Nat
    OBVIOUS
<1>1. IoTypes /\ CountTypes
    BY TypeParts
<1>2. io.seq \in Nat /\ io.looked \in Nat /\ io.told \in Nat
    BY <1>1, ShellBoundsAssumption DEF IoTypes, SessionIo
<1>3. \A r \in Readers : seen[r] \in Nat
    BY <1>1, ShellBoundsAssumption DEF CountTypes
<1>4. QED
    BY <1>1, <1>2, <1>3 DEF IoTypes

\* A look shows all there is; whose notes of prompts are taken back next, or there are none.
LEMMA LookPrompts ==
    ASSUME TypeOK, PromptsHold, NEW r \in Readers, io' = LookedBy(r), seen' = [seen EXCEPT ![r] = io.seq],
           UNCHANGED <<task, events, board, agentq>>,
           \A q \in Readers : ~Retracts(q),
           task = "gone" \/ io.told = 0 \/ calls'[r].pc = "retract"
    PROVE  PromptsHold'
<1>1. /\ io'.looked = io.seq /\ io'.told = io.told
    BY TypeParts, LookIo
<1>2. /\ io.seq \in Nat /\ io.looked \in Nat /\ io.told \in Nat
      /\ io.looked <= io.seq /\ io.told <= io.seq
      /\ \A q \in Readers : seen[q] \in Nat
    BY PromptTypes
<1>3. /\ seen'[r] = io.seq
      /\ \A q \in Readers : q # r => seen'[q] = seen[q]
    BY DEF TypeOK
<1>4. \A q \in Readers : seen[q] <= io.looked
    BY DEF PromptsHold
<1>5. (\A q \in Readers : seen[q] <= io.looked)'
    BY <1>1, <1>2, <1>3, <1>4
<1>6. /\ ("waiting" \in Range(events) => io.told > 0)'
      /\ (\A note \in Range(board) \cup Range(agentq) : note.kind = "waiting" => note.at \in 1 .. io.told)'
    BY <1>1 DEF PromptsHold
<1>7. PromptIsNews'
  <2> SUFFICES ASSUME task' # "gone", NEW q \in Readers, calls'[q].pc # "retract",
                      NEW note \in Range(Unheard(q)), note.kind = "waiting"
               PROVE  note.at > seen'[q]
    BY DEF PromptIsNews, Unheard
  <2>1. note.at \in 1 .. io.told
    BY DEF PromptsHold, Unheard
  <2>2. CASE q = r
    BY <1>2, <2>1, <2>2
  <2>3. CASE q # r
    <3>1. calls[q].pc # "retract" /\ task # "gone"
        BY DEF Retracts
    <3>2. QED
        BY <1>3, <2>3, <3>1 DEF PromptsHold, PromptIsNews
  <2>4. QED
    BY <2>2, <2>3
<1>8. QED
    BY <1>5, <1>6, <1>7 DEF PromptsHold

LEMMA SessionPrompts ==
    ASSUME TypeOK, SessionHolds, PromptsHold, SessionStep
    PROVE  PromptsHold'
<1>1. UNCHANGED <<seen, board, agentq>>
    BY DEF SessionStep, Output, TellPrompt, Finish, Register, Launch, noteVars, heardVars
<1>2. IoTypes /\ CallTypes /\ "started" \in EventKinds \ {"waiting"}
    BY TypeParts DEF EventKinds
<1>3. CASE Output \/ Finish
  <2>1. UNCHANGED <<calls, events, task>>
    BY <1>3 DEF Output, Finish, loopVars
  <2>2. io'.looked = io.looked /\ io'.told = io.told
    BY <1>2, <1>3, OutputIo, FinishIo
  <2>3. QED
    BY <1>1, <2>1, <2>2, PromptsFrame DEF Retracts
<1>4. CASE Register
  <2>1. UNCHANGED <<calls, io>>
    BY <1>4 DEF Register
  <2>2. /\ "waiting" \in Range(events)' => "waiting" \in Range(events)
        /\ task = "gone" => task' = "gone"
    <3>1. CASE monitor = "now"
      <4>1. EndTask(FALSE)
        BY <1>4, <3>1 DEF Register
      <4>2. QED
        BY <4>1, EndTaskEvents
    <3>2. CASE monitor # "now"
        BY <1>4, <3>2 DEF Register
    <3>3. QED
        BY <3>1, <3>2
  <2>3. QED
    BY <1>1, <2>1, <2>2, PromptsFrame DEF Retracts
<1>5. ASSUME NEW background \in BOOLEAN, Launch(background) PROVE PromptsHold'
  <2>1. io' = Born(background) /\ task = "none" /\ events' \in {events, Append(events, "started")}
    BY <1>5 DEF Launch
  <2>2. io'.looked = io.looked /\ io'.told = io.told
    BY <1>2, <2>1, LaunchIo
  <2>3. \A r \in Readers : ~Retracts(r)
    <3>1. CASE background
      <4>1. calls' = calls
        BY <1>5, <3>1 DEF Launch
      <4>2. QED
        BY <4>1 DEF Retracts
    <3>2. CASE ~background
      <4>1. GotoWith(owner, "launched", "none") /\ posted' = posted /\ calls[owner].pc = "idle"
        BY <1>5, <3>2 DEF Launch, noteVars, Calling
      <4>2. owner \in Readers /\ "launched" \in Pcs /\ "none" \in Ends \cup {"none"}
        BY OwnersAssumption DEF TypeOK, Pcs
      <4>3. CallBecomes(owner, "launched", "none", calls[owner].took, calls[owner].lost)
        BY <1>2, <4>1, <4>2, GotoWithCall
      <4>4. QED
        BY <4>1, <4>3 DEF Retracts, CallBecomes
    <3>3. QED
        BY <3>1, <3>2
  <2>4. "waiting" \in Range(events)' => "waiting" \in Range(events)
    BY <1>2, <2>1, NoPrompt
  <2>5. QED
    BY <1>1, <2>1, <2>2, <2>3, <2>4, PromptsFrame
<1>6. CASE TellPrompt
  <2>1. UNCHANGED <<calls, task>> /\ io.seq > io.looked /\ io.told <= io.looked
    BY <1>6 DEF TellPrompt, PromptSeen
  <2>2. io'.looked = io.looked /\ io'.told = io.seq
    BY <1>2, <1>6, TellPromptIo
  <2>3. io.seq \in Nat /\ io.looked \in Nat /\ io.told \in Nat
    BY PromptTypes
  <2>4. io'.told > 0 /\ io.told <= io'.told
    BY <2>1, <2>2, <2>3
  <2>5. (\A note \in Range(board) \cup Range(agentq) : note.kind = "waiting" => note.at \in 1 .. io.told)'
    <3>1. \A k \in 1 .. io.told : k \in 1 .. io'.told
        BY <2>2, <2>3, <2>4
    <3>2. QED
        BY <1>1, <3>1 DEF PromptsHold
  <2>6. PromptIsNews'
    BY <1>1, <2>1 DEF PromptsHold, PromptIsNews, Unheard
  <2>7. QED
    BY <1>1, <2>2, <2>4, <2>5, <2>6 DEF PromptsHold
<1>7. QED
    BY <1>3, <1>4, <1>5, <1>6 DEF SessionStep

LEMMA WaitPrompts ==
    ASSUME TypeOK, CallsHold, SessionHolds, PromptsHold, NEW r \in Readers, WaitStep(r)
    PROVE  PromptsHold'
<1>1. UNCHANGED <<board, agentq>>
    BY DEF WaitStep, BeginWait, Look, EndWait, Finalize, LookUp, LaunchWaited, Waited, noteVars
<1>2. IoTypes /\ CallTypes /\ CountTypes /\ "started" \in EventKinds \ {"waiting"}
    BY TypeParts DEF EventKinds
<1>3. ASSUME NEW pc, NEW end, NEW took, NEW lost, CallBecomes(r, pc, end, took, lost),
             calls[r].pc # "retract" \/ pc = "retract"
      PROVE  \A q \in Readers : ~Retracts(q)
    BY <1>3 DEF CallBecomes, Retracts
<1>4. CASE BeginWait(r)
  <2>1. calls[r].pc = "found" /\ UNCHANGED <<seen, events, task>>
    BY <1>4 DEF BeginWait, loopVars
  <2>2. io.waiters \in 0 .. 1
    BY <2>1, Waiters DEF InWait
  <2>3. io'.looked = io.looked /\ io'.told = io.told
    BY <1>2, <1>4, <2>2, BeginWaitIo
  <2>4. \A q \in Readers : ~Retracts(q)
    BY <1>3, <1>4, <2>1, WaitCalls
  <2>5. QED
    BY <1>1, <2>1, <2>3, <2>4, PromptsFrame
<1>5. CASE LookUp(r)
  <2>1. calls[r].pc = "idle" /\ UNCHANGED <<seen, events, task, io>>
    BY <1>5 DEF LookUp, Calling, loopVars, ioVars, heardVars
  <2>2. \A q \in Readers : ~Retracts(q)
    BY <1>3, <1>5, <2>1, WaitCalls
  <2>3. QED
    BY <1>1, <2>1, <2>2, PromptsFrame
<1>6. ASSUME NEW end \in Ends, Waited(r, end) PROVE PromptsHold'
  <2>1. calls[r].pc = "waiting" /\ UNCHANGED <<seen, events, task, io>>
    BY <1>6 DEF Waited, loopVars, ioVars, heardVars
  <2>2. \A q \in Readers : ~Retracts(q)
    BY <1>3, <1>6, <2>1, WaitCalls
  <2>3. QED
    BY <1>1, <2>1, <2>2, PromptsFrame
<1>7. ASSUME NEW end \in Ends, LaunchWaited(r, end) PROVE PromptsHold'
  <2>1. /\ calls[r].pc = "launched" /\ UNCHANGED <<seen, task>>
        /\ events' \in {events, Append(events, "started")}
    BY <1>7 DEF LaunchWaited, heardVars
  <2>2. \A q \in Readers : ~Retracts(q)
    BY <1>3, <1>7, <2>1, WaitCalls
  <2>3. io'.looked = io.looked /\ io'.told = io.told
    BY <1>2, <1>7, LaunchWaitedIo
  <2>4. "waiting" \in Range(events)' => "waiting" \in Range(events)
    BY <1>2, <2>1, NoPrompt
  <2>5. QED
    BY <1>1, <2>1, <2>2, <2>3, <2>4, PromptsFrame
<1>8. CASE Look(r)
  <2>1. /\ io' = LookedBy(r) /\ seen' = [seen EXCEPT ![r] = io.seq] /\ UNCHANGED <<task, events>>
        /\ calls[r].pc \in {"launchlook", "look"}
    BY <1>8 DEF Look, loopVars
  <2>2. CallBecomes(r, IF calls[r].pc = "look" THEN "retract" ELSE "ending",
                    calls[r].end, calls[r].took, calls[r].lost)
    BY <1>8, WaitCalls
  <2>3. \A q \in Readers : ~Retracts(q)
    BY <2>1, <2>2 DEF CallBecomes, Retracts
  <2>4. io.told = 0 \/ calls'[r].pc = "retract"
    BY <2>1, <2>2 DEF CallBecomes, CallsHold, CallHolds
  <2>5. QED
    BY <1>1, <2>1, <2>3, <2>4, LookPrompts
<1>9. CASE EndWait(r)
  <2>1. calls[r].pc = "ending" /\ UNCHANGED <<seen, events, task, posted>>
    BY <1>9 DEF EndWait, loopVars, noteVars
  <2>2. io.waiters \in 1 .. 2
    BY <2>1, Waiters DEF InWait
  <2>3. io'.looked = io.looked /\ io'.told = io.told
    BY <1>2, <1>9, <2>2, EndWaitIo
  <2>4. \A q \in Readers : ~Retracts(q)
    <3>1. CASE Last
        BY <1>3, <1>9, <2>1, <3>1, WaitCalls
    <3>2. CASE ~Last
      <4>1. Return(r)
        BY <1>9, <3>2 DEF EndWait, Last
      <4>2. QED
        BY <1>2, <1>3, <2>1, <4>1, ReturnCall
    <3>3. QED
        BY <3>1, <3>2
  <2>5. QED
    BY <1>1, <2>1, <2>3, <2>4, PromptsFrame
<1>10. CASE Finalize(r)
  <2>1. /\ calls[r].pc \in {"observed", "unobserved"} /\ UNCHANGED <<seen, io, posted>>
        /\ Return(r) /\ EndTask(calls[r].pc = "observed")
    BY <1>10 DEF Finalize, noteVars
  <2>2. (calls[r].pc = "observed") \in BOOLEAN
    OBVIOUS
  <2>3. "waiting" \in Range(events)' => "waiting" \in Range(events)
    BY <2>1, <2>2, EndTaskEvents
  <2>4. task' = "gone"
    BY <2>1, <2>2, EndTaskEvents
  <2>5. \A q \in Readers : ~Retracts(q)
    BY <1>2, <1>3, <2>1, ReturnCall
  <2>6. QED
    BY <1>1, <2>1, <2>3, <2>4, <2>5, PromptsFrame
<1>11. QED
    BY <1>4, <1>5, <1>6, <1>7, <1>8, <1>9, <1>10 DEF WaitStep

LEMMA NotePrompts ==
    ASSUME TypeOK, CallsHold, PromptsHold, NEW r \in Readers, NoteStep(r) \/ RoutedStep
    PROVE  PromptsHold'
<1>1. CallTypes /\ CountTypes /\ NoteTypes /\ agentq \in Seq(Note) /\ Range(<<>>) = {}
      /\ "agent" \in Readers
    BY TypeParts, EmptyNotes DEF TypeOK, Readers
<1>2. UNCHANGED <<events, task>>
    BY DEF NoteStep, RoutedStep, RetractNotices, ClaimBoard, ReportClaimed, ClaimRouted, JoinRetracted,
       ioVars, loopVars
<1>3. CASE RetractNotices(r)
  <2>1. /\ UNCHANGED <<io, seen>> /\ calls[r].pc = "retract"
        /\ r = "lead" => board' = <<>> /\ agentq' = agentq
        /\ r = "agent" => agentq' = <<>> /\ board' = board
    BY <1>3 DEF RetractNotices, RetractShell, ioVars, heardVars
  <2>2. \E pc, end, took, lost : CallBecomes(r, pc, end, took, lost)
    BY <1>1, <1>3, RetractCall DEF Readers
  <2>3. \A q \in Readers : q # r => ~Retracts(q)
    BY <2>2 DEF CallBecomes, Retracts
  <2>4. Range(Unheard(r))' = {}
    BY <1>1, <2>1 DEF Unheard, Readers
  <2>5. Range(board)' \subseteq Range(board) /\ Range(agentq)' \subseteq Range(agentq)
    BY <1>1, <2>1 DEF Readers
  <2>6. QED
    BY <1>2, <2>1, <2>3, <2>4, <2>5, PromptsFrame
<1>4. CASE ClaimBoard(r)
  <2>1. /\ UNCHANGED <<io, seen, agentq>> /\ calls[r].pc = "idle" /\ board' \in {board, <<>>}
    BY <1>4 DEF ClaimBoard, Calling, RetractShell, heardVars
  <2>2. \A q \in Readers : ~Retracts(q)
    <3>1. calls' = calls \/ \E pc, end, took, lost : CallBecomes(r, pc, end, took, lost)
        BY <1>1, <1>4, ClaimBoardCall
    <3>2. QED
        BY <2>1, <3>1 DEF CallBecomes, Retracts
  <2>3. Range(board)' \subseteq Range(board)
    BY <1>1, <2>1
  <2>4. QED
    BY <1>2, <2>1, <2>2, <2>3, PromptsFrame
<1>5. CASE ReportClaimed(r)
  <2>1. /\ io' = LookedBy(r) /\ seen' = [seen EXCEPT ![r] = io.seq] /\ UNCHANGED <<board, agentq, posted>>
        /\ calls[r].pc = "claimed" /\ Return(r)
    BY <1>5 DEF ReportClaimed, noteVars
  <2>2. CallBecomes(r, "idle", "none", {}, FALSE)
    BY <1>1, <2>1, ReturnCall
  <2>3. \A q \in Readers : ~Retracts(q)
    BY <2>1, <2>2 DEF CallBecomes, Retracts
  <2>4. task = "gone"
    BY <2>1 DEF CallsHold, CallHolds, Claiming
  <2>5. QED
    BY <1>2, <2>1, <2>3, <2>4, LookPrompts
<1>6. CASE RoutedStep
  <2>1. UNCHANGED <<io, seen, board, posted>> /\ agentq' \in {agentq, Without(agentq, ExitsIn(agentq))}
    BY <1>6 DEF RoutedStep, ClaimRouted, JoinRetracted, ioVars, heardVars
  <2>2. Range(agentq)' \subseteq Range(agentq)
    BY <1>1, <2>1, DropNotes
  <2>3. \A q \in Readers : ~Retracts(q)
    <3>1. CASE ClaimRouted
      <4>1. calls["agent"].pc = "idle"
        BY <3>1 DEF ClaimRouted, Calling
      <4>2. \E pc, end, took, lost : CallBecomes("agent", pc, end, took, lost)
        BY <1>1, <3>1, ClaimRoutedCall
      <4>3. QED
        BY <4>1, <4>2 DEF CallBecomes, Retracts
    <3>2. CASE JoinRetracted
      <4>1. /\ calls["agent"].pc \in {"claiming", "retracting"}
            /\ Goto("agent", IF calls["agent"].pc = "claiming" THEN "claimed" ELSE "ending")
        BY <3>2 DEF JoinRetracted
      <4>2. (IF calls["agent"].pc = "claiming" THEN "claimed" ELSE "ending") \in Pcs
        BY DEF Pcs
      <4>3. \E pc, end, took, lost : CallBecomes("agent", pc, end, took, lost)
        BY <1>1, <2>1, <4>1, <4>2, GotoCall
      <4>4. QED
        BY <4>1, <4>3 DEF CallBecomes, Retracts
    <3>3. QED
        BY <1>6, <3>1, <3>2 DEF RoutedStep
  <2>4. QED
    BY <1>2, <2>1, <2>2, <2>3, PromptsFrame
<1>7. QED
    BY <1>3, <1>4, <1>5, <1>6 DEF NoteStep

LEMMA PromptsAdd ==
    ASSUME TypeOK, PromptsHold, UNCHANGED <<seen, io, task, calls>>, NEW note,
           "waiting" \in Range(events)' => "waiting" \in Range(events),
           Range(board)' \subseteq Range(board) \cup {note},
           Range(agentq)' \subseteq Range(agentq) \cup {note},
           note.kind = "waiting" => /\ note.at \in 1 .. io.told
                                    /\ task # "gone" => note.at > io.looked
    PROVE  PromptsHold'
<1>1. /\ (\A r \in Readers : seen[r] <= io.looked)'
      /\ ("waiting" \in Range(events) => io.told > 0)'
      /\ (\A other \in Range(board) \cup Range(agentq) : other.kind = "waiting" => other.at \in 1 .. io.told)'
    BY DEF PromptsHold
<1>2. PromptIsNews'
  <2> SUFFICES ASSUME task # "gone", NEW r \in Readers, calls[r].pc # "retract",
                      NEW other \in Range(Unheard(r))', other.kind = "waiting"
               PROVE  other.at > seen[r]
    BY DEF PromptIsNews
  <2>1. CASE other = note
    <3>1. /\ note.at \in 1 .. io.told /\ note.at > io.looked /\ seen[r] <= io.looked
        BY <2>1 DEF PromptsHold
    <3>2. io.told \in Nat /\ io.looked \in Nat /\ seen[r] \in Nat
        BY PromptTypes
    <3>3. QED
        BY <2>1, <3>1, <3>2
  <2>2. CASE other # note
    <3>1. other \in Range(Unheard(r))
        BY <2>2 DEF Unheard
    <3>2. QED
        BY <3>1 DEF PromptsHold, PromptIsNews
  <2>3. QED
    BY <2>1, <2>2
<1>3. QED
    BY <1>1, <1>2 DEF PromptsHold

LEMMA EventPrompts ==
    ASSUME TypeOK, PromptsHold, OnBgEvent
    PROVE  PromptsHold'
<1>1. /\ events # <<>> /\ events' = Tail(events)
      /\ \/ Head(events) = "exited" /\ ReportCompletion("exit")
         \/ Head(events) = "waiting" /\ ReportCompletion("waiting")
         \/ UNCHANGED <<board, agentq>>
    BY EventEffect
<1>2. UNCHANGED <<seen, io, task, calls>>
    BY DEF OnBgEvent
<1>3. events \in Seq(EventKinds) /\ board \in Seq(Note) /\ agentq \in Seq(Note) /\ Range(<<>>) = {}
    BY EmptyNotes DEF TypeOK, EventKinds
<1>4. Head(events) \in Range(events) /\ Range(events)' \subseteq Range(events)
    BY <1>1, <1>3, TailFacts
<1>5. "waiting" \in Range(events)' => "waiting" \in Range(events)
    BY <1>4
<1>6. CASE UNCHANGED <<board, agentq>>
    BY <1>2, <1>5, <1>6, PromptsFrame DEF Retracts
<1>7. ASSUME NEW kind \in {"exit", "waiting"}, Head(events) = IF kind = "exit" THEN "exited" ELSE "waiting",
             ReportCompletion(kind), ~UNCHANGED <<board, agentq>>
      PROVE  PromptsHold'
  <2> DEFINE note == NewNote(kind)
  <2>1. note \in Note /\ note.kind = kind /\ note.at = io.told
    BY NewNoteApart
  <2>2. /\ ~Covered(kind)
        /\ \/ /\ agentq' = Append(agentq, note)
              /\ \E u : Defer(board, Append(held, note), u)
           \/ /\ agentq' = agentq
              /\ \E u : Defer(Append(board, note), Append(held, note), u)
    BY <1>7, ReportEffect
  <2> HIDE DEF note
  <2>3. /\ Range(Append(board, note)) = Range(board) \cup {note}
        /\ Range(Append(agentq, note)) = Range(agentq) \cup {note}
    BY <1>3, <2>1, AddNote
  <2>4. /\ board' \in {board, Append(board, note), <<>>} /\ agentq' \in {agentq, Append(agentq, note)}
    BY <2>2, DeferLeaves
  <2>5. Range(board)' \subseteq Range(board) \cup {note} /\ Range(agentq)' \subseteq Range(agentq) \cup {note}
    BY <1>3, <2>3, <2>4
  <2>6. ASSUME note.kind = "waiting"
        PROVE  note.at \in 1 .. io.told /\ (task # "gone" => note.at > io.looked)
    <3>1. kind = "waiting" /\ Head(events) = "waiting"
        BY <1>7, <2>1, <2>6
    <3>2. io.told > 0
        BY <1>4, <3>1 DEF PromptsHold
    <3>3. task # "gone" => ~(io.told <= io.looked)
        BY <2>2, <3>1 DEF Covered, PromptSeen
    <3>4. io.told \in Nat /\ io.looked \in Nat
        BY PromptTypes
    <3>5. QED
        BY <2>1, <3>2, <3>3, <3>4
  <2>7. QED
    BY <1>2, <1>5, <2>5, <2>6, PromptsAdd
<1>8. QED
    BY <1>1, <1>6, <1>7

LEMMA LoopPrompts ==
    ASSUME TypeOK, PromptsHold, LoopStep \/ AgentStep
    PROVE  PromptsHold'
<1>1. CallTypes /\ Range(<<>>) = {} /\ "lead" \in Readers /\ "agent" \in Readers
    BY TypeParts, EmptyNotes DEF Readers
<1>2. CASE OnBgEvent
    BY <1>2, EventPrompts
<1>3. CASE NoticeDelivered \/ LeadReads \/ TurnEnds \/ Interrupt \/ Submit \/ AgentStep
  <2>1. /\ UNCHANGED <<seen, io, task, events, posted>>
        /\ board' \in {board, <<>>} /\ agentq' \in {agentq, <<>>}
    BY <1>3 DEF NoticeDelivered, LeadReads, TurnEnds, Interrupt, Submit, AgentStep, AgentReads,
       AgentSettles, AgentStopped, Dispatch, HearBoard, ioVars, noteVars, loopVars, heardVars
  <2>2. Range(board)' \subseteq Range(board) /\ Range(agentq)' \subseteq Range(agentq)
    BY <1>1, <2>1
  <2>3. \A q \in Readers : ~Retracts(q)
    <3>1. CASE calls' = calls
        BY <3>1 DEF Retracts
    <3>2. CASE Interrupt
      <4>1. calls' = [calls EXCEPT !["lead"].lost = TRUE] /\ TRUE \in BOOLEAN
        BY <3>2 DEF Interrupt
      <4>2. CallBecomes("lead", calls["lead"].pc, calls["lead"].end, calls["lead"].took, TRUE)
        BY <1>1, <2>1, <4>1, LostCall
      <4>3. QED
        BY <4>2 DEF CallBecomes, Retracts
    <3>3. CASE AgentStopped
      <4>1. calls' = [calls EXCEPT !["agent"].lost = calls["agent"].pc # "idle"]
        BY <3>3 DEF AgentStopped
      <4> DEFINE lost == calls["agent"].pc # "idle"
      <4>2. lost \in BOOLEAN /\ calls' = [calls EXCEPT !["agent"].lost = lost]
        BY <4>1
      <4> HIDE DEF lost
      <4>3. CallBecomes("agent", calls["agent"].pc, calls["agent"].end, calls["agent"].took, lost)
        BY <1>1, <2>1, <4>2, LostCall
      <4>4. QED
        BY <4>3 DEF CallBecomes, Retracts
    <3>4. calls' = calls \/ Interrupt \/ AgentStopped
        BY <1>3 DEF NoticeDelivered, LeadReads, TurnEnds, Submit, AgentStep, AgentReads, AgentSettles
    <3>5. QED
        BY <3>1, <3>2, <3>3, <3>4
  <2>4. QED
    BY <2>1, <2>2, <2>3, PromptsFrame
<1>4. QED
    BY <1>2, <1>3 DEF LoopStep

LEMMA PromptsStep ==
    ASSUME TypeOK, CallsHold, SessionHolds, PromptsHold, Next
    PROVE  PromptsHold'
<1>1. "lead" \in Readers
    BY DEF Readers
<1>2. QED
    BY <1>1, Steps, SessionPrompts, WaitPrompts, NotePrompts, LoopPrompts

-----------------------------------------------------------------------------
(* The invariant, and what follows from it.                                *)

LEMMA ShellInit == Init => ShellInv
<1> SUFFICES ASSUME Init PROVE ShellInv
    OBVIOUS
<1>1. TypeOK
    BY InitTypes
<1>2. /\ \A r \in Readers : calls[r] = IdleCall /\ reports[r] = 0 /\ notes[r] = 0 /\ seen[r] = 0
      /\ calls["lead"] = IdleCall /\ calls["agent"] = IdleCall /\ notes["lead"] = 0 /\ notes["agent"] = 0
      /\ IdleCall.pc = "idle" /\ IdleCall.end = "none"
    BY DEF Init, IdleCall, Readers
<1>3. /\ board = <<>> /\ agentq = <<>> /\ held = <<>> /\ events = <<>> /\ cells = {}
      /\ task = "none" /\ monitor = "run" /\ unread = "none" /\ late = {} /\ turn
      /\ io.waiters = 0 /\ ~io.announced /\ ~io.finished /\ ~io.finalized /\ ~io.reported
      /\ io.looked = 0 /\ io.told = 0
    BY DEF Init
<1>4. /\ ExitsIn(<<>>) = {} /\ Range(<<>>) = {} /\ DOMAIN <<>> = {}
    BY EmptyNotes
<1>5. CallsHold
    BY <1>2, <1>3 DEF CallsHold, CallHolds, InWait, Finalizing, Claiming, Covers
<1>6. SessionHolds
    BY <1>2, <1>3 DEF SessionHolds, Waits, InWait, Finalizing
<1>7. NotesHold
    BY <1>3, <1>4 DEF NotesHold, Pending
<1>8. ExitOnItsWay
  <2>1. NoExitIn(board, agentq, held)
    BY <1>2, <1>3, <1>4 DEF NoExitIn, ExitCell
  <2>2. Way(unread, board, agentq, held)
    BY <1>2, <1>3, <1>4, <2>1 DEF Way
  <2>3. ExitEvent
    BY <1>3, <1>4 DEF ExitEvent, AtMostOne
  <2>4. QED
    BY <2>2, <2>3, WayParts
<1>9. HeardOnce
  <2>1. \A r \in Readers : ~Heard(r)
    BY <1>2 DEF Heard, Claiming
  <2>2. QED
    BY <2>1, HeardParts DEF Readers
<1>10. ExitSafe
    BY <1>3 DEF ExitSafe
<1>11. PromptsHold
  <2>1. PromptIsNews
    BY <1>3, <1>4 DEF PromptIsNews, Unheard
  <2>2. QED
    BY <1>2, <1>3, <1>4, <2>1 DEF PromptsHold
<1>12. QED
    BY <1>1, <1>5, <1>6, <1>7, <1>8, <1>9, <1>10, <1>11 DEF ShellInv

LEMMA ShellStep ==
    ASSUME ShellInv, Next
    PROVE  ShellInv'
<1>1. /\ TypeOK /\ CallsHold /\ SessionHolds
      /\ NotesHold /\ ExitOnItsWay /\ HeardOnce /\ ExitSafe /\ PromptsHold
    BY DEF ShellInv
<1>2. TypeOK'
    BY <1>1, TypesStep
<1>3. CallsHold' /\ SessionHolds'
    BY <1>1, CallsStep
<1>4. NotesHold'
    BY <1>1, NotesStep
<1>5. ExitOnItsWay'
    BY <1>1, WayStep
<1>6. HeardOnce'
    BY <1>1, HeardStep
<1>7. ExitSafe'
    BY <1>1, <1>2, SafeStep
<1>8. PromptsHold'
    BY <1>1, PromptsStep
<1>9. QED
    BY <1>2, <1>3, <1>4, <1>5, <1>6, <1>7, <1>8 DEF ShellInv

LEMMA ShellStutter ==
    ASSUME ShellInv, UNCHANGED vars
    PROVE  ShellInv'
<1>1. /\ TypeOK /\ CallsHold /\ SessionHolds
      /\ NotesHold /\ ExitOnItsWay /\ HeardOnce /\ ExitSafe /\ PromptsHold
    BY DEF ShellInv
<1>2. /\ UNCHANGED <<owner, io, monitor, task, unread, board, retracted, posted, agentq, agent, events, row,
                     held, stream, cells, turn, calls>>
      /\ UNCHANGED <<reports, notes, seen, late, watched, dropped, made, interrupts>>
    BY DEF vars
<1>3. TypeOK'
  <2>1. IoTypes /\ CallTypes /\ NoteTypes /\ StateTypes /\ CountTypes
    BY <1>1, TypeParts
  <2>2. IoTypes' /\ CallTypes'
    BY <1>2, <2>1 DEF IoTypes, CallTypes, CallState
  <2>3. NoteTypes'
    BY <1>2, <2>1 DEF NoteTypes, Numbers
  <2>4. StateTypes' /\ CountTypes'
    BY <1>2, <2>1 DEF StateTypes, CountTypes
  <2>5. QED
    BY <2>2, <2>3, <2>4, TypeParts
<1>4. CallsHold' /\ SessionHolds'
    BY <1>1, <1>2, CallsFrame
<1>5. NotesHold'
    BY <1>1, <1>2, SameNotes
<1>6. ExitOnItsWay'
    BY <1>1, <1>2, ExitFrame DEF EventKinds
<1>7. HeardOnce'
  <2>1. Hushed /\ \A r \in Readers : Heard(r)' => Heard(r)
    BY <1>2, HushedFrame, SameHeard
  <2>2. QED
    BY <1>1, <1>2, <2>1, HeardFrame DEF ExitCell
<1>8. ExitSafe'
    BY <1>1, <1>2 DEF ExitSafe, KnownOf, Told, ExitCell, CellWillShow, ExitsIn, Numbers
<1>9. PromptsHold'
    BY <1>1, <1>2, PromptsFrame DEF Retracts
<1>10. QED
    BY <1>3, <1>4, <1>5, <1>6, <1>7, <1>8, <1>9 DEF ShellInv

LEMMA ShellInvariant == Spec => []ShellInv
<1>1. ShellInv /\ [Next]_vars => ShellInv'
    BY ShellStep, ShellStutter
<1>2. QED
    BY <1>1, ShellInit, PTL DEF Spec

\* Types, and the three bounds no assignment keeps by itself: a wait ended was begun, looks
\* and prompts are of output that came, a note number is used once.
THEOREM ShellTypes == Spec => []TypeOK
<1>1. ShellInv => TypeOK
    BY DEF ShellInv
<1>2. QED
    BY <1>1, ShellInvariant, PTL

LEMMA ToldOnce ==
    ASSUME ShellInv
    PROVE  ExitToldOnce
<1>1. TypeOK /\ ExitOnItsWay /\ HeardOnce
    BY DEF ShellInv
<1>2. ASSUME NEW r \in Readers \ late PROVE notes[r] <= IF reports[r] = 0 THEN 1 ELSE 0
  <2>1. notes["lead"] \in Nat /\ notes["agent"] \in Nat /\ notes["lead"] + notes["agent"] <= 1
        /\ reports[r] \in Nat
    BY <1>1 DEF TypeOK, Readers, ExitOnItsWay
  <2>2. notes[r] <= 1
    BY <2>1 DEF Readers
  <2>3. reports[r] > 0 => notes[r] = 0
    BY <1>1 DEF HeardOnce, Heard, Deaf
  <2>4. QED
    BY <2>1, <2>2, <2>3
<1>3. owner = "lead" /\ "lead" \notin late /\ reports["lead"] > 0 => ~ExitCell
    BY <1>1 DEF HeardOnce, Heard
<1>4. QED
    BY <1>2, <1>3 DEF ExitToldOnce

LEMMA NotLost ==
    ASSUME ShellInv
    PROVE  NoExitLost
<1>1. TypeOK /\ CallsHold /\ NotesHold /\ ExitOnItsWay /\ ExitSafe
    BY DEF ShellInv
<1>2. SUFFICES ASSUME AtRest, io.announced PROVE KnownOf
    BY DEF NoExitLost, KnownOf
<1>3. Whereabouts
    BY <1>1, <1>2, SafeParts DEF AtRest
<1>4. unread # "unposted"
  <2>1. Range(events) = {}
    BY <1>2, EmptyNotes DEF AtRest
  <2>2. QED
    BY <1>1, <2>1, WayParts DEF ExitEvent
<1>5. \A r \in {owner, "lead"} : ~Covers(calls[r].end)
  <2>1. \A r \in Readers : calls[r].end = "none"
    BY <1>1, <1>2 DEF AtRest, CallsHold, CallHolds
  <2>2. QED
    BY <1>1, <2>1, ExitParts
<1>6. ExitsIn(board) = {} /\ ExitsIn(held) = {}
    BY <1>1, <1>2, EmptyNotes DEF AtRest, NotesHold
<1>7. QED
    BY <1>3, <1>4, <1>5, <1>6 DEF Whereabouts

\* One notice per exit, and never none: whatever a call, the loop and a claim do in whichever
\* order, no reader hears of the exit twice, and when all is over somebody did.
THEOREM ExitsReachOnce == Spec => []ExitReachesOnce
<1>1. ShellInv => ExitReachesOnce
    BY ToldOnce, NotLost DEF ExitReachesOnce
<1>2. QED
    BY <1>1, ShellInvariant, PTL

\* A session's prompt is told as news: no reader has a note coming of a prompt its own look
\* has shown.
THEOREM PromptsAreNews == Spec => []PromptIsNews
<1>1. ShellInv => PromptIsNews
    BY DEF ShellInv, PromptsHold
<1>2. QED
    BY <1>1, ShellInvariant, PTL
=============================================================================
