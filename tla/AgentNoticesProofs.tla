------------------------- MODULE AgentNoticesProofs -------------------------
(***************************************************************************)
(* What the lead hears of an agent, for any number of runs, turns and      *)
(* messages: what it reads is news, nothing said is lost, what is shown is *)
(* what the board and the registry say, a stop is final.  The invariant    *)
(* follows the row through the events still unread: an answer is news, and *)
(* will be posted, exactly when the row will be open as its event is read. *)
(* Each theorem names the short delays it needs not to be outlasted.       *)
(***************************************************************************)
EXTENDS AgentNotices, QueuesProofs, FiniteSetTheorems

\* The runs whose end the lead knows or does without, those nobody is to announce too, and
\* those about to be reported.
Known == told \cup waived
Excused == Known \cup mute
Reported == {lead[t].run : t \in {x \in Turns : lead[x].pc = "report"}}
Calling == {"register", "wait", "report"}

\* The slot's flags, its thread, the runs cancelled and the settle windows agree; what is
\* queued has a reader.
SlotHolds ==
    /\ slot.busy <=> thread # "none"
    /\ slot.stored <=> ~slot.busy
    /\ ~slot.busy => slot.done
    /\ slot.killed => slot.done
    /\ slot.done /\ slot.busy => slot.killed
    /\ slot.run \in cancelled <=> slot.killed
    /\ \A r \in cancelled : r <= slot.run
    /\ slot.killed => slot.inputs = <<>>
    /\ slot.byUser => slot.killed
    /\ thread = "reaped" => slot.killed
    /\ \A r \in Runs : windows[r] # "closed" => r <= slot.run /\ (r = slot.run => ~slot.busy)
    /\ slot.inputs # <<>> /\ ~slot.busy => windows[slot.run] # "closed"
    /\ slot.held => ~slot.busy

\* The calls: those of turns begun, the waiters those that wait, a report's run over.
CallsHold ==
    /\ \A t \in Turns : t > turn.n => lead[t].pc = "gone"
    /\ slot.waiters = Cardinality({t \in Turns : lead[t].pc = "wait"})
    /\ slot.held => slot.waiters > 0
    /\ \A r \in Reported : r < slot.run \/ (r = slot.run /\ slot.done)

\* One call waits at a time, and an end held for it is released as it reports.
OneWait ==
    /\ \A t, u \in Turns : {lead[t].pc, lead[u].pc} \subseteq {"register", "wait"} => t = u
    /\ ~slot.observed

\* Whether the row will be open once the first n of the events are read.
Opens(e) == e.type = "Steered"
Closes(e) == e.type \in {"Settled", "Stopped"}
OpenIn(row, evs, n) ==
    /\ ~row.stopped
    /\ \/ row.status # "final" /\ \A j \in 1 .. n : ~Closes(evs[j])
       \/ \E j \in 1 .. n : Opens(evs[j]) /\ \A l \in j + 1 .. n : ~Closes(evs[l])
OpenAfter(n) == OpenIn(roster, events, n)
Open == OpenAfter(Len(events))

\* The row will be shown over once the agent is, and its end released.
Draining == loop.pc = "drain"
RowHolds ==
    /\ Draining => slot.busy /\ ~slot.done
    /\ slot.done /\ ~slot.held => ~Open

\* The event of run r's end whose notice is owed.
IsEnd(e, r) == e.type = "Settled" /\ ~e.flag /\ e.run = r
SentHold ==
    /\ \A i \in DOMAIN events : events[i].type = "Settled" =>
           events[i].run \in EndedRuns /\ (slot.held => events[i].run # slot.run)
    /\ \A r \in slot.owed : \E i \in DOMAIN events : IsEnd(events[i], r)

\* Numbers tell the notes apart, and a cell is of a note pending or taken back.
Increasing(s) == \A i, j \in DOMAIN s : i < j => s[i].n < s[j].n
Pending == Range(board)
NumbersIn(b, held, back, next) ==
    /\ Increasing(b) /\ Increasing(held)
    /\ Range(b) \subseteq Range(held)
    /\ \A cell \in Range(held) : cell.n < next
    /\ \A cell \in Range(held) : cell.n \in back <=> cell \notin Range(b)
    /\ \A n \in back : \E cell \in Range(held) : cell.n = n
NumbersHold == NumbersIn(board, cells, retracted, posted)

\* What is known is of runs there were, and of the one going only once it was stopped.
NoteFits(note) ==
    /\ note.run <= slot.run
    /\ note.kind = "resume" <=> note.how = "resume"
    /\ note.how = "stop" => note.run \in Known
    /\ note.how = "answer" => note.run \in EndedRuns
KnownHold ==
    /\ roster.stopped => Final
    /\ \A r \in Known : r <= slot.run
    /\ \A note \in Pending : NoteFits(note)
    /\ slot.killed => slot.run \in Known
    /\ ~slot.done => slot.run \notin Known
    /\ loop.pc = "stop" => loop.run \in Known
    /\ cancelled \subseteq Known

\* No end of the note's run was posted before it.
First(note, notes) == \A m \in notes : m.kind = "end" /\ m.run = note.run => note.n <= m.n
IsNews(note, notes) ==
    note.how = "answer" \/ (note.how = "resume" /\ note.run = slot.run) =>
        note.run \notin told /\ First(note, notes)
\* An answer that will be posted is of a run not known, and one posted is news.
NewsHold ==
    /\ slot.held /\ Open => slot.run \notin Known \cup Reported
    /\ \A i \in DOMAIN events, r \in slot.owed :
           IsEnd(events[i], r) /\ OpenAfter(i - 1) => r \notin Known
    /\ \A note \in Pending :
           /\ IsNews(note, Pending)
           /\ note.how = "answer" => note.run \notin slot.owed /\ (slot.held => note.run # slot.run)
    /\ {"answer", "resume"} \cap stale = {}

\* A row the user stopped is of an agent whose runs are all excused, but one a chat began:
\* the agent is stopped still, or its run is one begun past the stop.
StoppedFits ==
    /\ roster.stopped /\ ~Draining => slot.byUser \/ slot.run \in mute
    /\ roster.stopped => 0 .. slot.run - 1 \subseteq Excused
\* The row of a run going will be open: it is, or what the run reads first opens it.
RunFits ==
    /\ ~Draining /\ thread = "start" /\ ~slot.done =>
           Open \/ slot.inputs # <<>> \/ slot.run \in mute
    /\ ~Draining /\ thread \in {"run", "ended"} /\ ~slot.done => Open \/ slot.run \in mute
\* The answer of a run not excused will be posted, be it held or sent.
HeldFits == slot.held /\ slot.run \notin Excused => Open
AnswersFit ==
    \A i \in DOMAIN events, r \in slot.owed :
        IsEnd(events[i], r) /\ r \notin Excused => OpenAfter(i - 1)
\* An end observed is one held that a call reports.
ObservedFits == slot.observed => slot.held /\ slot.run \in Known \cup Reported
\* A run that ended is accounted for.
Covered(r) ==
    \/ r \in Excused \cup slot.owed \cup EndRuns(board) \cup Reported
    \/ slot.held /\ r = slot.run
LostHold ==
    /\ StoppedFits /\ RunFits /\ HeldFits /\ AnswersFit /\ ObservedFits
    /\ \A r \in EndedRuns : Covered(r)

\* The inductive invariant: what holds whatever the delays, and what some of them break.
NoticesInv ==
    /\ TypeOK
    /\ SlotHolds /\ CallsHold /\ SentHold /\ NumbersHold /\ KnownHold
    /\ "wait" \notin Late => OneWait
    /\ "drain" \notin Late => RowHolds /\ LostHold
    /\ {"wait", "drain"} \cap Late = {} => NewsHold

-----------------------------------------------------------------------------
(* Notes.                                                                  *)

LEMMA IncreasingAppend ==
    ASSUME NEW s \in Seq(Notes), NEW e \in Notes
    PROVE  Increasing(Append(s, e)) <=> Increasing(s) /\ \A x \in Range(s) : x.n < e.n
<1>1. /\ Len(s) \in Nat /\ DOMAIN s = 1 .. Len(s) /\ DOMAIN Append(s, e) = 1 .. Len(s) + 1
      /\ \A i \in 1 .. Len(s) : Append(s, e)[i] = s[i]
      /\ Append(s, e)[Len(s) + 1] = e
    BY AppendProperties, LenProperties
<1>2. /\ \A i \in 1 .. Len(s) + 1 : i \in 1 .. Len(s) \/ i = Len(s) + 1
      /\ \A i \in 1 .. Len(s) : i \in 1 .. Len(s) + 1 /\ i < Len(s) + 1
      /\ Len(s) + 1 \in 1 .. Len(s) + 1
    BY <1>1
<1>3. ASSUME Increasing(Append(s, e)) PROVE Increasing(s) /\ \A x \in Range(s) : x.n < e.n
  <2>1. Increasing(s)
    BY <1>1, <1>2, <1>3 DEF Increasing
  <2>2. \A i \in 1 .. Len(s) : s[i].n < e.n
    BY <1>1, <1>2, <1>3 DEF Increasing
  <2>3. QED
    BY <1>1, <2>1, <2>2 DEF Range
<1>4. ASSUME Increasing(s), \A x \in Range(s) : x.n < e.n PROVE Increasing(Append(s, e))
  <2>1. \A i \in 1 .. Len(s) : s[i].n < e.n
    BY <1>1, <1>4 DEF Range
  <2>2. ASSUME NEW i \in 1 .. Len(s) + 1, NEW j \in 1 .. Len(s) + 1, i < j
        PROVE  Append(s, e)[i].n < Append(s, e)[j].n
    <3>1. i \in 1 .. Len(s)
        BY <1>1, <2>2
    <3>2. CASE j \in 1 .. Len(s)
        BY <1>1, <1>4, <2>2, <3>1, <3>2 DEF Increasing
    <3>3. CASE j = Len(s) + 1
        BY <1>1, <2>1, <3>1, <3>3
    <3>4. QED
        BY <1>2, <3>2, <3>3
  <2>3. QED
    BY <1>1, <2>2 DEF Increasing
<1>5. QED
    BY <1>3, <1>4

LEMMA IncreasingEmpty == Increasing(<<>>) /\ Range(<<>>) = {} /\ <<>> \in Seq(Notes)
BY DEF Increasing, Range

\* Taking notes away leaves the others in their order.
LEMMA IncreasingWithout ==
    ASSUME NEW s \in Seq(Notes), NEW S, Increasing(s)
    PROVE  /\ Increasing(Without(s, S)) /\ Without(s, S) \in Seq(Notes)
           /\ Range(Without(s, S)) = Range(s) \ S
<1> DEFINE K == {t \in Seq(Notes) : Increasing(t) => Increasing(Without(t, S))}
<1>1. <<>> \in K
  <2>1. Without(<<>>, S) = <<>>
    BY PickedEmpty DEF Without
  <2>2. QED
    BY <2>1, IncreasingEmpty
<1>2. ASSUME NEW t \in Seq(Notes), NEW e \in Notes, t \in K PROVE Append(t, e) \in K
  <2>1. Append(t, e) \in Seq(Notes)
    BY AppendFacts
  <2> SUFFICES ASSUME Increasing(Append(t, e)) PROVE Increasing(Without(Append(t, e), S))
    BY <2>1
  <2>2. Increasing(t) /\ \A x \in Range(t) : x.n < e.n
    BY IncreasingAppend
  <2>3. /\ Without(t, S) \in Seq(Notes) /\ Range(Without(t, S)) = Range(t) \ S
        /\ Increasing(Without(t, S))
    BY <1>2, <2>2, WithoutFacts
  <2>4. Increasing(Append(Without(t, S), e))
    BY <2>2, <2>3, IncreasingAppend
  <2>5. Without(Append(t, e), S) \in {Without(t, S), Append(Without(t, S), e)}
    <3> DEFINE P == {i \in DOMAIN Append(t, e) : Append(t, e)[i] \notin S}
               Q == {i \in DOMAIN t : t[i] \notin S}
    <3>1. /\ Len(t) \in Nat /\ DOMAIN t = 1 .. Len(t) /\ DOMAIN Append(t, e) = 1 .. Len(t) + 1
          /\ \A i \in 1 .. Len(t) : Append(t, e)[i] = t[i]
        BY AppendProperties, LenProperties
    <3>2. \A i \in 1 .. Len(t) : i \in P <=> i \in Q
        BY <3>1
    <3> HIDE DEF P, Q
    <3>3. Picked(Append(t, e), P) = IF Len(t) + 1 \in P THEN Append(Picked(t, Q), e) ELSE Picked(t, Q)
        BY <3>2, PickedAppend
    <3>4. QED
        BY <3>3 DEF Without, P, Q
  <2>6. QED
    BY <2>3, <2>4, <2>5
<1> HIDE DEF K
<1>3. Seq(Notes) \subseteq K
    BY <1>1, <1>2, QueueInduction
<1>4. QED
    BY <1>3, WithoutFacts DEF K

LEMMA IncreasingApart ==
    ASSUME NEW s \in Seq(Notes), Increasing(s)
    PROVE  IsInjective(s) /\ \A x, y \in Range(s) : x.n = y.n => x = y
<1>1. /\ Len(s) \in Nat /\ DOMAIN s = 1 .. Len(s) /\ \A i \in 1 .. Len(s) : s[i] \in Notes
    BY LenProperties, ElementOfSeq
<1>2. \A i, j \in 1 .. Len(s) : s[i].n = s[j].n => i = j
  <2>1. ASSUME NEW i \in 1 .. Len(s), NEW j \in 1 .. Len(s), i # j PROVE s[i].n # s[j].n
    <3>1. i < j \/ j < i
        BY <1>1, <2>1
    <3>2. s[i].n < s[j].n \/ s[j].n < s[i].n
        BY <1>1, <3>1 DEF Increasing
    <3>3. s[i].n \in Nat /\ s[j].n \in Nat
        BY <1>1 DEF Notes
    <3>4. QED
        BY <3>2, <3>3
  <2>2. QED
    BY <2>1
<1>3. IsInjective(s)
    BY <1>1, <1>2 DEF IsInjective
<1>4. QED
    BY <1>1, <1>2, <1>3 DEF Range

LEMMA NoteOf ==
    ASSUME NEW s \in Seq(Notes)
    PROVE  Range(s) \subseteq Notes
BY ElementOfSeq DEF Range

\* The ends read before a note are those posted before it.
LEMMA ReadBefore ==
    ASSUME NEW s \in Seq(Notes), Increasing(s), NEW i \in DOMAIN s, NEW r,
           r \in EndRuns(SubSeq(s, 1, i - 1))
    PROVE  \E m \in Range(s) : m.kind = "end" /\ m.run = r /\ m.n < s[i].n
<1>1. Len(s) \in Nat /\ DOMAIN s = 1 .. Len(s)
    BY LenProperties
<1>2. i \in Nat /\ i - 1 \in 0 .. Len(s) /\ i - 1 \in Int /\ i - 1 < Len(s)
    BY <1>1
<1>3. /\ DOMAIN SubSeq(s, 1, i - 1) = 1 .. i - 1
      /\ \A j \in 1 .. i - 1 : SubSeq(s, 1, i - 1)[j] = s[j]
    BY <1>1, <1>2
<1>4. PICK j \in 1 .. i - 1 : s[j].kind = "end" /\ s[j].run = r
    BY <1>3 DEF EndRuns, Range
<1>5. j \in DOMAIN s /\ j < i
    BY <1>1, <1>2
<1>6. s[j].n < s[i].n /\ s[j] \in Range(s)
    BY <1>5 DEF Increasing, Range
<1>7. QED
    BY <1>4, <1>6

\* Reading notes that are all news reads nothing known.
LEMMA HearNews ==
    ASSUME NEW s \in Seq(Notes), Increasing(s), Hear(s),
           \A note \in Range(s) : IsNews(note, Range(s)) /\ (note.kind = "resume" <=> note.how = "resume"),
           {"answer", "resume"} \cap stale = {}
    PROVE  {"answer", "resume"} \cap stale' = {}
<1>1. SUFFICES ASSUME NEW i \in DOMAIN s, s[i].how \in {"answer", "resume"},
                      s[i].run \in told \cup EndRuns(SubSeq(s, 1, i - 1)),
                      ResumeNote(s[i]) => s[i].run = slot.run
               PROVE  FALSE
    BY DEF Hear
<1>2. s[i] \in Range(s)
    BY DEF Range
<1>3. s[i].run \notin told /\ First(s[i], Range(s))
    BY <1>1, <1>2 DEF IsNews, ResumeNote
<1>4. PICK m \in Range(s) : m.kind = "end" /\ m.run = s[i].run /\ m.n < s[i].n
    BY <1>1, <1>3, ReadBefore
<1>5. s[i].n <= m.n
    BY <1>3, <1>4 DEF First
<1>6. s[i].n \in Nat /\ m.n \in Nat
    BY <1>2, <1>4, NoteOf DEF Notes
<1>7. QED
    BY <1>4, <1>5, <1>6

-----------------------------------------------------------------------------
(* Whether the row will be open.                                           *)

LEMMA OpenPrefix ==
    ASSUME NEW row, NEW evs, NEW more, NEW n \in Nat, \A i \in 1 .. n : evs[i] = more[i]
    PROVE  OpenIn(row, evs, n) <=> OpenIn(row, more, n)
<1>1. \A j \in 1 .. n : \A l \in j + 1 .. n : l \in 1 .. n
    OBVIOUS
<1>2. QED
    BY <1>1 DEF OpenIn

LEMMA OpenZero ==
    ASSUME NEW row, NEW evs
    PROVE  OpenIn(row, evs, 0) <=> ~row.stopped /\ row.status # "final"
BY DEF OpenIn

LEMMA OpenNext ==
    ASSUME NEW row, NEW evs, NEW n \in Nat
    PROVE  OpenIn(row, evs, n + 1) <=>
               ~row.stopped /\ (Opens(evs[n + 1]) \/ (~Closes(evs[n + 1]) /\ OpenIn(row, evs, n)))
<1> DEFINE e == evs[n + 1]
<1>1. /\ \A j \in 1 .. n + 1 : j \in 1 .. n \/ j = n + 1
      /\ n + 1 \in 1 .. n + 1 /\ \A j \in 1 .. n : j \in 1 .. n + 1
      /\ \A l \in n + 1 + 1 .. n + 1 : FALSE
    OBVIOUS
<1>2. \A j \in 1 .. n : n + 1 \in j + 1 .. n + 1 /\ \A l \in j + 1 .. n : l \in j + 1 .. n + 1
    OBVIOUS
<1>3. \A j \in 1 .. n : \A l \in j + 1 .. n + 1 : l \in j + 1 .. n \/ l = n + 1
    OBVIOUS
<1>4. CASE Opens(e)
    BY <1>1, <1>4 DEF OpenIn
<1>5. CASE ~Opens(e)
  <2>1. ASSUME OpenIn(row, evs, n + 1) PROVE ~Closes(e) /\ OpenIn(row, evs, n)
    <3>1. CASE row.status # "final" /\ \A j \in 1 .. n + 1 : ~Closes(evs[j])
        BY <1>1, <2>1, <3>1 DEF OpenIn
    <3>2. ASSUME NEW j \in 1 .. n + 1, Opens(evs[j]), \A l \in j + 1 .. n + 1 : ~Closes(evs[l])
          PROVE  ~Closes(e) /\ OpenIn(row, evs, n)
        <4>1. j \in 1 .. n
            BY <1>1, <1>5, <3>2
        <4>2. QED
            BY <1>2, <2>1, <3>2, <4>1 DEF OpenIn
    <3>3. QED
        BY <2>1, <3>1, <3>2 DEF OpenIn
  <2>2. ASSUME ~Closes(e), OpenIn(row, evs, n) PROVE OpenIn(row, evs, n + 1)
    <3>1. CASE row.status # "final" /\ \A j \in 1 .. n : ~Closes(evs[j])
        BY <1>1, <2>2, <3>1 DEF OpenIn
    <3>2. ASSUME NEW j \in 1 .. n, Opens(evs[j]), \A l \in j + 1 .. n : ~Closes(evs[l])
          PROVE  OpenIn(row, evs, n + 1)
        BY <1>1, <1>3, <2>2, <3>2 DEF OpenIn
    <3>3. QED
        BY <2>2, <3>1, <3>2 DEF OpenIn
  <2>3. QED
    BY <1>5, <2>1, <2>2 DEF OpenIn
<1>6. QED
    BY <1>4, <1>5

\* How the row stands once an event is read.
Folded(row, e) ==
    IF Closes(e) THEN [row EXCEPT !.status = "final"]
    ELSE IF Opens(e) /\ row.status = "final" /\ ~row.stopped THEN Reopened ELSE row

Row == [status : {"running", "final"}, stopped : BOOLEAN]
Sent == [type : {"Settled", "Steered", "Stopped", "Resumed"}, run : Runs, flag : BOOLEAN]

LEMMA OpenTail ==
    ASSUME NEW row \in Row, NEW evs \in Seq(Sent), evs # <<>>, NEW m \in Nat, m < Len(evs)
    PROVE  OpenIn(Folded(row, Head(evs)), Tail(evs), m) <=> OpenIn(row, evs, m + 1)
<1> DEFINE after == Folded(row, Head(evs))
<1>1. /\ Len(evs) \in Nat /\ Head(evs) = evs[1]
      /\ \A i \in 1 .. Len(evs) - 1 : Tail(evs)[i] = evs[i + 1]
    BY LenProperties, HeadTailProperties
<1>2. after.stopped = row.stopped
    BY DEF Folded, Reopened, Row
<1>3. ~row.stopped => (after.status # "final" <=> Opens(evs[1]) \/ (~Closes(evs[1]) /\ row.status # "final"))
  <2>1. ~(Opens(evs[1]) /\ Closes(evs[1]))
    BY DEF Opens, Closes
  <2>2. CASE Closes(evs[1])
    BY <1>1, <2>1, <2>2 DEF Folded, Row
  <2>3. CASE ~Closes(evs[1])
    BY <1>1, <2>3 DEF Folded, Reopened, Row
  <2>4. QED
    BY <2>2, <2>3
<1> DEFINE P == {n \in Nat : n < Len(evs) => (OpenIn(after, Tail(evs), n) <=> OpenIn(row, evs, n + 1))}
<1> HIDE DEF after
<1>4. 0 \in P
  <2>1. OpenIn(row, evs, 0 + 1) <=>
            ~row.stopped /\ (Opens(evs[0 + 1]) \/ (~Closes(evs[0 + 1]) /\ OpenIn(row, evs, 0)))
    BY OpenNext
  <2>2. OpenIn(row, evs, 0 + 1) <=>
            ~row.stopped /\ (Opens(evs[1]) \/ (~Closes(evs[1]) /\ OpenIn(row, evs, 0)))
    BY <2>1
  <2>3. OpenIn(row, evs, 0) <=> ~row.stopped /\ row.status # "final"
    BY OpenZero
  <2>4. OpenIn(after, Tail(evs), 0) <=> ~after.stopped /\ after.status # "final"
    BY OpenZero
  <2>5. QED
    BY <1>2, <1>3, <2>2, <2>3, <2>4
<1>5. ASSUME NEW n \in Nat, n \in P PROVE n + 1 \in P
  <2> SUFFICES ASSUME n + 1 < Len(evs)
               PROVE  OpenIn(after, Tail(evs), n + 1) <=> OpenIn(row, evs, n + 1 + 1)
    OBVIOUS
  <2>1. OpenIn(after, Tail(evs), n) <=> OpenIn(row, evs, n + 1)
    BY <1>1, <1>5
  <2>2. Tail(evs)[n + 1] = evs[n + 1 + 1]
    BY <1>1
  <2>3. n + 1 \in Nat
    OBVIOUS
  <2>4. OpenIn(after, Tail(evs), n + 1) <=>
            ~after.stopped /\ (Opens(Tail(evs)[n + 1]) \/
                               (~Closes(Tail(evs)[n + 1]) /\ OpenIn(after, Tail(evs), n)))
    BY OpenNext
  <2>5. OpenIn(row, evs, n + 1 + 1) <=>
            ~row.stopped /\ (Opens(evs[n + 1 + 1]) \/
                             (~Closes(evs[n + 1 + 1]) /\ OpenIn(row, evs, n + 1)))
    BY <2>3, OpenNext
  <2>6. QED
    BY <1>2, <2>1, <2>2, <2>4, <2>5
<1> HIDE DEF P
<1>6. Nat \subseteq P
    BY <1>4, <1>5, SetInduction
<1>7. m \in P
    BY <1>6
<1>8. QED
    BY <1>7 DEF P, after

\* Events that close nothing leave the row as open as it was; one that opens, opens it.
LEMMA OpenGrows ==
    ASSUME NEW row, NEW evs, NEW n \in Nat, NEW m \in Nat, n <= m,
           \A i \in n + 1 .. m : ~Closes(evs[i]),
           OpenIn(row, evs, n) \/ (~row.stopped /\ \E i \in n + 1 .. m : Opens(evs[i]))
    PROVE  OpenIn(row, evs, m)
<1>1. \A i \in 1 .. m : i \in 1 .. n \/ i \in n + 1 .. m
    OBVIOUS
<1>2. /\ \A i \in n + 1 .. m : i \in 1 .. m /\ \A l \in i + 1 .. m : l \in n + 1 .. m
      /\ \A i \in 1 .. n : i \in 1 .. m /\ \A l \in i + 1 .. m : l \in i + 1 .. n \/ l \in n + 1 .. m
    OBVIOUS
<1>3. CASE OpenIn(row, evs, n)
  <2>1. CASE row.status # "final" /\ \A j \in 1 .. n : ~Closes(evs[j])
    BY <1>1, <1>3, <2>1 DEF OpenIn
  <2>2. ASSUME NEW j \in 1 .. n, Opens(evs[j]), \A l \in j + 1 .. n : ~Closes(evs[l])
        PROVE  OpenIn(row, evs, m)
    BY <1>2, <1>3, <2>2 DEF OpenIn
  <2>3. QED
    BY <1>3, <2>1, <2>2 DEF OpenIn
<1>4. CASE ~row.stopped /\ \E i \in n + 1 .. m : Opens(evs[i])
    BY <1>2, <1>4 DEF OpenIn
<1>5. QED
    BY <1>3, <1>4

-----------------------------------------------------------------------------
(* Types.                                                                  *)

Slot == [busy : BOOLEAN, done : BOOLEAN, killed : BOOLEAN, byUser : BOOLEAN,
         run : Runs, stored : BOOLEAN, waiters : 0 .. MaxTurns, held : BOOLEAN,
         observed : BOOLEAN, owed : SUBSET Runs, inputs : Seq({"lead", "user"})]
Call == [pc : {"gone", "loop", "register", "wait", "report"}, run : Runs]
Place == [pc : {"ready", "stop", "chat", "drain"}, run : Runs, watched : BOOLEAN]

ThreadTypes ==
    /\ slot \in Slot
    /\ thread \in {"none", "start", "run", "ended", "reaped"}
    /\ windows \in [Runs -> {"closed", "look", "continue"}]
    /\ cancelled \subseteq Runs /\ mute \subseteq Runs
RowTypes == roster \in Row /\ loop \in Place
NoteTypes ==
    /\ board \in Seq(Notes) /\ cells \in Seq(Notes)
    /\ retracted \subseteq Nat /\ posted \in Nat
LeadTypes ==
    /\ lead \in [Turns -> Call]
    /\ turn \in [n : Turns, active : BOOLEAN]
HeardTypes == told \subseteq Runs /\ waived \subseteq Runs /\ stale \subseteq {"answer", "stop", "resume"}

LEMMA TypeParts ==
    TypeOK <=> /\ ThreadTypes /\ RowTypes /\ events \in Seq(Sent) /\ NoteTypes /\ LeadTypes
               /\ texts \in 0 .. MaxTexts /\ HeardTypes
BY DEF TypeOK, ThreadTypes, RowTypes, NoteTypes, LeadTypes, HeardTypes, Slot, Call, Place, Row, Sent

LEMMA TypePartsAfter ==
    ASSUME ThreadTypes', RowTypes', events' \in Seq(Sent), NoteTypes', LeadTypes',
           texts' \in 0 .. MaxTexts, HeardTypes'
    PROVE  TypeOK'
BY DEF TypeOK, ThreadTypes, RowTypes, NoteTypes, LeadTypes, HeardTypes, Slot, Call, Place, Row, Sent

LEMMA RunsAreNumbers ==
    /\ 0 \in Runs /\ Runs \subseteq Nat /\ Turns \subseteq Nat /\ MaxRuns \in Nat /\ MaxTurns \in Nat
    /\ 1 \in Turns
    /\ \A r \in Runs : r < MaxRuns => r + 1 \in Runs
    /\ \A t \in Turns : t < MaxTurns => t + 1 \in Turns
BY NoticeBoundsAssumption DEF Runs, Turns

-----------------------------------------------------------------------------
(* The thread and the slot.                                                *)

\* A new run.
LEMMA Begun ==
    ASSUME ThreadTypes, NEW s \in Slot, NEW also, NEW said, BeginContinuation(s, also, said), s.run < MaxRuns
    PROVE  /\ slot' \in Slot /\ slot'.run = s.run + 1 /\ slot'.inputs = s.inputs
           /\ slot'.busy /\ ~slot'.done /\ ~slot'.killed /\ ~slot'.byUser /\ ~slot'.stored
           /\ ~slot'.held /\ slot'.waiters = s.waiters
           /\ slot'.observed => s.observed /\ ~s.held
           /\ slot'.owed = IF s.held THEN s.owed \cup {s.run} ELSE s.owed
           /\ thread' = "start" /\ mute' = IF said THEN mute ELSE mute \cup {slot.run + 1}
           /\ events' = events \o (IF s.held THEN <<Settled(s.run, FALSE)>> ELSE <<>>) \o also
<1>1. s.run + 1 \in Runs
    BY RunsAreNumbers DEF Slot
<1>2. CASE s.held
  <2> DEFINE last == [s EXCEPT !.held = FALSE, !.observed = FALSE, !.owed = @ \cup {s.run}]
  <2>1. /\ last \in Slot /\ last.run = s.run /\ last.inputs = s.inputs /\ last.waiters = s.waiters
        /\ ~last.held /\ ~last.observed /\ last.owed = s.owed \cup {s.run}
    BY <1>1, <1>2 DEF Slot
  <2>2. /\ slot' = Restart(last)
        /\ events' = events \o <<Settled(s.run, FALSE)>> \o also
        /\ thread' = "start" /\ mute' = IF said THEN mute ELSE mute \cup {slot.run + 1}
    BY <1>2 DEF BeginContinuation, ReleaseHeld
  <2> HIDE DEF last
  <2>3. QED
    BY <1>1, <1>2, <2>1, <2>2 DEF Restart, Slot
<1>3. CASE ~s.held
  <2>1. /\ slot' = Restart(s)
        /\ events' = events \o <<>> \o also
        /\ thread' = "start" /\ mute' = IF said THEN mute ELSE mute \cup {slot.run + 1}
    BY <1>3 DEF BeginContinuation, ReleaseHeld
  <2>2. QED
    BY <1>1, <1>3, <2>1 DEF Restart, Slot
<1>4. QED
    BY <1>2, <1>3

CoreSame ==
    /\ UNCHANGED agentVars
    /\ slot'.busy = slot.busy /\ slot'.done = slot.done /\ slot'.killed = slot.killed
    /\ slot'.byUser = slot.byUser /\ slot'.stored = slot.stored /\ slot'.run = slot.run
    /\ slot'.inputs = slot.inputs /\ (slot'.held => slot.held)

LEMMA CoreFrame ==
    ASSUME SlotHolds, CoreSame
    PROVE  SlotHolds'
BY DEF SlotHolds, CoreSame, agentVars

\* The steps that leave the slot's run, its thread and its queue as they are.
LEMMA CoreSteps ==
    ASSUME TypeOK, NEW t \in Turns,
           \/ TakeBoard(t) \/ AgentOutput(t) \/ BeginWait(t) \/ EndWait(t) \/ Report(t)
           \/ Submit \/ TurnEnds \/ OnAgentMessage \/ StopPosts \/ ChatStarted
    PROVE  CoreSame /\ UNCHANGED texts
<1>0. slot \in Slot
    BY TypeParts DEF ThreadTypes
<1>1. CASE TakeBoard(t) \/ AgentOutput(t) \/ Submit \/ TurnEnds \/ StopPosts \/ ChatStarted
    BY <1>1 DEF TakeBoard, AgentOutput, Submit, TurnEnds, StopPosts, ChatStarted, CoreSame, agentVars
<1>2. CASE BeginWait(t)
    BY <1>0, <1>2 DEF BeginWait, CoreSame, agentVars, Slot
<1>3. CASE EndWait(t)
  <2> DEFINE s == [slot EXCEPT !.waiters = @ - 1, !.observed = @ \/ (~Interrupted(t) /\ slot.held)]
  <2>1. slot' = s \/ slot' = [s EXCEPT !.held = FALSE, !.observed = FALSE,
                                       !.owed = IF s.observed THEN @ ELSE @ \cup {s.run}]
    BY <1>3 DEF EndWait
  <2>2. UNCHANGED agentVars /\ UNCHANGED texts
    BY <1>3 DEF EndWait
  <2>3. QED
    BY <1>0, <2>1, <2>2 DEF CoreSame, Slot
<1>4. CASE Report(t)
    BY <1>0, <1>4 DEF Report, CoreSame, agentVars, Slot
<1>5. CASE OnAgentMessage
  <2>1. slot' = slot \/ \E r : slot' = [slot EXCEPT !.owed = @ \ {r}]
    BY <1>5 DEF OnAgentMessage, FoldSettled, FoldSteered, FoldStopped
  <2>2. UNCHANGED agentVars /\ UNCHANGED texts
    BY <1>5 DEF OnAgentMessage
  <2>3. QED
    BY <1>0, <2>1, <2>2 DEF CoreSame, Slot
<1>6. QED
    BY <1>1, <1>2, <1>3, <1>4, <1>5

\* A message queued.
LEMMA Queued ==
    ASSUME ThreadTypes, NEW who \in {"lead", "user"}
    PROVE  LET s == [slot EXCEPT !.inputs = Append(@, who)] IN
           /\ s \in Slot /\ s.inputs # <<>> /\ s.run = slot.run /\ s.held = slot.held
           /\ s.owed = slot.owed /\ s.observed = slot.observed /\ s.waiters = slot.waiters
<1>1. slot.inputs \in Seq({"lead", "user"})
    BY DEF ThreadTypes, Slot
<1>2. Append(slot.inputs, who) \in Seq({"lead", "user"}) /\ Append(slot.inputs, who) # <<>>
    BY <1>1, AppendProperties
<1> DEFINE more == Append(slot.inputs, who)
<1> HIDE DEF more
<1>3. LET s == [slot EXCEPT !.inputs = more] IN
           /\ s \in Slot /\ s.inputs = more /\ s.run = slot.run /\ s.held = slot.held
           /\ s.owed = slot.owed /\ s.observed = slot.observed /\ s.waiters = slot.waiters
    BY <1>2 DEF ThreadTypes, Slot, more
<1>4. QED
    BY <1>2, <1>3 DEF more

LEMMA SlotStep ==
    ASSUME TypeOK, SlotHolds, Next
    PROVE  SlotHolds'
<1>0. ThreadTypes /\ LeadTypes /\ slot.run \in Nat /\ cancelled \subseteq Nat
    BY TypeParts, RunsAreNumbers DEF ThreadTypes, Slot
<1>1. ASSUME NEW s \in Slot, NEW also, NEW said, BeginContinuation(s, also, said), s.run < MaxRuns,
             s.run = slot.run, ~slot.busy, UNCHANGED cancelled,
             \A r \in Runs : windows'[r] # "closed" => windows[r] # "closed"
      PROVE  SlotHolds'
  <2>1. /\ slot'.run = slot.run + 1 /\ slot'.busy /\ ~slot'.done /\ ~slot'.killed /\ ~slot'.byUser
        /\ ~slot'.stored /\ ~slot'.held /\ thread' = "start"
    BY <1>0, <1>1, Begun
  <2>2. \A r \in cancelled' : r <= slot.run
    BY <1>1 DEF SlotHolds
  <2>3. \A r \in Runs : windows'[r] # "closed" => r <= slot.run
    BY <1>1 DEF SlotHolds
  <2>4. \A r \in Nat : r <= slot.run => r <= slot'.run /\ r # slot'.run
    BY <1>0, <2>1
  <2>5. slot'.run \notin cancelled'
    BY <1>0, <1>1, <2>2, <2>4
  <2>6. QED
    BY <1>0, <1>1, <2>1, <2>2, <2>3, <2>4, <2>5, RunsAreNumbers DEF SlotHolds
<1>2. CASE ReadInputs
    BY <1>0, <1>2 DEF ReadInputs, SlotHolds, ThreadTypes, Slot
<1>3. CASE RunEnds
    BY <1>0, <1>3 DEF RunEnds, SlotHolds
<1>4. CASE Settle
  <2>1. /\ thread \in {"ended", "reaped"} /\ thread' = "none" /\ UNCHANGED cancelled
        /\ windows' = [windows EXCEPT ![slot.run] = "look"]
    BY <1>4 DEF Settle
  <2>2. /\ ~slot'.busy /\ slot'.done /\ slot'.stored
        /\ slot'.killed = slot.killed /\ slot'.byUser = slot.byUser /\ slot'.run = slot.run
        /\ slot'.inputs = slot.inputs
    BY <1>0, <1>4 DEF Settle, ThreadTypes, Slot
  <2>3. /\ windows'[slot.run] = "look"
        /\ \A r \in Runs : r # slot.run => windows'[r] = windows[r]
    BY <1>0, <2>1 DEF ThreadTypes, Slot
  <2>4. QED
    BY <1>0, <2>1, <2>2, <2>3 DEF SlotHolds
<1>5. ASSUME NEW r \in Runs, WindowLooks(r) PROVE SlotHolds'
  <2>1. /\ \A x \in Runs : x # r => windows'[x] = windows[x]
        /\ windows[r] # "closed"
        /\ windows'[r] = "closed" => slot.inputs = <<>> \/ r \in cancelled
    BY <1>0, <1>5 DEF WindowLooks, ThreadTypes
  <2>2. slot.inputs # <<>> /\ ~slot.busy => windows'[slot.run] # "closed"
    BY <1>0, <2>1 DEF SlotHolds, ThreadTypes, Slot
  <2>3. UNCHANGED <<slot, thread, cancelled>>
    BY <1>5 DEF WindowLooks
  <2>4. QED
    BY <2>1, <2>2, <2>3 DEF SlotHolds
<1>6. ASSUME NEW r \in Runs, WindowContinues(r) PROVE SlotHolds'
  <2>1. /\ \A x \in Runs : x # r => windows'[x] = windows[x]
        /\ windows'[r] = "closed" /\ windows[r] = "continue" /\ UNCHANGED cancelled
    BY <1>0, <1>6 DEF WindowContinues, ThreadTypes
  <2>2. CASE CanContinue
    BY <1>0, <1>1, <1>6, <2>1, <2>2 DEF WindowContinues, CanContinue, ThreadTypes
  <2>3. CASE ~CanContinue
    <3>1. slot.busy /\ UNCHANGED <<slot, thread>>
        BY <1>6, <2>3 DEF WindowContinues, CanContinue, SlotHolds
    <3>2. QED
        BY <2>1, <3>1 DEF SlotHolds
  <2>4. QED
    BY <2>2, <2>3
<1>7. ASSUME NEW t \in Turns, AgentKill(t) PROVE SlotHolds'
  <2>1. UNCHANGED <<thread, windows>>
    BY <1>7 DEF AgentKill
  <2>2. CASE slot.done
    BY <1>7, <2>1, <2>2 DEF AgentKill, SlotHolds
  <2>3. CASE ~slot.done
    <3>1. /\ slot'.busy = slot.busy /\ slot'.stored = slot.stored /\ slot'.run = slot.run
          /\ slot'.held = slot.held /\ slot'.killed /\ slot'.done /\ ~slot'.byUser
          /\ slot'.inputs = <<>> /\ cancelled' = cancelled \cup {slot.run}
        BY <1>0, <1>7, <2>3 DEF AgentKill, ThreadTypes, Slot
    <3>2. QED
        BY <1>0, <2>1, <2>3, <3>1 DEF SlotHolds
  <2>4. QED
    BY <2>2, <2>3
<1>8. ASSUME NEW t \in Turns, AgentSend(t) PROVE SlotHolds'
  <2> DEFINE s == [slot EXCEPT !.inputs = Append(@, "lead")]
  <2>1. UNCHANGED <<windows, cancelled>>
    BY <1>8 DEF AgentSend
  <2>2. s \in Slot /\ s.run = slot.run
    BY <1>0, Queued
  <2>3. CASE slot.busy /\ ~slot.killed /\ slot' = s /\ UNCHANGED <<events, thread>>
    BY <1>0, <2>1, <2>3 DEF SlotHolds, ThreadTypes, Slot
  <2>4. CASE CanContinue /\ slot.run < MaxRuns /\ BeginContinuation(s, <<Message("Resumed", FALSE)>>, Announced(s))
    <3>1. ~slot.busy
        BY <2>4 DEF CanContinue
    <3>2. QED
        BY <1>1, <2>1, <2>2, <2>4, <3>1
  <2>5. QED
    BY <1>8, <2>3, <2>4 DEF AgentSend
<1>9. CASE StopAgent
  <2>1. /\ slot'.busy = slot.busy /\ slot'.stored = slot.stored /\ slot'.run = slot.run
        /\ slot'.held = slot.held /\ slot'.killed /\ slot'.done
        /\ slot'.inputs = <<>> /\ cancelled' = cancelled \cup {slot.run}
        /\ UNCHANGED <<thread, windows>>
    BY <1>0, <1>9 DEF StopAgent, ThreadTypes, Slot
  <2>2. QED
    BY <1>0, <2>1 DEF SlotHolds
<1>10. CASE AgentChat
  <2>1. UNCHANGED agentVars
    BY <1>10 DEF AgentChat
  <2>2. CASE slot.busy /\ ~slot.killed /\ slot' = [slot EXCEPT !.inputs = Append(@, "user")]
    BY <1>0, <2>1, <2>2 DEF SlotHolds, ThreadTypes, Slot, agentVars
  <2>3. CASE slot' = slot
    BY <2>1, <2>3 DEF SlotHolds, agentVars
  <2>4. QED
    BY <1>10, <2>2, <2>3 DEF AgentChat
<1>11. CASE ChatContinues
  <2>1. UNCHANGED <<windows, cancelled>>
    BY <1>11 DEF ChatContinues
  <2>2. CASE CanContinue
    BY <1>0, <1>1, <1>11, <2>1, <2>2 DEF ChatContinues, CanContinue, ThreadTypes
  <2>3. CASE ~CanContinue
    BY <1>11, <2>1, <2>3 DEF ChatContinues, SlotHolds
  <2>4. QED
    BY <2>2, <2>3
<1>12. ASSUME NEW t \in Turns,
              \/ TakeBoard(t) \/ AgentOutput(t) \/ BeginWait(t) \/ EndWait(t) \/ Report(t)
              \/ Submit \/ TurnEnds \/ OnAgentMessage \/ StopPosts \/ ChatStarted
       PROVE  SlotHolds'
    BY <1>12, CoreSteps, CoreFrame
<1>13. 1 \in Turns
    BY RunsAreNumbers
<1>14. QED
    BY <1>2, <1>3, <1>4, <1>5, <1>6, <1>7, <1>8, <1>9, <1>10, <1>11, <1>12, <1>13
       DEF Next, AgentStep, LeadStep, LoopStep

-----------------------------------------------------------------------------
(* The calls.                                                              *)

\* What becomes of the waiters and the run in a step that is not of a wait's.
WaitSame ==
    /\ slot'.waiters = slot.waiters
    /\ slot'.held => slot.held \/ slot.waiters > 0
    /\ slot'.observed => slot.observed
    /\ slot'.run >= slot.run
    /\ slot'.run = slot.run /\ slot.done => slot'.done

LEMMA WaitSameSteps ==
    ASSUME TypeOK, Next, NEW t \in Turns,
           LeadStep => TakeBoard(t) \/ AgentOutput(t) \/ Report(t) \/ AgentKill(t) \/ AgentSend(t)
    PROVE  WaitSame
<1>0. ThreadTypes /\ slot \in Slot /\ slot.run \in Nat
    BY TypeParts, RunsAreNumbers DEF ThreadTypes, Slot
<1>1. ASSUME NEW s \in Slot, NEW also, NEW said, BeginContinuation(s, also, said), s.run < MaxRuns,
             s.run = slot.run, s.waiters = slot.waiters, s.observed = slot.observed
      PROVE  WaitSame
  <2>1. /\ slot'.run = slot.run + 1 /\ ~slot'.held /\ slot'.waiters = slot.waiters
        /\ slot'.observed => slot.observed
    BY <1>0, <1>1, Begun
  <2>2. slot'.run >= slot.run /\ slot'.run # slot.run
    BY <1>0, <2>1
  <2>3. QED
    BY <2>1, <2>2 DEF WaitSame
<1>2. ASSUME UNCHANGED slot PROVE WaitSame
    BY <1>0, <1>2 DEF WaitSame
<1>3. CASE AgentStep
  <2>1. CASE ReadInputs
    BY <1>0, <2>1 DEF ReadInputs, WaitSame, Slot
  <2>2. CASE RunEnds
    BY <1>2, <2>2 DEF RunEnds
  <2>3. CASE Settle
    <3>1. /\ slot'.waiters = slot.waiters /\ slot'.observed = slot.observed /\ slot'.run = slot.run
          /\ slot'.done
        BY <1>0, <2>3 DEF Settle, Slot
    <3>2. slot'.held => slot.held \/ slot.waiters > 0
        BY <1>0, <2>3 DEF Settle, Slot
    <3>3. QED
        BY <1>0, <3>1, <3>2 DEF WaitSame
  <2>4. ASSUME NEW r \in Runs, WindowLooks(r) PROVE WaitSame
    BY <1>2, <2>4 DEF WindowLooks
  <2>5. ASSUME NEW r \in Runs, WindowContinues(r) PROVE WaitSame
    BY <1>0, <1>1, <1>2, <2>5 DEF WindowContinues
  <2>6. QED
    BY <1>3, <2>1, <2>2, <2>3, <2>4, <2>5 DEF AgentStep
<1>4. CASE TakeBoard(t) \/ AgentOutput(t)
    BY <1>2, <1>4 DEF TakeBoard, AgentOutput
<1>5. CASE Report(t)
    BY <1>0, <1>5 DEF Report, WaitSame, Slot
<1>6. CASE AgentKill(t)
  <2>1. CASE slot.done
    BY <1>2, <1>6, <2>1 DEF AgentKill
  <2>2. CASE ~slot.done
    <3>1. slot' = [slot EXCEPT !.inputs = <<>>, !.killed = TRUE, !.byUser = FALSE, !.done = TRUE]
        BY <1>6, <2>2 DEF AgentKill
    <3>2. QED
        BY <1>0, <3>1 DEF WaitSame, Slot
  <2>3. QED
    BY <2>1, <2>2
<1>7. CASE AgentSend(t)
  <2> DEFINE s == [slot EXCEPT !.inputs = Append(@, "lead")]
  <2>1. /\ s \in Slot /\ s.run = slot.run /\ s.waiters = slot.waiters /\ s.observed = slot.observed
        /\ s.held = slot.held /\ s.done = slot.done
    BY <1>0, Queued DEF Slot
  <2>2. CASE slot' = s
    <3> HIDE DEF s
    <3>1. QED
        BY <1>0, <2>1, <2>2 DEF WaitSame
  <2>3. CASE slot.run < MaxRuns /\ BeginContinuation(s, <<Message("Resumed", FALSE)>>, Announced(s))
    BY <1>1, <2>1, <2>3
  <2>4. QED
    BY <1>7, <2>2, <2>3 DEF AgentSend
<1>8. CASE LoopStep
  <2>1. CASE Submit \/ TurnEnds \/ StopPosts \/ ChatStarted
    BY <1>2, <2>1 DEF Submit, TurnEnds, StopPosts, ChatStarted
  <2>2. CASE OnAgentMessage
    <3>1. slot' = slot \/ \E r : slot' = [slot EXCEPT !.owed = @ \ {r}]
        BY <2>2 DEF OnAgentMessage, FoldSettled, FoldSteered, FoldStopped
    <3>2. QED
        BY <1>0, <3>1 DEF WaitSame, Slot
  <2>3. CASE StopAgent
    BY <1>0, <2>3 DEF StopAgent, WaitSame, Slot
  <2>4. CASE AgentChat
    BY <1>0, <1>2, <2>4 DEF AgentChat, WaitSame, Slot
  <2>5. CASE ChatContinues
    BY <1>0, <1>1, <1>2, <2>5 DEF ChatContinues
  <2>6. QED
    BY <1>8, <2>1, <2>2, <2>3, <2>4, <2>5 DEF LoopStep
<1>9. QED
    BY <1>3, <1>4, <1>5, <1>6, <1>7, <1>8 DEF Next

\* A step that begins, ends and answers no call.
LeadKeeps ==
    /\ \A t \in Turns : \/ lead'[t] = lead[t]
                        \/ lead[t].pc \notin Calling /\ lead'[t].pc \notin Calling
    /\ \A t \in Turns : t > turn'.n => lead'[t].pc = "gone"
    /\ LeadTypes'

NoneAhead == \A t \in Turns : t > turn.n => lead[t].pc = "gone"

\* A turn begins.
LEMMA TurnBegins ==
    ASSUME LeadTypes, NoneAhead, turn.n < MaxTurns, turn' = [n |-> turn.n + 1, active |-> TRUE],
           lead' = [lead EXCEPT ![turn.n + 1] = At("loop")]
    PROVE  LeadKeeps
<1>1. turn.n \in Turns /\ turn.n \in Nat /\ turn.n + 1 \in Turns /\ 0 \in Runs
    BY RunsAreNumbers DEF LeadTypes
<1>2. At("loop") \in Call /\ At("loop").pc = "loop"
    BY <1>1 DEF At, Call
<1>3. turn.n + 1 > turn.n /\ lead[turn.n + 1].pc = "gone"
    BY <1>1 DEF NoneAhead
<1>4. \A t \in Turns : t > turn.n + 1 => t > turn.n /\ t # turn.n + 1
    BY <1>1, RunsAreNumbers
<1>5. LeadTypes'
    BY <1>1, <1>2 DEF LeadTypes
<1>6. \A t \in Turns : lead'[t] = IF t = turn.n + 1 THEN At("loop") ELSE lead[t]
    BY DEF LeadTypes
<1>7. QED
    BY <1>2, <1>3, <1>4, <1>5, <1>6 DEF LeadKeeps, NoneAhead, Calling

LEMMA LeadSame ==
    ASSUME LeadTypes, NoneAhead, UNCHANGED lead, turn' = turn \/ turn' = [turn EXCEPT !.active = FALSE]
    PROVE  LeadKeeps
BY DEF LeadTypes, LeadKeeps, NoneAhead

LEMMA DispatchLead ==
    ASSUME LeadTypes, NoneAhead, NEW b, NEW held, Dispatch(b, held)
    PROVE  LeadKeeps
BY TurnBegins, LeadSame DEF Dispatch

LEMMA PostLead ==
    ASSUME LeadTypes, NoneAhead, NEW kind, NEW run, NEW how,
           PostAndDispatch(kind, run, how) \/ PostFrom(kind, run, how)
    PROVE  LeadKeeps
<1>1. ASSUME PostAndDispatch(kind, run, how) PROVE LeadKeeps
    BY <1>1, DispatchLead, LeadSame DEF PostAndDispatch
<1>2. ASSUME PostFrom(kind, run, how) PROVE LeadKeeps
    BY <1>1, <1>2, LeadSame DEF PostFrom, leadVars
<1>3. QED
    BY <1>1, <1>2

LEMMA LeadKeepsSteps ==
    ASSUME TypeOK, NoneAhead, Next, NEW t \in Turns,
           LeadStep => TakeBoard(t) \/ AgentKill(t) \/ AgentSend(t)
    PROVE  LeadKeeps
<1>0. LeadTypes
    BY TypeParts
<1>1. ASSUME UNCHANGED leadVars PROVE LeadKeeps
    BY <1>0, <1>1, LeadSame DEF leadVars
<1>2. CASE AgentStep
    BY <1>1, <1>2 DEF AgentStep, ReadInputs, RunEnds, Settle, WindowLooks, WindowContinues
<1>3. CASE TakeBoard(t) \/ AgentKill(t) \/ AgentSend(t)
    BY <1>1, <1>3 DEF TakeBoard, AgentKill, AgentSend
<1>4. CASE LoopStep
  <2>1. CASE Submit
    BY <1>0, <2>1, TurnBegins DEF Submit
  <2>2. CASE TurnEnds
    BY <1>0, <2>2, DispatchLead DEF TurnEnds
  <2>3. CASE OnAgentMessage
    BY <1>0, <1>1, <2>3, PostLead DEF OnAgentMessage, FoldSettled, FoldSteered, FoldStopped, Quiet
  <2>4. CASE StopAgent \/ AgentChat \/ ChatContinues
    BY <1>1, <2>4 DEF StopAgent, AgentChat, ChatContinues, Quiet
  <2>5. CASE StopPosts
    BY <1>0, <1>1, <2>5, PostLead DEF StopPosts, Quiet
  <2>6. CASE ChatStarted
    BY <1>0, <1>1, <2>6, PostLead, DispatchLead DEF ChatStarted, Quiet
  <2>7. QED
    BY <1>4, <2>1, <2>2, <2>3, <2>4, <2>5, <2>6 DEF LoopStep
<1>5. QED
    BY <1>2, <1>3, <1>4 DEF Next

Waiting == {t \in Turns : lead[t].pc = "wait"}

LEMMA WaitingCount ==
    ASSUME NEW S \in SUBSET Turns
    PROVE  IsFiniteSet(S) /\ Cardinality(S) \in 0 .. MaxTurns
<1>1. IsFiniteSet(Turns) /\ Cardinality(Turns) = MaxTurns
    BY FS_Interval, RunsAreNumbers DEF Turns
<1>2. IsFiniteSet(S) /\ Cardinality(S) <= MaxTurns
    BY <1>1, FS_Subset
<1>3. Cardinality(S) \in Nat
    BY <1>2, FS_CardinalityType
<1>4. QED
    BY <1>2, <1>3, RunsAreNumbers

\* A report is of a run that is over.
ReportsOver == \A r \in Reported : r < slot.run \/ (r = slot.run /\ slot.done)

LEMMA KeptReports ==
    ASSUME LeadKeeps
    PROVE  /\ Reported' = Reported /\ Waiting' = Waiting
           /\ \A t \in Turns : Calling \cap {lead'[t].pc} = Calling \cap {lead[t].pc}
BY DEF LeadKeeps, Reported, Waiting, Calling

LEMMA ReportsFrame ==
    ASSUME TypeOK, ReportsOver, WaitSame, Reported' \subseteq Reported, slot'.run \in Nat
    PROVE  ReportsOver'
<1>1. slot.run \in Nat /\ Reported \subseteq Nat
  <2>1. ThreadTypes /\ LeadTypes
    BY TypeParts
  <2>2. slot.run \in Runs
    BY <2>1 DEF ThreadTypes, Slot
  <2>3. \A t \in Turns : lead[t].run \in Runs
    BY <2>1 DEF LeadTypes, Call
  <2>4. QED
    BY <2>2, <2>3, RunsAreNumbers DEF Reported
<1>2. ASSUME NEW r \in Reported PROVE r < slot'.run \/ (r = slot'.run /\ slot'.done)
  <2>1. r < slot.run \/ (r = slot.run /\ slot.done)
    BY DEF ReportsOver
  <2>2. CASE r < slot.run
    BY <1>1, <1>2, <2>2 DEF WaitSame
  <2>3. CASE r = slot.run /\ slot.done
    <3>1. slot.run < slot'.run \/ slot'.run = slot.run
        BY <1>1 DEF WaitSame
    <3>2. QED
        BY <2>3, <3>1 DEF WaitSame
  <2>4. QED
    BY <2>1, <2>2, <2>3
<1>3. QED
    BY <1>2 DEF ReportsOver

LEMMA CallsStep ==
    ASSUME TypeOK, SlotHolds, CallsHold, Next, slot'.run \in Nat
    PROVE  CallsHold' /\ LeadTypes' /\ slot'.waiters \in 0 .. MaxTurns
<1>0. /\ ThreadTypes /\ LeadTypes /\ slot \in Slot /\ slot.run \in Nat /\ slot.run \in Runs
      /\ NoneAhead /\ ReportsOver /\ slot.waiters = Cardinality(Waiting)
      /\ slot.waiters \in 0 .. MaxTurns /\ (slot.held => slot.waiters > 0)
    BY TypeParts, RunsAreNumbers DEF ThreadTypes, Slot, CallsHold, NoneAhead, ReportsOver, Waiting
<1>1. ASSUME LeadKeeps, WaitSame PROVE CallsHold' /\ LeadTypes' /\ slot'.waiters \in 0 .. MaxTurns
  <2>1. Reported' = Reported /\ Waiting' = Waiting
    BY <1>1, KeptReports
  <2>2. ReportsOver'
    BY <1>0, <1>1, <2>1, ReportsFrame
  <2>3. slot'.waiters = Cardinality(Waiting') /\ (slot'.held => slot'.waiters > 0)
    BY <1>0, <1>1, <2>1 DEF WaitSame
  <2>4. QED
    BY <1>0, <1>1, <2>2, <2>3 DEF CallsHold, LeadKeeps, ReportsOver, Waiting, WaitSame
<1>2. ASSUME NEW t \in Turns, NEW call \in Call, lead' = [lead EXCEPT ![t] = call], UNCHANGED turn,
             lead[t].pc # "gone",
             call.pc = "report" => call.run = slot.run /\ slot.done,
             slot'.run = slot.run, slot'.done = slot.done
      PROVE  LeadTypes' /\ NoneAhead' /\ ReportsOver'
             /\ Waiting' = IF call.pc = "wait" THEN Waiting \cup {t} ELSE Waiting \ {t}
  <2>1. \A u \in Turns : lead'[u] = IF u = t THEN call ELSE lead[u]
    BY <1>0, <1>2 DEF LeadTypes
  <2>2. LeadTypes'
    BY <1>0, <1>2 DEF LeadTypes
  <2>3. NoneAhead'
    BY <1>0, <1>2, <2>1 DEF NoneAhead
  <2>4. Reported' \subseteq Reported \cup (IF call.pc = "report" THEN {slot.run} ELSE {})
    BY <1>2, <2>1 DEF Reported
  <2>5. ReportsOver'
    BY <1>0, <1>2, <2>4 DEF ReportsOver
  <2>6. Waiting' = IF call.pc = "wait" THEN Waiting \cup {t} ELSE Waiting \ {t}
    BY <2>1 DEF Waiting
  <2>7. QED
    BY <2>2, <2>3, <2>5, <2>6
<1>3. ASSUME NEW t \in Turns, NEW pc \in {"gone", "loop", "register", "wait"}
      PROVE  At(pc) \in Call /\ At(pc).pc = pc
    BY RunsAreNumbers DEF At, Call
<1>4. Reporting \in Call /\ Reporting.pc = "report" /\ Reporting.run = slot.run
    BY <1>0 DEF Reporting, Call
<1>5. ~Running(slot) => slot.done
    BY DEF Running, SlotHolds
<1>6. ASSUME NEW t \in Turns, AgentOutput(t) PROVE CallsHold' /\ LeadTypes' /\ slot'.waiters \in 0 .. MaxTurns
  <2>1. UNCHANGED <<slot, turn>> /\ lead[t].pc = "loop"
    BY <1>6 DEF AgentOutput, AtLoop
  <2>2. PICK call \in {At("register"), Reporting} :
            lead' = [lead EXCEPT ![t] = call] /\ (call = Reporting => slot.done)
    BY <1>3, <1>4, <1>5, <1>6 DEF AgentOutput
  <2>3. LeadTypes' /\ NoneAhead' /\ ReportsOver' /\ Waiting' = Waiting
    BY <1>2, <1>3, <1>4, <2>1, <2>2 DEF Waiting
  <2>4. QED
    BY <1>0, <2>1, <2>3 DEF CallsHold, NoneAhead, ReportsOver, Waiting
<1>7. ASSUME NEW t \in Turns, BeginWait(t) PROVE CallsHold' /\ LeadTypes' /\ slot'.waiters \in 0 .. MaxTurns
  <2>1. /\ UNCHANGED turn /\ lead[t].pc = "register" /\ lead' = [lead EXCEPT ![t] = At("wait")]
        /\ slot'.run = slot.run /\ slot'.done = slot.done /\ slot'.held = slot.held
        /\ slot'.waiters = slot.waiters + 1
    BY <1>0, <1>7 DEF BeginWait, Slot
  <2>2. LeadTypes' /\ NoneAhead' /\ ReportsOver' /\ Waiting' = Waiting \cup {t} /\ t \notin Waiting
    BY <1>2, <1>3, <2>1 DEF Waiting
  <2>3. Waiting \subseteq Turns /\ Waiting' \subseteq Turns
    BY <2>2 DEF Waiting
  <2>4. Cardinality(Waiting') = Cardinality(Waiting) + 1
    BY <2>2, <2>3, WaitingCount, FS_AddElement
  <2>5. slot'.waiters = Cardinality(Waiting') /\ slot'.waiters \in 0 .. MaxTurns /\ slot'.waiters > 0
    BY <1>0, <2>1, <2>3, <2>4, WaitingCount
  <2>6. QED
    BY <2>2, <2>5 DEF CallsHold, NoneAhead, ReportsOver, Waiting
<1>8. ASSUME NEW t \in Turns, EndWait(t) PROVE CallsHold' /\ LeadTypes' /\ slot'.waiters \in 0 .. MaxTurns
  <2> DEFINE s == [slot EXCEPT !.waiters = @ - 1, !.observed = @ \/ (~Interrupted(t) /\ slot.held)]
  <2>1. UNCHANGED turn /\ lead[t].pc = "wait"
    BY <1>8 DEF EndWait
  <2>2. PICK call \in {At("gone"), At("loop"), Reporting} :
            lead' = [lead EXCEPT ![t] = call] /\ (call = Reporting => slot.done)
    BY <1>3, <1>4, <1>5, <1>8 DEF EndWait, Back
  <2>3. /\ slot'.run = slot.run /\ slot'.done = slot.done /\ slot'.waiters = slot.waiters - 1
        /\ slot'.held => slot.held /\ slot'.waiters # 0
    <3>1. s.waiters = slot.waiters - 1 /\ s.held = slot.held /\ s.run = slot.run /\ s.done = slot.done
        BY <1>0 DEF Slot
    <3>2. CASE s.waiters = 0 /\ s.held
        BY <1>0, <1>8, <3>1, <3>2 DEF EndWait, Slot
    <3>3. CASE ~(s.waiters = 0 /\ s.held)
        <4>1. slot' = s
            BY <1>8, <3>3 DEF EndWait
        <4> HIDE DEF s
        <4>2. QED
            BY <3>1, <3>3, <4>1
    <3>4. QED
        BY <3>2, <3>3
  <2>4. LeadTypes' /\ NoneAhead' /\ ReportsOver' /\ Waiting' = Waiting \ {t} /\ t \in Waiting
    BY <1>2, <1>3, <1>4, <2>1, <2>2, <2>3 DEF Waiting
  <2>5. Waiting \subseteq Turns /\ Waiting' \subseteq Turns
    BY <2>4 DEF Waiting
  <2>6. Cardinality(Waiting') = Cardinality(Waiting) - 1
    BY <2>4, <2>5, WaitingCount, FS_RemoveElement
  <2>7. slot'.waiters = Cardinality(Waiting') /\ slot'.waiters \in 0 .. MaxTurns
        /\ (slot'.held => slot'.waiters > 0)
    BY <1>0, <2>3, <2>5, <2>6, WaitingCount
  <2>8. QED
    BY <2>4, <2>7 DEF CallsHold, NoneAhead, ReportsOver, Waiting
<1>9. ASSUME NEW t \in Turns, Report(t) PROVE CallsHold' /\ LeadTypes' /\ slot'.waiters \in 0 .. MaxTurns
  <2>1. UNCHANGED turn /\ lead[t].pc = "report"
    BY <1>9 DEF Report
  <2>2. PICK call \in {At("gone"), At("loop")} : lead' = [lead EXCEPT ![t] = call]
    BY <1>9 DEF Report, Back
  <2>3. /\ slot'.run = slot.run /\ slot'.done = slot.done /\ slot'.waiters = slot.waiters
        /\ slot'.held = slot.held
    BY <1>0, <1>9 DEF Report, Slot
  <2>4. LeadTypes' /\ NoneAhead' /\ ReportsOver' /\ Waiting' = Waiting
    BY <1>2, <1>3, <2>1, <2>2, <2>3 DEF Waiting
  <2>5. QED
    BY <1>0, <2>3, <2>4 DEF CallsHold, NoneAhead, ReportsOver, Waiting
<1>10. ASSUME NEW t \in Turns, LeadStep => TakeBoard(t) \/ AgentKill(t) \/ AgentSend(t)
       PROVE  CallsHold' /\ LeadTypes' /\ slot'.waiters \in 0 .. MaxTurns
    BY <1>0, <1>1, <1>10, WaitSameSteps, LeadKeepsSteps
<1>11. QED
    BY <1>6, <1>7, <1>8, <1>9, <1>10, RunsAreNumbers DEF Next, LeadStep

\* With no wait outlasted there is one at a time, and the last to end releases what is held.
LEMMA OneWaitStep ==
    ASSUME TypeOK, CallsHold, OneWait, "wait" \notin Late, Next
    PROVE  OneWait'
<1>0. /\ ThreadTypes /\ LeadTypes /\ slot \in Slot /\ NoneAhead
      /\ slot.waiters = Cardinality(Waiting) /\ slot.waiters \in 0 .. MaxTurns
      /\ ~slot.observed
      /\ \A t, u \in Turns : {lead[t].pc, lead[u].pc} \subseteq {"register", "wait"} => t = u
    BY TypeParts DEF ThreadTypes, Slot, CallsHold, NoneAhead, Waiting, OneWait
<1>1. ASSUME LeadKeeps, WaitSame PROVE OneWait'
  <2>1. \A t \in Turns : lead'[t].pc \in {"register", "wait"} => lead[t].pc \in {"register", "wait"}
    BY <1>1 DEF LeadKeeps, Calling
  <2>2. QED
    BY <1>0, <1>1, <2>1 DEF OneWait, WaitSame
<1>2. ASSUME NEW t \in Turns, NEW call, lead' = [lead EXCEPT ![t] = call], ~slot'.observed,
             call.pc \in {"register", "wait"} =>
                 \A u \in Turns : lead[u].pc \in {"register", "wait"} => u = t
      PROVE  OneWait'
  <2>1. \A u \in Turns : lead'[u] = IF u = t THEN call ELSE lead[u]
    BY <1>0, <1>2 DEF LeadTypes
  <2>2. QED
    BY <1>0, <1>2, <2>1 DEF OneWait
<1>3. ASSUME NEW t \in Turns, AgentOutput(t) PROVE OneWait'
  <2>1. turn.n = t /\ \A u \in 1 .. t - 1 : lead[u].pc \notin {"register", "wait"}
    BY <1>3 DEF AgentOutput, AtLoop, Interrupted
  <2>2. \A u \in Turns : u \in 1 .. t - 1 \/ u = t \/ u > t
    BY RunsAreNumbers DEF Turns
  <2>3. \A u \in Turns : lead[u].pc \in {"register", "wait"} => u = t
    BY <1>0, <2>1, <2>2 DEF NoneAhead
  <2>4. /\ UNCHANGED slot
        /\ lead' = [lead EXCEPT ![t] = IF Running(slot) THEN At("register") ELSE Reporting]
    BY <1>3 DEF AgentOutput
  <2>5. QED
    BY <1>0, <1>2, <2>3, <2>4
<1>4. ASSUME NEW t \in Turns, BeginWait(t) PROVE OneWait'
  <2>1. lead[t].pc = "register" /\ lead' = [lead EXCEPT ![t] = At("wait")] /\ slot'.observed = slot.observed
    BY <1>0, <1>4 DEF BeginWait, Slot
  <2>2. \A u \in Turns : lead[u].pc \in {"register", "wait"} => u = t
    BY <1>0, <2>1
  <2>3. QED
    BY <1>0, <1>2, <2>1, <2>2
<1>5. ASSUME NEW t \in Turns, EndWait(t) PROVE OneWait'
  <2> DEFINE s == [slot EXCEPT !.waiters = @ - 1, !.observed = @ \/ (~Interrupted(t) /\ slot.held)]
  <2>1. lead[t].pc = "wait"
    BY <1>5 DEF EndWait
  <2>2. PICK call \in {At("gone"), At("loop"), Reporting} : lead' = [lead EXCEPT ![t] = call]
    BY <1>5 DEF EndWait, Back
  <2>3. Waiting = {t}
    BY <1>0, <2>1 DEF Waiting
  <2>4. slot.waiters = 1
    BY <1>0, <2>3, FS_Singleton
  <2>5. s.waiters = 0 /\ s.held = slot.held /\ (s.observed => slot.held)
    BY <1>0, <2>4 DEF Slot
  <2>6. ASSUME slot.held PROVE ~slot'.observed
    <3>1. slot' = [s EXCEPT !.held = FALSE, !.observed = FALSE,
                            !.owed = IF s.observed THEN @ ELSE @ \cup {s.run}]
        BY <1>5, <2>5, <2>6 DEF EndWait
    <3>2. QED
        BY <1>0, <3>1 DEF Slot
  <2>7. ASSUME ~slot.held PROVE ~slot'.observed
    <3>1. slot' = s
        BY <1>5, <2>5, <2>7 DEF EndWait
    <3>2. QED
        BY <2>5, <2>7, <3>1
  <2>8. call.pc \notin {"register", "wait"}
    BY <2>2 DEF At, Reporting
  <2>9. ~slot'.observed
    BY <2>6, <2>7
  <2>10. QED
    BY <1>2, <2>2, <2>8, <2>9
<1>6. ASSUME NEW t \in Turns, Report(t) PROVE OneWait'
  <2>1. PICK call \in {At("gone"), At("loop")} : lead' = [lead EXCEPT ![t] = call]
    BY <1>6 DEF Report, Back
  <2>2. slot'.observed = slot.observed
    BY <1>0, <1>6 DEF Report, Slot
  <2>3. call.pc \notin {"register", "wait"}
    BY <2>1 DEF At
  <2>4. QED
    BY <1>0, <1>2, <2>1, <2>2, <2>3
<1>7. ASSUME NEW t \in Turns, LeadStep => TakeBoard(t) \/ AgentKill(t) \/ AgentSend(t) PROVE OneWait'
    BY <1>0, <1>1, <1>7, WaitSameSteps, LeadKeepsSteps
<1>8. QED
    BY <1>3, <1>4, <1>5, <1>6, <1>7, RunsAreNumbers DEF Next, LeadStep

-----------------------------------------------------------------------------
(* The notes and the cells.                                                *)

EndsIn(notes) == {note.run : note \in {x \in notes : x.kind = "end"}}
NewNote(kind, run, how) == [n |-> posted, kind |-> kind, run |-> run, how |-> how]

\* What a step does to the notes: none, one posted, all of them read, some taken back.
Posted(note) ==
    /\ board' = Append(board, note) /\ cells' = Append(cells, note) /\ posted' = posted + 1
    /\ UNCHANGED <<retracted, told, stale>>
AllRead(notes) ==
    /\ board' = <<>>
    /\ \E h \in Seq(Notes) : Increasing(h) /\ Range(h) = notes /\ Hear(h)
AllGone == cells' = <<>> /\ retracted' = {}

LEMMA NumbersAppend ==
    ASSUME NEW b \in Seq(Notes), NEW held \in Seq(Notes), NEW back \in SUBSET Nat, NEW next \in Nat,
           NumbersIn(b, held, back, next), NEW note \in Notes, note.n = next
    PROVE  NumbersIn(Append(b, note), Append(held, note), back, next + 1)
<1>1. /\ Range(Append(b, note)) = Range(b) \cup {note}
      /\ Range(Append(held, note)) = Range(held) \cup {note}
    BY AppendFacts
<1>2. Range(held) \subseteq Notes /\ \A x \in Notes : x.n \in Nat
    BY NoteOf DEF Notes
<1>3. Increasing(Append(b, note)) /\ Increasing(Append(held, note))
    BY IncreasingAppend DEF NumbersIn
<1>4. \A cell \in Range(held) \cup {note} : cell.n < next + 1
    BY <1>2 DEF NumbersIn
<1>5. next \notin back
    BY <1>2 DEF NumbersIn
<1>6. \A cell \in Range(held) : cell # note
    BY <1>2 DEF NumbersIn
<1>7. \A cell \in Range(held) \cup {note} : cell.n \in back <=> cell \notin Range(b) \cup {note}
    BY <1>5, <1>6 DEF NumbersIn
<1>8. QED
    BY <1>1, <1>3, <1>4, <1>7 DEF NumbersIn

LEMMA NumbersWithout ==
    ASSUME NEW b \in Seq(Notes), NEW held \in Seq(Notes), NEW back, NEW next,
           NumbersIn(b, held, back, next), NEW S \in SUBSET Range(b)
    PROVE  NumbersIn(Without(b, S), held, back \cup {note.n : note \in S}, next)
<1>1. Increasing(Without(b, S)) /\ Range(Without(b, S)) = Range(b) \ S
    BY IncreasingWithout DEF NumbersIn
<1>2. S \subseteq Range(held) /\ \A x, y \in Range(held) : x.n = y.n => x = y
    BY IncreasingApart DEF NumbersIn
<1>3. \A cell \in Range(held) : cell.n \in {note.n : note \in S} <=> cell \in S
    BY <1>2
<1>4. QED
    BY <1>1, <1>2, <1>3 DEF NumbersIn

LEMMA NumbersTaken ==
    ASSUME NEW b \in Seq(Notes), NEW held \in Seq(Notes), NEW back, NEW next,
           NumbersIn(b, held, back, next)
    PROVE  NumbersIn(<<>>, Without(held, Range(b)), back, next)
<1>1. /\ Increasing(Without(held, Range(b)))
      /\ Range(Without(held, Range(b))) = Range(held) \ Range(b)
    BY IncreasingWithout DEF NumbersIn
<1>2. QED
    BY <1>1, IncreasingEmpty DEF NumbersIn

LEMMA NumbersNone ==
    ASSUME NEW next
    PROVE  NumbersIn(<<>>, <<>>, {}, next)
BY IncreasingEmpty DEF NumbersIn

\* What dispatch_after_turn reads are the notes pending.
LEMMA DispatchNotes ==
    ASSUME NEW b \in Seq(Notes), NEW held \in Seq(Notes), NEW next,
           NumbersIn(b, held, retracted, next), Dispatch(b, held)
    PROVE  AllRead(Range(b)) /\ AllGone
<1> DEFINE h == Without(held, Retracted(held))
<1>1. /\ h \in Seq(Notes) /\ Increasing(h) /\ Range(h) = Range(held) \ Retracted(held)
    BY IncreasingWithout DEF NumbersIn
<1>2. Range(h) = Range(b)
    BY <1>1 DEF NumbersIn, Retracted
<1>3. Hear(h) /\ board' = <<>> /\ cells' = <<>>
    BY DEF Dispatch
<1> HIDE DEF h
<1>4. retracted' = {}
    BY DEF Dispatch, NumbersIn, Range
<1>5. QED
    BY <1>1, <1>2, <1>3, <1>4 DEF AllRead, AllGone

LEMMA PostEffect ==
    ASSUME NoteTypes, NumbersHold, NEW kind \in {"end", "resume"}, NEW run \in Runs,
           NEW how \in {"answer", "stop", "resume"},
           PostAndDispatch(kind, run, how) \/ PostFrom(kind, run, how)
    PROVE  LET note == NewNote(kind, run, how) IN
           /\ note \in Notes /\ note.n = posted /\ note \notin Pending
           /\ posted' = posted + 1
           /\ Posted(note) \/ (AllRead(Pending \cup {note}) /\ AllGone)
<1> DEFINE note == NewNote(kind, run, how)
<1>1. note \in Notes /\ note.n = posted
    BY DEF NewNote, Notes, NoteTypes
<1>2. note \notin Pending
  <2>1. \A x \in Pending : x.n < posted
    BY DEF NumbersHold, NumbersIn, Pending
  <2>2. QED
    BY <1>1, <2>1 DEF NoteTypes
<1>3. CASE /\ posted' = posted + 1 /\ Dispatch(Append(board, note), Append(cells, note))
  <2>1. NumbersIn(Append(board, note), Append(cells, note), retracted, posted + 1)
    BY <1>1, NumbersAppend DEF NoteTypes, NumbersHold
  <2>2. /\ Append(board, note) \in Seq(Notes) /\ Append(cells, note) \in Seq(Notes)
        /\ Range(Append(board, note)) = Pending \cup {note}
    BY <1>1, AppendFacts DEF NoteTypes, Pending
  <2>3. QED
    BY <1>1, <1>2, <1>3, <2>1, <2>2, DispatchNotes
<1>4. CASE Post(kind, run, how) /\ UNCHANGED <<retracted, told, stale>>
    BY <1>1, <1>2, <1>4 DEF Post, Posted, NewNote
<1>5. QED
    BY <1>3, <1>4 DEF PostAndDispatch, PostFrom, NewNote, leadVars, heardVars

LEMMA ReadTypes ==
    ASSUME HeardTypes, NEW notes \in SUBSET Notes, AllRead(notes), UNCHANGED waived
    PROVE  HeardTypes' /\ told' = told \cup EndsIn(notes)
<1>1. PICK h \in Seq(Notes) : Range(h) = notes /\ Hear(h)
    BY DEF AllRead
<1>2. told' = told \cup EndsIn(notes)
    BY <1>1 DEF Hear, EndRuns, EndsIn
<1>3. EndsIn(notes) \subseteq Runs
    BY DEF EndsIn, Notes
<1>4. \A i \in DOMAIN h : h[i].how \in {"answer", "stop", "resume"}
    BY <1>1 DEF Range, Notes
<1>5. stale' \subseteq {"answer", "stop", "resume"}
    BY <1>1, <1>4 DEF Hear, HeardTypes
<1>6. QED
    BY <1>2, <1>3, <1>5 DEF HeardTypes

LEMMA HeadSent ==
    ASSUME events \in Seq(Sent), events # <<>>
    PROVE  /\ Head(events) \in Sent /\ Tail(events) \in Seq(Sent)
           /\ Len(events) \in Nat /\ Len(events) > 0 /\ Len(Tail(events)) = Len(events) - 1
           /\ Head(events) = events[1]
           /\ \A i \in 1 .. Len(events) - 1 : Tail(events)[i] = events[i + 1]
           /\ DOMAIN events = 1 .. Len(events) /\ DOMAIN Tail(events) = 1 .. Len(events) - 1
<1>1. Len(events) \in Nat /\ Len(events) # 0
    BY LenProperties, EmptySeq
<1>2. QED
    BY <1>1, HeadTailProperties, LenProperties, ElementOfSeq

NotesOk == NoteTypes /\ NumbersHold /\ HeardTypes

LEMMA PostOk ==
    ASSUME NotesOk, NEW kind \in {"end", "resume"}, NEW run \in Runs,
           NEW how \in {"answer", "stop", "resume"}, UNCHANGED waived,
           PostAndDispatch(kind, run, how) \/ PostFrom(kind, run, how)
    PROVE  NotesOk'
<1> DEFINE note == NewNote(kind, run, how)
<1>0. NoteTypes /\ NumbersHold /\ HeardTypes
    BY DEF NotesOk
<1>1. /\ note \in Notes /\ note.n = posted /\ posted' = posted + 1
      /\ Posted(note) \/ (AllRead(Pending \cup {note}) /\ AllGone)
    BY <1>0, PostEffect
<1>2. CASE Posted(note)
  <2>1. NumbersIn(Append(board, note), Append(cells, note), retracted, posted + 1)
    BY <1>0, <1>1, NumbersAppend DEF NoteTypes, NumbersHold
  <2>2. Append(board, note) \in Seq(Notes) /\ Append(cells, note) \in Seq(Notes)
    BY <1>0, <1>1, AppendFacts DEF NoteTypes
  <2>3. QED
    BY <1>0, <1>1, <1>2, <2>1, <2>2 DEF NotesOk, NoteTypes, NumbersHold, HeardTypes, Posted
<1>3. CASE AllRead(Pending \cup {note}) /\ AllGone
  <2>1. Pending \cup {note} \subseteq Notes
    BY <1>0, <1>1, NoteOf DEF NoteTypes, Pending
  <2>2. HeardTypes'
    BY <1>0, <1>3, <2>1, ReadTypes
  <2>3. board' = <<>> /\ cells' = <<>> /\ retracted' = {}
    BY <1>3 DEF AllRead, AllGone
  <2>4. posted' \in Nat
    BY <1>0, <1>1 DEF NoteTypes
  <2>5. QED
    BY <2>2, <2>3, <2>4, NumbersNone, IncreasingEmpty DEF NotesOk, NoteTypes, NumbersHold
<1>4. QED
    BY <1>1, <1>2, <1>3

LEMMA DispatchOk ==
    ASSUME NotesOk, Dispatch(board, cells), UNCHANGED <<posted, waived>>
    PROVE  NotesOk' /\ AllRead(Pending) /\ AllGone /\ told' = told \cup EndsIn(Pending)
<1>0. NoteTypes /\ NumbersHold /\ HeardTypes
    BY DEF NotesOk
<1>1. AllRead(Pending) /\ AllGone
    BY <1>0, DispatchNotes DEF NoteTypes, NumbersHold, Pending
<1>2. Pending \subseteq Notes
    BY <1>0, NoteOf DEF NoteTypes, Pending
<1>3. HeardTypes' /\ told' = told \cup EndsIn(Pending)
    BY <1>0, <1>1, <1>2, ReadTypes
<1>4. board' = <<>> /\ cells' = <<>> /\ retracted' = {}
    BY <1>1 DEF AllRead, AllGone
<1>5. QED
    BY <1>0, <1>1, <1>3, <1>4, NumbersNone, IncreasingEmpty DEF NotesOk, NoteTypes, NumbersHold

LEMMA TakeOk ==
    ASSUME NotesOk, NEW t, TakeBoard(t)
    PROVE  NotesOk' /\ AllRead(Pending) /\ told' = told \cup EndsIn(Pending)
<1>0. NoteTypes /\ NumbersHold /\ HeardTypes
    BY DEF NotesOk
<1>1. AllRead(Pending)
    BY <1>0 DEF TakeBoard, AllRead, NoteTypes, NumbersHold, NumbersIn, Pending
<1>2. Pending \subseteq Notes
    BY <1>0, NoteOf DEF NoteTypes, Pending
<1>3. HeardTypes' /\ told' = told \cup EndsIn(Pending)
    BY <1>0, <1>1, <1>2, ReadTypes DEF TakeBoard, rowVars
<1>4. board' = <<>> /\ cells' = Without(cells, Range(board)) /\ UNCHANGED <<retracted, posted>>
    BY DEF TakeBoard
<1>5. NumbersHold'
    BY <1>0, <1>4, NumbersTaken DEF NoteTypes, NumbersHold
<1>6. cells' \in Seq(Notes)
    BY <1>0, <1>4, WithoutFacts DEF NoteTypes
<1>7. QED
    BY <1>0, <1>1, <1>3, <1>4, <1>5, <1>6, IncreasingEmpty DEF NotesOk, NoteTypes

LEMMA RetractOk ==
    ASSUME NotesOk, NEW S \in SUBSET Pending, Retract(S), UNCHANGED <<cells, posted, stale, waived>>,
           told' \subseteq Runs
    PROVE  NotesOk' /\ Pending' = Pending \ S
<1>0. NoteTypes /\ NumbersHold /\ HeardTypes
    BY DEF NotesOk
<1>1. NumbersHold'
    BY <1>0, NumbersWithout DEF NoteTypes, NumbersHold, Retract, Pending
<1>2. board' \in Seq(Notes) /\ Pending' = Pending \ S
    BY <1>0, WithoutFacts DEF NoteTypes, Retract, Pending
<1>3. S \subseteq Notes
    BY <1>0, NoteOf DEF NoteTypes, Pending
<1>4. retracted' \subseteq Nat
    BY <1>0, <1>3 DEF NoteTypes, Retract, Notes
<1>5. QED
    BY <1>0, <1>1, <1>2, <1>4 DEF NotesOk, NoteTypes, HeardTypes

LEMMA NotesStep ==
    ASSUME TypeOK, NumbersHold, Next
    PROVE  NotesOk'
<1>0. /\ NotesOk /\ events \in Seq(Sent) /\ slot.run \in Runs /\ loop.run \in Runs
      /\ \A t \in Turns : lead[t].run \in Runs
    BY TypeParts DEF NotesOk, ThreadTypes, Slot, RowTypes, Place, LeadTypes, Call
<1>1. ASSUME UNCHANGED noteVars, UNCHANGED <<told, stale>>, waived' \subseteq Runs PROVE NotesOk'
    BY <1>0, <1>1 DEF NotesOk, NoteTypes, NumbersHold, HeardTypes, noteVars
<1>2. ASSUME Quiet, waived' \subseteq Runs PROVE NotesOk'
    BY <1>1, <1>2 DEF Quiet, heardVars
<1>3. waived \subseteq Runs /\ told \subseteq Runs
    BY <1>0 DEF NotesOk, HeardTypes
<1>4. CASE AgentStep
    BY <1>1, <1>3, <1>4 DEF AgentStep, ReadInputs, RunEnds, Settle, WindowLooks, WindowContinues, heardVars, rowVars
<1>5. ASSUME NEW t \in Turns, TakeBoard(t) PROVE NotesOk'
    BY <1>0, <1>5, TakeOk
<1>6. ASSUME NEW t \in Turns, AgentOutput(t) \/ BeginWait(t) \/ EndWait(t) \/ AgentSend(t) PROVE NotesOk'
    BY <1>1, <1>3, <1>6 DEF AgentOutput, BeginWait, EndWait, AgentSend, heardVars, rowVars
<1>7. ASSUME NEW t \in Turns, Report(t) PROVE NotesOk'
  <2>1. Pending \subseteq Notes
    BY <1>0, NoteOf DEF NotesOk, NoteTypes, Pending
  <2>2. EndRuns(board) \subseteq Runs
    BY <2>1 DEF EndRuns, Pending, Notes
  <2>3. told' \subseteq Runs
    BY <1>0, <1>3, <1>7, <2>2 DEF Report
  <2>4. UNCHANGED <<cells, posted, stale, waived>>
    BY <1>7 DEF Report, rowVars
  <2>5. PICK S \in SUBSET Pending : Retract(S)
    BY <1>7 DEF Report, Pending
  <2>6. QED
    BY <1>0, <2>3, <2>4, <2>5, RetractOk
<1>8. ASSUME NEW t \in Turns, AgentKill(t) PROVE NotesOk'
  <2>1. told' \subseteq Runs
    BY <1>0, <1>3, <1>8 DEF AgentKill
  <2>2. UNCHANGED <<cells, posted, stale, waived>>
    BY <1>8 DEF AgentKill, rowVars
  <2>3. PICK S \in SUBSET Pending : Retract(S)
    BY <1>8 DEF AgentKill, Pending
  <2>4. QED
    BY <1>0, <2>1, <2>2, <2>3, RetractOk
<1>9. CASE LoopStep
  <2>1. CASE Submit
    BY <1>1, <1>3, <2>1 DEF Submit, heardVars, rowVars
  <2>2. CASE TurnEnds
    BY <1>0, <2>2, DispatchOk DEF TurnEnds, rowVars
  <2>3. CASE OnAgentMessage
    <3>1. Head(events) \in Sent
        BY <1>0, <2>3, HeadSent DEF OnAgentMessage
    <3>2. CASE Quiet
        BY <1>2, <1>3, <2>3, <3>2 DEF OnAgentMessage
    <3>3. CASE PostFrom("end", Head(events).run, "answer")
        BY <1>0, <2>3, <3>1, <3>3, PostOk DEF OnAgentMessage, Sent
    <3>4. CASE PostFrom("resume", slot.run, "resume")
        BY <1>0, <2>3, <3>4, PostOk DEF OnAgentMessage
    <3>5. QED
        BY <2>3, <3>2, <3>3, <3>4 DEF OnAgentMessage, FoldSettled, FoldSteered, FoldStopped
  <2>4. CASE StopAgent
    <3>1. 0 .. slot.run \subseteq Runs
        BY <1>0, RunsAreNumbers DEF Runs
    <3>2. QED
        BY <1>2, <1>3, <2>4, <3>1 DEF StopAgent
  <2>5. CASE AgentChat \/ ChatContinues
    BY <1>2, <1>3, <2>5 DEF AgentChat, ChatContinues
  <2>6. CASE StopPosts
    BY <1>0, <1>2, <1>3, <2>6, PostOk DEF StopPosts
  <2>7. CASE ChatStarted
    BY <1>0, <1>2, <1>3, <2>7, PostOk, DispatchOk DEF ChatStarted
  <2>8. QED
    BY <1>9, <2>1, <2>2, <2>3, <2>4, <2>5, <2>6, <2>7 DEF LoopStep
<1>10. QED
    BY <1>4, <1>5, <1>6, <1>7, <1>8, <1>9 DEF Next, LeadStep

-----------------------------------------------------------------------------
(* The events.                                                             *)

\* What a step adds to the channel: no end, or first of all the last run's.
Grows ==
    /\ events' \in Seq(Sent) /\ Len(events') \in Nat /\ Len(events') >= Len(events)
    /\ \A i \in 1 .. Len(events) : events'[i] = events[i]
NoEndSent ==
    /\ Grows /\ slot'.owed \subseteq slot.owed
    /\ \A i \in Len(events) + 1 .. Len(events') : events'[i].type # "Settled"
EndSent ==
    /\ Grows /\ Len(events') >= Len(events) + 1
    /\ events'[Len(events) + 1].type = "Settled" /\ events'[Len(events) + 1].run = slot.run
    /\ \A i \in Len(events) + 2 .. Len(events') : events'[i].type # "Settled"
    /\ slot'.owed = IF events'[Len(events) + 1].flag THEN slot.owed ELSE slot.owed \cup {slot.run}
    /\ ~slot'.held
    /\ slot.held \/ (Settle /\ thread = "ended" /\ ~slot'.busy /\ slot'.run = slot.run)

LEMMA GrownBy ==
    ASSUME events \in Seq(Sent), NEW more \in Seq(Sent), events' = events \o more
    PROVE  /\ Grows /\ Len(events) \in Nat /\ Len(more) \in Nat
           /\ Len(events') = Len(events) + Len(more)
           /\ \A k \in 1 .. Len(more) : events'[Len(events) + k] = more[k]
           /\ \A i \in Len(events) + 1 .. Len(events') :
                  i - Len(events) \in 1 .. Len(more) /\ events'[i] = more[i - Len(events)]
<1>1. Len(events) \in Nat /\ Len(more) \in Nat
    BY LenProperties
<1>2. /\ events' \in Seq(Sent) /\ Len(events') = Len(events) + Len(more)
      /\ \A i \in 1 .. Len(events) + Len(more) :
             events'[i] = IF i <= Len(events) THEN events[i] ELSE more[i - Len(events)]
    BY ConcatProperties
<1>3. Grows
    BY <1>1, <1>2 DEF Grows
<1>4. \A k \in 1 .. Len(more) : events'[Len(events) + k] = more[k]
  <2>1. ASSUME NEW k \in 1 .. Len(more) PROVE events'[Len(events) + k] = more[k]
    <3>1. /\ Len(events) + k \in 1 .. Len(events) + Len(more) /\ ~(Len(events) + k <= Len(events))
          /\ Len(events) + k - Len(events) = k
        BY <1>1
    <3>2. QED
        BY <1>2, <3>1
  <2>2. QED
    BY <2>1
<1>5. \A i \in Len(events) + 1 .. Len(events') :
          i - Len(events) \in 1 .. Len(more) /\ events'[i] = more[i - Len(events)]
    BY <1>1, <1>2
<1>6. QED
    BY <1>1, <1>2, <1>3, <1>4, <1>5

LEMMA GrownNone ==
    ASSUME events \in Seq(Sent), UNCHANGED events
    PROVE  Grows /\ Len(events) \in Nat /\ \A i \in Len(events) + 1 .. Len(events') : FALSE
BY LenProperties DEF Grows

LEMMA GrownOne ==
    ASSUME events \in Seq(Sent), NEW e \in Sent, events' = Append(events, e)
    PROVE  /\ Grows /\ Len(events) \in Nat /\ Len(events') = Len(events) + 1
           /\ events'[Len(events) + 1] = e
BY AppendProperties, LenProperties DEF Grows

LEMMA MessagesAreSent ==
    ASSUME NEW type \in {"Steered", "Stopped", "Resumed"}, NEW flag \in BOOLEAN, NEW run \in Runs
    PROVE  /\ Message(type, flag) \in Sent /\ Message(type, flag).type = type
           /\ Settled(run, flag) \in Sent /\ Settled(run, flag).type = "Settled"
           /\ Settled(run, flag).run = run /\ Settled(run, flag).flag = flag
BY RunsAreNumbers DEF Message, Settled, Sent

LEMMA BegunSends ==
    ASSUME ThreadTypes, events \in Seq(Sent), NEW s \in Slot, s.run < MaxRuns,
           s.run = slot.run, s.held = slot.held, s.owed = slot.owed,
           NEW also \in {<<>>, <<Message("Resumed", FALSE)>>}, NEW said, BeginContinuation(s, also, said)
    PROVE  NoEndSent \/ (slot.held /\ EndSent /\ slot'.owed = slot.owed \cup {slot.run})
<1> DEFINE end == Settled(slot.run, FALSE)
           resumed == Message("Resumed", FALSE)
<1>1. slot.run \in Runs
    BY DEF ThreadTypes, Slot
<1>2. /\ end \in Sent /\ end.type = "Settled" /\ end.run = slot.run /\ ~end.flag
      /\ resumed \in Sent /\ resumed.type = "Resumed"
    BY <1>1, MessagesAreSent
<1> HIDE DEF end, resumed
<1>3. /\ events' = events \o (IF slot.held THEN <<end>> ELSE <<>>) \o also
      /\ ~slot'.held
      /\ slot'.owed = IF slot.held THEN slot.owed \cup {slot.run} ELSE slot.owed
    BY Begun DEF end
<1>4. also \in {<<>>, <<resumed>>}
    BY DEF resumed
<1>5. CASE ~slot.held
  <2>1. events' = events \/ events' = Append(events, resumed)
    <3>1. events \o <<>> = events
        BY ConcatEmptySeq
    <3>2. events \o <<resumed>> = Append(events, resumed)
        BY <1>2, AppendIsConcat
    <3>3. QED
        BY <1>3, <1>4, <1>5, <3>1, <3>2
  <2>2. slot'.owed \subseteq slot.owed
    BY <1>3, <1>5
  <2>3. CASE events' = events
    BY <2>2, <2>3, GrownNone DEF NoEndSent
  <2>4. CASE events' = Append(events, resumed)
    <3>1. /\ Grows /\ Len(events) \in Nat /\ Len(events') = Len(events) + 1
          /\ events'[Len(events) + 1] = resumed
        BY <1>2, <2>4, GrownOne
    <3>2. \A i \in Len(events) + 1 .. Len(events') : i = Len(events) + 1
        BY <3>1
    <3>3. QED
        BY <1>2, <2>2, <3>1, <3>2 DEF NoEndSent
  <2>5. QED
    BY <2>1, <2>3, <2>4
<1>6. CASE slot.held
  <2>1. PICK more \in {<<end>>, Append(<<end>>, resumed)} : events' = events \o more
    <3>2. /\ <<end>> \in Seq(Sent) /\ <<resumed>> \in Seq(Sent) /\ <<>> \in Seq(Sent)
        BY <1>2
    <3>1. <<end>> \o <<>> = <<end>> /\ <<end>> \o <<resumed>> = Append(<<end>>, resumed)
        BY <1>2, <3>2, ConcatEmptySeq, AppendIsConcat
    <3>3. (events \o <<end>>) \o also = events \o (<<end>> \o also)
        BY <1>4, <3>2, ConcatAssociative
    <3>4. <<end>> \o also \in {<<end>>, Append(<<end>>, resumed)}
        BY <1>4, <3>1
    <3>5. QED
        BY <1>3, <1>6, <3>3, <3>4
  <2>2. more \in Seq(Sent) /\ Len(more) \in 1 .. 2 /\ more[1] = end
        /\ \A k \in 2 .. Len(more) : more[k] = resumed
    <3>1. <<end>> \in Seq(Sent) /\ Len(<<end>>) = 1 /\ <<end>>[1] = end
        BY <1>2
    <3>2. LET two == Append(<<end>>, resumed) IN
          two \in Seq(Sent) /\ Len(two) = 2 /\ two[1] = end /\ two[2] = resumed
        BY <1>2, <3>1, AppendProperties
    <3>3. CASE more = <<end>>
        BY <3>1, <3>3
    <3>4. CASE more = Append(<<end>>, resumed)
        <4>1. \A k \in 2 .. 2 : k = 2
            OBVIOUS
        <4>2. QED
            BY <3>2, <3>4, <4>1
    <3>5. QED
        BY <2>1, <3>3, <3>4
  <2>3. /\ Grows /\ Len(events) \in Nat /\ Len(events') = Len(events) + Len(more)
        /\ events'[Len(events) + 1] = end
        /\ \A i \in Len(events) + 1 .. Len(events') :
               i - Len(events) \in 1 .. Len(more) /\ events'[i] = more[i - Len(events)]
    <3>1. more \in Seq(Sent) /\ events' = events \o more /\ events \in Seq(Sent)
        BY <2>1, <2>2
    <3>2. /\ Grows /\ Len(events) \in Nat /\ Len(events') = Len(events) + Len(more)
          /\ \A k \in 1 .. Len(more) : events'[Len(events) + k] = more[k]
          /\ \A i \in Len(events) + 1 .. Len(events') :
                 i - Len(events) \in 1 .. Len(more) /\ events'[i] = more[i - Len(events)]
        BY <3>1, GrownBy
    <3>3. 1 \in 1 .. Len(more)
        BY <2>2
    <3>4. QED
        BY <2>2, <3>2, <3>3
  <2>4. \A i \in Len(events) + 2 .. Len(events') : events'[i] = resumed
    BY <2>2, <2>3
  <2>5. Len(events') >= Len(events) + 1
    BY <2>2, <2>3
  <2>6. QED
    BY <1>2, <1>3, <1>6, <2>3, <2>4, <2>5 DEF EndSent
<1>7. QED
    BY <1>5, <1>6

\* Messages read are announced, and nothing else.
LEMMA ReadSends ==
    ASSUME ThreadTypes, events \in Seq(Sent), ReadInputs
    PROVE  /\ Grows
           /\ Len(events) \in Nat /\ (slot.inputs # <<>> => Len(events') > Len(events))
           /\ \A i \in Len(events) + 1 .. Len(events') : events'[i].type = "Steered"
<1> DEFINE more == [i \in DOMAIN slot.inputs |-> Message("Steered", slot.inputs[i] = "user")]
<1>1. slot.inputs \in Seq({"lead", "user"})
    BY DEF ThreadTypes, Slot
<1>2. Len(slot.inputs) \in Nat /\ DOMAIN slot.inputs = 1 .. Len(slot.inputs)
    BY <1>1, LenProperties
<1>3. \A flag \in BOOLEAN : Message("Steered", flag) \in Sent /\ Message("Steered", flag).type = "Steered"
    BY RunsAreNumbers DEF Message, Sent
<1>4. /\ more \in Seq(Sent) /\ DOMAIN more = 1 .. Len(slot.inputs)
      /\ \A k \in DOMAIN more : more[k].type = "Steered"
  <2>1. more \in [1 .. Len(slot.inputs) -> Sent]
    BY <1>2, <1>3
  <2>2. \A k \in 1 .. Len(slot.inputs) : more[k].type = "Steered"
    BY <1>2, <1>3
  <2> HIDE DEF more
  <2>3. more \in Seq(Sent)
    BY <1>2, <2>1, IsASeq
  <2>4. QED
    BY <2>1, <2>2, <2>3
<1>5. events' = events \o more
    BY DEF ReadInputs
<1> HIDE DEF more
<1>6. Len(more) = Len(slot.inputs)
  <2>1. DOMAIN more = 1 .. Len(more) /\ Len(more) \in Nat
    BY <1>4, LenProperties
  <2>2. QED
    BY <1>2, <1>4, <2>1
<1>7. /\ Grows /\ Len(events) \in Nat /\ Len(events') = Len(events) + Len(more)
      /\ \A i \in Len(events) + 1 .. Len(events') :
             i - Len(events) \in 1 .. Len(more) /\ events'[i] = more[i - Len(events)]
    BY <1>4, <1>5, GrownBy
<1>8. slot.inputs # <<>> => Len(slot.inputs) # 0
    BY <1>1, EmptySeq
<1>9. \A i \in Len(events) + 1 .. Len(events') : events'[i].type = "Steered"
    BY <1>4, <1>6, <1>7
<1>10. QED
    BY <1>2, <1>6, <1>7, <1>8, <1>9

LEMMA SentSteps ==
    ASSUME TypeOK, SlotHolds, Next, ~OnAgentMessage
    PROVE  NoEndSent \/ EndSent
<1>0. ThreadTypes /\ events \in Seq(Sent) /\ slot \in Slot /\ slot.run \in Runs
    BY TypeParts DEF ThreadTypes, Slot
<1>1. ASSUME UNCHANGED events, slot'.owed \subseteq slot.owed PROVE NoEndSent
    BY <1>0, <1>1, GrownNone DEF NoEndSent
<1>2. ASSUME NEW e \in Sent, e.type # "Settled", events' = Append(events, e), slot'.owed \subseteq slot.owed
      PROVE  NoEndSent
  <2>1. Grows /\ Len(events) \in Nat /\ Len(events') = Len(events) + 1 /\ events'[Len(events) + 1] = e
    BY <1>0, <1>2, GrownOne
  <2>2. \A i \in Len(events) + 1 .. Len(events') : i = Len(events) + 1
    BY <2>1
  <2>3. QED
    BY <1>2, <2>1, <2>2 DEF NoEndSent
<1>3. ASSUME NEW flag \in BOOLEAN, events' = Append(events, Settled(slot.run, flag)),
             slot'.owed = IF flag THEN slot.owed ELSE slot.owed \cup {slot.run}, ~slot'.held,
             slot.held \/ (Settle /\ thread = "ended" /\ ~slot'.busy /\ slot'.run = slot.run)
      PROVE  EndSent
  <2> DEFINE e == Settled(slot.run, flag)
  <2>1. e \in Sent /\ e.type = "Settled" /\ e.run = slot.run /\ e.flag = flag
    BY <1>0, MessagesAreSent
  <2> HIDE DEF e
  <2>2. Grows /\ Len(events) \in Nat /\ Len(events') = Len(events) + 1 /\ events'[Len(events) + 1] = e
    BY <1>0, <1>3, <2>1, GrownOne DEF e
  <2>3. \A i \in Len(events) + 2 .. Len(events') : FALSE
    BY <2>2
  <2>4. QED
    BY <1>3, <2>1, <2>2, <2>3 DEF EndSent
<1>4. CASE ReadInputs
  <2>1. slot'.owed = slot.owed
    BY <1>0, <1>4 DEF ReadInputs, Slot
  <2>2. QED
    BY <1>0, <1>4, <2>1, ReadSends DEF NoEndSent
<1>5. CASE Settle
  <2>1. CASE thread = "reaped" \/ slot.waiters > 0
    <3>1. UNCHANGED events /\ slot'.owed = slot.owed
        BY <1>0, <1>5, <2>1 DEF Settle, Slot
    <3>2. QED
        BY <1>1, <3>1
  <2>2. CASE thread # "reaped" /\ ~(slot.waiters > 0)
    <3>1. /\ events' = Append(events, Settled(slot.run, FALSE)) /\ thread = "ended"
          /\ slot'.owed = slot.owed \cup {slot.run} /\ ~slot'.busy /\ slot'.run = slot.run
          /\ slot'.held = slot.held
        BY <1>0, <1>5, <2>2 DEF Settle, Slot
    <3>2. ~slot'.held
        BY <3>1, <1>5 DEF SlotHolds, Settle
    <3>3. QED
        BY <1>3, <1>5, <3>1, <3>2
  <2>3. QED
    BY <2>1, <2>2
<1>6. ASSUME NEW r \in Runs, WindowContinues(r) PROVE NoEndSent \/ EndSent
  <2>1. CASE CanContinue
    BY <1>0, <1>6, <2>1, BegunSends DEF WindowContinues
  <2>2. CASE ~CanContinue
    BY <1>1, <1>6, <2>2 DEF WindowContinues
  <2>3. QED
    BY <2>1, <2>2
<1>7. CASE RunEnds \/ Submit \/ TurnEnds \/ StopPosts \/ ChatStarted \/ \E r \in Runs : WindowLooks(r)
    BY <1>1, <1>7 DEF RunEnds, Submit, TurnEnds, StopPosts, ChatStarted, WindowLooks
<1>8. ASSUME NEW t \in Turns, TakeBoard(t) \/ AgentOutput(t) \/ BeginWait(t) \/ Report(t)
      PROVE  NoEndSent
  <2>1. UNCHANGED events
    BY <1>8 DEF TakeBoard, AgentOutput, BeginWait, Report
  <2>2. slot'.owed \subseteq slot.owed
    BY <1>0, <1>8 DEF TakeBoard, AgentOutput, BeginWait, Report, Slot
  <2>3. QED
    BY <1>1, <2>1, <2>2
<1>9. ASSUME NEW t \in Turns, EndWait(t) PROVE NoEndSent \/ EndSent
  <2> DEFINE s == [slot EXCEPT !.waiters = @ - 1, !.observed = @ \/ (~Interrupted(t) /\ slot.held)]
  <2>1. /\ s.held = slot.held /\ s.run = slot.run /\ s.owed = slot.owed
        /\ s.observed = (slot.observed \/ (~Interrupted(t) /\ slot.held))
    BY <1>0 DEF Slot
  <2>2. CASE s.waiters = 0 /\ s.held
    <3>1. /\ slot' = [s EXCEPT !.held = FALSE, !.observed = FALSE,
                               !.owed = IF s.observed THEN @ ELSE @ \cup {s.run}]
          /\ events' = Append(events, Settled(s.run, s.observed))
        BY <1>9, <2>2 DEF EndWait
    <3>2. /\ ~slot'.held
          /\ slot'.owed = IF s.observed THEN slot.owed ELSE slot.owed \cup {slot.run}
        BY <1>0, <2>1, <3>1 DEF Slot
    <3>3. s.observed \in BOOLEAN
        BY <2>1
    <3> HIDE DEF s
    <3>4. QED
        BY <1>3, <2>1, <2>2, <3>1, <3>2, <3>3
  <2>3. CASE ~(s.waiters = 0 /\ s.held)
    <3>1. slot' = s /\ UNCHANGED events
        BY <1>9, <2>3 DEF EndWait
    <3>2. slot'.owed = slot.owed
        BY <2>1, <3>1
    <3>3. QED
        BY <1>1, <3>1, <3>2
  <2>4. QED
    BY <2>2, <2>3
<1>10. ASSUME NEW t \in Turns, AgentKill(t) PROVE NoEndSent
  <2>1. CASE slot.done
    BY <1>1, <1>10, <2>1 DEF AgentKill
  <2>2. CASE ~slot.done
    <3>1. slot'.owed = slot.owed /\ events' = Append(events, Message("Stopped", FALSE))
        BY <1>0, <1>10, <2>2 DEF AgentKill, Slot
    <3>2. QED
        BY <1>2, <3>1, MessagesAreSent, RunsAreNumbers
  <2>3. QED
    BY <2>1, <2>2
<1>11. ASSUME NEW t \in Turns, AgentSend(t) PROVE NoEndSent \/ EndSent
  <2> DEFINE s == [slot EXCEPT !.inputs = Append(@, "lead")]
  <2>1. s \in Slot /\ s.run = slot.run /\ s.held = slot.held /\ s.owed = slot.owed
    BY <1>0, Queued
  <2> HIDE DEF s
  <2>2. CASE slot' = s /\ UNCHANGED events
    BY <1>1, <2>1, <2>2
  <2>3. CASE slot.run < MaxRuns /\ BeginContinuation(s, <<Message("Resumed", FALSE)>>, Announced(s))
    BY <1>0, <2>1, <2>3, BegunSends
  <2>4. QED
    BY <1>11, <2>2, <2>3 DEF AgentSend, s
<1>12. CASE StopAgent \/ AgentChat
  <2>1. slot'.owed = slot.owed
    BY <1>0, <1>12 DEF StopAgent, AgentChat, Slot
  <2>2. QED
    BY <1>1, <1>12, <2>1 DEF StopAgent, AgentChat
<1>13. CASE ChatContinues
  <2>1. CASE CanContinue
    BY <1>0, <1>13, <2>1, BegunSends DEF ChatContinues
  <2>2. CASE ~CanContinue
    BY <1>1, <1>13, <2>2 DEF ChatContinues
  <2>3. QED
    BY <2>1, <2>2
<1>14. QED
    BY <1>4, <1>5, <1>6, <1>7, <1>8, <1>9, <1>10, <1>11, <1>12, <1>13
       DEF Next, AgentStep, LeadStep, LoopStep

-----------------------------------------------------------------------------
(* Every step keeps the types.                                             *)

\* A slot, its waiters aside.
Loose == [busy : BOOLEAN, done : BOOLEAN, killed : BOOLEAN, byUser : BOOLEAN,
          run : Runs, stored : BOOLEAN, waiters : Int, held : BOOLEAN,
          observed : BOOLEAN, owed : SUBSET Runs, inputs : Seq({"lead", "user"})]

LEMMA LooseSlots ==
    ASSUME NEW s \in Slot
    PROVE  s \in Loose
<1> DEFINE W == 0 .. MaxTurns
<1>1. W \subseteq Int
    OBVIOUS
<1>2. s \in [busy : BOOLEAN, done : BOOLEAN, killed : BOOLEAN, byUser : BOOLEAN,
             run : Runs, stored : BOOLEAN, waiters : W, held : BOOLEAN,
             observed : BOOLEAN, owed : SUBSET Runs, inputs : Seq({"lead", "user"})]
    BY DEF Slot
<1> HIDE DEF W
<1>3. QED
    BY <1>1, <1>2 DEF Loose

LEMMA TightSlots ==
    ASSUME NEW s \in Loose, s.waiters \in 0 .. MaxTurns
    PROVE  s \in Slot
BY DEF Slot, Loose

LEMMA SlotTypeStep ==
    ASSUME TypeOK, Next
    PROVE  slot' \in Loose
<1>0. ThreadTypes /\ slot \in Slot /\ slot \in Loose /\ slot.run \in Runs
  <2>1. ThreadTypes /\ slot \in Slot
    BY TypeParts DEF ThreadTypes
  <2>2. slot.run \in Runs
    BY <2>1 DEF Slot
  <2>3. QED
    BY <2>1, <2>2, LooseSlots
<1>1. ASSUME NEW s \in Slot, NEW also, NEW said, BeginContinuation(s, also, said), s.run < MaxRuns
      PROVE  slot' \in Loose
  <2>1. slot' \in Slot
    BY <1>0, <1>1, Begun
  <2>2. QED
    BY <2>1, LooseSlots
<1>2. ASSUME UNCHANGED slot PROVE slot' \in Loose
    BY <1>0, <1>2
<1>3. CASE ReadInputs
  <2>1. <<>> \in Seq({"lead", "user"})
    OBVIOUS
  <2>2. QED
    BY <1>0, <1>3, <2>1 DEF ReadInputs, Loose
<1>4. CASE Settle
  <2> DEFINE s == [slot EXCEPT !.busy = FALSE, !.done = TRUE, !.stored = TRUE]
  <2>1. s \in Loose /\ s.run = slot.run
    BY <1>0 DEF Loose
  <2>2. \/ slot' = s \/ slot' = [s EXCEPT !.held = TRUE] \/ slot' = [s EXCEPT !.owed = @ \cup {s.run}]
    BY <1>4 DEF Settle
  <2> HIDE DEF s
  <2>3. [s EXCEPT !.held = TRUE] \in Loose
    BY <2>1 DEF Loose
  <2>4. s.owed \cup {s.run} \in SUBSET Runs
    BY <1>0, <2>1 DEF Loose
  <2>5. [s EXCEPT !.owed = @ \cup {s.run}] \in Loose
    BY <2>1, <2>4 DEF Loose
  <2>6. QED
    BY <2>1, <2>2, <2>3, <2>5
<1>5. CASE RunEnds \/ Submit \/ TurnEnds \/ StopPosts \/ ChatStarted \/ \E r \in Runs : WindowLooks(r)
    BY <1>2, <1>5 DEF RunEnds, Submit, TurnEnds, StopPosts, ChatStarted, WindowLooks
<1>6. ASSUME NEW r \in Runs, WindowContinues(r) PROVE slot' \in Loose
    BY <1>0, <1>1, <1>2, <1>6 DEF WindowContinues
<1>7. ASSUME NEW t \in Turns, TakeBoard(t) \/ AgentOutput(t) PROVE slot' \in Loose
    BY <1>2, <1>7 DEF TakeBoard, AgentOutput
<1>8. ASSUME NEW t \in Turns, BeginWait(t) \/ Report(t) PROVE slot' \in Loose
    BY <1>0, <1>8 DEF BeginWait, Report, Loose
<1>9. ASSUME NEW t \in Turns, EndWait(t) PROVE slot' \in Loose
  <2> DEFINE s == [slot EXCEPT !.waiters = @ - 1, !.observed = @ \/ (~Interrupted(t) /\ slot.held)]
  <2>1. s \in Loose
    <3> DEFINE b == slot.observed \/ (~Interrupted(t) /\ slot.held)
    <3>1. b \in BOOLEAN
        OBVIOUS
    <3> HIDE DEF b
    <3> DEFINE s1 == [slot EXCEPT !.observed = b]
    <3>2. s1 \in Loose /\ s1.waiters = slot.waiters
        BY <1>0, <3>1 DEF Loose
    <3>3. slot.waiters - 1 \in Int
        BY <1>0 DEF Loose
    <3>4. s = [s1 EXCEPT !.waiters = slot.waiters - 1]
        BY <1>0 DEF Loose, b
    <3> HIDE DEF s, s1
    <3>5. QED
        BY <3>2, <3>3, <3>4 DEF Loose
  <2>2. \/ slot' = s
        \/ \E owed \in {s.owed, s.owed \cup {s.run}} :
               slot' = [s EXCEPT !.held = FALSE, !.observed = FALSE, !.owed = owed]
    BY <1>9 DEF EndWait
  <2> HIDE DEF s
  <2>3. s.owed \in SUBSET Runs /\ s.run \in Runs
    BY <2>1 DEF Loose
  <2>4. ASSUME NEW owed \in SUBSET Runs
        PROVE  [s EXCEPT !.held = FALSE, !.observed = FALSE, !.owed = owed] \in Loose
    BY <2>1 DEF Loose
  <2>5. QED
    BY <2>1, <2>2, <2>3, <2>4
<1>10. ASSUME NEW t \in Turns, AgentKill(t) PROVE slot' \in Loose
  <2>1. <<>> \in Seq({"lead", "user"})
    OBVIOUS
  <2>2. \/ slot' = slot
        \/ slot' = [slot EXCEPT !.inputs = <<>>, !.killed = TRUE, !.byUser = FALSE, !.done = TRUE]
    BY <1>10 DEF AgentKill
  <2>3. QED
    BY <1>0, <2>1, <2>2 DEF Loose
<1>11. ASSUME NEW t \in Turns, AgentSend(t) PROVE slot' \in Loose
  <2> DEFINE s == [slot EXCEPT !.inputs = Append(@, "lead")]
  <2>1. s \in Slot /\ s.run = slot.run
    BY <1>0, Queued
  <2> HIDE DEF s
  <2>2. slot' = s \/ (slot.run < MaxRuns /\ BeginContinuation(s, <<Message("Resumed", FALSE)>>, Announced(s)))
    BY <1>11 DEF AgentSend, s
  <2>3. QED
    BY <1>1, <2>1, <2>2, LooseSlots
<1>12. CASE OnAgentMessage
  <2>1. slot' = slot \/ \E r : slot' = [slot EXCEPT !.owed = @ \ {r}]
    BY <1>12 DEF OnAgentMessage, FoldSettled, FoldSteered, FoldStopped
  <2>2. QED
    BY <1>0, <2>1 DEF Loose
<1>13. CASE StopAgent
  <2>1. <<>> \in Seq({"lead", "user"})
    OBVIOUS
  <2>2. QED
    BY <1>0, <1>13, <2>1 DEF StopAgent, Loose
<1>14. CASE AgentChat
  <2> DEFINE s == [slot EXCEPT !.inputs = Append(@, "user")]
  <2>1. s \in Slot
    BY <1>0, Queued
  <2> HIDE DEF s
  <2>2. slot' = s \/ slot' = slot
    BY <1>14 DEF AgentChat, s
  <2>3. QED
    BY <1>2, <2>1, <2>2, LooseSlots
<1>15. CASE ChatContinues
    BY <1>0, <1>1, <1>2, <1>15 DEF ChatContinues
<1>16. QED
    BY <1>3, <1>4, <1>5, <1>6, <1>7, <1>8, <1>9, <1>10, <1>11, <1>12, <1>13, <1>14, <1>15
       DEF Next, AgentStep, LeadStep, LoopStep

\* The runs nobody is to announce: no step takes one back.
LEMMA MuteStep ==
    ASSUME TypeOK, Next
    PROVE  mute \subseteq mute' /\ mute' \subseteq Runs
<1>0. ThreadTypes /\ slot \in Slot /\ slot.run \in Runs /\ mute \subseteq Runs
  <2>1. ThreadTypes
    BY TypeParts
  <2>2. QED
    BY <2>1 DEF ThreadTypes, Slot
<1>1. ASSUME UNCHANGED mute \/ (slot.run < MaxRuns /\ \E said : mute' = IF said THEN mute ELSE mute \cup {slot.run + 1})
      PROVE  mute \subseteq mute' /\ mute' \subseteq Runs
    BY <1>0, <1>1, RunsAreNumbers
<1>2. CASE AgentStep
  <2>1. CASE ReadInputs \/ RunEnds \/ Settle \/ \E r \in Runs : WindowLooks(r)
    BY <1>1, <2>1 DEF ReadInputs, RunEnds, Settle, WindowLooks
  <2>2. ASSUME NEW r \in Runs, WindowContinues(r) PROVE mute \subseteq mute' /\ mute' \subseteq Runs
    BY <1>1, <2>2 DEF WindowContinues, BeginContinuation
  <2>3. QED
    BY <1>2, <2>1, <2>2 DEF AgentStep
<1>3. ASSUME NEW t \in Turns, AgentKill(t) \/ AgentSend(t)
      PROVE  mute \subseteq mute' /\ mute' \subseteq Runs
    BY <1>1, <1>3 DEF AgentKill, AgentSend, BeginContinuation
<1>4. CASE StopAgent \/ AgentChat \/ ChatContinues
    BY <1>1, <1>4 DEF StopAgent, AgentChat, ChatContinues, BeginContinuation, agentVars
<1>5. ASSUME NEW t \in Turns,
             \/ TakeBoard(t) \/ AgentOutput(t) \/ BeginWait(t) \/ EndWait(t) \/ Report(t)
             \/ Submit \/ TurnEnds \/ OnAgentMessage \/ StopPosts \/ ChatStarted
      PROVE  mute \subseteq mute' /\ mute' \subseteq Runs
    BY <1>1, <1>5, CoreSteps DEF CoreSame, agentVars
<1>6. QED
    BY <1>2, <1>3, <1>4, <1>5, RunsAreNumbers DEF Next, LeadStep, LoopStep

\* A step either leaves the thread and its tokens alone or is one of these.
LEMMA ThreadTypeStep ==
    ASSUME TypeOK, Next
    PROVE  /\ thread' \in {"none", "start", "run", "ended", "reaped"}
           /\ windows' \in [Runs -> {"closed", "look", "continue"}]
           /\ cancelled' \subseteq Runs
           /\ texts' \in 0 .. MaxTexts
<1>0. ThreadTypes /\ slot.run \in Runs /\ texts \in 0 .. MaxTexts /\ MaxTexts \in Nat
    BY TypeParts, NoticeBoundsAssumption DEF ThreadTypes, Slot
<1>1. ASSUME NEW t \in Turns,
             \/ TakeBoard(t) \/ AgentOutput(t) \/ BeginWait(t) \/ EndWait(t) \/ Report(t)
             \/ Submit \/ TurnEnds \/ OnAgentMessage \/ StopPosts \/ ChatStarted
      PROVE  UNCHANGED <<thread, windows, cancelled, texts>>
    BY <1>1, CoreSteps DEF CoreSame, agentVars
<1>2. thread' \in {"none", "start", "run", "ended", "reaped"}
  <2>1. CASE AgentStep
    BY <1>0, <2>1 DEF AgentStep, ReadInputs, RunEnds, Settle, WindowLooks, WindowContinues,
                      BeginContinuation, ThreadTypes
  <2>2. ASSUME NEW t \in Turns, AgentKill(t) \/ AgentSend(t) PROVE thread' \in {thread, "start"}
    BY <2>2 DEF AgentKill, AgentSend, BeginContinuation
  <2>3. CASE StopAgent \/ AgentChat \/ ChatContinues
    BY <1>0, <2>3 DEF StopAgent, AgentChat, ChatContinues, BeginContinuation, ThreadTypes, agentVars
  <2>4. QED
    BY <1>0, <1>1, <2>1, <2>2, <2>3, RunsAreNumbers DEF Next, LeadStep, LoopStep, ThreadTypes
<1>3. windows' \in [Runs -> {"closed", "look", "continue"}]
  <2>1. CASE AgentStep
    BY <1>0, <2>1 DEF AgentStep, ReadInputs, RunEnds, Settle, WindowLooks, WindowContinues, ThreadTypes
  <2>2. ASSUME NEW t \in Turns, AgentKill(t) \/ AgentSend(t) PROVE windows' = windows
    BY <2>2 DEF AgentKill, AgentSend
  <2>3. CASE StopAgent \/ AgentChat \/ ChatContinues
    BY <1>0, <2>3 DEF StopAgent, AgentChat, ChatContinues, ThreadTypes, agentVars
  <2>4. QED
    BY <1>0, <1>1, <2>1, <2>2, <2>3, RunsAreNumbers DEF Next, LeadStep, LoopStep, ThreadTypes
<1>4. cancelled' \subseteq Runs
  <2>1. CASE AgentStep
    BY <1>0, <2>1 DEF AgentStep, ReadInputs, RunEnds, Settle, WindowLooks, WindowContinues, ThreadTypes
  <2>2. ASSUME NEW t \in Turns, AgentKill(t) \/ AgentSend(t) PROVE cancelled' \subseteq cancelled \cup {slot.run}
    BY <2>2 DEF AgentKill, AgentSend
  <2>3. CASE StopAgent \/ AgentChat \/ ChatContinues
    BY <1>0, <2>3 DEF StopAgent, AgentChat, ChatContinues, ThreadTypes, agentVars
  <2>4. QED
    BY <1>0, <1>1, <2>1, <2>2, <2>3, RunsAreNumbers DEF Next, LeadStep, LoopStep, ThreadTypes
<1>5. texts' \in 0 .. MaxTexts
  <2>1. texts' = texts \/ (texts < MaxTexts /\ texts' = texts + 1)
    <3>1. CASE AgentStep
        BY <3>1 DEF AgentStep, ReadInputs, RunEnds, Settle, WindowLooks, WindowContinues
    <3>2. ASSUME NEW t \in Turns, AgentKill(t) \/ AgentSend(t)
          PROVE  texts' = texts \/ (texts < MaxTexts /\ texts' = texts + 1)
        BY <3>2 DEF AgentKill, AgentSend
    <3>3. CASE StopAgent \/ AgentChat \/ ChatContinues
        BY <3>3 DEF StopAgent, AgentChat, ChatContinues
    <3>4. QED
        BY <1>1, <3>1, <3>2, <3>3, RunsAreNumbers DEF Next, LeadStep, LoopStep
  <2>2. QED
    BY <1>0, <2>1
<1>6. QED
    BY <1>2, <1>3, <1>4, <1>5

LEMMA RowTypeStep ==
    ASSUME TypeOK, Next
    PROVE  RowTypes'
<1>0. RowTypes /\ slot.run \in Runs /\ slot \in Slot /\ 0 \in Runs
    BY TypeParts, RunsAreNumbers DEF ThreadTypes, Slot
<1>1. Reopened \in Row /\ Ready \in Place /\ [Ready EXCEPT !.pc = "chat"] \in Place
      /\ [Ready EXCEPT !.pc = "drain"] \in Place
    BY <1>0 DEF Reopened, Row, Ready, Place
<1>2. ASSUME UNCHANGED <<roster, loop>> PROVE RowTypes'
    BY <1>0, <1>2 DEF RowTypes
<1>3. CASE AgentStep
    BY <1>2, <1>3 DEF AgentStep, ReadInputs, RunEnds, Settle, WindowLooks, WindowContinues, rowVars
<1>4. CASE LeadStep
    BY <1>2, <1>4 DEF LeadStep, TakeBoard, AgentOutput, BeginWait, EndWait, Report, AgentKill, AgentSend, rowVars
<1>5. CASE Submit \/ TurnEnds
    BY <1>2, <1>5 DEF Submit, TurnEnds, rowVars
<1>6. CASE OnAgentMessage
  <2>1. UNCHANGED loop
    BY <1>6 DEF OnAgentMessage
  <2>2. roster' \in {roster, [roster EXCEPT !.status = "final"], Reopened}
    BY <1>6 DEF OnAgentMessage, FoldSettled, FoldSteered, FoldStopped
  <2>3. QED
    BY <1>0, <1>1, <2>1, <2>2 DEF RowTypes, Row
<1>7. CASE StopAgent
  <2>1. roster' \in Row
    BY <1>7 DEF StopAgent, Row
  <2>2. loop' \in Place
    BY <1>0, <1>7 DEF StopAgent, Place, Slot
  <2>3. QED
    BY <2>1, <2>2 DEF RowTypes
<1>8. CASE StopPosts \/ AgentChat \/ ChatContinues
    BY <1>0, <1>1, <1>8 DEF StopPosts, AgentChat, ChatContinues, RowTypes
<1>9. CASE ChatStarted
    BY <1>0, <1>1, <1>9 DEF ChatStarted, RowTypes
<1>10. QED
    BY <1>3, <1>4, <1>5, <1>6, <1>7, <1>8, <1>9 DEF Next, LoopStep

LEMMA TypesStep ==
    ASSUME TypeOK, SlotHolds, CallsHold, NumbersHold, Next
    PROVE  TypeOK' /\ CallsHold' /\ NumbersHold'
<1>1. slot' \in Loose /\ slot'.run \in Nat
    BY SlotTypeStep, RunsAreNumbers DEF Loose
<1>2. CallsHold' /\ LeadTypes' /\ slot'.waiters \in 0 .. MaxTurns
    BY <1>1, CallsStep
<1>3. ThreadTypes' /\ texts' \in 0 .. MaxTexts
    BY <1>1, <1>2, TightSlots, ThreadTypeStep, MuteStep DEF ThreadTypes
<1>4. NotesOk'
    BY NotesStep
<1>5. events' \in Seq(Sent)
  <2>1. events \in Seq(Sent)
    BY TypeParts
  <2>2. CASE OnAgentMessage
    BY <2>1, <2>2, HeadSent DEF OnAgentMessage
  <2>3. CASE ~OnAgentMessage
    BY <2>3, SentSteps DEF NoEndSent, EndSent, Grows
  <2>4. QED
    BY <2>2, <2>3
<1>6. QED
    BY <1>2, <1>3, <1>4, <1>5, RowTypeStep, TypePartsAfter DEF NotesOk

-----------------------------------------------------------------------------
(* The kinds of step, by what they do to the run, the row and the channel. *)

\* Neither the row, the notes nor what the lead heard changes.
Hushed == UNCHANGED <<roster, board, told, waived, stale>>
SameRun == slot'.killed = slot.killed /\ slot'.byUser = slot.byUser /\ slot'.run = slot.run

Reads ==
    /\ Hushed /\ SameRun /\ UNCHANGED <<lead, loop, cancelled>>
    /\ slot'.busy = slot.busy /\ slot'.done = slot.done /\ slot'.held = slot.held
    /\ slot'.owed = slot.owed /\ slot'.observed = slot.observed
    /\ thread \in {"start", "run"} /\ thread' = "run" /\ slot.run \notin cancelled
    /\ thread = "run" => slot.inputs # <<>>
    /\ NoEndSent /\ Len(events) \in Nat /\ (slot.inputs # <<>> => Len(events') > Len(events))
    /\ \A i \in Len(events) + 1 .. Len(events') : events'[i].type = "Steered"

Settles ==
    /\ Hushed /\ SameRun /\ UNCHANGED <<lead, loop, cancelled>> /\ DrainInTime
    /\ slot.busy /\ ~slot.held /\ ~slot'.busy /\ slot'.done /\ slot'.observed = slot.observed
    /\ thread' = "none"
    /\ \/ thread = "reaped" /\ UNCHANGED events /\ slot'.owed = slot.owed /\ ~slot'.held
       \/ thread = "ended" /\ UNCHANGED events /\ slot'.owed = slot.owed /\ slot'.held
       \/ /\ thread = "ended" /\ EndSent /\ ~events'[Len(events) + 1].flag
          /\ Len(events') = Len(events) + 1 /\ ~slot'.held

Begins ==
    /\ Hushed /\ UNCHANGED <<lead, cancelled>>
    /\ ~slot.busy /\ thread' = "start" /\ slot'.run = slot.run + 1
    /\ slot'.busy /\ ~slot'.done /\ ~slot'.killed /\ ~slot'.byUser /\ ~slot'.held
    /\ slot'.observed => slot.observed /\ ~slot.held
    /\ slot'.owed = IF slot.held THEN slot.owed \cup {slot.run} ELSE slot.owed
    /\ NoEndSent \/ (slot.held /\ EndSent)
    /\ \/ loop.pc = "chat" /\ loop'.pc = "drain"
       \/ /\ UNCHANGED loop
          /\ ~slot.byUser \/ \E r \in Runs : windows[r] = "continue" /\ windows'[r] = "closed"
          /\ slot'.inputs = <<>> \/ roster.stopped => slot'.run \in mute'

Releases(t) ==
    /\ lead[t].pc = "wait"
    /\ Hushed /\ SameRun /\ UNCHANGED <<loop, thread, cancelled>>
    /\ slot'.busy = slot.busy /\ slot'.done = slot.done /\ slot'.inputs = slot.inputs
    /\ slot.held /\ ~slot'.held /\ ~slot'.observed
    /\ EndSent /\ Len(events') = Len(events) + 1
    /\ events'[Len(events) + 1].flag => slot.observed \/ lead'[t] = Reporting
    /\ \E call : lead' = [lead EXCEPT ![t] = call]

Kills ==
    /\ UNCHANGED <<roster, waived, stale, lead, loop, thread>>
    /\ DrainInTime /\ ~slot.done
    /\ slot'.killed /\ slot'.done /\ ~slot'.byUser /\ slot'.inputs = <<>>
    /\ slot'.run = slot.run /\ slot'.busy = slot.busy /\ slot'.held = slot.held
    /\ slot'.owed = slot.owed /\ slot'.observed = slot.observed
    /\ cancelled' = cancelled \cup {slot.run} /\ told' = told \cup {slot.run}
    /\ NoEndSent /\ Len(events) \in Nat /\ Len(events') = Len(events) + 1
    /\ events'[Len(events) + 1].type = "Stopped"

Stops ==
    /\ UNCHANGED <<board, told, stale, events, lead, thread>>
    /\ waived' = waived \cup ((0 .. slot.run) \ told)
    /\ roster' = [status |-> "final", stopped |-> TRUE]
    /\ slot'.killed /\ slot'.done /\ slot'.byUser /\ slot'.inputs = <<>>
    /\ slot'.run = slot.run /\ slot'.busy = slot.busy /\ slot'.held = slot.held
    /\ slot'.owed = slot.owed /\ slot'.observed = slot.observed
    /\ cancelled' = cancelled \cup {slot.run}
    /\ loop.pc = "ready" /\ loop'.pc = "stop" /\ loop'.run = slot.run

Folds ==
    /\ OnAgentMessage /\ events # <<>> /\ events' = Tail(events)
    /\ SameRun /\ UNCHANGED <<thread, cancelled, loop, waived>>
    /\ slot'.busy = slot.busy /\ slot'.done = slot.done /\ slot'.inputs = slot.inputs
    /\ slot'.held = slot.held /\ slot'.observed = slot.observed
    /\ roster' = Folded(roster, Head(events))
    /\ slot'.owed = IF Head(events).type = "Settled" /\ ~Head(events).flag
                    THEN slot.owed \ {Head(events).run} ELSE slot.owed

\* The others: a message may be queued, an owed end be reported.
Calm ==
    /\ SameRun /\ UNCHANGED <<thread, cancelled, events, waived>>
    /\ slot'.busy = slot.busy /\ slot'.done = slot.done /\ slot'.held = slot.held
    /\ slot'.owed \subseteq slot.owed
    /\ slot.inputs # <<>> => slot'.inputs # <<>>
    /\ \/ UNCHANGED roster /\ (loop'.pc = "drain" <=> loop.pc = "drain")
          /\ (loop'.pc = "stop" => UNCHANGED loop)
       \/ /\ loop.pc = "drain" /\ loop'.pc = "ready" /\ events = <<>>
          /\ roster' = IF Final THEN Reopened ELSE roster

LEMMA ReadsKind ==
    ASSUME TypeOK, SlotHolds, ReadInputs
    PROVE  Reads
<1>0. ThreadTypes /\ slot \in Slot /\ events \in Seq(Sent)
    BY TypeParts DEF ThreadTypes
<1>1. /\ SameRun /\ slot'.busy = slot.busy /\ slot'.done = slot.done /\ slot'.held = slot.held
      /\ slot'.owed = slot.owed /\ slot'.observed = slot.observed
    BY <1>0 DEF ReadInputs, Slot, SameRun
<1>2. /\ Hushed /\ UNCHANGED <<lead, loop, cancelled>>
      /\ thread \in {"start", "run"} /\ thread' = "run" /\ slot.run \notin cancelled
      /\ thread = "run" => slot.inputs # <<>>
    BY DEF ReadInputs, Hushed, rowVars, noteVars, leadVars, heardVars
<1>3. /\ Grows /\ Len(events) \in Nat /\ (slot.inputs # <<>> => Len(events') > Len(events))
      /\ \A i \in Len(events) + 1 .. Len(events') : events'[i].type = "Steered"
    BY <1>0, ReadSends
<1>4. NoEndSent
    BY <1>1, <1>3 DEF NoEndSent
<1>5. QED
    BY <1>1, <1>2, <1>3, <1>4 DEF Reads

LEMMA SettlesKind ==
    ASSUME TypeOK, SlotHolds, Settle
    PROVE  Settles
<1>0. ThreadTypes /\ slot \in Slot /\ events \in Seq(Sent) /\ slot.run \in Runs
    BY TypeParts DEF ThreadTypes, Slot
<1>1. /\ Hushed /\ UNCHANGED <<lead, loop, cancelled>> /\ DrainInTime /\ thread' = "none"
      /\ thread \in {"ended", "reaped"} /\ slot.busy /\ ~slot.held
    BY DEF Settle, Hushed, rowVars, noteVars, leadVars, heardVars, SlotHolds
<1>2. SameRun /\ ~slot'.busy /\ slot'.done /\ slot'.observed = slot.observed
    BY <1>0 DEF Settle, Slot, SameRun
<1>3. CASE thread = "reaped"
  <2>1. UNCHANGED events /\ slot'.owed = slot.owed /\ ~slot'.held
    BY <1>0, <1>1, <1>3 DEF Settle, Slot
  <2>2. QED
    BY <1>1, <1>2, <1>3, <2>1 DEF Settles
<1>4. CASE thread = "ended" /\ slot.waiters > 0
  <2>1. UNCHANGED events /\ slot'.owed = slot.owed /\ slot'.held
    BY <1>0, <1>1, <1>4 DEF Settle, Slot
  <2>2. QED
    BY <1>1, <1>2, <1>4, <2>1 DEF Settles
<1>5. CASE thread = "ended" /\ ~(slot.waiters > 0)
  <2> DEFINE e == Settled(slot.run, FALSE)
  <2>1. events' = Append(events, e) /\ slot'.owed = slot.owed \cup {slot.run} /\ ~slot'.held
    BY <1>0, <1>1, <1>5 DEF Settle, Slot
  <2>2. e \in Sent /\ e.type = "Settled" /\ e.run = slot.run /\ ~e.flag
    BY <1>0, MessagesAreSent
  <2> HIDE DEF e
  <2>3. Grows /\ Len(events) \in Nat /\ Len(events') = Len(events) + 1 /\ events'[Len(events) + 1] = e
    BY <1>0, <2>1, <2>2, GrownOne
  <2>4. \A i \in Len(events) + 2 .. Len(events') : FALSE
    BY <2>3
  <2>5. EndSent
    BY <1>1, <1>2, <1>5, <2>1, <2>2, <2>3, <2>4 DEF EndSent, SameRun
  <2>6. QED
    BY <1>1, <1>2, <1>5, <2>1, <2>2, <2>3, <2>5 DEF Settles
<1>6. QED
    BY <1>1, <1>3, <1>4, <1>5

LEMMA BeginsKind ==
    ASSUME TypeOK, SlotHolds, NEW s \in Slot, s.run < MaxRuns, s.run = slot.run, s.held = slot.held,
           s.owed = slot.owed, s.observed = slot.observed, CanContinue,
           NEW also \in {<<>>, <<Message("Resumed", FALSE)>>}, NEW said, BeginContinuation(s, also, said),
           Hushed, UNCHANGED <<lead, cancelled>>,
           \/ loop.pc = "chat" /\ loop'.pc = "drain"
           \/ /\ UNCHANGED loop /\ said = Announced(s)
              /\ ~slot.byUser \/ \E r \in Runs : windows[r] = "continue" /\ windows'[r] = "closed"
    PROVE  Begins
<1>0. ThreadTypes /\ events \in Seq(Sent)
    BY TypeParts
<1>1. NoEndSent \/ (slot.held /\ EndSent)
    BY <1>0, BegunSends
<1>2. /\ slot'.run = slot.run + 1 /\ slot'.inputs = s.inputs
      /\ slot'.busy /\ ~slot'.done /\ ~slot'.killed /\ ~slot'.byUser
      /\ ~slot'.held /\ thread' = "start"
      /\ slot'.observed => slot.observed /\ ~slot.held
      /\ slot'.owed = IF slot.held THEN slot.owed \cup {slot.run} ELSE slot.owed
    BY <1>0, Begun
<1>3. ~slot.busy
    BY DEF CanContinue
<1>4. said = Announced(s) => (slot'.inputs = <<>> \/ roster.stopped => slot'.run \in mute')
    BY <1>0, <1>2 DEF BeginContinuation, Announced
<1>5. QED
    BY <1>1, <1>2, <1>3, <1>4 DEF Begins

LEMMA ReleasesKind ==
    ASSUME TypeOK, SlotHolds, NEW t \in Turns, EndWait(t), ~Calm
    PROVE  Releases(t)
<1> DEFINE s == [slot EXCEPT !.waiters = @ - 1, !.observed = @ \/ (~Interrupted(t) /\ slot.held)]
<1>0. slot \in Slot /\ events \in Seq(Sent) /\ slot.run \in Runs
    BY TypeParts DEF ThreadTypes, Slot
<1>1. /\ s.held = slot.held /\ s.run = slot.run /\ s.owed = slot.owed
      /\ s.busy = slot.busy /\ s.done = slot.done /\ s.killed = slot.killed /\ s.byUser = slot.byUser
      /\ s.inputs = slot.inputs
      /\ s.observed = (slot.observed \/ (~Interrupted(t) /\ slot.held))
    BY <1>0 DEF Slot
<1>2. /\ lead[t].pc = "wait" /\ Hushed /\ UNCHANGED <<loop, thread, cancelled>>
      /\ \E call : lead' = [lead EXCEPT ![t] = call]
    BY DEF EndWait, Back, Hushed, agentVars, rowVars, noteVars, heardVars
<1>3. CASE s.waiters = 0 /\ s.held
  <2>1. /\ slot' = [s EXCEPT !.held = FALSE, !.observed = FALSE,
                             !.owed = IF s.observed THEN @ ELSE @ \cup {s.run}]
        /\ events' = Append(events, Settled(s.run, s.observed))
    BY <1>3 DEF EndWait
  <2>2. /\ ~slot'.held /\ ~slot'.observed
        /\ slot'.owed = IF s.observed THEN slot.owed ELSE slot.owed \cup {slot.run}
    BY <1>0, <1>1, <2>1 DEF Slot
  <2>3. SameRun /\ slot'.busy = slot.busy /\ slot'.done = slot.done /\ slot'.inputs = slot.inputs
    BY <1>0, <2>1 DEF Slot, SameRun
  <2>4. s.observed \in BOOLEAN
    BY <1>1
  <2>5. s.observed => slot.observed \/ lead'[t] = Reporting
    <3>1. ASSUME ~Interrupted(t) PROVE lead'[t] = Reporting
        <4>1. ~Running(slot)
            BY <1>1, <1>3 DEF Running, SlotHolds
        <4>2. lead' = [lead EXCEPT ![t] = Reporting]
            BY <3>1, <4>1 DEF EndWait
        <4>3. QED
            BY <4>2, TypeParts DEF LeadTypes
    <3>2. QED
        BY <1>1, <3>1
  <2> DEFINE e == Settled(s.run, s.observed)
  <2>7. events' = Append(events, e)
    BY <2>1
  <2> HIDE DEF s
  <2>6. e \in Sent /\ e.type = "Settled" /\ e.run = slot.run /\ (e.flag <=> s.observed)
    <3>1. s.run \in Runs
        BY <1>0, <1>1
    <3>2. QED
        BY <1>1, <2>4, <3>1, MessagesAreSent
  <2> HIDE DEF e
  <2>8. Grows /\ Len(events) \in Nat /\ Len(events') = Len(events) + 1 /\ events'[Len(events) + 1] = e
    BY <1>0, <2>6, <2>7, GrownOne
  <2>9. \A i \in Len(events) + 2 .. Len(events') : FALSE
    BY <2>8
  <2>10. EndSent
    <3>1. slot'.owed = IF events'[Len(events) + 1].flag THEN slot.owed ELSE slot.owed \cup {slot.run}
        BY <2>2, <2>6, <2>8
    <3>2. Len(events') >= Len(events) + 1 /\ slot.held
        BY <1>1, <1>3, <2>8
    <3>3. QED
        BY <2>2, <2>6, <2>8, <2>9, <3>1, <3>2 DEF EndSent
  <2>11. QED
    BY <1>1, <1>2, <1>3, <2>2, <2>3, <2>5, <2>6, <2>8, <2>10 DEF Releases
<1>4. CASE ~(s.waiters = 0 /\ s.held)
  <2>1. slot' = s /\ UNCHANGED <<events, waived>>
    BY <1>4 DEF EndWait, rowVars
  <2> HIDE DEF s
  <2>2. Calm
    BY <1>1, <1>2, <2>1 DEF Calm, SameRun, Hushed
  <2>3. QED
    BY <2>2
<1>5. QED
    BY <1>3, <1>4

LEMMA KillsKind ==
    ASSUME TypeOK, NEW t \in Turns, AgentKill(t), ~slot.done
    PROVE  Kills
<1>0. slot \in Slot /\ events \in Seq(Sent)
    BY TypeParts DEF ThreadTypes
<1>1. /\ slot'.killed /\ slot'.done /\ ~slot'.byUser /\ slot'.inputs = <<>>
      /\ slot'.run = slot.run /\ slot'.busy = slot.busy /\ slot'.held = slot.held
      /\ slot'.owed = slot.owed /\ slot'.observed = slot.observed
    BY <1>0 DEF AgentKill, Slot
<1>2. /\ UNCHANGED <<roster, waived, stale, lead, loop, thread>> /\ DrainInTime
      /\ cancelled' = cancelled \cup {slot.run} /\ told' = told \cup {slot.run}
      /\ events' = Append(events, Message("Stopped", FALSE))
    BY DEF AgentKill, rowVars, leadVars
<1>3. Message("Stopped", FALSE) \in Sent /\ Message("Stopped", FALSE).type = "Stopped"
    BY MessagesAreSent, RunsAreNumbers
<1>4. /\ Grows /\ Len(events) \in Nat /\ Len(events') = Len(events) + 1
      /\ events'[Len(events) + 1] = Message("Stopped", FALSE)
    BY <1>0, <1>2, <1>3, GrownOne
<1>5. \A i \in Len(events) + 1 .. Len(events') : i = Len(events) + 1
    BY <1>4
<1>6. NoEndSent
    BY <1>1, <1>3, <1>4, <1>5 DEF NoEndSent
<1>7. QED
    BY <1>1, <1>2, <1>3, <1>4, <1>6 DEF Kills

LEMMA StopsKind ==
    ASSUME TypeOK, StopAgent
    PROVE  Stops
<1>0. slot \in Slot
    BY TypeParts DEF ThreadTypes
<1>1. /\ slot'.killed /\ slot'.done /\ slot'.byUser /\ slot'.inputs = <<>>
      /\ slot'.run = slot.run /\ slot'.busy = slot.busy /\ slot'.held = slot.held
      /\ slot'.owed = slot.owed /\ slot'.observed = slot.observed
    BY <1>0 DEF StopAgent, Slot
<1>2. loop.pc = "ready" /\ loop'.pc = "stop" /\ loop'.run = slot.run
    BY DEF StopAgent
<1>3. QED
    BY <1>1, <1>2 DEF StopAgent, Stops, Quiet, noteVars, leadVars, heardVars

LEMMA FoldsKind ==
    ASSUME TypeOK, OnAgentMessage
    PROVE  Folds
<1> DEFINE e == Head(events)
<1>0. slot \in Slot /\ roster \in Row /\ e \in Sent /\ events # <<>>
    BY TypeParts, HeadSent DEF ThreadTypes, RowTypes, OnAgentMessage
<1>1. UNCHANGED <<thread, cancelled, loop, waived>> /\ events' = Tail(events)
    BY DEF OnAgentMessage, agentVars
<1>2. roster' = Folded(roster, e)
  <2>1. CASE e.type \in {"Settled", "Stopped"}
    BY <2>1 DEF OnAgentMessage, FoldSettled, FoldStopped, Folded, Closes
  <2>2. CASE e.type = "Steered"
    BY <2>2 DEF OnAgentMessage, FoldSteered, Folded, Closes, Opens, Final
  <2>3. CASE e.type = "Resumed"
    BY <2>3 DEF OnAgentMessage, Folded, Closes, Opens
  <2>4. QED
    BY <1>0, <2>1, <2>2, <2>3 DEF Sent
<1>3. slot' = IF e.type = "Settled" /\ ~e.flag THEN [slot EXCEPT !.owed = @ \ {e.run}] ELSE slot
  <2>1. CASE e.type = "Settled"
    BY <2>1 DEF OnAgentMessage, FoldSettled
  <2>2. CASE e.type # "Settled"
    BY <1>0, <2>2 DEF OnAgentMessage, FoldSteered, FoldStopped, Sent
  <2>3. QED
    BY <2>1, <2>2
<1>4. /\ SameRun /\ slot'.busy = slot.busy /\ slot'.done = slot.done /\ slot'.inputs = slot.inputs
      /\ slot'.held = slot.held /\ slot'.observed = slot.observed
      /\ slot'.owed = IF e.type = "Settled" /\ ~e.flag THEN slot.owed \ {e.run} ELSE slot.owed
    BY <1>0, <1>3 DEF Slot, SameRun
<1>5. QED
    BY <1>0, <1>1, <1>2, <1>4 DEF Folds

\* What is of no other kind.
LEMMA CalmKind ==
    ASSUME TypeOK, SlotHolds, NEW t \in Turns,
           \/ TakeBoard(t) \/ AgentOutput(t) \/ BeginWait(t) \/ Report(t)
           \/ Submit \/ TurnEnds \/ StopPosts \/ ChatStarted \/ AgentChat
           \/ (AgentKill(t) /\ slot.done) \/ \E r \in Runs : WindowLooks(r)
    PROVE  Calm
<1>0. slot \in Slot /\ ThreadTypes
    BY TypeParts DEF ThreadTypes
<1>1. ASSUME UNCHANGED <<slot, thread, cancelled, events, waived, roster, loop>> PROVE Calm
    BY <1>1 DEF Calm, SameRun
<1>2. CASE TakeBoard(t) \/ AgentOutput(t) \/ Submit \/ TurnEnds \/ (AgentKill(t) /\ slot.done)
           \/ \E r \in Runs : WindowLooks(r)
    BY <1>1, <1>2 DEF TakeBoard, AgentOutput, Submit, TurnEnds, AgentKill, WindowLooks, agentVars, rowVars
<1>3. CASE BeginWait(t) \/ Report(t)
  <2>1. UNCHANGED <<thread, cancelled, events, waived, roster, loop>>
    BY <1>3 DEF BeginWait, Report, agentVars, rowVars
  <2>2. /\ SameRun /\ slot'.busy = slot.busy /\ slot'.done = slot.done /\ slot'.held = slot.held
        /\ slot'.owed \subseteq slot.owed /\ slot'.inputs = slot.inputs
    BY <1>0, <1>3 DEF BeginWait, Report, Slot, SameRun
  <2>3. QED
    BY <2>1, <2>2 DEF Calm
<1>4. CASE StopPosts
    BY <1>4 DEF StopPosts, Calm, SameRun, agentVars, Ready
<1>5. CASE ChatStarted
    BY <1>5 DEF ChatStarted, Calm, SameRun, agentVars, Ready
<1>6. CASE AgentChat
  <2> DEFINE s == [slot EXCEPT !.inputs = Append(@, "user")]
  <2>1. s.inputs # <<>>
    BY <1>0, Queued
  <2>2. /\ s.busy = slot.busy /\ s.done = slot.done /\ s.killed = slot.killed /\ s.byUser = slot.byUser
        /\ s.run = slot.run /\ s.held = slot.held /\ s.owed = slot.owed
    BY <1>0 DEF Slot
  <2>3. /\ UNCHANGED <<thread, cancelled, events, roster, waived>> /\ loop.pc = "ready"
        /\ \/ slot' = s /\ UNCHANGED loop
           \/ slot' = slot /\ loop'.pc = "chat"
    BY <1>6 DEF AgentChat, agentVars, Ready
  <2> HIDE DEF s
  <2>4. QED
    BY <2>1, <2>2, <2>3 DEF Calm, SameRun
<1>7. QED
    BY <1>2, <1>3, <1>4, <1>5, <1>6

LEMMA Kinds ==
    ASSUME TypeOK, SlotHolds, Next
    PROVE  \/ Reads \/ RunEnds \/ Settles \/ Begins \/ Kills \/ Stops \/ Folds \/ Calm
           \/ \E t \in Turns : Releases(t)
<1>0. ThreadTypes /\ slot \in Slot /\ 1 \in Turns
    BY TypeParts, RunsAreNumbers DEF ThreadTypes
<1>1. ASSUME NEW r \in Runs, WindowContinues(r) PROVE Begins \/ Calm
  <2>1. CASE CanContinue
    <3>1. /\ Hushed /\ UNCHANGED <<lead, cancelled, loop>>
          /\ windows[r] = "continue" /\ windows' = [windows EXCEPT ![r] = "closed"]
          /\ slot.run < MaxRuns /\ BeginContinuation(slot, <<>>, Announced(slot))
        BY <1>1, <2>1 DEF WindowContinues, Hushed, rowVars, noteVars, leadVars, heardVars
    <3>2. windows'[r] = "closed"
        BY <1>0, <3>1 DEF ThreadTypes
    <3>3. QED
        BY <1>0, <2>1, <3>1, <3>2, BeginsKind
  <2>2. CASE ~CanContinue
    BY <1>1, <2>2 DEF WindowContinues, Calm, SameRun, rowVars
  <2>3. QED
    BY <2>1, <2>2
<1>2. ASSUME NEW t \in Turns, AgentSend(t) PROVE Begins \/ Calm
  <2> DEFINE s == [slot EXCEPT !.inputs = Append(@, "lead")]
  <2>1. /\ s \in Slot /\ s.run = slot.run /\ s.held = slot.held /\ s.owed = slot.owed
        /\ s.observed = slot.observed /\ s.inputs # <<>>
    BY <1>0, Queued
  <2>2. /\ s.busy = slot.busy /\ s.done = slot.done /\ s.killed = slot.killed /\ s.byUser = slot.byUser
    BY <1>0 DEF Slot
  <2>3. /\ Hushed /\ UNCHANGED <<lead, cancelled, loop>> /\ ~slot.byUser
        /\ \/ slot' = s /\ UNCHANGED <<events, thread>>
           \/ CanContinue /\ slot.run < MaxRuns /\ BeginContinuation(s, <<Message("Resumed", FALSE)>>, Announced(s))
    BY <1>2 DEF AgentSend, Hushed, rowVars, noteVars, leadVars, heardVars
  <2> HIDE DEF s
  <2>4. CASE slot' = s /\ UNCHANGED <<events, thread>>
    BY <2>1, <2>2, <2>3, <2>4 DEF Calm, SameRun, Hushed
  <2>5. CASE CanContinue /\ slot.run < MaxRuns /\ BeginContinuation(s, <<Message("Resumed", FALSE)>>, Announced(s))
    BY <2>1, <2>3, <2>5, BeginsKind
  <2>6. QED
    BY <2>3, <2>4, <2>5
<1>3. CASE ChatContinues
  <2>1. CASE CanContinue
    <3>1. /\ Hushed /\ UNCHANGED <<lead, cancelled>> /\ loop.pc = "chat" /\ loop'.pc = "drain"
          /\ slot.run < MaxRuns /\ BeginContinuation(slot, <<>>, TRUE)
        BY <1>3, <2>1 DEF ChatContinues, Hushed, Quiet, noteVars, leadVars, heardVars, Ready
    <3>2. QED
        BY <1>0, <2>1, <3>1, BeginsKind
  <2>2. CASE ~CanContinue
    BY <1>3, <2>2 DEF ChatContinues, Calm, SameRun, Ready
  <2>3. QED
    BY <2>1, <2>2
<1>4. CASE AgentStep
    BY <1>0, <1>1, <1>4, ReadsKind, SettlesKind, CalmKind DEF AgentStep
<1>5. CASE LeadStep
    BY <1>2, <1>5, ReleasesKind, KillsKind, CalmKind DEF LeadStep
<1>6. CASE LoopStep
    BY <1>0, <1>3, <1>6, StopsKind, FoldsKind, CalmKind DEF LoopStep
<1>7. QED
    BY <1>4, <1>5, <1>6 DEF Next

-----------------------------------------------------------------------------
(* What was sent.                                                          *)

\* A run that ended stays ended; what is held is of a run that has just ended.
LEMMA EndedGrow ==
    ASSUME TypeOK, SlotHolds, Next
    PROVE  /\ EndedRuns \subseteq EndedRuns' /\ EndedRuns \subseteq Runs
           /\ slot.run \in Runs /\ slot'.run \in Nat /\ slot.run <= slot'.run
           /\ slot'.held => slot'.run = slot.run /\ (slot.held \/ (Settles /\ slot.busy))
           /\ slot.busy <=> slot.run \notin EndedRuns
           /\ ~slot.done => slot.busy
<1>1. slot.run \in Runs /\ slot.run \in Nat
    BY TypeParts, RunsAreNumbers DEF ThreadTypes, Slot
<1>2. \/ slot'.run = slot.run /\ (slot'.busy = slot.busy \/ ~slot'.busy)
      \/ slot'.run = slot.run + 1 /\ ~slot.busy /\ slot'.busy
    BY Kinds DEF Reads, RunEnds, Settles, Begins, Kills, Stops, Folds, Calm, Releases, SameRun
<1>3. slot'.run \in Nat /\ slot.run <= slot'.run
    BY <1>1, <1>2
<1>4. EndedRuns \subseteq EndedRuns'
    BY <1>1, <1>2, <1>3 DEF EndedRuns
<1>5. EndedRuns \subseteq Runs /\ (slot.busy <=> slot.run \notin EndedRuns)
    BY <1>1, NoticeBoundsAssumption DEF EndedRuns, Runs
<1>6. slot'.held => slot'.run = slot.run /\ (slot.held \/ (Settles /\ slot.busy))
    BY Kinds DEF Reads, RunEnds, Settles, Begins, Kills, Stops, Folds, Calm, Releases, SameRun
<1>7. ~slot.done => slot.busy
    BY DEF SlotHolds
<1>8. QED
    BY <1>1, <1>3, <1>4, <1>5, <1>6, <1>7

\* A step that is not the loop's read sends no end, or the last run's.
LEMMA SentKinds ==
    ASSUME TypeOK, SlotHolds, Next
    PROVE  \/ NoEndSent /\ ~OnAgentMessage
           \/ EndSent /\ Hushed /\ ~OnAgentMessage
           \/ Folds
<1>0. events \in Seq(Sent) /\ Len(events) \in Nat
    BY TypeParts, LenProperties
<1>1. CASE OnAgentMessage
    BY <1>1, FoldsKind
<1>2. CASE ~OnAgentMessage
  <2>1. NoEndSent \/ EndSent
    BY <1>2, SentSteps
  <2>2. ASSUME UNCHANGED events PROVE ~EndSent
    BY <1>0, <2>2 DEF EndSent
  <2>3. ASSUME Kills PROVE ~EndSent
    BY <2>3 DEF EndSent, Kills
  <2>4. ASSUME EndSent PROVE Hushed
    BY <1>2, <2>2, <2>3, <2>4, Kinds DEF Reads, RunEnds, Settles, Begins, Stops, Folds, Calm, Releases,
        Hushed, rowVars, noteVars, heardVars
  <2>5. QED
    BY <1>2, <2>1, <2>4
<1>3. QED
    BY <1>1, <1>2

LEMMA SentStep ==
    ASSUME TypeOK, SlotHolds, SentHold, Next
    PROVE  SentHold'
<1>0. events \in Seq(Sent) /\ Len(events) \in Nat /\ DOMAIN events = 1 .. Len(events)
    BY TypeParts, LenProperties
<1>1. /\ EndedRuns \subseteq EndedRuns' /\ (slot.busy <=> slot.run \notin EndedRuns)
      /\ slot'.held => slot'.run = slot.run /\ (slot.held \/ (Settles /\ slot.busy))
    BY EndedGrow
<1>2. ASSUME NEW i \in DOMAIN events, events[i].type = "Settled"
      PROVE  events[i].run \in EndedRuns' /\ (slot'.held => events[i].run # slot'.run)
    BY <1>1, <1>2 DEF SentHold
<1>3. ASSUME Grows PROVE DOMAIN events' = 1 .. Len(events') /\ \A i \in DOMAIN events : i \in DOMAIN events'
  <2>1. DOMAIN events' = 1 .. Len(events')
    BY <1>3, LenProperties DEF Grows
  <2>2. QED
    BY <1>0, <1>3, <2>1 DEF Grows
<1>4. CASE NoEndSent /\ ~OnAgentMessage
  <2>1. ASSUME NEW i \in DOMAIN events', events'[i].type = "Settled"
        PROVE  i \in DOMAIN events /\ events'[i] = events[i]
    BY <1>0, <1>3, <1>4, <2>1 DEF NoEndSent, Grows
  <2>2. ASSUME NEW r \in slot'.owed PROVE \E i \in DOMAIN events' : IsEnd(events'[i], r)
    <3>1. PICK i \in DOMAIN events : IsEnd(events[i], r)
        BY <1>4, <2>2 DEF NoEndSent, SentHold
    <3>2. i \in DOMAIN events' /\ events'[i] = events[i]
        BY <1>0, <1>3, <1>4 DEF NoEndSent, Grows
    <3>3. QED
        BY <3>1, <3>2
  <2>3. QED
    BY <1>2, <2>1, <2>2 DEF SentHold
<1>5. CASE EndSent
  <2>1. ASSUME NEW i \in DOMAIN events', events'[i].type = "Settled"
        PROVE  (i \in DOMAIN events /\ events'[i] = events[i]) \/ i = Len(events) + 1
    BY <1>0, <1>3, <1>5, <2>1 DEF EndSent, Grows
  <2>2. slot.run \in EndedRuns'
    <3>1. CASE slot.held
        BY <1>1, <3>1 DEF SlotHolds
    <3>2. CASE ~slot'.busy /\ slot'.run = slot.run
        BY <3>2, EndedGrow DEF EndedRuns
    <3>3. QED
        BY <1>5, <3>1, <3>2 DEF EndSent
  <2>3. ASSUME NEW r \in slot'.owed PROVE \E i \in DOMAIN events' : IsEnd(events'[i], r)
    <3>1. CASE r \in slot.owed
        <4>1. PICK i \in DOMAIN events : IsEnd(events[i], r)
            BY <3>1 DEF SentHold
        <4>2. i \in DOMAIN events' /\ events'[i] = events[i]
            BY <1>0, <1>3, <1>5 DEF EndSent, Grows
        <4>3. QED
            BY <4>1, <4>2
    <3>2. CASE r \notin slot.owed
        <4>1. r = slot.run /\ ~events'[Len(events) + 1].flag
            BY <1>5, <2>3, <3>2 DEF EndSent
        <4>2. Len(events) + 1 \in DOMAIN events'
            BY <1>0, <1>3, <1>5 DEF EndSent, Grows
        <4>3. QED
            BY <1>5, <4>1, <4>2 DEF EndSent, IsEnd
    <3>3. QED
        BY <3>1, <3>2
  <2>4. QED
    BY <1>2, <1>5, <2>1, <2>2, <2>3 DEF SentHold, EndSent
<1>6. CASE Folds
  <2>1. /\ events # <<>> /\ events' = Tail(events)
        /\ slot'.owed = IF Head(events).type = "Settled" /\ ~Head(events).flag
                        THEN slot.owed \ {Head(events).run} ELSE slot.owed
    BY <1>6 DEF Folds
  <2>2. /\ DOMAIN events' = 1 .. Len(events) - 1 /\ Head(events) = events[1]
        /\ \A i \in 1 .. Len(events) - 1 : events'[i] = events[i + 1]
    BY <1>0, <2>1, HeadSent
  <2>3. ASSUME NEW i \in DOMAIN events' PROVE i + 1 \in DOMAIN events /\ events'[i] = events[i + 1]
    BY <1>0, <2>2
  <2>4. ASSUME NEW r \in slot'.owed PROVE \E i \in DOMAIN events' : IsEnd(events'[i], r)
    <3>1. PICK i \in DOMAIN events : IsEnd(events[i], r)
        BY <2>1, <2>4 DEF SentHold
    <3>2. i # 1
        BY <2>1, <2>2, <2>4, <3>1 DEF IsEnd
    <3>3. i - 1 \in DOMAIN events' /\ events'[i - 1] = events[i]
        BY <1>0, <2>2, <3>2
    <3>4. QED
        BY <3>1, <3>3
  <2>5. QED
    BY <1>2, <2>3, <2>4 DEF SentHold
<1>7. QED
    BY <1>4, <1>5, <1>6, SentKinds

-----------------------------------------------------------------------------
(* A stop.                                                                 *)

\* A settle window decides to continue the agent for the messages there are.
LEMMA LookSees ==
    ASSUME TypeOK, Next, NEW r \in Runs, windows[r] = "look", windows'[r] = "continue"
    PROVE  slot.inputs # <<>>
<1>0. windows \in [Runs -> {"closed", "look", "continue"}] /\ 1 \in Turns
    BY TypeParts, RunsAreNumbers DEF ThreadTypes
<1>1. windows' # windows
    OBVIOUS
<1>2. CASE AgentStep
  <2>1. ~ReadInputs /\ ~RunEnds
    BY <1>1 DEF ReadInputs, RunEnds
  <2>2. ~Settle
    BY <1>0 DEF Settle
  <2>3. ASSUME NEW x \in Runs, WindowLooks(x) PROVE slot.inputs # <<>>
    BY <1>0, <2>3 DEF WindowLooks
  <2>4. ASSUME NEW x \in Runs, WindowContinues(x) PROVE FALSE
    BY <1>0, <2>4 DEF WindowContinues
  <2>5. QED
    BY <1>2, <2>1, <2>2, <2>3, <2>4 DEF AgentStep
<1>3. ASSUME NEW t \in Turns, AgentKill(t) \/ AgentSend(t) PROVE FALSE
    BY <1>1, <1>3 DEF AgentKill, AgentSend
<1>4. CASE StopAgent \/ AgentChat \/ ChatContinues
    BY <1>1, <1>4 DEF StopAgent, AgentChat, ChatContinues, agentVars
<1>5. ASSUME NEW t \in Turns,
             \/ TakeBoard(t) \/ AgentOutput(t) \/ BeginWait(t) \/ EndWait(t) \/ Report(t)
             \/ Submit \/ TurnEnds \/ OnAgentMessage \/ StopPosts \/ ChatStarted
      PROVE  FALSE
    BY <1>1, <1>5, CoreSteps DEF CoreSame, agentVars
<1>6. QED
    BY <1>0, <1>2, <1>3, <1>4, <1>5 DEF Next, LeadStep, LoopStep

\* An agent its user stopped is started again by the user's chat, or by a settle window
\* that had decided to; a window that looks now finds no message.
LEMMA StopStep ==
    ASSUME TypeOK, SlotHolds, Next, slot.byUser
    PROVE  /\ ~slot'.byUser => \/ loop.pc = "chat"
                               \/ \E r \in Runs : windows[r] = "continue" /\ windows'[r] = "closed"
           /\ \A r \in Runs : windows[r] = "look" => windows'[r] # "continue"
<1>1. slot.done /\ slot.inputs = <<>>
    BY DEF SlotHolds
<1>2. ~slot'.byUser => Begins
    BY <1>1, Kinds DEF Reads, RunEnds, Settles, Kills, Stops, Folds, Calm, Releases, SameRun
<1>3. \A r \in Runs : windows[r] = "look" => windows'[r] # "continue"
    BY <1>1, LookSees
<1>4. QED
    BY <1>2, <1>3 DEF Begins

-----------------------------------------------------------------------------
(* What is known.                                                          *)

\* The notes there are: of an answer read from the channel, of a run the user began,
\* of a stop of the user's.
Caused(note) ==
    \/ /\ Folds /\ Head(events).type = "Settled" /\ ~Head(events).flag /\ ~Final
       /\ Head(events).run \in slot.owed /\ note = NewNote("end", Head(events).run, "answer")
    \/ ~slot.done /\ note = NewNote("resume", slot.run, "resume")
    \/ loop.pc = "stop" /\ note = NewNote("end", loop.run, "stop")
NoteComes(note) ==
    /\ note \in Notes /\ note.n = posted /\ note \notin Pending
    /\ Caused(note)
    /\ Posted(note) \/ AllRead(Pending \cup {note})
NotesLeft == \E t \in Turns : Report(t) \/ AgentKill(t)

LEMMA NotesEffect ==
    ASSUME TypeOK, SlotHolds, NumbersHold, Next
    PROVE  \/ UNCHANGED <<board, told, stale>>
           \/ NotesLeft
           \/ (Folds \/ Calm) /\ AllRead(Pending)
           \/ (Folds \/ Calm) /\ \E note : NoteComes(note)
<1>0. /\ NotesOk /\ NoteTypes /\ NumbersHold /\ slot.run \in Runs /\ loop.run \in Runs /\ 1 \in Turns
      /\ events \in Seq(Sent)
    BY TypeParts, RunsAreNumbers DEF NotesOk, ThreadTypes, Slot, RowTypes, Place
<1>1. ASSUME NEW kind \in {"end", "resume"}, NEW run \in Runs, NEW how \in {"answer", "stop", "resume"},
             PostAndDispatch(kind, run, how) \/ PostFrom(kind, run, how),
             Caused(NewNote(kind, run, how))
      PROVE  \E note : NoteComes(note)
  <2> DEFINE note == NewNote(kind, run, how)
  <2>1. /\ note \in Notes /\ note.n = posted /\ note \notin Pending
        /\ Posted(note) \/ AllRead(Pending \cup {note})
    BY <1>0, <1>1, PostEffect
  <2>2. NoteComes(note)
    BY <1>1, <2>1 DEF NoteComes
  <2>3. QED
    BY <2>2
<1>2. ASSUME Quiet PROVE UNCHANGED <<board, told, stale>>
    BY <1>2 DEF Quiet, noteVars, heardVars
<1>3. CASE AgentStep
    BY <1>3 DEF AgentStep, ReadInputs, RunEnds, Settle, WindowLooks, WindowContinues, noteVars, heardVars
<1>4. ASSUME NEW t \in Turns, TakeBoard(t) PROVE Calm /\ AllRead(Pending)
    BY <1>0, <1>4, TakeOk, CalmKind
<1>5. ASSUME NEW t \in Turns, AgentOutput(t) \/ BeginWait(t) \/ EndWait(t) \/ AgentSend(t)
      PROVE  UNCHANGED <<board, told, stale>>
    BY <1>5 DEF AgentOutput, BeginWait, EndWait, AgentSend, noteVars, heardVars
<1>6. CASE LeadStep
    BY <1>4, <1>5, <1>6 DEF LeadStep, NotesLeft
<1>7. CASE Submit \/ StopAgent \/ AgentChat \/ ChatContinues
    BY <1>2, <1>7 DEF Submit, StopAgent, AgentChat, ChatContinues, noteVars, heardVars
<1>8. CASE TurnEnds
  <2>1. Dispatch(board, cells) /\ UNCHANGED <<posted, waived>>
    BY <1>8 DEF TurnEnds, rowVars
  <2>2. QED
    BY <1>0, <1>8, <2>1, DispatchOk, CalmKind
<1>9. CASE OnAgentMessage
  <2>1. Folds /\ Head(events) \in Sent
    BY <1>0, <1>9, FoldsKind, HeadSent DEF OnAgentMessage
  <2>2. CASE Head(events).type = "Settled"
    <3>1. FoldSettled(Head(events))
        BY <1>9, <2>2 DEF OnAgentMessage
    <3>2. CASE ~Final /\ ~Head(events).flag /\ Head(events).run \in slot.owed
        <4>1. PostFrom("end", Head(events).run, "answer")
            BY <3>1, <3>2 DEF FoldSettled
        <4>2. Head(events).run \in Runs
            BY <2>1 DEF Sent
        <4>3. Caused(NewNote("end", Head(events).run, "answer"))
            BY <2>1, <2>2, <3>2 DEF Caused
        <4>4. QED
            BY <1>1, <2>1, <4>1, <4>2, <4>3
    <3>3. CASE ~(~Final /\ ~Head(events).flag /\ Head(events).run \in slot.owed)
        BY <1>2, <3>1, <3>3 DEF FoldSettled
    <3>4. QED
        BY <3>2, <3>3
  <2>3. CASE Head(events).type # "Settled"
    <3>1. Quiet \/ (~slot.done /\ PostFrom("resume", slot.run, "resume"))
        BY <1>9, <2>3 DEF OnAgentMessage, FoldSteered, FoldStopped
    <3>2. ASSUME ~slot.done PROVE Caused(NewNote("resume", slot.run, "resume"))
        BY <3>2 DEF Caused
    <3>3. QED
        BY <1>0, <1>1, <1>2, <2>1, <3>1, <3>2
  <2>4. QED
    BY <2>2, <2>3
<1>10. CASE StopPosts
  <2>1. Calm /\ loop.pc = "stop"
    BY <1>0, <1>10, CalmKind DEF StopPosts
  <2>2. Quiet \/ PostAndDispatch("end", loop.run, "stop")
    BY <1>10 DEF StopPosts
  <2>3. Caused(NewNote("end", loop.run, "stop"))
    BY <2>1 DEF Caused
  <2>4. QED
    BY <1>0, <1>1, <1>2, <2>1, <2>2, <2>3
<1>11. CASE ChatStarted
  <2>1. Calm
    BY <1>0, <1>11, CalmKind
  <2>2. \/ Quiet
        \/ ~slot.done /\ PostAndDispatch("resume", slot.run, "resume")
        \/ Dispatch(board, cells) /\ UNCHANGED <<posted, waived>>
    BY <1>11 DEF ChatStarted
  <2>3. ASSUME ~slot.done PROVE Caused(NewNote("resume", slot.run, "resume"))
    BY <2>3 DEF Caused
  <2>4. QED
    BY <1>0, <1>1, <1>2, <2>1, <2>2, <2>3, DispatchOk
<1>12. QED
    BY <1>3, <1>6, <1>7, <1>8, <1>9, <1>10, <1>11 DEF Next, LoopStep

LEMMA CausedFits ==
    ASSUME TypeOK, SlotHolds, SentHold, KnownHold, Next, NEW note, Caused(note)
    PROVE  NoteFits(note)
<1>1. slot.run \in Nat /\ EndedRuns \subseteq Nat /\ \A r \in EndedRuns : r <= slot.run
  <2>1. slot.run \in Nat
    BY TypeParts, RunsAreNumbers DEF ThreadTypes, Slot
  <2>2. QED
    BY <2>1 DEF EndedRuns
<1>2. CASE Folds /\ Head(events).type = "Settled" /\ note = NewNote("end", Head(events).run, "answer")
  <2>1. Head(events) = events[1] /\ 1 \in DOMAIN events
    BY <1>2, HeadSent, TypeParts DEF Folds
  <2>2. Head(events).run \in EndedRuns
    BY <1>2, <2>1 DEF SentHold
  <2>3. QED
    BY <1>1, <1>2, <2>2 DEF NoteFits, NewNote
<1>3. CASE note = NewNote("resume", slot.run, "resume")
    BY <1>1, <1>3 DEF NoteFits, NewNote
<1>4. CASE loop.pc = "stop" /\ note = NewNote("end", loop.run, "stop")
    BY <1>4 DEF NoteFits, NewNote, KnownHold
<1>5. QED
    BY <1>2, <1>3, <1>4 DEF Caused

\* The end a note speaks of is not of the run going.
LEMMA FitsOver ==
    ASSUME TypeOK, SlotHolds, KnownHold, NEW note \in Notes, NoteFits(note), note.kind = "end"
    PROVE  note.run <= slot.run /\ (~slot.done => note.run # slot.run)
<1>1. note.how = "answer" \/ note.how = "stop"
    BY DEF NoteFits, Notes
<1>2. ~slot.done => slot.run \notin EndedRuns
  <2>1. slot.run \in Nat
    BY TypeParts, RunsAreNumbers DEF ThreadTypes, Slot
  <2>2. QED
    BY <2>1 DEF EndedRuns, SlotHolds
<1>3. QED
    BY <1>1, <1>2 DEF NoteFits, KnownHold

\* What a step adds to what is known is of the run just over, or of earlier ones.
LEMMA KnownGrow ==
    ASSUME TypeOK, SlotHolds, CallsHold, SentHold, NumbersHold, KnownHold, Next
    PROVE  /\ Known \subseteq Known'
           /\ \A r \in Known' : \/ r \in Known
                                \/ r <= slot.run /\ slot'.run = slot.run /\ (r = slot.run => slot'.done)
<1>0. /\ NotesOk /\ NoteTypes /\ HeardTypes /\ slot.run \in Nat /\ Pending \subseteq Notes
    BY TypeParts, NoteOf, RunsAreNumbers DEF NotesOk, ThreadTypes, Slot, NoteTypes, Pending
<1>1. CASE UNCHANGED <<told, waived>>
    BY <1>1 DEF Known
<1>2. CASE Stops
  <2>1. \A r \in 0 .. slot.run : r <= slot.run
    BY <1>0
  <2>2. QED
    BY <1>2, <2>1 DEF Stops, Known
<1>3. ASSUME NEW t \in Turns, Report(t) PROVE UNCHANGED waived /\ slot'.run = slot.run /\ slot'.done = slot.done
                                            /\ told' = told \cup {lead[t].run} \cup {r \in EndRuns(board) : r < lead[t].run}
  <2>1. Calm
    BY <1>3, CalmKind
  <2>2. QED
    BY <1>3, <2>1 DEF Report, Calm, SameRun
<1>4. ASSUME NEW t \in Turns, Report(t)
      PROVE  \A r \in told' : r \in told \/ (r <= slot.run /\ (r = slot.run => slot.done))
  <2>1. lead[t].run \in Reported /\ lead[t].run \in Nat
    BY <1>4, TypeParts, RunsAreNumbers DEF Report, Reported, LeadTypes, Call
  <2>2. lead[t].run < slot.run \/ (lead[t].run = slot.run /\ slot.done)
    BY <2>1 DEF CallsHold
  <2>3. ASSUME NEW r \in EndRuns(board), r < lead[t].run PROVE r < slot.run
    <3>1. r \in Nat
        BY <1>0, RunsAreNumbers DEF EndRuns, Pending, Notes
    <3>2. QED
        BY <1>0, <2>1, <2>2, <2>3, <3>1
  <2>4. ASSUME NEW r \in EndRuns(board), r < lead[t].run PROVE r <= slot.run /\ r # slot.run
    <3>1. r \in Nat
        BY <1>0, RunsAreNumbers DEF EndRuns, Pending, Notes
    <3>2. QED
        BY <1>0, <2>3, <2>4, <3>1
  <2>5. lead[t].run <= slot.run /\ (lead[t].run = slot.run => slot.done)
    BY <1>0, <2>1, <2>2
  <2>6. QED
    BY <1>3, <1>4, <2>4, <2>5
<1>5. ASSUME NEW t \in Turns, AgentKill(t), slot.done PROVE UNCHANGED <<told, waived>>
    BY <1>5 DEF AgentKill, rowVars
<1>6. CASE NotesLeft
    <2>1. CASE \E t \in Turns : Report(t)
        BY <1>3, <1>4, <2>1 DEF Known
    <2>2. CASE \E t \in Turns : AgentKill(t)
        BY <1>0, <1>1, <1>5, <2>2, KillsKind DEF Kills, Known
    <2>3. QED
        BY <1>6, <2>1, <2>2 DEF NotesLeft
<1>7. ASSUME NEW N \in SUBSET Notes, AllRead(N), \A m \in N : NoteFits(m), Folds \/ Calm
      PROVE  /\ Known \subseteq Known'
             /\ \A r \in Known' : \/ r \in Known
                                  \/ r <= slot.run /\ slot'.run = slot.run /\ (r = slot.run => slot'.done)
  <2>1. UNCHANGED waived /\ slot'.run = slot.run /\ slot'.done = slot.done
    BY <1>7 DEF Folds, Calm, SameRun
  <2>2. told' = told \cup EndsIn(N)
    BY <1>0, <1>7, <2>1, ReadTypes
  <2>3. \A r \in EndsIn(N) : r <= slot.run /\ (r = slot.run => slot.done)
    BY <1>7, FitsOver DEF EndsIn
  <2>4. QED
    BY <2>1, <2>2, <2>3 DEF Known
<1>8. \A m \in Pending : NoteFits(m)
    BY DEF KnownHold
<1>9. CASE (Folds \/ Calm) /\ AllRead(Pending)
    BY <1>0, <1>7, <1>8, <1>9
<1>10. ASSUME Folds \/ Calm, NEW note, NoteComes(note)
       PROVE  /\ Known \subseteq Known'
              /\ \A r \in Known' : \/ r \in Known
                                   \/ r <= slot.run /\ slot'.run = slot.run /\ (r = slot.run => slot'.done)
  <2>1. CASE Posted(note)
    <3>1. UNCHANGED <<told, waived>>
        BY <1>10, <2>1 DEF Posted, Folds, Calm
    <3>2. QED
        BY <1>1, <3>1
  <2>2. CASE AllRead(Pending \cup {note})
    <3>1. Pending \cup {note} \in SUBSET Notes /\ \A m \in Pending \cup {note} : NoteFits(m)
        BY <1>0, <1>8, <1>10, CausedFits DEF NoteComes
    <3>2. QED
        BY <1>7, <1>10, <2>2, <3>1
  <2>3. QED
    BY <1>10, <2>1, <2>2 DEF NoteComes
<1>11. CASE UNCHANGED <<board, told, stale>>
  <2>1. UNCHANGED waived \/ Stops \/ Kills
    BY Kinds DEF Reads, RunEnds, Settles, Begins, Folds, Calm, Releases, Hushed, rowVars
  <2>2. CASE Kills
    BY <1>1, <1>11, <2>2 DEF Kills
  <2>3. QED
    BY <1>1, <1>2, <1>11, <2>1, <2>2
<1>12. QED
    BY <1>6, <1>9, <1>10, <1>11, NotesEffect

LEMMA PendingStep ==
    ASSUME TypeOK, SlotHolds, NumbersHold, Next
    PROVE  \/ Pending' \subseteq Pending
           \/ \E note : NoteComes(note) /\ Posted(note) /\ (Folds \/ Calm) /\ Pending' = Pending \cup {note}
<1>0. NotesOk /\ NoteTypes
    BY TypeParts DEF NotesOk
<1>1. CASE UNCHANGED <<board, told, stale>>
    BY <1>1 DEF Pending
<1>2. CASE NotesLeft
  <2>1. PICK S \in SUBSET Pending : board' = Without(board, S)
    BY <1>2 DEF NotesLeft, Report, AgentKill, Retract, Pending
  <2>2. QED
    BY <1>0, <2>1, WithoutFacts DEF NoteTypes, Pending
<1>3. ASSUME NEW N, AllRead(N) PROVE Pending' = {}
    BY <1>3, IncreasingEmpty DEF AllRead, Pending
<1>4. ASSUME NEW note, NoteComes(note), Posted(note) PROVE Pending' = Pending \cup {note}
    BY <1>0, <1>4, AppendFacts DEF NoteComes, Posted, Pending, NoteTypes
<1>5. QED
    BY <1>1, <1>2, <1>3, <1>4, NotesEffect DEF NoteComes

LEMMA KnownStep ==
    ASSUME TypeOK, SlotHolds, CallsHold, SentHold, NumbersHold, KnownHold, Next
    PROVE  KnownHold'
<1>0. /\ slot.run \in Nat /\ slot'.run \in Nat /\ slot.run <= slot'.run /\ EndedRuns \subseteq EndedRuns'
      /\ roster \in Row /\ Known \subseteq Nat /\ Pending \subseteq Notes
  <2>1. HeardTypes /\ RowTypes /\ NoteTypes
    BY TypeParts
  <2>2. Pending \subseteq Notes
    BY <2>1, NoteOf DEF NoteTypes, Pending
  <2>3. QED
    BY <2>1, <2>2, EndedGrow, RunsAreNumbers DEF HeardTypes, RowTypes, Known
<1>1. /\ Known \subseteq Known'
      /\ \A r \in Known' : \/ r \in Known
                           \/ r <= slot.run /\ slot'.run = slot.run /\ (r = slot.run => slot'.done)
    BY KnownGrow
<1>2. roster'.stopped => Final'
  <2>1. UNCHANGED roster \/ Stops \/ Folds \/ (roster' = IF Final THEN Reopened ELSE roster)
    BY Kinds DEF Reads, RunEnds, Settles, Begins, Kills, Calm, Releases, Hushed, rowVars
  <2>2. CASE Stops
    BY <2>2 DEF Stops, Final
  <2>3. CASE Folds
    BY <1>0, <2>3 DEF Folds, Folded, Reopened, Row, Final, KnownHold
  <2>4. CASE UNCHANGED roster \/ (roster' = IF Final THEN Reopened ELSE roster)
    BY <2>4 DEF Reopened, Final, KnownHold
  <2>5. QED
    BY <2>1, <2>2, <2>3, <2>4
<1>3. \A r \in Known' : r <= slot'.run
  <2>1. \A r \in Known : r <= slot'.run
    BY <1>0 DEF KnownHold
  <2>2. QED
    BY <1>0, <1>1, <2>1
<1>4. \A note \in Pending' : NoteFits(note)'
  <2>1. ASSUME NEW note \in Notes, NoteFits(note) PROVE NoteFits(note)'
    <3>1. note.run \in Nat
        BY RunsAreNumbers DEF Notes
    <3>2. QED
        BY <1>0, <1>1, <2>1, <3>1 DEF NoteFits
  <2>2. \A note \in Pending : NoteFits(note)'
    BY <1>0, <2>1 DEF KnownHold
  <2>3. ASSUME NEW note, NoteComes(note) PROVE NoteFits(note)'
    BY <2>1, <2>3, CausedFits DEF NoteComes
  <2>4. QED
    BY <2>2, <2>3, PendingStep
<1>5. slot'.killed => slot'.run \in Known'
  <2>1. CASE SameRun
    BY <1>1, <2>1 DEF SameRun, KnownHold
  <2>2. CASE Kills
    BY <2>2 DEF Kills, Known
  <2>3. CASE Stops
    <3>1. slot.run \in 0 .. slot.run
        BY <1>0
    <3>2. QED
        BY <2>3, <3>1 DEF Stops, Known
  <2>4. CASE Begins
    BY <2>4 DEF Begins
  <2>5. QED
    BY <2>1, <2>2, <2>3, <2>4, Kinds DEF Reads, RunEnds, Settles, Folds, Calm, Releases, SameRun
<1>6. slot.done /\ slot'.run = slot.run => slot'.done
  <2>1. ASSUME slot'.run = slot.run + 1 PROVE slot'.run # slot.run
    BY <1>0, <2>1
  <2>2. QED
    BY <2>1, Kinds DEF Reads, RunEnds, Settles, Begins, Kills, Stops, Folds, Calm, Releases, SameRun
<1>7. ~slot'.done => slot'.run \notin Known'
  <2>1. slot'.run \in Known => slot'.run = slot.run
    BY <1>0 DEF KnownHold
  <2>2. slot.run \in Known => slot.done
    BY DEF KnownHold
  <2>3. QED
    BY <1>1, <1>6, <2>1, <2>2
<1>8. loop'.pc = "stop" => loop'.run \in Known'
  <2>1. UNCHANGED loop \/ Stops \/ loop'.pc # "stop"
    BY Kinds DEF Reads, RunEnds, Settles, Begins, Kills, Folds, Calm, Releases, rowVars
  <2>2. CASE Stops
    <3>1. slot.run \in 0 .. slot.run
        BY <1>0
    <3>2. QED
        BY <2>2, <3>1 DEF Stops, Known
  <2>3. QED
    BY <1>1, <2>1, <2>2 DEF KnownHold
<1>9. cancelled' \subseteq Known'
  <2>1. UNCHANGED cancelled \/ (cancelled' = cancelled \cup {slot.run} /\ slot'.killed /\ slot'.run = slot.run)
    BY Kinds DEF Reads, RunEnds, Settles, Begins, Kills, Stops, Folds, Calm, Releases
  <2>2. QED
    BY <1>1, <1>5, <2>1 DEF KnownHold
<1>10. QED
    BY <1>2, <1>3, <1>4, <1>5, <1>7, <1>8, <1>9 DEF KnownHold

-----------------------------------------------------------------------------
(* Whether the row is open.                                                *)

LEMMA FoldsOpen ==
    ASSUME TypeOK, Folds
    PROVE  /\ Open' <=> Open
           /\ \A i \in DOMAIN events' : i + 1 \in DOMAIN events /\ events'[i] = events[i + 1]
                                        /\ (OpenAfter(i - 1)' <=> OpenAfter(i + 1 - 1))
<1>0. events \in Seq(Sent) /\ Len(events) \in Nat /\ roster \in Row /\ DOMAIN events = 1 .. Len(events)
    BY TypeParts, LenProperties DEF RowTypes
<1>1. events # <<>> /\ events' = Tail(events) /\ roster' = Folded(roster, Head(events))
    BY DEF Folds
<1>2. /\ DOMAIN events' = 1 .. Len(events) - 1 /\ Len(events') = Len(events) - 1 /\ Len(events) > 0
      /\ \A i \in 1 .. Len(events) - 1 : events'[i] = events[i + 1]
    BY <1>0, <1>1, HeadSent
<1>3. ASSUME NEW m \in Nat, m < Len(events) PROVE OpenAfter(m)' <=> OpenAfter(m + 1)
    BY <1>0, <1>1, <1>3, OpenTail DEF OpenAfter
<1>4. ASSUME NEW i \in DOMAIN events'
      PROVE  i + 1 \in DOMAIN events /\ events'[i] = events[i + 1]
             /\ (OpenAfter(i - 1)' <=> OpenAfter(i + 1 - 1))
  <2>1. i - 1 \in Nat /\ i - 1 < Len(events) /\ i - 1 + 1 = i + 1 - 1 /\ i + 1 \in DOMAIN events
    BY <1>0, <1>2
  <2>2. QED
    BY <1>2, <1>3, <2>1
<1>5. Open' <=> Open
  <2>0. Len(events) - 1 \in Nat
    BY <1>0, <1>2
  <2>1. PICK m \in Nat : m = Len(events) - 1
    BY <2>0
  <2>2. m < Len(events) /\ m + 1 = Len(events) /\ m = Len(events')
    BY <1>0, <1>2, <2>1
  <2>3. OpenAfter(m)' <=> OpenAfter(m + 1)
    BY <1>3, <2>2
  <2>4. QED
    BY <2>2, <2>3 DEF Open, OpenAfter
<1>6. QED
    BY <1>4, <1>5

\* A step leaves what was unread as open as it was, shortens it by the event read, or
\* closes the row at the user's stop.
LEMMA FoldsAt ==
    ASSUME TypeOK, Folds, NEW i \in DOMAIN events'
    PROVE  \E k \in DOMAIN events : /\ k = i + 1 /\ events'[i] = events[k]
                                    /\ OpenAfter(i - 1)' <=> OpenAfter(k - 1)
<1>1. i \in Nat
  <2>1. events \in Seq(Sent)
    BY TypeParts
  <2>2. DOMAIN events' = 1 .. Len(events) - 1 /\ Len(events) \in Nat
    BY <2>1, HeadSent DEF Folds
  <2>3. QED
    BY <2>2
<1>2. PICK k : k = i + 1
  OBVIOUS
<1>3. i + 1 - 1 = i /\ k - 1 = i
  BY <1>1, <1>2
<1>4. /\ k \in DOMAIN events /\ events'[i] = events[k]
      /\ OpenAfter(i - 1)' <=> OpenAfter(i + 1 - 1)
  BY <1>2, FoldsOpen
<1>5. OpenAfter(i - 1)' <=> OpenAfter(i)
  BY <1>3, <1>4
<1>6. OpenAfter(i - 1)' <=> OpenAfter(k - 1)
  BY <1>3, <1>5
<1>7. QED
  BY <1>2, <1>4, <1>6

LEMMA OpenSteps ==
    ASSUME TypeOK, SlotHolds, Next
    PROVE  \/ /\ UNCHANGED roster /\ Grows
              /\ \A n \in 0 .. Len(events) : OpenAfter(n)' <=> OpenAfter(n)
              /\ UNCHANGED events => (Open' <=> Open)
           \/ /\ Folds /\ (Open' <=> Open)
              /\ \A i \in DOMAIN events' : i + 1 \in DOMAIN events /\ events'[i] = events[i + 1]
                                           /\ (OpenAfter(i - 1)' <=> OpenAfter(i + 1 - 1))
           \/ Stops /\ UNCHANGED events /\ \A n : ~OpenAfter(n)'
           \/ Calm /\ Draining /\ loop'.pc = "ready" /\ UNCHANGED events /\ events = <<>>
              /\ roster' = IF Final THEN Reopened ELSE roster
<1>0. events \in Seq(Sent) /\ Len(events) \in Nat /\ roster \in Row /\ DOMAIN events = 1 .. Len(events)
    BY TypeParts, LenProperties DEF RowTypes
<1>1. ASSUME UNCHANGED roster, Grows
      PROVE  /\ \A n \in 0 .. Len(events) : OpenAfter(n)' <=> OpenAfter(n)
             /\ UNCHANGED events => (Open' <=> Open)
  <2>1. ASSUME NEW n \in 0 .. Len(events) PROVE OpenAfter(n)' <=> OpenAfter(n)
    <3>1. n \in Nat /\ \A i \in 1 .. n : events[i] = events'[i]
        BY <1>0, <1>1 DEF Grows
    <3>2. OpenIn(roster, events, n) <=> OpenIn(roster, events', n)
        BY <3>1, OpenPrefix
    <3>3. QED
        BY <1>1, <3>2 DEF OpenAfter
  <2>2. UNCHANGED events => (Open' <=> Open)
    BY <1>1 DEF Open, OpenAfter
  <2>3. QED
    BY <2>1, <2>2
<1>2. CASE Folds
    BY <1>2, FoldsOpen
<1>3. CASE Stops
  <2>1. roster'.stopped /\ UNCHANGED events
    BY <1>3 DEF Stops
  <2>2. \A n : ~OpenAfter(n)'
    BY <2>1 DEF OpenAfter, OpenIn
  <2>3. QED
    BY <1>3, <2>1, <2>2
<1>4. ASSUME UNCHANGED events PROVE Grows
    BY <1>0, <1>4, GrownNone
<1>5. CASE Calm
    BY <1>1, <1>4, <1>5 DEF Calm, Draining
<1>6. ASSUME Reads \/ RunEnds \/ Settles \/ Begins \/ Kills \/ \E t \in Turns : Releases(t)
      PROVE  UNCHANGED roster /\ Grows
    BY <1>4, <1>6 DEF Reads, RunEnds, Settles, Begins, Kills, Releases, Hushed, NoEndSent, EndSent, rowVars
<1>7. QED
    BY <1>1, <1>2, <1>3, <1>5, <1>6, Kinds

LEMMA OpenNow ==
    ASSUME TypeOK, KnownHold
    PROVE  OpenAfter(0) <=> ~Final
BY OpenZero DEF OpenAfter, KnownHold, Final

LEMMA ClosedByLast ==
    ASSUME Grows, Len(events) \in Nat, Len(events') = Len(events) + 1,
           events'[Len(events) + 1].type \in {"Settled", "Stopped"}
    PROVE  ~Open'
<1>1. Closes(events'[Len(events) + 1]) /\ ~Opens(events'[Len(events) + 1])
    BY DEF Closes, Opens
<1>2. ~OpenIn(roster', events', Len(events) + 1)
    BY <1>1, OpenNext
<1>3. QED
    BY <1>2 DEF Open, OpenAfter

\* With no drain outlasted, a row that is over once the channel is read is of an agent
\* that is over and has no end held back.
LEMMA RowStep ==
    ASSUME TypeOK, SlotHolds, KnownHold, RowHolds, "drain" \notin Late, Next
    PROVE  RowHolds'
<1>0. events \in Seq(Sent) /\ Len(events) \in Nat
    BY TypeParts, LenProperties
<1>1. Draining' => slot'.busy /\ ~slot'.done
  <2>1. CASE Begins
    BY <2>1 DEF Begins
  <2>2. CASE Settles \/ Kills
    BY <2>2 DEF Settles, Kills, DrainInTime, Draining
  <2>3. CASE Stops
    BY <2>3 DEF Stops, Draining
  <2>4. CASE Reads \/ RunEnds \/ Folds \/ Calm \/ \E t \in Turns : Releases(t)
    <3>1. slot'.busy = slot.busy /\ slot'.done = slot.done /\ (Draining' => Draining)
        BY <2>4 DEF Reads, RunEnds, Folds, Calm, Releases, Draining, rowVars
    <3>2. QED
        BY <3>1 DEF RowHolds
  <2>5. QED
    BY <2>1, <2>2, <2>3, <2>4, Kinds
<1>2. ASSUME slot'.done, ~slot'.held PROVE ~Open'
  <2>1. CASE Reads
    <3>1. ~slot.done
        BY <2>1 DEF Reads, SlotHolds
    <3>2. QED
        BY <1>2, <2>1, <3>1 DEF Reads
  <2>2. CASE Begins
    BY <1>2, <2>2 DEF Begins
  <2>3. CASE Kills
    BY <2>3, ClosedByLast DEF Kills, NoEndSent
  <2>4. CASE Stops
    BY <2>4 DEF Stops, Open, OpenAfter, OpenIn
  <2>5. CASE \E t \in Turns : Releases(t)
    BY <1>0, <2>5, ClosedByLast DEF Releases, EndSent
  <2>6. CASE Settles /\ EndSent
    BY <1>0, <1>2, <2>6, ClosedByLast DEF Settles, EndSent
  <2>7. ASSUME Settles, ~EndSent PROVE UNCHANGED <<events, roster>> /\ slot.done /\ ~slot.held
    BY <1>2, <2>7 DEF Settles, SlotHolds, Hushed
  <2>8. ASSUME RunEnds \/ Folds \/ Calm PROVE slot.done /\ ~slot.held
    BY <1>2, <2>8 DEF RunEnds, Folds, Calm
  <2>9. CASE RunEnds \/ Folds \/ Calm \/ (Settles /\ ~EndSent)
    <3>1. slot.done /\ ~slot.held /\ ~Open /\ ~Draining
        BY <2>7, <2>8, <2>9 DEF RowHolds
    <3>2. RunEnds => UNCHANGED events
        BY DEF RunEnds
    <3>3. (Calm => UNCHANGED events) /\ (Folds => ~Stops)
        BY DEF Calm, Folds, Stops
    <3>4. UNCHANGED events \/ Folds
        BY <2>7, <2>9, <3>2, <3>3
    <3>5. ~Stops \/ ~Open'
        BY DEF Stops, Open, OpenAfter, OpenIn
    <3>6. CASE UNCHANGED roster /\ UNCHANGED events
        BY <3>1, <3>6 DEF Open, OpenAfter
    <3>7. CASE Folds
        BY <3>1, <3>7, FoldsOpen
    <3>8. QED
        BY <3>1, <3>4, <3>5, <3>6, <3>7, OpenSteps
  <2>10. QED
    BY <2>1, <2>2, <2>3, <2>4, <2>5, <2>6, <2>9, Kinds
<1>3. QED
    BY <1>1, <1>2 DEF RowHolds

-----------------------------------------------------------------------------
(* The reports about to be made.                                           *)

LEMMA ReportsStep ==
    ASSUME TypeOK, SlotHolds, CallsHold, Next
    PROVE  /\ Reported' \subseteq Reported \cup {slot.run}
           /\ "wait" \notin Late /\ OneWait /\ slot.held /\ slot'.held => Reported' \subseteq Reported
           /\ Reported \subseteq Reported' \cup told'
<1>0. /\ LeadTypes /\ slot \in Slot /\ NoneAhead /\ slot.waiters = Cardinality(Waiting)
      /\ slot.waiters \in 0 .. MaxTurns /\ (slot.held => slot.waiters > 0)
    BY TypeParts DEF ThreadTypes, Slot, CallsHold, NoneAhead, Waiting
<1>1. ASSUME NEW t \in Turns, NEW call, lead' = [lead EXCEPT ![t] = call]
      PROVE  /\ Reported' \subseteq Reported \cup (IF call.pc = "report" THEN {call.run} ELSE {})
             /\ Reported \subseteq Reported' \cup (IF lead[t].pc = "report" THEN {lead[t].run} ELSE {})
  <2>1. \A u \in Turns : lead'[u] = IF u = t THEN call ELSE lead[u]
    BY <1>0, <1>1 DEF LeadTypes
  <2>2. QED
    BY <2>1 DEF Reported
<1>2. ASSUME slot.held PROVE \E u \in Turns : lead[u].pc = "wait"
  <2>1. Waiting # {}
    <3>1. Waiting = {} => Cardinality(Waiting) = 0
        BY FS_EmptySet
    <3>2. QED
        BY <1>0, <1>2, <3>1
  <2>2. QED
    BY <2>1 DEF Waiting
<1>3. ASSUME NEW t \in Turns, AgentOutput(t)
      PROVE  /\ Reported' \subseteq Reported \cup {slot.run} /\ Reported \subseteq Reported'
             /\ "wait" \notin Late => ~slot.held
  <2>1. /\ lead[t].pc = "loop" /\ turn.n = t
        /\ (\E ghost \in 1 .. t - 1 : lead[ghost].pc \in {"register", "wait"}) => "wait" \in Late
        /\ lead' = [lead EXCEPT ![t] = IF Running(slot) THEN At("register") ELSE Reporting]
    BY <1>3 DEF AgentOutput, AtLoop, Interrupted
  <2>2. ASSUME slot.held PROVE "wait" \in Late
    <3>1. PICK u \in Turns : lead[u].pc = "wait"
        BY <1>2, <2>2
    <3>2. u \in Nat /\ t \in Nat /\ u >= 1 /\ ~(u > t) /\ u # t
        BY <1>0, <2>1, <3>1, RunsAreNumbers DEF NoneAhead, Turns
    <3>3. u \in 1 .. t - 1
        BY <3>2
    <3>4. QED
        BY <2>1, <3>1, <3>3
  <2>3. At("register").pc = "register" /\ Reporting.pc = "report" /\ Reporting.run = slot.run
    BY DEF At, Reporting
  <2>4. QED
    BY <1>1, <2>1, <2>2, <2>3
<1>4. ASSUME NEW t \in Turns, BeginWait(t)
      PROVE  Reported' \subseteq Reported /\ Reported \subseteq Reported'
  <2>1. lead[t].pc = "register" /\ lead' = [lead EXCEPT ![t] = At("wait")]
    BY <1>4 DEF BeginWait
  <2>2. At("wait").pc = "wait"
    BY DEF At
  <2>3. QED
    BY <1>1, <2>1, <2>2
<1>5. ASSUME NEW t \in Turns, EndWait(t)
      PROVE  /\ Reported' \subseteq Reported \cup {slot.run} /\ Reported \subseteq Reported'
             /\ "wait" \notin Late /\ OneWait /\ slot.held => ~slot'.held
  <2> DEFINE s == [slot EXCEPT !.waiters = @ - 1, !.observed = @ \/ (~Interrupted(t) /\ slot.held)]
  <2>1. lead[t].pc = "wait"
    BY <1>5 DEF EndWait
  <2>2. PICK call \in {At("gone"), At("loop"), Reporting} : lead' = [lead EXCEPT ![t] = call]
    BY <1>5 DEF EndWait, Back
  <2>3. call.pc = "report" => call.run = slot.run
    BY DEF At, Reporting
  <2>4. ASSUME OneWait, slot.held PROVE ~slot'.held
    <3>1. Waiting = {t}
        BY <2>1, <2>4 DEF Waiting, OneWait
    <3>2. slot.waiters = 1
        BY <1>0, <3>1, FS_Singleton
    <3>3. s.waiters = 0 /\ s.held
        BY <1>0, <2>4, <3>2 DEF Slot
    <3>4. slot' = [s EXCEPT !.held = FALSE, !.observed = FALSE,
                            !.owed = IF s.observed THEN @ ELSE @ \cup {s.run}]
        BY <1>5, <3>3 DEF EndWait
    <3>5. QED
        BY <1>0, <3>4 DEF Slot
  <2>5. QED
    BY <1>1, <2>1, <2>2, <2>3, <2>4
<1>6. ASSUME NEW t \in Turns, Report(t)
      PROVE  Reported' \subseteq Reported /\ Reported \subseteq Reported' \cup told'
  <2>1. PICK call \in {At("gone"), At("loop")} : lead' = [lead EXCEPT ![t] = call]
    BY <1>6 DEF Report, Back
  <2>2. lead[t].run \in told' /\ call.pc # "report"
    BY <1>6 DEF Report, At
  <2>3. QED
    BY <1>1, <2>1, <2>2
<1>7. ASSUME NEW t \in Turns, LeadStep => TakeBoard(t) \/ AgentKill(t) \/ AgentSend(t)
      PROVE  Reported' = Reported
    BY <1>0, <1>7, LeadKeepsSteps, KeptReports
<1>8. QED
    BY <1>3, <1>4, <1>5, <1>6, <1>7, RunsAreNumbers DEF Next, LeadStep

-----------------------------------------------------------------------------
(* What will be read is news.                                              *)

AnswersNew ==
    \A i \in DOMAIN events, r \in slot.owed :
        IsEnd(events[i], r) /\ OpenAfter(i - 1) => r \notin Known
NotesNew ==
    \A note \in Pending :
        /\ IsNews(note, Pending)
        /\ note.how = "answer" => note.run \notin slot.owed /\ (slot.held => note.run # slot.run)

\* A note of an end posted on an answer is of no run owed or held.
LEMMA EndsApart ==
    ASSUME SlotHolds, NotesNew, NEW note \in Pending, note \in Notes, NoteFits(note), note.kind = "end"
    PROVE  note.run \in Known \/ (note.run \notin slot.owed /\ (slot.held => note.run # slot.run))
BY DEF NotesNew, NoteFits, Notes

\* What comes with a note, and the others beside it, is news.
LEMMA NewsComes ==
    ASSUME TypeOK, SlotHolds, SentHold, NumbersHold, KnownHold, NewsHold, Next, NEW note, NoteComes(note)
    PROVE  /\ \A m \in Pending \cup {note} : IsNews(m, Pending \cup {note})
           /\ note.how = "answer" => note.run \notin slot'.owed /\ (slot.held => note.run # slot.run)
<1>0. /\ NotesNew /\ AnswersNew /\ Pending \subseteq Notes /\ slot.run \in Nat /\ note.n = posted
      /\ posted \in Nat /\ \A m \in Pending : NoteFits(m)
  <2>1. NoteTypes /\ slot.run \in Nat
    BY TypeParts, RunsAreNumbers DEF ThreadTypes, Slot
  <2>2. Pending \subseteq Notes
    BY <2>1, NoteOf DEF NoteTypes, Pending
  <2>3. QED
    BY <2>1, <2>2 DEF NewsHold, NotesNew, AnswersNew, NoteComes, KnownHold, NoteTypes
<1>1. \A m \in Pending : m.n \in Nat /\ posted \in Nat /\ m.n < posted
    BY <1>0, TypeParts DEF NumbersHold, NumbersIn, Pending, NoteTypes, Notes
<1>2. \A m \in Pending : m.n <= note.n
    BY <1>0, <1>1
<1>3. \A m \in Pending : IsNews(m, Pending) => IsNews(m, Pending \cup {note})
    BY <1>2 DEF IsNews, First
<1>4. ASSUME note.run \notin told, \A m \in Pending : m.kind = "end" => m.run # note.run
      PROVE  IsNews(note, Pending \cup {note})
    BY <1>0, <1>1, <1>4 DEF IsNews, First
<1>5. CASE /\ Folds /\ Head(events).type = "Settled" /\ ~Head(events).flag /\ ~Final
           /\ Head(events).run \in slot.owed /\ note = NewNote("end", Head(events).run, "answer")
  <2> DEFINE r == Head(events).run
  <2>1. Head(events) = events[1] /\ 1 \in DOMAIN events
    BY <1>5, HeadSent, TypeParts DEF Folds
  <2>2. IsEnd(events[1], r)
    BY <1>5, <2>1 DEF IsEnd
  <2>3. OpenAfter(1 - 1)
    BY <1>5, OpenNow
  <2>4. r \notin Known
    BY <1>0, <1>5, <2>1, <2>2, <2>3 DEF AnswersNew
  <2>5. slot.held => r # slot.run
    BY <1>5, <2>1 DEF SentHold
  <2>6. slot'.owed = slot.owed \ {r}
    BY <1>5 DEF Folds
  <2>7. note.run = r /\ note.how = "answer"
    BY <1>5 DEF NewNote
  <2>8. \A m \in Pending : m.kind = "end" => m.run # r
    BY <1>0, <1>5, <2>4, EndsApart
  <2>9. IsNews(note, Pending \cup {note})
    BY <1>4, <2>4, <2>7, <2>8 DEF Known
  <2>10. QED
    BY <1>0, <1>3, <2>5, <2>6, <2>7, <2>9 DEF NotesNew
<1>6. CASE ~slot.done /\ note = NewNote("resume", slot.run, "resume")
  <2>1. note.run = slot.run /\ note.how = "resume"
    BY <1>6 DEF NewNote
  <2>2. slot.run \notin Known
    BY <1>6 DEF KnownHold
  <2>3. \A m \in Pending : m.kind = "end" => m.run # slot.run
    BY <1>0, <1>6, FitsOver
  <2>4. IsNews(note, Pending \cup {note})
    BY <1>4, <2>1, <2>2, <2>3 DEF Known
  <2>5. QED
    BY <1>0, <1>3, <2>1, <2>4 DEF NotesNew
<1>7. CASE note = NewNote("end", loop.run, "stop")
  <2>1. note.how = "stop"
    BY <1>7 DEF NewNote
  <2>2. QED
    BY <1>0, <1>3, <2>1 DEF NotesNew, IsNews
<1>8. QED
    BY <1>5, <1>6, <1>7 DEF NoteComes, Caused

\* What a step makes known is the run stopped, or one whose end was posted or reported.
LEMMA NewlyKnown ==
    ASSUME TypeOK, SlotHolds, CallsHold, SentHold, NumbersHold, KnownHold, NewsHold, Next,
           NEW r \in Known', r \notin Known
    PROVE  \/ Stops
           \/ Kills /\ r = slot.run
           \/ r \notin slot'.owed /\ (slot.held => r # slot.run \/ r \in Reported)
<1>0. /\ NotesNew /\ NotesOk /\ Pending \subseteq Notes /\ HeardTypes /\ slot \in Slot
      /\ \A m \in Pending : NoteFits(m)
  <2>1. NoteTypes /\ NotesOk /\ HeardTypes /\ slot \in Slot
    BY TypeParts DEF NotesOk, ThreadTypes
  <2>2. Pending \subseteq Notes
    BY <2>1, NoteOf DEF NoteTypes, Pending
  <2>3. QED
    BY <2>1, <2>2 DEF NewsHold, NotesNew, KnownHold
<1>1. ASSUME UNCHANGED told PROVE Stops
  <2>1. UNCHANGED waived \/ Stops
    BY Kinds DEF Reads, RunEnds, Settles, Begins, Kills, Folds, Calm, Releases, Hushed, rowVars
  <2>2. QED
    BY <1>1, <2>1 DEF Known
<1>2. ASSUME NEW m \in Pending, m.kind = "end", m.run = r
      PROVE  r \notin slot.owed /\ (slot.held => r # slot.run)
    BY <1>0, <1>2, EndsApart
<1>3. ASSUME Folds \/ Calm PROVE slot'.owed \subseteq slot.owed /\ UNCHANGED waived
    BY <1>3 DEF Folds, Calm
<1>4. ASSUME NEW t \in Turns, Report(t)
      PROVE  r \notin slot'.owed /\ (slot.held => r # slot.run \/ r \in Reported)
  <2>1. /\ slot'.owed = slot.owed \ {lead[t].run} /\ lead[t].run \in Reported
        /\ told' = told \cup {lead[t].run} \cup {x \in EndRuns(board) : x < lead[t].run}
        /\ UNCHANGED waived
    BY <1>0, <1>4 DEF Report, Slot, Reported, rowVars
  <2>2. r = lead[t].run \/ \E m \in Pending : m.kind = "end" /\ m.run = r
    BY <2>1 DEF Known, EndRuns, Pending
  <2>3. QED
    BY <1>2, <2>1, <2>2
<1>5. ASSUME NEW t \in Turns, AgentKill(t) PROVE Stops \/ (Kills /\ r = slot.run)
  <2>1. CASE slot.done
    BY <1>1, <1>5, <2>1 DEF AgentKill
  <2>2. CASE ~slot.done
    <3>1. Kills
        BY <1>5, <2>2, KillsKind
    <3>2. QED
        BY <3>1 DEF Kills, Known
  <2>3. QED
    BY <2>1, <2>2
<1>6. CASE (Folds \/ Calm) /\ AllRead(Pending)
  <2>1. told' = told \cup EndsIn(Pending)
    BY <1>0, <1>3, <1>6, ReadTypes
  <2>2. \E m \in Pending : m.kind = "end" /\ m.run = r
    BY <1>3, <1>6, <2>1 DEF Known, EndsIn
  <2>3. QED
    BY <1>2, <1>3, <1>6, <2>2
<1>7. ASSUME Folds \/ Calm, NEW note, NoteComes(note), AllRead(Pending \cup {note})
      PROVE  r \notin slot'.owed /\ (slot.held => r # slot.run)
  <2>1. told' = told \cup EndsIn(Pending \cup {note})
    BY <1>0, <1>3, <1>7, ReadTypes DEF NoteComes
  <2>2. PICK m \in Pending \cup {note} : m.kind = "end" /\ m.run = r
    BY <1>3, <1>7, <2>1 DEF Known, EndsIn
  <2>3. CASE m \in Pending
    BY <1>2, <1>3, <1>7, <2>2, <2>3
  <2>4. CASE m = note
    <3>1. NoteFits(note) /\ note \in Notes
        BY <1>7, CausedFits DEF NoteComes
    <3>2. note.how = "answer"
        BY <2>2, <2>4, <3>1 DEF NoteFits, Notes
    <3>3. QED
        BY <1>7, <2>2, <2>4, <3>2, NewsComes
  <2>5. QED
    BY <2>3, <2>4
<1>8. QED
  <2>1. CASE UNCHANGED <<board, told, stale>>
    BY <1>1, <2>1
  <2>2. CASE NotesLeft
    BY <1>4, <1>5, <2>2 DEF NotesLeft
  <2>3. ASSUME Folds \/ Calm, NEW note, NoteComes(note), Posted(note) PROVE Stops
    BY <1>1, <2>3 DEF Posted
  <2>4. QED
    BY <1>6, <1>7, <2>1, <2>2, <2>3, NotesEffect DEF NoteComes

LEMMA NotesNewStep ==
    ASSUME TypeOK, SlotHolds, CallsHold, SentHold, NumbersHold, KnownHold, NewsHold, Next
    PROVE  NotesNew'
<1>0. /\ NotesNew /\ NotesOk /\ Pending \subseteq Notes /\ \A m \in Pending : NoteFits(m)
      /\ slot.run \in Nat /\ slot'.run \in Nat /\ slot.run <= slot'.run
      /\ slot \in Slot
  <2>1. NoteTypes /\ NotesOk /\ slot \in Slot
    BY TypeParts DEF NotesOk, ThreadTypes
  <2>2. Pending \subseteq Notes
    BY <2>1, NoteOf DEF NoteTypes, Pending
  <2>3. QED
    BY <2>1, <2>2, EndedGrow, RunsAreNumbers DEF NewsHold, NotesNew, KnownHold
<1>1. ASSUME NEW m \in Pending, m.how = "answer"
      PROVE  m.run \notin slot'.owed /\ (slot'.held => m.run # slot'.run)
  <2>1. m.run \in EndedRuns /\ m.run \notin slot.owed /\ (slot.held => m.run # slot.run)
    BY <1>0, <1>1 DEF NotesNew, NoteFits
  <2>2. slot.busy => m.run # slot.run
    BY <2>1, EndedGrow
  <2>3. \/ slot'.owed \subseteq slot.owed
        \/ slot'.owed \subseteq slot.owed \cup {slot.run} /\ (slot.held \/ slot.busy)
    BY SentKinds DEF NoEndSent, EndSent, Folds, SlotHolds
  <2>4. QED
    BY <2>1, <2>2, <2>3, EndedGrow
<1>2. ASSUME NEW m \in Pending, IsNews(m, Pending), Pending' \subseteq Pending,
             m.run \in told' => m.run \in told \/ (m.how # "answer" /\ (m.how = "resume" => m.run # slot'.run))
      PROVE  IsNews(m, Pending)'
  <2>1. m.run \in Nat /\ m.run <= slot.run
    BY <1>0, RunsAreNumbers DEF NoteFits, Notes
  <2>2. m.run = slot'.run => m.run = slot.run
    BY <1>0, <2>1
  <2>3. First(m, Pending) => First(m, Pending)'
    BY <1>2 DEF First
  <2>4. QED
    BY <1>2, <2>2, <2>3 DEF IsNews
<1>3. \A m \in Pending : IsNews(m, Pending)
    BY <1>0 DEF NotesNew
<1>4. CASE UNCHANGED <<board, told, stale>>
  <2>1. Pending' = Pending
    BY <1>4 DEF Pending
  <2>2. QED
    BY <1>1, <1>2, <1>3, <1>4, <2>1 DEF NotesNew
<1>5. ASSUME NEW t \in Turns, Report(t) PROVE NotesNew'
  <2> DEFINE S == {note \in Pending : \/ note.kind = "end" /\ note.run <= lead[t].run
                                      \/ ResumeNote(note) /\ slot.done}
  <2>1. /\ told' = told \cup {lead[t].run} \cup {r \in EndRuns(board) : r < lead[t].run}
        /\ board' = Without(board, S)
    BY <1>5 DEF Report, Retract, Pending
  <2>2. Pending' = Pending \ S
    BY <1>0, <2>1, WithoutFacts DEF NotesOk, NoteTypes, Pending
  <2>3. lead[t].run \in Reported /\ lead[t].run \in Nat
    BY <1>5, TypeParts, RunsAreNumbers DEF Report, Reported, LeadTypes, Call
  <2>4. lead[t].run < slot.run \/ (lead[t].run = slot.run /\ slot.done)
    BY <2>3 DEF CallsHold
  <2>5. slot'.run = slot.run
    BY <1>0, <1>5 DEF Report, Slot
  <2>6. ASSUME NEW m \in Pending', m.run \in told', m.run \notin told
        PROVE  m.how # "answer" /\ (m.how = "resume" => m.run # slot'.run)
    <3>1. m \in Pending /\ m \notin S /\ m.run \in Nat /\ m \in Notes /\ NoteFits(m)
        BY <1>0, <2>2, <2>6, RunsAreNumbers DEF Notes
    <3>2. m.run = lead[t].run \/ m.run < lead[t].run
        BY <2>1, <2>6
    <3>3. m.kind # "end"
        BY <2>3, <3>1, <3>2
    <3>4. m.how = "resume" /\ ~slot.done
        BY <3>1, <3>3 DEF NoteFits, Notes, ResumeNote
    <3>5. m.run # slot.run
        BY <1>0, <2>3, <2>4, <3>1, <3>2, <3>4
    <3>6. QED
        BY <2>5, <3>4, <3>5
  <2> HIDE DEF S
  <2>7. Pending' \subseteq Pending
    BY <2>2
  <2>8. QED
    BY <1>1, <1>2, <1>3, <2>6, <2>7 DEF NotesNew
<1>6. ASSUME NEW t \in Turns, AgentKill(t) PROVE NotesNew'
  <2>1. board' = Without(board, {note \in Pending : ResumeNote(note)})
    BY <1>6 DEF AgentKill, Retract, Pending
  <2>2. Pending' = Pending \ {note \in Pending : ResumeNote(note)}
    BY <1>0, <2>1, WithoutFacts DEF NotesOk, NoteTypes, Pending
  <2>3. UNCHANGED told \/ (~slot.done /\ told' = told \cup {slot.run})
    BY <1>6 DEF AgentKill
  <2>4. ASSUME NEW m \in Pending', m.run \in told', m.run \notin told
        PROVE  m.how # "answer" /\ (m.how = "resume" => m.run # slot'.run)
    <3>1. m \in Pending /\ m.kind # "resume" /\ NoteFits(m) /\ m \in Notes
        BY <1>0, <2>2, <2>4 DEF ResumeNote
    <3>2. m.run = slot.run /\ ~slot.done /\ m.kind = "end" /\ m.how # "resume"
        BY <2>3, <2>4, <3>1 DEF NoteFits, Notes
    <3>3. QED
        BY <3>1, <3>2, FitsOver
  <2>5. Pending' \subseteq Pending
    BY <2>2
  <2>6. QED
    BY <1>1, <1>2, <1>3, <2>4, <2>5 DEF NotesNew
<1>7. ASSUME NEW N, AllRead(N) PROVE NotesNew'
  <2>1. Pending' = {}
    BY <1>7, IncreasingEmpty DEF AllRead, Pending
  <2>2. QED
    BY <2>1 DEF NotesNew
<1>8. ASSUME Folds \/ Calm, NEW note, NoteComes(note), Posted(note) PROVE NotesNew'
  <2>1. Pending' = Pending \cup {note} /\ UNCHANGED told
    BY <1>0, <1>8, AppendFacts DEF NoteComes, Posted, Pending, NotesOk, NoteTypes
  <2>2. slot'.run = slot.run /\ slot'.held = slot.held
    BY <1>8 DEF Folds, Calm, SameRun
  <2>3. /\ \A m \in Pending \cup {note} : IsNews(m, Pending \cup {note})
        /\ note.how = "answer" => note.run \notin slot'.owed /\ (slot.held => note.run # slot.run)
    BY <1>8, NewsComes
  <2>4. \A m \in Pending' : IsNews(m, Pending)'
    BY <2>1, <2>2, <2>3 DEF IsNews, First
  <2>5. QED
    BY <1>1, <2>1, <2>2, <2>3, <2>4 DEF NotesNew
<1>9. QED
    BY <1>4, <1>5, <1>6, <1>7, <1>8, NotesEffect DEF NotesLeft, NoteComes

LEMMA StaleStep ==
    ASSUME TypeOK, SlotHolds, CallsHold, SentHold, NumbersHold, KnownHold, NewsHold, Next
    PROVE  {"answer", "resume"} \cap stale' = {}
<1>0. {"answer", "resume"} \cap stale = {} /\ \A m \in Pending : IsNews(m, Pending) /\ NoteFits(m)
    BY DEF NewsHold, KnownHold
<1>1. CASE UNCHANGED stale
    BY <1>0, <1>1
<1>2. ASSUME NEW N, AllRead(N), \A m \in N : IsNews(m, N) /\ NoteFits(m)
      PROVE  {"answer", "resume"} \cap stale' = {}
  <2>1. PICK h \in Seq(Notes) : Increasing(h) /\ Range(h) = N /\ Hear(h)
    BY <1>2 DEF AllRead
  <2>2. \A m \in Range(h) : IsNews(m, Range(h)) /\ (m.kind = "resume" <=> m.how = "resume")
    BY <1>2, <2>1 DEF NoteFits
  <2>3. QED
    BY <1>0, <2>1, <2>2, HearNews
<1>3. CASE NotesLeft
    BY <1>1, <1>3 DEF NotesLeft, Report, AgentKill
<1>4. ASSUME NEW note, NoteComes(note) PROVE {"answer", "resume"} \cap stale' = {}
  <2>1. \A m \in Pending \cup {note} : IsNews(m, Pending \cup {note}) /\ NoteFits(m)
    BY <1>0, <1>4, NewsComes, CausedFits DEF NoteComes
  <2>2. QED
    BY <1>1, <1>2, <1>4, <2>1 DEF NoteComes, Posted
<1>5. QED
    BY <1>0, <1>1, <1>2, <1>3, <1>4, NotesEffect

\* The row after the events there were, once more were sent.
LEMMA OpenOlder ==
    ASSUME TypeOK, SlotHolds, Next, ~Folds, NEW i \in DOMAIN events, OpenAfter(i - 1)'
    PROVE  OpenAfter(i - 1)
<1>1. Len(events) \in Nat /\ DOMAIN events = 1 .. Len(events)
    BY TypeParts, LenProperties
<1>2. i - 1 \in 0 .. Len(events) /\ events # <<>>
    BY <1>1
<1>3. QED
    BY <1>2, OpenSteps

LEMMA StopCloses ==
    ASSUME Stops
    PROVE  ~Open' /\ \A n : ~OpenAfter(n)'
<1>1. roster'.stopped
    BY DEF Stops
<1>2. QED
    BY <1>1 DEF Open, OpenAfter, OpenIn

LEMMA AnswersNewStep ==
    ASSUME TypeOK, SlotHolds, CallsHold, SentHold, NumbersHold, KnownHold, RowHolds, NewsHold, Next
    PROVE  AnswersNew'
<1>0. /\ events \in Seq(Sent) /\ Len(events) \in Nat /\ DOMAIN events = 1 .. Len(events)
      /\ AnswersNew /\ (slot.held /\ Open => slot.run \notin Known)
    BY TypeParts, LenProperties DEF NewsHold, AnswersNew
<1>1. ASSUME NEW i \in DOMAIN events, NEW r \in slot.owed, IsEnd(events[i], r), OpenAfter(i - 1),
             r \in slot'.owed, ~Stops
      PROVE  r \notin Known'
  <2>1. r \notin Known
    BY <1>0, <1>1 DEF AnswersNew
  <2>2. r \in EndedRuns
    BY <1>1 DEF SentHold, IsEnd
  <2>3. ~(Kills /\ r = slot.run)
    BY <2>2, EndedGrow DEF Kills
  <2>4. QED
    BY <1>1, <2>1, <2>3, NewlyKnown
<1>2. ASSUME NEW i \in DOMAIN events', NEW r \in slot'.owed, IsEnd(events'[i], r), OpenAfter(i - 1)'
      PROVE  r \notin Known'
  <2>1. ~Stops
    BY <1>2 DEF Stops, OpenAfter, OpenIn
  <2>2. CASE Folds
    <3>1. PICK k \in DOMAIN events : events'[i] = events[k] /\ OpenAfter(k - 1)
        BY <1>2, <2>2, FoldsAt
    <3>2. r \in slot.owed /\ IsEnd(events[k], r)
        BY <1>2, <2>2, <3>1 DEF Folds
    <3>3. QED
        BY <1>1, <1>2, <2>1, <3>1, <3>2
  <2>3. CASE NoEndSent /\ ~OnAgentMessage
    <3>1. i \in DOMAIN events /\ events'[i] = events[i]
      <4>1. i \in 1 .. Len(events')
        BY <1>2, <2>3, LenProperties DEF NoEndSent, Grows
      <4>2. i \in 1 .. Len(events) \/ i \in Len(events) + 1 .. Len(events')
        BY <1>0, <4>1
      <4>3. i \in 1 .. Len(events)
        BY <1>2, <2>3, <4>2 DEF NoEndSent, IsEnd
      <4>4. QED
        BY <1>0, <2>3, <4>3 DEF NoEndSent, Grows
    <3>2. r \in slot.owed /\ ~Folds
        BY <1>2, <2>3 DEF NoEndSent, Folds
    <3>3. OpenAfter(i - 1)
        BY <1>2, <3>1, <3>2, OpenOlder
    <3>4. QED
        BY <1>1, <1>2, <2>1, <3>1, <3>2, <3>3
  <2>4. CASE EndSent /\ Hushed /\ ~OnAgentMessage
    <3>1. Known' = Known /\ UNCHANGED roster /\ ~Folds
        BY <2>4 DEF Hushed, Known, Folds
    <3>2. (i \in DOMAIN events /\ events'[i] = events[i]) \/ i = Len(events) + 1
      <4>1. i \in 1 .. Len(events')
        BY <1>2, <2>4, LenProperties DEF EndSent, Grows
      <4>2. i \in 1 .. Len(events) \/ i = Len(events) + 1 \/ i \in Len(events) + 2 .. Len(events')
        BY <1>0, <4>1
      <4>3. i \in 1 .. Len(events) \/ i = Len(events) + 1
        BY <1>2, <2>4, <4>2 DEF EndSent, IsEnd
      <4>4. QED
        BY <1>0, <2>4, <4>3 DEF EndSent, Grows
    <3>3. slot.held \/ (slot.busy /\ Settles)
        BY <2>4, SettlesKind DEF EndSent, SlotHolds
    <3>4. CASE i \in DOMAIN events /\ events'[i] = events[i]
      <4>1. r \in EndedRuns /\ (slot.held => r # slot.run)
        BY <1>2, <3>4 DEF SentHold, IsEnd
      <4>2. r # slot.run
        BY <3>3, <4>1, EndedGrow
      <4>3. r \in slot.owed
        BY <1>2, <2>4, <4>2 DEF EndSent
      <4>4. OpenAfter(i - 1)
        BY <1>2, <3>1, <3>4, OpenOlder
      <4>5. QED
        BY <1>0, <1>2, <3>1, <3>4, <4>3, <4>4 DEF AnswersNew
    <3>5. CASE i = Len(events) + 1
      <4>1. r = slot.run
        BY <1>2, <2>4, <3>5 DEF EndSent, IsEnd
      <4>2. OpenIn(roster, events, i - 1)
        <5>1. i - 1 \in Nat /\ i - 1 = Len(events) /\ \A j \in 1 .. i - 1 : events'[j] = events[j]
            BY <1>0, <2>4, <3>5 DEF EndSent, Grows
        <5>2. OpenIn(roster, events', i - 1)
            BY <1>2, <3>1 DEF OpenAfter
        <5>3. OpenIn(roster, events', i - 1) <=> OpenIn(roster, events, i - 1)
            BY <5>1, OpenPrefix
        <5>4. QED
            BY <5>2, <5>3
      <4>3. Open
        <5>1. i - 1 = Len(events)
            BY <1>0, <3>5
        <5>2. QED
            BY <4>2, <5>1 DEF Open, OpenAfter
      <4>4. slot.run \notin Known
        <5>1. CASE slot.held
            BY <1>0, <4>3, <5>1
        <5>2. CASE Settles
            <6>1. ~slot.held
                BY <5>2 DEF Settles
            <6>2. ~slot.done
                BY <4>3, <6>1 DEF RowHolds
            <6>3. QED
                BY <6>2 DEF KnownHold
        <5>3. QED
            BY <3>3, <5>1, <5>2
      <4>5. QED
        BY <3>1, <4>1, <4>4
    <3>6. QED
        BY <3>2, <3>4, <3>5
  <2>5. QED
    BY <2>2, <2>3, <2>4, SentKinds
<1>3. QED
    BY <1>2 DEF AnswersNew

\* With an end held and kept, the row is not opened, and nobody reports it.
LEMMA HeldKinds ==
    ASSUME TypeOK, SlotHolds, Next, slot.held, slot'.held
    PROVE  Stops \/ Folds \/ (Calm /\ ~OnAgentMessage)
<1>1. ~slot.busy /\ thread = "none" /\ slot.done
    BY DEF SlotHolds
<1>2. Stops \/ Folds \/ Calm
    BY <1>1, Kinds DEF Reads, RunEnds, Settles, Begins, Kills, Releases
<1>3. QED
    BY <1>2, FoldsKind

LEMMA HeldOpen ==
    ASSUME TypeOK, SlotHolds, RowHolds, Next, slot.held, slot'.held, ~Stops
    PROVE  Open' <=> Open
<1>1. ~slot.busy /\ ~Draining
    BY DEF SlotHolds, RowHolds
<1>2. CASE Folds
    BY <1>2, FoldsOpen
<1>3. CASE Calm /\ ~OnAgentMessage
  <2>1. UNCHANGED events /\ ~Folds
    BY <1>3 DEF Calm, Folds
  <2>2. QED
    BY <1>1, <2>1, OpenSteps
<1>4. QED
    BY <1>2, <1>3, HeldKinds

LEMMA HeldNewStep ==
    ASSUME TypeOK, SlotHolds, CallsHold, SentHold, NumbersHold, KnownHold, RowHolds, OneWait, NewsHold, Next,
           "wait" \notin Late, slot'.held, Open'
    PROVE  slot'.run \notin (Known \cup Reported)'
<1>0. ~Stops /\ slot'.run = slot.run /\ (slot.held \/ (Settles /\ slot.busy))
  <2>1. ~Stops
    BY StopCloses
  <2>2. slot'.held => slot'.run = slot.run /\ (slot.held \/ (Settles /\ slot.busy))
    BY EndedGrow
  <2>3. QED
    BY <2>1, <2>2
<1>1. CASE slot.held
  <2>1. slot.run \notin Known \cup Reported
    BY <1>0, <1>1, HeldOpen DEF NewsHold
  <2>2. Reported' \subseteq Reported
    BY <1>1, ReportsStep
  <2>3. ~Kills
    BY <1>1 DEF Kills, SlotHolds
  <2>4. slot.run \notin Known'
    BY <1>0, <1>1, <2>1, <2>3, NewlyKnown
  <2>5. QED
    BY <1>0, <2>1, <2>2, <2>4
<1>2. CASE Settles /\ ~slot.held
  <2>1. UNCHANGED <<events, roster, lead, told, waived>>
    BY <1>2 DEF Settles, Hushed
  <2>2. Open
    BY <2>1 DEF Open, OpenAfter
  <2>3. ~slot.done
    BY <1>2, <2>2 DEF RowHolds
  <2>4. slot.run \notin Known \cup Reported
    <3>1. slot.run \in Nat
        BY EndedGrow, RunsAreNumbers
    <3>2. QED
        BY <2>3, <3>1 DEF KnownHold, CallsHold
  <2>5. Known' = Known /\ Reported' = Reported
    BY <2>1 DEF Known, Reported
  <2>6. QED
    BY <1>0, <2>4, <2>5
<1>3. QED
    BY <1>0, <1>1, <1>2

LEMMA NewsStep ==
    ASSUME TypeOK, SlotHolds, CallsHold, SentHold, NumbersHold, KnownHold, RowHolds, OneWait, NewsHold, Next,
           "wait" \notin Late
    PROVE  NewsHold'
<1>1. slot'.held /\ Open' => slot'.run \notin (Known \cup Reported)'
    BY HeldNewStep
<1>2. AnswersNew' /\ NotesNew' /\ {"answer", "resume"} \cap stale' = {}
    BY AnswersNewStep, NotesNewStep, StaleStep
<1>3. QED
    BY <1>1, <1>2 DEF NewsHold, AnswersNew, NotesNew

-----------------------------------------------------------------------------
(* Nothing is lost.                                                        *)

\* A row the user stopped, its agent over: every run there was is excused.
LEMMA StoppedKnown ==
    ASSUME TypeOK, SlotHolds, KnownHold, RowHolds, StoppedFits, roster.stopped,
           slot.done \/ ~slot.busy \/ ~Draining
    PROVE  (slot.done \/ slot.run \in mute) /\ 0 .. slot.run \subseteq Excused
<1>1. (slot.killed /\ slot.done) \/ slot.run \in mute
  BY DEF StoppedFits, RowHolds, SlotHolds
<1>2. slot.run \in Nat
  BY TypeParts, RunsAreNumbers DEF ThreadTypes, Slot
<1>3. slot.run \in Excused /\ 0 .. slot.run - 1 \subseteq Excused
  BY <1>1 DEF StoppedFits, KnownHold, Excused
<1>4. QED
  BY <1>1, <1>2, <1>3

LEMMA FoldedStops ==
    ASSUME NEW row \in Row, NEW e, Folded(row, e).stopped
    PROVE  row.stopped
BY DEF Folded, Row, Reopened

LEMMA ExcusedGrow ==
    ASSUME TypeOK, SlotHolds, CallsHold, SentHold, NumbersHold, KnownHold, Next
    PROVE  mute \subseteq mute' /\ Known \subseteq Known' /\ Excused \subseteq Excused'
BY KnownGrow, MuteStep DEF Excused

LEMMA StoppedStep ==
    ASSUME TypeOK, SlotHolds, CallsHold, SentHold, NumbersHold, KnownHold, RowHolds, StoppedFits,
           "drain" \notin Late, Next
    PROVE  StoppedFits'
<1>0. /\ roster \in Row /\ Excused \subseteq Excused' /\ mute \subseteq mute' /\ slot.run \in Nat
      /\ roster.stopped => Final
  BY TypeParts, ExcusedGrow, EndedGrow, RunsAreNumbers DEF RowTypes, KnownHold
<1>1. CASE Stops
  <2>1. slot'.byUser /\ slot'.run = slot.run
    BY <1>1 DEF Stops
  <2>2. 0 .. slot.run \subseteq Excused'
    BY <1>1 DEF Stops, Known, Excused
  <2>3. 0 .. slot.run - 1 \subseteq 0 .. slot.run
    BY <1>0
  <2>4. QED
    BY <2>1, <2>2, <2>3 DEF StoppedFits
<1>2. CASE Begins
  <2>1. ~slot.busy /\ UNCHANGED roster /\ slot'.run = slot.run + 1
    BY <1>2 DEF Begins, Hushed
  <2>2. roster.stopped => 0 .. slot.run \subseteq Excused
    BY <2>1, StoppedKnown
  <2>3. roster.stopped => Draining' \/ slot'.run \in mute'
    BY <1>2 DEF Begins, Draining
  <2>4. slot'.run - 1 = slot.run
    BY <1>0, <2>1
  <2>5. QED
    BY <1>0, <2>1, <2>2, <2>3, <2>4 DEF StoppedFits
<1>3. CASE Kills
  <2>1. ~slot.done /\ UNCHANGED roster /\ ~Draining /\ slot'.run = slot.run
    BY <1>3 DEF Kills, DrainInTime, Draining
  <2>2. roster.stopped => slot.run \in mute /\ 0 .. slot.run - 1 \subseteq Excused
    BY <2>1, StoppedKnown DEF StoppedFits
  <2>3. QED
    BY <1>0, <2>1, <2>2 DEF StoppedFits
<1>4. CASE Calm /\ loop.pc = "drain" /\ loop'.pc = "ready"
  <2>1. ~roster'.stopped \/ UNCHANGED roster
    BY <1>4 DEF Calm, Reopened
  <2>2. roster' = IF Final THEN Reopened ELSE roster
    BY <1>4 DEF Calm
  <2>3. ~roster'.stopped
    BY <1>0, <2>2 DEF Reopened
  <2>4. QED
    BY <2>3 DEF StoppedFits
<1>5. ASSUME \/ Reads \/ RunEnds \/ Settles \/ Folds \/ (Calm /\ ~(loop.pc = "drain" /\ loop'.pc = "ready"))
             \/ \E t \in Turns : Releases(t)
      PROVE  /\ slot'.byUser = slot.byUser /\ slot'.run = slot.run
             /\ Draining' <=> Draining
             /\ UNCHANGED roster \/ roster' = Folded(roster, Head(events))
  BY <1>5 DEF Reads, RunEnds, Settles, Folds, Calm, Releases, SameRun, Hushed, Draining, rowVars
<1>6. ASSUME \/ Reads \/ RunEnds \/ Settles \/ Folds \/ (Calm /\ ~(loop.pc = "drain" /\ loop'.pc = "ready"))
             \/ \E t \in Turns : Releases(t)
      PROVE  StoppedFits'
  <2>1. roster'.stopped => roster.stopped
    BY <1>0, <1>5, <1>6, FoldedStops
  <2>2. slot'.byUser = slot.byUser /\ slot'.run = slot.run /\ (Draining' <=> Draining)
    BY <1>5, <1>6
  <2>3. QED
    BY <1>0, <2>1, <2>2 DEF StoppedFits
<1>7. QED
  BY <1>1, <1>2, <1>3, <1>4, <1>6, Kinds

LEMMA RunStep ==
    ASSUME TypeOK, SlotHolds, KnownHold, RowHolds, StoppedFits, RunFits, Next
    PROVE  RunFits'
<1>0. events \in Seq(Sent) /\ Len(events) \in Nat /\ (roster.stopped => Final) /\ mute \subseteq mute'
  BY TypeParts, LenProperties, MuteStep DEF KnownHold
<1>1. CASE Reads
  <2> SUFFICES ASSUME ~Draining', ~slot'.done, slot'.run \notin mute' PROVE Open'
    BY DEF RunFits
  <2>1. /\ ~Draining /\ ~slot.done /\ thread \in {"start", "run"} /\ UNCHANGED roster
        /\ slot.run \notin mute
    BY <1>0, <1>1 DEF Reads, Draining, Hushed, SameRun
  <2>2. ~roster.stopped
    BY <2>1, StoppedKnown
  <2>3. /\ Len(events') \in Nat /\ Len(events) <= Len(events')
        /\ \A i \in 1 .. Len(events) : events'[i] = events[i]
        /\ \A i \in Len(events) + 1 .. Len(events') : events'[i].type = "Steered"
        /\ slot.inputs # <<>> => Len(events') > Len(events)
    BY <1>1 DEF Reads, NoEndSent, Grows
  <2>4. \A i \in Len(events) + 1 .. Len(events') : Opens(events'[i]) /\ ~Closes(events'[i])
    BY <2>3 DEF Opens, Closes
  <2>5. Open \/ slot.inputs # <<>>
    BY <2>1 DEF RunFits
  <2>6. Open => OpenIn(roster, events', Len(events))
    <3>1. OpenIn(roster, events, Len(events)) <=> OpenIn(roster, events', Len(events))
        BY <1>0, <2>3, OpenPrefix
    <3>2. QED
        BY <3>1 DEF Open, OpenAfter
  <2>7. slot.inputs # <<>> => Len(events) + 1 \in Len(events) + 1 .. Len(events')
    BY <1>0, <2>3
  <2>8. OpenIn(roster, events', Len(events'))
    BY <1>0, <2>2, <2>3, <2>4, <2>5, <2>6, <2>7, OpenGrows
  <2>9. QED
    BY <2>1, <2>8 DEF Open, OpenAfter
<1>2. CASE RunEnds
  <2>1. UNCHANGED <<slot, events, roster, loop>> /\ (thread' = "ended" => thread = "run") /\ thread' # "start"
        /\ thread' # "run"
    BY <1>2 DEF RunEnds, rowVars
  <2>2. (Open' <=> Open) /\ (Draining' <=> Draining)
    BY <2>1 DEF Open, OpenAfter, Draining
  <2>3. QED
    BY <1>0, <2>1, <2>2 DEF RunFits
<1>3. CASE Begins
  <2>1. thread' = "start" /\ (Draining' \/ slot'.inputs # <<>> \/ slot'.run \in mute')
    BY <1>3 DEF Begins, Draining
  <2>2. QED
    BY <2>1 DEF RunFits
<1>4. CASE Settles
  <2>1. thread' = "none"
    BY <1>4 DEF Settles
  <2>2. QED
    BY <2>1 DEF RunFits
<1>5. CASE Kills \/ Stops
  <2>1. slot'.done
    BY <1>5 DEF Kills, Stops
  <2>2. QED
    BY <2>1 DEF RunFits
<1>6. CASE \E t \in Turns : Releases(t)
  <2>1. thread' = "none"
    BY <1>6 DEF Releases, SlotHolds
  <2>2. QED
    BY <2>1 DEF RunFits
<1>7. CASE Folds
  <2>1. /\ UNCHANGED <<thread, loop>> /\ slot'.done = slot.done /\ slot'.inputs = slot.inputs
        /\ slot'.run = slot.run
    BY <1>7 DEF Folds, SameRun
  <2>2. Open' <=> Open
    BY <1>7, FoldsOpen
  <2>3. QED
    BY <1>0, <2>1, <2>2 DEF RunFits, Draining
<1>8. CASE Calm /\ UNCHANGED roster /\ (loop'.pc = "drain" <=> loop.pc = "drain")
  <2>1. /\ UNCHANGED <<thread, events>> /\ slot'.done = slot.done /\ slot'.run = slot.run
        /\ slot.inputs # <<>> => slot'.inputs # <<>>
    BY <1>8 DEF Calm, SameRun
  <2>2. (Open' <=> Open) /\ (Draining' <=> Draining)
    BY <1>8, <2>1 DEF Open, OpenAfter, Draining
  <2>3. QED
    BY <1>0, <2>1, <2>2 DEF RunFits
<1>9. CASE Calm /\ events = <<>> /\ roster' = IF Final THEN Reopened ELSE roster
  <2>1. events' = <<>> /\ Len(events') = 0
    BY <1>9 DEF Calm
  <2>2. ~roster'.stopped /\ roster'.status # "final"
    BY <1>0, <1>9 DEF Reopened, Final
  <2>3. OpenIn(roster', events', 0)
    BY <2>2, OpenZero
  <2>4. Open'
    BY <2>1, <2>3 DEF Open, OpenAfter
  <2>5. QED
    BY <2>4 DEF RunFits
<1>10. Calm => \/ UNCHANGED roster /\ (loop'.pc = "drain" <=> loop.pc = "drain")
               \/ events = <<>> /\ roster' = IF Final THEN Reopened ELSE roster
  BY DEF Calm
<1>11. QED
  BY <1>1, <1>2, <1>3, <1>4, <1>5, <1>6, <1>7, <1>8, <1>9, <1>10, Kinds

\* The last run's end, held or about to be settled: unless the run is excused, its row is open.
LEMMA EndOpen ==
    ASSUME TypeOK, SlotHolds, KnownHold, RowHolds, RunFits, HeldFits, "drain" \notin Late,
           slot.held \/ (Settles /\ thread = "ended"), slot.run \notin Excused
    PROVE  Open
<1>1. CASE slot.held
  BY <1>1 DEF HeldFits
<1>2. CASE Settles /\ thread = "ended"
  <2>1. ~Draining /\ slot.busy
    BY <1>2 DEF Settles, DrainInTime, Draining
  <2>2. ~slot.done /\ slot.run \notin mute
    BY <2>1 DEF SlotHolds, KnownHold, Excused
  <2>3. QED
    BY <1>2, <2>1, <2>2 DEF RunFits
<1>3. QED
  BY <1>1, <1>2

LEMMA HeldStep ==
    ASSUME TypeOK, SlotHolds, CallsHold, SentHold, NumbersHold, KnownHold, RowHolds, RunFits, HeldFits,
           "drain" \notin Late, Next
    PROVE  HeldFits'
<1> SUFFICES ASSUME slot'.held, slot'.run \notin Excused' PROVE Open'
  BY DEF HeldFits
<1>1. slot'.held => slot'.run = slot.run /\ (slot.held \/ (Settles /\ slot.busy))
  BY EndedGrow
<1>2. Excused \subseteq Excused' /\ slot.run \in Nat /\ slot.run \in Runs
  BY ExcusedGrow, EndedGrow, RunsAreNumbers
<1>3. ~Stops
  <2>1. Stops => slot.run \in Excused'
    BY <1>2 DEF Stops, Known, Excused
  <2>2. QED
    BY <1>1, <2>1
<1>4. slot.run \notin Excused
  BY <1>1, <1>2
<1>5. CASE slot.held
  <2>1. Open
    BY <1>4, <1>5 DEF HeldFits
  <2>2. QED
    BY <1>3, <1>5, <2>1, HeldOpen
<1>6. CASE Settles /\ ~slot.held
  <2>1. UNCHANGED <<events, roster>> /\ thread = "ended"
    BY <1>6 DEF Settles, Hushed
  <2>2. Open
    BY <1>4, <1>6, <2>1, EndOpen
  <2>3. QED
    BY <2>1, <2>2 DEF Open, OpenAfter
<1>7. QED
  BY <1>1, <1>5, <1>6

\* The row after the events there are, once more were sent.
LEMMA OpenKept ==
    ASSUME TypeOK, SlotHolds, Next, ~Folds, ~Stops, NEW i \in DOMAIN events, OpenAfter(i - 1)
    PROVE  OpenAfter(i - 1)'
<1>1. Len(events) \in Nat /\ DOMAIN events = 1 .. Len(events)
  BY TypeParts, LenProperties
<1>2. i - 1 \in 0 .. Len(events) /\ events # <<>>
  BY <1>1
<1>3. QED
  BY <1>2, OpenSteps

LEMMA AnswersStep ==
    ASSUME TypeOK, SlotHolds, CallsHold, SentHold, NumbersHold, KnownHold, RowHolds, RunFits, HeldFits,
           AnswersFit, "drain" \notin Late, Next
    PROVE  AnswersFit'
<1>0. /\ events \in Seq(Sent) /\ Len(events) \in Nat /\ DOMAIN events = 1 .. Len(events)
      /\ Excused \subseteq Excused' /\ slot.run \in Nat /\ slot.run \in Runs
  BY TypeParts, LenProperties, ExcusedGrow, EndedGrow, RunsAreNumbers
<1>1. ASSUME NEW i \in DOMAIN events, NEW r \in slot.owed, IsEnd(events[i], r), r \notin Excused',
             ~Folds, ~Stops
      PROVE  OpenAfter(i - 1)'
  <2>1. OpenAfter(i - 1)
    BY <1>0, <1>1 DEF AnswersFit
  <2>2. QED
    BY <1>1, <2>1, OpenKept
<1>2. ASSUME NEW i \in DOMAIN events', NEW r \in slot'.owed, IsEnd(events'[i], r), r \notin Excused'
      PROVE  OpenAfter(i - 1)'
  <2>1. ~Stops
    <3>1. ASSUME Stops PROVE FALSE
      <4>1. UNCHANGED events /\ slot'.owed = slot.owed
        BY <3>1 DEF Stops
      <4>2. r \in EndedRuns
        BY <1>2, <4>1 DEF SentHold, IsEnd
      <4>3. r \in 0 .. slot.run
        BY <1>0, <4>2 DEF EndedRuns
      <4>4. QED
        BY <1>2, <3>1, <4>3 DEF Stops, Known, Excused
    <3>2. QED
        BY <3>1
  <2>2. CASE Folds
    <3>1. PICK k \in DOMAIN events : /\ events'[i] = events[k]
                                     /\ OpenAfter(i - 1)' <=> OpenAfter(k - 1)
        BY <2>2, FoldsAt
    <3>2. r \in slot.owed /\ IsEnd(events[k], r) /\ r \notin Excused
        BY <1>0, <1>2, <2>2, <3>1 DEF Folds
    <3>3. OpenAfter(k - 1)
        BY <3>2 DEF AnswersFit
    <3>4. QED
        BY <3>1, <3>3
  <2>3. CASE NoEndSent /\ ~OnAgentMessage
    <3>1. i \in DOMAIN events /\ events'[i] = events[i]
      <4>1. i \in 1 .. Len(events')
        BY <1>2, <2>3, LenProperties DEF NoEndSent, Grows
      <4>2. i \in 1 .. Len(events) \/ i \in Len(events) + 1 .. Len(events')
        BY <1>0, <4>1
      <4>3. i \in 1 .. Len(events)
        BY <1>2, <2>3, <4>2 DEF NoEndSent, IsEnd
      <4>4. QED
        BY <1>0, <2>3, <4>3 DEF NoEndSent, Grows
    <3>2. r \in slot.owed /\ ~Folds
        BY <1>2, <2>3 DEF NoEndSent, Folds
    <3>3. IsEnd(events[i], r)
        BY <1>2, <3>1
    <3>4. QED
        BY <1>1, <1>2, <2>1, <3>1, <3>2, <3>3
  <2>4. CASE EndSent /\ Hushed /\ ~OnAgentMessage
    <3>1. UNCHANGED roster /\ ~Folds
        BY <2>4 DEF Hushed, Folds
    <3>2. (i \in DOMAIN events /\ events'[i] = events[i]) \/ i = Len(events) + 1
      <4>1. i \in 1 .. Len(events')
        BY <1>2, <2>4, LenProperties DEF EndSent, Grows
      <4>2. i \in 1 .. Len(events) \/ i = Len(events) + 1 \/ i \in Len(events) + 2 .. Len(events')
        BY <1>0, <4>1
      <4>3. i \in 1 .. Len(events) \/ i = Len(events) + 1
        BY <1>2, <2>4, <4>2 DEF EndSent, IsEnd
      <4>4. QED
        BY <1>0, <2>4, <4>3 DEF EndSent, Grows
    <3>3. slot.held \/ (slot.busy /\ Settles /\ thread = "ended")
        BY <2>4, SettlesKind DEF EndSent, SlotHolds
    <3>4. CASE i \in DOMAIN events /\ events'[i] = events[i]
      <4>1. r \in EndedRuns /\ (slot.held => r # slot.run)
        BY <1>2, <3>4 DEF SentHold, IsEnd
      <4>2. r # slot.run
        BY <3>3, <4>1, EndedGrow
      <4>3. r \in slot.owed
        BY <1>2, <2>4, <4>2 DEF EndSent
      <4>4. IsEnd(events[i], r)
        BY <1>2, <3>4
      <4>5. QED
        BY <1>1, <1>2, <2>1, <3>1, <3>4, <4>3, <4>4
    <3>5. CASE i = Len(events) + 1
      <4>1. r = slot.run
        BY <1>2, <2>4, <3>5 DEF EndSent, IsEnd
      <4>2. OpenIn(roster, events, Len(events))
        BY <1>0, <1>2, <3>3, <4>1, EndOpen DEF Open, OpenAfter
      <4>3. i - 1 \in Nat /\ i - 1 = Len(events) /\ \A j \in 1 .. i - 1 : events'[j] = events[j]
        BY <1>0, <2>4, <3>5 DEF EndSent, Grows
      <4>4. OpenIn(roster, events', i - 1) <=> OpenIn(roster, events, i - 1)
        BY <4>3, OpenPrefix
      <4>5. OpenIn(roster, events', i - 1)
        BY <4>2, <4>3, <4>4
      <4>6. QED
        BY <3>1, <4>5 DEF OpenAfter
    <3>6. QED
        BY <3>2, <3>4, <3>5
  <2>5. QED
    BY <2>2, <2>3, <2>4, SentKinds
<1>3. QED
  BY <1>2 DEF AnswersFit

\* An end is observed by the call that then reports it.
LEMMA NewlyObserved ==
    ASSUME TypeOK, SlotHolds, Next, slot'.observed, ~slot.observed
    PROVE  slot'.held /\ slot'.run = slot.run /\ slot.run \in Reported'
<1>0. 1 \in Turns /\ slot \in Slot /\ lead \in [Turns -> Call]
  BY TypeParts, RunsAreNumbers DEF ThreadTypes, LeadTypes
<1>1. \E t \in Turns : BeginWait(t) \/ EndWait(t)
  <2>1. CASE LeadStep
    <3>1. PICK t \in Turns : \/ TakeBoard(t) \/ AgentOutput(t) \/ BeginWait(t) \/ EndWait(t)
                             \/ Report(t) \/ AgentKill(t) \/ AgentSend(t)
        BY <2>1 DEF LeadStep
    <3>2. QED
        BY <3>1, WaitSameSteps DEF WaitSame
  <2>2. CASE ~LeadStep
    BY <1>0, <2>2, WaitSameSteps DEF WaitSame
  <2>3. QED
    BY <2>1, <2>2
<1>2. PICK t \in Turns : BeginWait(t) \/ EndWait(t)
  BY <1>1
<1>3. EndWait(t)
  BY <1>0, <1>2 DEF BeginWait, Slot
<1>4. /\ ~Interrupted(t) /\ slot.held /\ slot'.held /\ slot'.run = slot.run
      /\ ~Running(slot) => lead' = [lead EXCEPT ![t] = Reporting]
  BY <1>0, <1>3 DEF EndWait, Slot
<1>5. ~Running(slot)
  BY <1>4 DEF Running, SlotHolds
<1>6. lead'[t] = Reporting
  BY <1>0, <1>4, <1>5
<1>7. QED
  BY <1>4, <1>6 DEF Reported, Reporting

LEMMA ObservedStep ==
    ASSUME TypeOK, SlotHolds, CallsHold, SentHold, NumbersHold, KnownHold, ObservedFits, Next
    PROVE  ObservedFits'
<1> SUFFICES ASSUME slot'.observed PROVE slot'.held /\ slot'.run \in (Known \cup Reported)'
  BY DEF ObservedFits
<1>1. CASE ~slot.observed
  BY <1>1, NewlyObserved
<1>2. CASE slot.observed
  <2>1. slot.held /\ slot.run \in Known \cup Reported
    BY <1>2 DEF ObservedFits
  <2>2. slot'.held = slot.held /\ slot'.run = slot.run
    BY <2>1, Kinds DEF Reads, RunEnds, Settles, Begins, Kills, Stops, Folds, Calm, Releases, SameRun
  <2>3. Known \subseteq Known' /\ Reported \subseteq Reported' \cup Known'
    BY KnownGrow, ReportsStep DEF Known
  <2>4. QED
    BY <2>1, <2>2, <2>3
<1>3. QED
  BY <1>1, <1>2

LEMMA EndsOnBoard == EndRuns(board) = EndsIn(Pending) /\ EndRuns(board') = EndsIn(Pending')
BY DEF EndRuns, EndsIn, Pending

\* An end posted stays on the board until it is told.
LEMMA EndsKept ==
    ASSUME TypeOK, SlotHolds, NumbersHold, Next
    PROVE  EndRuns(board) \subseteq EndRuns(board') \cup told'
<1>0. NotesOk /\ NoteTypes /\ HeardTypes /\ Pending \subseteq Notes /\ board \in Seq(Notes)
  <2>1. NoteTypes /\ NotesOk /\ HeardTypes
    BY TypeParts DEF NotesOk
  <2>2. QED
    BY <2>1, NoteOf DEF NoteTypes, Pending
<1>1. ASSUME NEW m \in Pending, m.kind = "end", m \notin Pending' PROVE m.run \in told'
  <2>1. CASE UNCHANGED <<board, told, stale>>
    BY <1>1, <2>1 DEF Pending
  <2>2. ASSUME NEW t \in Turns, Report(t) PROVE m.run \in told'
    <3> DEFINE S == {note \in Pending : \/ note.kind = "end" /\ note.run <= lead[t].run
                                        \/ ResumeNote(note) /\ slot.done}
    <3>1. /\ told' = told \cup {lead[t].run} \cup {r \in EndRuns(board) : r < lead[t].run}
          /\ board' = Without(board, S)
        BY <2>2 DEF Report, Retract, Pending
    <3>2. Pending' = Pending \ S
        BY <1>0, <3>1, WithoutFacts DEF Pending
    <3>3. m.run <= lead[t].run
        BY <1>1, <3>2 DEF ResumeNote
    <3>4. m.run \in EndRuns(board) /\ m.run \in Nat /\ lead[t].run \in Nat
        <4>1. lead[t].run \in Runs /\ m.run \in Runs
            BY <1>0, <2>2, TypeParts DEF LeadTypes, Call, Notes
        <4>2. QED
            BY <1>1, <4>1, EndsOnBoard, RunsAreNumbers DEF EndsIn
    <3>5. m.run = lead[t].run \/ m.run < lead[t].run
        BY <3>3, <3>4
    <3>6. QED
        BY <3>1, <3>4, <3>5
  <2>3. ASSUME NEW t \in Turns, AgentKill(t) PROVE FALSE
    <3>1. board' = Without(board, {note \in Pending : ResumeNote(note)})
        BY <2>3 DEF AgentKill, Retract, Pending
    <3>2. Pending' = Pending \ {note \in Pending : ResumeNote(note)}
        BY <1>0, <3>1, WithoutFacts DEF Pending
    <3>3. QED
        BY <1>1, <3>2 DEF ResumeNote
  <2>4. ASSUME NEW N \in SUBSET Notes, m \in N, AllRead(N), Folds \/ Calm PROVE m.run \in told'
    <3>1. UNCHANGED waived
        BY <2>4 DEF Folds, Calm
    <3>2. told' = told \cup EndsIn(N)
        BY <1>0, <2>4, <3>1, ReadTypes
    <3>3. QED
        BY <1>1, <2>4, <3>2 DEF EndsIn
  <2>5. ASSUME NEW note, NoteComes(note), Folds \/ Calm PROVE m.run \in told'
    <3>1. CASE Posted(note)
        <4>1. Pending' = Pending \cup {note}
            BY <1>0, <2>5, <3>1, AppendFacts DEF Posted, NoteComes, Pending
        <4>2. QED
            BY <1>1, <4>1
    <3>2. CASE AllRead(Pending \cup {note})
        <4>1. Pending \cup {note} \in SUBSET Notes /\ m \in Pending \cup {note}
            BY <1>0, <1>1, <2>5 DEF NoteComes
        <4>2. QED
            BY <2>4, <2>5, <3>2, <4>1
    <3>3. QED
        BY <2>5, <3>1, <3>2 DEF NoteComes
  <2>6. CASE (Folds \/ Calm) /\ AllRead(Pending)
    BY <1>0, <1>1, <2>4, <2>6
  <2>7. QED
    BY <2>1, <2>2, <2>3, <2>5, <2>6, NotesEffect DEF NotesLeft
<1>2. QED
  BY <1>1, EndsOnBoard DEF EndsIn

\* A notice owed is given up for a report, or as the end it is of is read.
LEMMA OwedKept ==
    ASSUME TypeOK, SlotHolds, Next, NEW r \in slot.owed, r \notin slot'.owed
    PROVE  \/ r \in told'
           \/ OnAgentMessage /\ Head(events).type = "Settled" /\ ~Head(events).flag /\ Head(events).run = r
<1>0. slot \in Slot /\ Len(events) \in Nat
  BY TypeParts, LenProperties DEF ThreadTypes
<1>1. Calm \/ Folds
  <2>1. ~RunEnds
    BY DEF RunEnds
  <2>2. QED
    BY <2>1, Kinds DEF Reads, Settles, Begins, Kills, Stops, Releases, EndSent
<1>2. CASE Folds
  BY <1>2 DEF Folds
<1>3. CASE Calm /\ ~OnAgentMessage
  <2>1. ~(CanContinue /\ thread' = "start")
    BY <1>3 DEF Calm, CanContinue, SlotHolds
  <2>2. ~AgentStep
    <3>1. ~Settle
        BY <1>3, SettlesKind DEF Settles, Calm
    <3>2. ~ReadInputs
        BY <1>0 DEF ReadInputs, Slot
    <3>3. ~RunEnds /\ ~\E x \in Runs : WindowLooks(x)
        BY DEF RunEnds, WindowLooks
    <3>4. ~\E x \in Runs : WindowContinues(x)
        BY <2>1 DEF WindowContinues, BeginContinuation
    <3>5. QED
        BY <3>1, <3>2, <3>3, <3>4 DEF AgentStep
  <2>3. ~LoopStep
    <3>1. ~AgentChat /\ ~StopAgent
        BY <1>0 DEF AgentChat, StopAgent, Slot
    <3>2. ~ChatContinues
        BY <2>1 DEF ChatContinues, BeginContinuation
    <3>3. QED
        BY <1>3, <3>1, <3>2 DEF LoopStep, Submit, TurnEnds, StopPosts, ChatStarted
  <2>4. PICK t \in Turns : TakeBoard(t) \/ AgentOutput(t) \/ BeginWait(t) \/ EndWait(t)
                           \/ Report(t) \/ AgentKill(t) \/ AgentSend(t)
    BY <2>2, <2>3 DEF Next, LeadStep
  <2>5. ~TakeBoard(t) /\ ~AgentOutput(t)
    BY DEF TakeBoard, AgentOutput
  <2>6. ~BeginWait(t) /\ ~EndWait(t)
    <3>1. ~BeginWait(t)
        BY <1>0 DEF BeginWait, Slot
    <3>2. ASSUME EndWait(t) PROVE FALSE
      <4> DEFINE s == [slot EXCEPT !.waiters = @ - 1, !.observed = @ \/ (~Interrupted(t) /\ slot.held)]
      <4>1. s.owed = slot.owed /\ s.held = slot.held
        BY <1>0 DEF Slot
      <4>2. slot' = s \/ (slot.held /\ ~slot'.held)
        BY <1>0, <3>2, <4>1 DEF EndWait, Slot
      <4>3. slot'.held = slot.held
        BY <1>3 DEF Calm
      <4>4. QED
        BY <4>1, <4>2, <4>3
    <3>3. QED
        BY <3>1, <3>2
  <2>7. ~AgentKill(t)
    BY <1>0 DEF AgentKill, Slot
  <2>8. ~AgentSend(t)
    <3>1. [slot EXCEPT !.inputs = Append(@, "lead")].owed = slot.owed
        BY <1>0 DEF Slot
    <3>2. QED
        BY <2>1, <3>1 DEF AgentSend, BeginContinuation
  <2>9. Report(t)
    BY <2>4, <2>5, <2>6, <2>7, <2>8
  <2>10. r = lead[t].run /\ r \in told'
    BY <1>0, <2>9 DEF Report, Slot
  <2>11. QED
    BY <2>10
<1>4. QED
  BY <1>1, <1>2, <1>3, FoldsKind

\* The answer of a run not excused is posted, or read, as its event is.
LEMMA AnswerComes ==
    ASSUME TypeOK, SlotHolds, NumbersHold, KnownHold, AnswersFit, OnAgentMessage,
           Head(events).type = "Settled", ~Head(events).flag, NEW r \in slot.owed, Head(events).run = r,
           r \notin Excused
    PROVE  r \in EndRuns(board') \cup told'
<1>0. /\ NoteTypes /\ HeardTypes /\ events \in Seq(Sent) /\ board \in Seq(Notes)
      /\ Pending \subseteq Notes
  <2>1. NoteTypes /\ HeardTypes /\ events \in Seq(Sent)
    BY TypeParts
  <2>2. QED
    BY <2>1, NoteOf DEF NoteTypes, Pending
<1>1. events # <<>> /\ FoldSettled(Head(events)) /\ UNCHANGED waived
  BY DEF OnAgentMessage
<1>2. Head(events) = events[1] /\ 1 \in DOMAIN events /\ r \in Runs
  BY <1>0, <1>1, HeadSent DEF Sent
<1>3. OpenAfter(1 - 1) /\ 1 - 1 = 0
  BY <1>2 DEF AnswersFit, IsEnd
<1>4. ~Final
  BY <1>3, OpenNow
<1>5. PostFrom("end", r, "answer")
  BY <1>1, <1>4 DEF FoldSettled
<1> DEFINE note == NewNote("end", r, "answer")
<1>6. note \in Notes /\ (Posted(note) \/ AllRead(Pending \cup {note}))
  BY <1>0, <1>2, <1>5, PostEffect
<1>7. note.kind = "end" /\ note.run = r
  BY DEF NewNote
<1> HIDE DEF note
<1>8. CASE Posted(note)
  <2>1. Pending' = Pending \cup {note}
    BY <1>0, <1>6, <1>8, AppendFacts DEF Posted, Pending
  <2>2. QED
    BY <1>7, <2>1, EndsOnBoard DEF EndsIn
<1>9. CASE AllRead(Pending \cup {note})
  <2>1. told' = told \cup EndsIn(Pending \cup {note})
    BY <1>0, <1>1, <1>6, <1>9, ReadTypes
  <2>2. QED
    BY <1>7, <2>1 DEF EndsIn
<1>10. QED
  BY <1>6, <1>8, <1>9

\* A run newly over was held, is owed a notice, or was stopped.
LEMMA NewlyEnded ==
    ASSUME TypeOK, SlotHolds, KnownHold, Next, NEW r \in EndedRuns', r \notin EndedRuns
    PROVE  \/ r \in Known \cup slot'.owed
           \/ slot'.held /\ r = slot'.run
<1>0. slot.run \in Nat
  BY EndedGrow, RunsAreNumbers
<1>1. Settles /\ slot'.run = slot.run
  <2>1. CASE Begins
    <3>1. ~slot.busy /\ slot'.busy /\ slot'.run - 1 = slot.run
        BY <1>0, <2>1 DEF Begins
    <3>2. QED
        BY <3>1 DEF EndedRuns
  <2>2. CASE Settles
    BY <2>2 DEF Settles, SameRun
  <2>3. CASE ~Begins /\ ~Settles
    <3>1. slot'.run = slot.run /\ slot'.busy = slot.busy
        BY <2>3, Kinds DEF Reads, RunEnds, Kills, Stops, Folds, Calm, Releases, SameRun
    <3>2. QED
        BY <3>1 DEF EndedRuns
  <2>4. QED
    BY <2>1, <2>2, <2>3
<1>2. r = slot.run
  BY <1>0, <1>1 DEF EndedRuns, Settles
<1>3. CASE thread = "reaped"
  BY <1>2, <1>3 DEF SlotHolds, KnownHold
<1>4. CASE slot'.held
  BY <1>1, <1>2, <1>4
<1>5. CASE thread = "ended" /\ ~slot'.held
  BY <1>1, <1>2, <1>5 DEF Settles, EndSent
<1>6. QED
  BY <1>1, <1>3, <1>4, <1>5 DEF Settles

LEMMA CoveredStep ==
    ASSUME TypeOK, SlotHolds, CallsHold, SentHold, NumbersHold, KnownHold, LostHold, Next,
           NEW r \in EndedRuns'
    PROVE  Covered(r)'
<1>0. /\ Excused \subseteq Excused' /\ EndRuns(board) \subseteq EndRuns(board') \cup told'
      /\ Reported \subseteq Reported' \cup told' /\ told' \subseteq Excused'
  BY ExcusedGrow, EndsKept, ReportsStep DEF Excused, Known
<1>1. CASE r \notin EndedRuns
  BY <1>0, <1>1, NewlyEnded DEF Covered, Excused
<1>2. CASE r \in Excused \cup EndRuns(board) \cup Reported
  BY <1>0, <1>2 DEF Covered
<1>3. CASE r \in slot.owed
  <2>1. CASE r \in slot'.owed
    BY <2>1 DEF Covered
  <2>2. CASE r \in told'
    BY <1>0, <2>2 DEF Covered
  <2>3. CASE /\ OnAgentMessage /\ Head(events).type = "Settled" /\ ~Head(events).flag
             /\ Head(events).run = r /\ r \notin Excused
    <3>1. r \in EndRuns(board') \cup told'
        BY <1>3, <2>3, AnswerComes DEF LostHold
    <3>2. QED
        BY <1>0, <3>1 DEF Covered
  <2>4. QED
    BY <1>2, <1>3, <2>1, <2>2, <2>3, OwedKept
<1>4. CASE slot.held /\ r = slot.run
  <2>1. CASE Begins
    BY <1>4, <2>1 DEF Begins, Covered
  <2>2. ASSUME NEW t \in Turns, Releases(t) PROVE Covered(r)'
    <3>1. CASE ~events'[Len(events) + 1].flag
        BY <1>4, <2>2, <3>1 DEF Releases, EndSent, Covered
    <3>2. CASE slot.observed
        BY <1>2, <1>4, <3>2 DEF LostHold, ObservedFits, Excused
    <3>3. CASE lead'[t] = Reporting
        BY <1>4, <3>3 DEF Reporting, Reported, Covered
    <3>4. QED
        BY <2>2, <3>1, <3>2, <3>3 DEF Releases
  <2>3. CASE ~Begins /\ ~\E t \in Turns : Releases(t)
    <3>1. slot'.held = slot.held /\ slot'.run = slot.run
        BY <1>4, <2>3, Kinds DEF Reads, RunEnds, Settles, Kills, Stops, Folds, Calm, SameRun
    <3>2. QED
        BY <1>4, <3>1 DEF Covered
  <2>4. QED
    BY <2>1, <2>2, <2>3
<1>5. QED
  BY <1>1, <1>2, <1>3, <1>4 DEF LostHold, Covered

LEMMA LostStep ==
    ASSUME TypeOK, SlotHolds, CallsHold, SentHold, NumbersHold, KnownHold, RowHolds, LostHold,
           "drain" \notin Late, Next
    PROVE  LostHold'
<1>1. StoppedFits /\ RunFits /\ HeldFits /\ AnswersFit /\ ObservedFits
  BY DEF LostHold
<1>2. StoppedFits' /\ RunFits'
  BY <1>1, StoppedStep, RunStep
<1>3. HeldFits' /\ AnswersFit' /\ ObservedFits'
  BY <1>1, HeldStep, AnswersStep, ObservedStep
<1>4. \A r \in EndedRuns' : Covered(r)'
  BY CoveredStep
<1>5. QED
  BY <1>2, <1>3, <1>4 DEF LostHold

-----------------------------------------------------------------------------
(* The invariant, and what it says.                                        *)

LEMMA NoticesInit ==
    ASSUME Init
    PROVE  NoticesInv
<1>0. 0 \in Runs /\ 1 \in Turns /\ MaxRuns \in Nat /\ MaxTurns \in Nat /\ MaxTexts \in Nat
  BY RunsAreNumbers, NoticeBoundsAssumption
<1>1. /\ slot.busy /\ ~slot.done /\ ~slot.killed /\ ~slot.byUser /\ slot.run = 0 /\ ~slot.stored
      /\ slot.waiters = 0 /\ ~slot.held /\ ~slot.observed /\ slot.owed = {} /\ slot.inputs = <<>>
      /\ thread = "start" /\ windows = [r \in Runs |-> "closed"] /\ cancelled = {} /\ mute = {}
      /\ events = <<>> /\ ~roster.stopped /\ roster.status = "running"
      /\ loop.pc = "ready" /\ board = <<>> /\ cells = <<>> /\ retracted = {} /\ posted = 0
      /\ lead = [t \in Turns |-> At(IF t = 1 THEN "loop" ELSE "gone")] /\ turn.n = 1
      /\ told = {} /\ waived = {} /\ stale = {}
  BY DEF Init, Reopened, Ready
<1>2. TypeOK
  <2>1. ThreadTypes
    <3>1. slot \in Slot
        BY <1>0 DEF Init, Slot
    <3>2. QED
        BY <1>1, <3>1 DEF ThreadTypes
  <2>2. RowTypes
    BY <1>0 DEF Init, RowTypes, Row, Place, Reopened, Ready
  <2>3. lead \in [Turns -> Call]
    BY <1>0, <1>1 DEF Call, At
  <2>4. LeadTypes
    BY <1>0, <2>3 DEF Init, LeadTypes
  <2>5. events \in Seq(Sent) /\ NoteTypes
    BY <1>1 DEF NoteTypes
  <2>6. texts \in 0 .. MaxTexts /\ HeardTypes
    BY <1>0 DEF Init, HeardTypes
  <2>7. QED
    BY <2>1, <2>2, <2>4, <2>5, <2>6, TypeParts
<1>3. SlotHolds
  BY <1>0, <1>1 DEF SlotHolds
<1>4. \A t \in Turns : lead[t].pc = IF t = 1 THEN "loop" ELSE "gone"
  BY <1>1 DEF At
<1>5. Known = {} /\ Excused = {} /\ Reported = {} /\ Pending = {} /\ ~Draining /\ EndedRuns = {}
  <2>1. EndedRuns = {}
    BY <1>1 DEF EndedRuns
  <2>2. Pending = {}
    BY <1>1, IncreasingEmpty DEF Pending
  <2>3. QED
    BY <1>1, <1>4, <2>1, <2>2 DEF Known, Excused, Reported, Draining
<1>6. CallsHold
  <2>1. {t \in Turns : lead[t].pc = "wait"} = {}
    BY <1>4
  <2>2. Cardinality({}) = 0
    BY FS_EmptySet
  <2>3. \A t \in Turns : t > turn.n => t # 1
    BY <1>1
  <2>4. QED
    BY <1>1, <1>4, <1>5, <2>1, <2>2, <2>3 DEF CallsHold
<1>7. SentHold
  BY <1>1 DEF SentHold
<1>8. NumbersHold
  BY <1>1, NumbersNone DEF NumbersHold
<1>9. KnownHold
  BY <1>1, <1>5 DEF KnownHold
<1>10. OneWait
  BY <1>1, <1>4 DEF OneWait
<1>11. Open
  <2>1. OpenIn(roster, events, 0) /\ Len(events) = 0
    BY <1>1, OpenZero
  <2>2. QED
    BY <2>1 DEF Open, OpenAfter
<1>12. RowHolds
  BY <1>1, <1>5 DEF RowHolds
<1>13. NewsHold
  BY <1>1, <1>5 DEF NewsHold
<1>14. LostHold
  BY <1>0, <1>1, <1>5, <1>11 DEF LostHold, StoppedFits, RunFits, HeldFits, AnswersFit, ObservedFits
<1>15. QED
  BY <1>2, <1>3, <1>6, <1>7, <1>8, <1>9, <1>10, <1>12, <1>13, <1>14 DEF NoticesInv

LEMMA NoticesStep ==
    ASSUME NoticesInv, Next
    PROVE  NoticesInv'
<1>1. TypeOK /\ SlotHolds /\ CallsHold /\ SentHold /\ NumbersHold /\ KnownHold
  BY DEF NoticesInv
<1>2. TypeOK' /\ SlotHolds' /\ CallsHold' /\ SentHold' /\ NumbersHold' /\ KnownHold'
  BY <1>1, TypesStep, SlotStep, SentStep, KnownStep
<1>3. "wait" \notin Late => OneWait'
  BY <1>1, OneWaitStep DEF NoticesInv
<1>4. "drain" \notin Late => RowHolds' /\ LostHold'
  BY <1>1, RowStep, LostStep DEF NoticesInv
<1>5. {"wait", "drain"} \cap Late = {} => NewsHold'
  BY <1>1, NewsStep DEF NoticesInv
<1>6. QED
  BY <1>2, <1>3, <1>4, <1>5 DEF NoticesInv

LEMMA NoticesStutter ==
    ASSUME NoticesInv, UNCHANGED vars
    PROVE  NoticesInv'
<1>1. UNCHANGED <<slot, thread, windows, cancelled, mute, events, roster, loop, board, retracted,
                  cells, posted, lead, turn, texts, told, waived, stale>>
  BY DEF vars
<1>2. TypeOK' <=> TypeOK
  BY <1>1 DEF TypeOK
<1>3. SlotHolds' <=> SlotHolds
  BY <1>1 DEF SlotHolds
<1>4. (CallsHold' <=> CallsHold) /\ (OneWait' <=> OneWait)
  BY <1>1 DEF CallsHold, OneWait, Reported
<1>5. (SentHold' <=> SentHold) /\ (NumbersHold' <=> NumbersHold)
  BY <1>1 DEF SentHold, NumbersHold, EndedRuns
<1>6. KnownHold' <=> KnownHold
  BY <1>1 DEF KnownHold, Known, Final, Pending, NoteFits, EndedRuns
<1>7. (Open' <=> Open) /\ \A n : OpenAfter(n)' <=> OpenAfter(n)
  BY <1>1 DEF Open, OpenAfter
<1>8. RowHolds' <=> RowHolds
  BY <1>1, <1>7 DEF RowHolds, Draining
<1>9. NewsHold' <=> NewsHold
  BY <1>1, <1>7 DEF NewsHold, Known, Reported, Pending, IsNews
<1>10. LostHold' <=> LostHold
  BY <1>1, <1>7 DEF LostHold, StoppedFits, RunFits, HeldFits, AnswersFit, ObservedFits, Covered,
                    Known, Excused, Reported, EndedRuns, Draining
<1>11. QED
  BY <1>2, <1>3, <1>4, <1>5, <1>6, <1>8, <1>9, <1>10 DEF NoticesInv

\* The invariant holds of every state, whichever delays may be outlasted.
THEOREM NoticesInvariant == Spec => []NoticesInv
<1>1. Init => NoticesInv
  BY NoticesInit
<1>2. NoticesInv /\ [Next]_vars => NoticesInv'
  BY NoticesStep, NoticesStutter
<1>3. QED
  BY <1>1, <1>2, PTL DEF Spec

\* Every variable keeps to its type: in particular the waiters are never more than the turns,
\* nor fewer than none, and no continuation passes the bound on runs.
THEOREM NoticeTypes == Spec => []TypeOK
<1>1. NoticesInv => TypeOK
  BY DEF NoticesInv
<1>2. QED
  BY <1>1, NoticesInvariant, PTL

LEMMA CellsFit ==
    ASSUME TypeOK, NumbersHold
    PROVE  CellsMatchBoard
<1>1. cells \in Seq(Notes)
  BY TypeParts DEF NoteTypes
<1>2. IsInjective(cells)
  BY <1>1, IncreasingApart DEF NumbersHold, NumbersIn
<1>3. \A note \in Range(cells) : note \in Range(board) \/ note.n \in retracted
  BY DEF NumbersHold, NumbersIn
<1>4. Range(board) \subseteq Range(cells) /\ \A n \in retracted : \E cell \in Range(cells) : cell.n = n
  BY DEF NumbersHold, NumbersIn
<1>5. QED
  BY <1>2, <1>3, <1>4 DEF CellsMatchBoard

\* A notice cell is held for each note pending and each note taken back, and for nothing else:
\* recorded when its note is read, it shows the user what the lead was told.  No delay breaks it.
THEOREM CellsAreOfNotes == Spec => []CellsMatchBoard
<1>1. NoticesInv => CellsMatchBoard
  BY CellsFit DEF NoticesInv
<1>2. QED
  BY <1>1, NoticesInvariant, PTL

LEMMA InputsHaveReaders ==
    ASSUME TypeOK, SlotHolds
    PROVE  InputsAreRead
<1>1. slot.run \in Runs
  BY TypeParts DEF ThreadTypes, Slot
<1>2. QED
  BY <1>1 DEF SlotHolds, InputsAreRead

\* No message to the agent is stranded, whatever the delays: the settle window and the locks of
\* the registry leave a reader to each message queued.
THEOREM MessagesAreRead == Spec => []InputsAreRead
<1>1. NoticesInv => InputsAreRead
  BY InputsHaveReaders DEF NoticesInv
<1>2. QED
  BY <1>1, NoticesInvariant, PTL

LEMMA RowsFit ==
    ASSUME TypeOK, KnownHold, RowHolds
    PROVE  RowsSettle
<1>1. SUFFICES ASSUME events = <<>>, slot.done, ~slot.held PROVE Final
  BY DEF RowsSettle
<1>2. ~Open
  BY <1>1 DEF RowHolds
<1>3. ~OpenAfter(0)
  BY <1>1, <1>2 DEF Open
<1>4. QED
  BY <1>3, OpenNow

\* What the session shows is what the registry says: with the channel read, the row of a run
\* that is over is shown over, and the cells held are those of the notes - if a chat's drain of
\* the channel is done before the run it has just started is over.
THEOREM ShownAsItIsHolds ==
    ASSUME "drain" \notin Late
    PROVE  Spec => []ShownAsItIs
<1>1. NoticesInv => ShownAsItIs
  BY CellsFit, RowsFit DEF NoticesInv, ShownAsItIs
<1>2. QED
  BY <1>1, NoticesInvariant, PTL

\* What the lead reads is news: no answer after the run's end was handed over, no resume after
\* the end of the run it speaks of - if an interrupted wait polls before the next turn's call
\* and a chat's drain is done in time.
THEOREM NotesStayNews ==
    ASSUME {"wait", "drain"} \cap Late = {}
    PROVE  Spec => []NotesAreNews
<1>1. NoticesInv => NotesAreNews
  BY DEF NoticesInv, NewsHold, NotesAreNews
<1>2. QED
  BY <1>1, NoticesInvariant, PTL

LEMMA AnswersFound ==
    ASSUME SentHold, LostHold
    PROVE  NoAnswerLost
<1>1. SUFFICES ASSUME NEW r \in EndedRuns, r \notin Excused PROVE r \in OnItsWay
  BY DEF NoAnswerLost, Known, Excused
<1>2. Covered(r)
  BY DEF LostHold
<1>3. CASE r \in slot.owed
  BY <1>3 DEF SentHold, IsEnd, OnItsWay
<1>4. CASE r \in EndRuns(board) \cup Reported \/ (slot.held /\ r = slot.run)
  BY <1>4 DEF OnItsWay, Reported
<1>5. QED
  BY <1>1, <1>2, <1>3, <1>4 DEF Covered

\* Nothing said is lost: the answer of every run that ended is told, waived by the user's stop,
\* of a run begun past a settle window's look that nothing announces, or on its way, and every
\* message to the agent has a reader - if a chat's drain of the channel is done in time.
THEOREM NothingIsLost ==
    ASSUME "drain" \notin Late
    PROVE  Spec => []NothingSaidIsLost
<1>1. NoticesInv => NothingSaidIsLost
  BY AnswersFound, InputsHaveReaders DEF NoticesInv, NothingSaidIsLost
<1>2. QED
  BY <1>1, NoticesInvariant, PTL

\* A stop is final but for what a settle window had decided before it: only a message the user
\* sends, or such a window's continuation, brings back an agent the user stopped, and a window
\* that looks after the stop continues nothing.  No delay breaks it.
THEOREM StopsAreFinal == Spec => StopIsFinal
<1> DEFINE Stands == slot.byUser =>
        /\ ~slot'.byUser => \/ loop.pc = "chat"
                            \/ \E r \in Runs : windows[r] = "continue" /\ windows'[r] = "closed"
        /\ \A r \in Runs : windows[r] = "look" => windows'[r] # "continue"
<1>1. NoticesInv /\ [Next]_vars => [Stands]_vars
  BY StopStep DEF NoticesInv
<1>2. QED
  BY <1>1, NoticesInvariant, PTL DEF Spec, StopIsFinal
=============================================================================
