--------------------------- MODULE TurnLoopProofs ---------------------------
(***************************************************************************)
(* What TLAPS proves of TurnLoop for any messages, commands, notices and   *)
(* bounds: the type invariant, and on top of it that a turn never ends     *)
(* with something still waiting and never runs without a thread to end it; *)
(* where every draft and every notice is; what a step may take back off    *)
(* the record; and that a turn leaves nothing half done.                   *)
(***************************************************************************)
EXTENDS TurnLoop, QueuesProofs, SequenceTheorems, WellFoundedInduction, TLAPS

-----------------------------------------------------------------------------
(* Sequences.                                                              *)

\* A non-empty set of naturals has a least element.
LEMMA LeastNatural ==
    ASSUME NEW T \in SUBSET Nat, T # {}
    PROVE  \E x \in T : \A y \in T : x <= y
<1> DEFINE Below == {ss \in Nat \X Nat : ss[1] < ss[2]}
<1>1. OpToRel(<, Nat) = Below
    BY DEF OpToRel
<1>2. PICK x \in T : \A y \in T : <<y, x>> \notin Below
  <2> HIDE DEF Below
  <2>1. QED
    BY <1>1, NatLessThanWellFounded, WFMin
<1>3. ASSUME NEW y \in T PROVE x <= y
  <2>1. x \in Nat /\ y \in Nat
    OBVIOUS
  <2>2. y < x => <<y, x>> \in Below
    BY <2>1
  <2>3. QED
    BY <1>2, <2>1, <2>2
<1>4. QED
    BY <1>3

\* Every interval has a longest suffix within a given set.
LEMMA LongestTail ==
    ASSUME NEW n \in Nat, NEW Good
    PROVE  \E i \in 0 .. n : /\ \A j \in (i + 1) .. n : j \in Good
                             /\ i = 0 \/ i \notin Good
<1> DEFINE Tails == {i \in 0 .. n : \A j \in (i + 1) .. n : j \in Good}
<1>1. PICK i \in Tails : \A y \in Tails : i <= y
  <2>1. n \in Tails /\ Tails \in SUBSET Nat
    OBVIOUS
  <2> HIDE DEF Tails
  <2>2. QED
    BY <2>1, LeastNatural
<1>2. ASSUME i # 0, i \in Good PROVE FALSE
  <2>1. i - 1 \in Tails
    BY <1>2
  <2>2. QED
    BY <1>1, <2>1
<1>3. QED
    BY <1>2

\* The user messages a history ends with: a suffix of it, of user messages alone.
LEMMA UserTail ==
    ASSUME NEW S, NEW s \in Seq(S)
    PROVE  /\ TailStart(s, 0, IsUser) \in 0 .. Len(s)
           /\ Before(s, 0, IsUser) \in Seq(S)
           /\ After(s, 0, IsUser) \in Seq(S)
           /\ \A x \in Range(After(s, 0, IsUser)) : x \in S /\ IsUser(x)
           /\ \A j \in (TailStart(s, 0, IsUser) + 1) .. Len(s) : IsUser(s[j])
           /\ TailStart(s, 0, IsUser) = 0 \/ ~IsUser(s[TailStart(s, 0, IsUser)])
<1> DEFINE Good == {j \in 1 .. Len(s) : j > 0 /\ IsUser(s[j])}
           Starts(i) == /\ \A j \in (i + 1) .. Len(s) : j > 0 /\ IsUser(s[j])
                        /\ i = 0 \/ i <= 0 \/ ~IsUser(s[i])
           t == TailStart(s, 0, IsUser)
<1>1. \E i \in 0 .. Len(s) : Starts(i)
  <2>1. PICK i \in 0 .. Len(s) :
            /\ \A j \in (i + 1) .. Len(s) : j \in Good
            /\ i = 0 \/ i \notin Good
    <3>1. Len(s) \in Nat
        OBVIOUS
    <3> HIDE DEF Good
    <3>2. QED
        BY <3>1, LongestTail, Zenon
  <2>2. \A j \in (i + 1) .. Len(s) : j > 0 /\ IsUser(s[j])
    BY <2>1
  <2>3. i = 0 \/ i <= 0 \/ ~IsUser(s[i])
    <3>1. i \in 1 .. Len(s) /\ i > 0 /\ IsUser(s[i]) => i \in Good
        OBVIOUS
    <3>2. QED
        BY <2>1, <3>1
  <2>4. Starts(i)
    BY <2>2, <2>3
  <2>5. QED
    BY <2>4
<1>2. t = CHOOSE i \in 0 .. Len(s) : Starts(i)
    BY DEF TailStart
<1>3. t \in 0 .. Len(s) /\ Starts(t)
  <2> HIDE DEF Starts, t
  <2>1. QED
    BY <1>1, <1>2
<1>4. /\ Before(s, 0, IsUser) = SubSeq(s, 1, t)
      /\ After(s, 0, IsUser) = SubSeq(s, t + 1, Len(s))
    BY DEF Before, After
<1> HIDE DEF t
<1>5. SubSeq(s, 1, t) \in Seq(S) /\ SubSeq(s, t + 1, Len(s)) \in Seq(S)
    BY <1>3
<1>6. \A i \in DOMAIN SubSeq(s, t + 1, Len(s)) :
        /\ SubSeq(s, t + 1, Len(s))[i] = s[t + i]
        /\ t + i \in (t + 1) .. Len(s)
    BY <1>3
<1>7. ASSUME NEW x \in Range(After(s, 0, IsUser)) PROVE x \in S /\ IsUser(x)
  <2>1. PICK i \in DOMAIN SubSeq(s, t + 1, Len(s)) : x = SubSeq(s, t + 1, Len(s))[i]
    BY <1>4, <1>7 DEF Range
  <2>2. x = s[t + i] /\ t + i \in (t + 1) .. Len(s) /\ t + i \in 1 .. Len(s)
    BY <1>3, <1>6, <2>1
  <2>3. QED
    BY <1>3, <2>2
<1>8. \A j \in (t + 1) .. Len(s) : IsUser(s[j])
    BY <1>3
<1>9. t = 0 \/ ~IsUser(s[t])
    BY <1>3
<1>10. Before(s, 0, IsUser) \in Seq(S) /\ After(s, 0, IsUser) \in Seq(S)
    BY <1>4, <1>5
<1>11. t \in 0 .. Len(s)
    BY <1>3
<1> HIDE DEF Starts, Good
<1>12. QED
    BY <1>7, <1>8, <1>9, <1>10, <1>11 DEF t

\* The hook notes a history ends with.
LEMMA HookTail ==
    ASSUME NEW S, NEW s \in Seq(S)
    PROVE  /\ TailStart(s, 0, IsHook) \in 0 .. Len(s)
           /\ Before(s, 0, IsHook) \in Seq(S)
           /\ After(s, 0, IsHook) \in Seq(S)
           /\ \A x \in Range(After(s, 0, IsHook)) : x \in S /\ IsHook(x)
           /\ \A j \in (TailStart(s, 0, IsHook) + 1) .. Len(s) : IsHook(s[j])
           /\ TailStart(s, 0, IsHook) = 0 \/ ~IsHook(s[TailStart(s, 0, IsHook)])
<1> DEFINE Good == {j \in 1 .. Len(s) : j > 0 /\ IsHook(s[j])}
           Starts(i) == /\ \A j \in (i + 1) .. Len(s) : j > 0 /\ IsHook(s[j])
                        /\ i = 0 \/ i <= 0 \/ ~IsHook(s[i])
           t == TailStart(s, 0, IsHook)
<1>1. \E i \in 0 .. Len(s) : Starts(i)
  <2>1. PICK i \in 0 .. Len(s) :
            /\ \A j \in (i + 1) .. Len(s) : j \in Good
            /\ i = 0 \/ i \notin Good
    <3>1. Len(s) \in Nat
        OBVIOUS
    <3> HIDE DEF Good
    <3>2. QED
        BY <3>1, LongestTail, Zenon
  <2>2. \A j \in (i + 1) .. Len(s) : j > 0 /\ IsHook(s[j])
    BY <2>1
  <2>3. i = 0 \/ i <= 0 \/ ~IsHook(s[i])
    <3>1. i \in 1 .. Len(s) /\ i > 0 /\ IsHook(s[i]) => i \in Good
        OBVIOUS
    <3>2. QED
        BY <2>1, <3>1
  <2>4. Starts(i)
    BY <2>2, <2>3
  <2>5. QED
    BY <2>4
<1>2. t = CHOOSE i \in 0 .. Len(s) : Starts(i)
    BY DEF TailStart
<1>3. t \in 0 .. Len(s) /\ Starts(t)
  <2> HIDE DEF Starts, t
  <2>1. QED
    BY <1>1, <1>2
<1>4. /\ Before(s, 0, IsHook) = SubSeq(s, 1, t)
      /\ After(s, 0, IsHook) = SubSeq(s, t + 1, Len(s))
    BY DEF Before, After
<1> HIDE DEF t
<1>5. SubSeq(s, 1, t) \in Seq(S) /\ SubSeq(s, t + 1, Len(s)) \in Seq(S)
    BY <1>3
<1>6. \A i \in DOMAIN SubSeq(s, t + 1, Len(s)) :
        /\ SubSeq(s, t + 1, Len(s))[i] = s[t + i]
        /\ t + i \in (t + 1) .. Len(s)
    BY <1>3
<1>7. ASSUME NEW x \in Range(After(s, 0, IsHook)) PROVE x \in S /\ IsHook(x)
  <2>1. PICK i \in DOMAIN SubSeq(s, t + 1, Len(s)) : x = SubSeq(s, t + 1, Len(s))[i]
    BY <1>4, <1>7 DEF Range
  <2>2. x = s[t + i] /\ t + i \in (t + 1) .. Len(s) /\ t + i \in 1 .. Len(s)
    BY <1>3, <1>6, <2>1
  <2>3. QED
    BY <1>3, <2>2
<1>8. \A j \in (t + 1) .. Len(s) : IsHook(s[j])
    BY <1>3
<1>9. t = 0 \/ ~IsHook(s[t])
    BY <1>3
<1>10. Before(s, 0, IsHook) \in Seq(S) /\ After(s, 0, IsHook) \in Seq(S)
    BY <1>4, <1>5
<1>11. t \in 0 .. Len(s)
    BY <1>3
<1> HIDE DEF Starts, Good
<1>12. QED
    BY <1>7, <1>8, <1>9, <1>10, <1>11 DEF t

\* The attempt's output a history ends with past its mark.
LEMMA AttemptTail ==
    ASSUME NEW S, NEW s \in Seq(S), NEW floor \in Int
    PROVE  /\ TailStart(s, floor, Attempted) \in 0 .. Len(s)
           /\ Before(s, floor, Attempted) \in Seq(S)
           /\ After(s, floor, Attempted) \in Seq(S)
           /\ \A x \in Range(After(s, floor, Attempted)) : x \in S /\ Attempted(x)
           /\ \A j \in (TailStart(s, floor, Attempted) + 1) .. Len(s) : Attempted(s[j])
<1> DEFINE Good == {j \in 1 .. Len(s) : j > floor /\ Attempted(s[j])}
           Starts(i) == /\ \A j \in (i + 1) .. Len(s) : j > floor /\ Attempted(s[j])
                        /\ i = 0 \/ i <= floor \/ ~Attempted(s[i])
           t == TailStart(s, floor, Attempted)
<1>1. \E i \in 0 .. Len(s) : Starts(i)
  <2>1. PICK i \in 0 .. Len(s) :
            /\ \A j \in (i + 1) .. Len(s) : j \in Good
            /\ i = 0 \/ i \notin Good
    <3>1. Len(s) \in Nat
        OBVIOUS
    <3> HIDE DEF Good
    <3>2. QED
        BY <3>1, LongestTail, Zenon
  <2>2. \A j \in (i + 1) .. Len(s) : j > floor /\ Attempted(s[j])
    BY <2>1
  <2>3. i = 0 \/ i <= floor \/ ~Attempted(s[i])
    <3>1. i \in 1 .. Len(s) /\ i > floor /\ Attempted(s[i]) => i \in Good
        OBVIOUS
    <3>2. QED
        BY <2>1, <3>1
  <2>4. Starts(i)
    BY <2>2, <2>3
  <2>5. QED
    BY <2>4
<1>2. t = CHOOSE i \in 0 .. Len(s) : Starts(i)
    BY DEF TailStart
<1>3. t \in 0 .. Len(s) /\ Starts(t)
  <2> HIDE DEF Starts, t
  <2>1. QED
    BY <1>1, <1>2
<1>4. /\ Before(s, floor, Attempted) = SubSeq(s, 1, t)
      /\ After(s, floor, Attempted) = SubSeq(s, t + 1, Len(s))
    BY DEF Before, After
<1> HIDE DEF t
<1>5. SubSeq(s, 1, t) \in Seq(S) /\ SubSeq(s, t + 1, Len(s)) \in Seq(S)
    BY <1>3
<1>6. \A i \in DOMAIN SubSeq(s, t + 1, Len(s)) :
        /\ SubSeq(s, t + 1, Len(s))[i] = s[t + i]
        /\ t + i \in (t + 1) .. Len(s)
    BY <1>3
<1>7. ASSUME NEW x \in Range(After(s, floor, Attempted)) PROVE x \in S /\ Attempted(x)
  <2>1. PICK i \in DOMAIN SubSeq(s, t + 1, Len(s)) : x = SubSeq(s, t + 1, Len(s))[i]
    BY <1>4, <1>7 DEF Range
  <2>2. x = s[t + i] /\ t + i \in (t + 1) .. Len(s) /\ t + i \in 1 .. Len(s)
    BY <1>3, <1>6, <2>1
  <2>3. QED
    BY <1>3, <2>2
<1>8. QED
    BY <1>3, <1>4, <1>5, <1>7 DEF t

\* Removing an element leaves a sequence of the same kind.
LEMMA RemoveFirstType ==
    ASSUME NEW S, NEW s \in Seq(S), NEW e
    PROVE  RemoveFirst(s, e) \in Seq(S)
<1> DEFINE I == {i \in 1 .. Len(s) : s[i] = e}
<1>1. CASE I = {}
    BY <1>1 DEF RemoveFirst
<1>2. CASE I # {}
  <2>1. \E x \in I : \A y \in I : x <= y
    <3>1. I \in SUBSET Nat
        OBVIOUS
    <3> HIDE DEF I
    <3>2. QED
        BY <1>2, <3>1, LeastNatural
  <2>2. Min(I) \in 1 .. Len(s)
    BY <2>1 DEF Min
  <2>3. RemoveFirst(s, e) = SubSeq(s, 1, Min(I) - 1) \o SubSeq(s, Min(I) + 1, Len(s))
    BY <1>2 DEF RemoveFirst, RemoveAt, SelectInSeq
  <2> HIDE DEF I
  <2>4. SubSeq(s, 1, Min(I) - 1) \in Seq(S) /\ SubSeq(s, Min(I) + 1, Len(s)) \in Seq(S)
    BY <2>2
  <2>5. QED
    BY <2>3, <2>4
<1>3. QED
    BY <1>1, <1>2

\* What a sequence ranges over.
LEMMA RangeType ==
    ASSUME NEW S, NEW s \in Seq(S)
    PROVE  Range(s) \subseteq S
BY DEF Range

-----------------------------------------------------------------------------
(* The App's methods keep an App an App.                                   *)

LEMMA ItemTypes ==
    /\ \A m \in Msgs : User(m) \in Items
    /\ \A c \in Shells : Shell(c) \in Items /\ Tool(c) \in Items
    /\ \A n \in Notices : Note(n) \in Items
    /\ \A k \in Nat : Tool(k) \in Items /\ (k # Nothing => Asst(k) \in Items)
    /\ {Hook, Reasoning, Error, Summary, Compaction} \subseteq Items
BY DEF Items, User, Shell, Tool, Note, Asst, Hook, Reasoning, Error, Summary, Compaction,
       Nothing

\* A user item carries a message, and a draft or a note its draft or notice.
LEMMA UserItemIsMessage ==
    ASSUME NEW item \in Items
    PROVE  /\ IsUser(item) => item[2] \in Msgs
           /\ IsDraft(item) => item[2] \in Drafts
           /\ IsNote(item) => item[2] \in Notices
BY DEF Items, IsUser, IsDraft, IsNote, Drafts, Hook, Reasoning, Error, Summary, Compaction

LEMMA PushType ==
    ASSUME NEW a \in Apps, NEW item \in Items
    PROVE  Push(a, item) \in Apps
<1>1. Append(a.history, item) \in Seq(Items)
    BY DEF Apps
<1>2. QED
    BY <1>1 DEF Push, Apps

LEMMA FlushSegmentType ==
    ASSUME NEW a \in Apps
    PROVE  FlushSegment(a) \in Apps
<1>1. a.text \in Nat
    BY DEF Apps
<1>2. CASE a.text = Nothing
    BY <1>2 DEF FlushSegment
<1>3. CASE a.text # Nothing
  <2>1. Push(a, Asst(a.text)) \in Apps
    BY <1>1, <1>3, ItemTypes, PushType
  <2>2. QED
    BY <1>3, <2>1 DEF FlushSegment, Apps, Nothing
<1>4. QED
    BY <1>2, <1>3

LEMMA SettleReasoningType ==
    ASSUME NEW a \in Apps
    PROVE  SettleReasoning(a) \in Apps
<1>1. Push(FlushSegment(a), Reasoning) \in Apps
    BY FlushSegmentType, PushType, ItemTypes
<1>2. QED
    BY <1>1 DEF SettleReasoning, Apps

LEMMA UserItems ==
    ASSUME NEW ms \in Seq(Msgs)
    PROVE  [i \in DOMAIN ms |-> User(ms[i])] \in Seq(Items)
<1>1. Len(ms) \in Nat /\ DOMAIN ms = 1 .. Len(ms)
    OBVIOUS
<1>2. \A i \in 1 .. Len(ms) : User(ms[i]) \in Items
    BY ItemTypes
<1>3. [i \in 1 .. Len(ms) |-> User(ms[i])] \in [1 .. Len(ms) -> Items]
    BY <1>2
<1>4. QED
    BY <1>1, <1>3, SeqDef


LEMMA ToolItems ==
    ASSUME NEW ms \in Seq(Nat \cup Shells)
    PROVE  [i \in DOMAIN ms |-> Tool(ms[i])] \in Seq(Items)
<1>1. Len(ms) \in Nat /\ DOMAIN ms = 1 .. Len(ms)
    OBVIOUS
<1>2. \A i \in 1 .. Len(ms) : Tool(ms[i]) \in Items
    BY ItemTypes
<1>3. [i \in 1 .. Len(ms) |-> Tool(ms[i])] \in [1 .. Len(ms) -> Items]
    BY <1>2
<1>4. QED
    BY <1>1, <1>3, SeqDef


LEMMA NoteItems ==
    ASSUME NEW ms \in Seq(Notices)
    PROVE  [i \in DOMAIN ms |-> Note(ms[i])] \in Seq(Items)
<1>1. Len(ms) \in Nat /\ DOMAIN ms = 1 .. Len(ms)
    OBVIOUS
<1>2. \A i \in 1 .. Len(ms) : Note(ms[i]) \in Items
    BY ItemTypes
<1>3. [i \in 1 .. Len(ms) |-> Note(ms[i])] \in [1 .. Len(ms) -> Items]
    BY <1>2
<1>4. QED
    BY <1>1, <1>3, SeqDef

LEMMA BeginType ==
    ASSUME NEW a \in Apps
    PROVE  BeginStream(a) \in Apps /\ BeginCompact(a) \in Apps
BY DEF BeginStream, BeginCompact, Apps, Modes, Nothing

LEMMA BeginShellType ==
    ASSUME NEW a \in Apps, NEW cmd \in Shells
    PROVE  BeginShell(a, cmd) \in Apps
<1>1. Push(a, Shell(cmd)) \in Apps
    BY ItemTypes, PushType
<1>2. <<cmd>> \in Seq(Nat \cup Shells)
    OBVIOUS
<1>3. QED
    BY <1>1, <1>2 DEF BeginShell, Apps, Modes, Nothing

LEMMA RecordBatchType ==
    ASSUME NEW a \in Apps, NEW ms \in Seq(Msgs)
    PROVE  RecordBatch(a, ms) \in Apps
<1>1. a.history \o [i \in DOMAIN ms |-> User(ms[i])] \in Seq(Items)
    BY UserItems DEF Apps
<1>2. QED
    BY <1>1 DEF RecordBatch, Apps

LEMMA FailLiveType ==
    ASSUME NEW a \in Apps
    PROVE  FailLive(a) \in Apps
<1>1. a.live \in Seq(Nat \cup Shells) /\ a.history \in Seq(Items)
    BY DEF Apps
<1>2. a.history \o [i \in DOMAIN a.live |-> Tool(a.live[i])] \in Seq(Items)
    BY <1>1, ToolItems
<1>3. <<>> \in Seq(Nat \cup Shells)
    OBVIOUS
<1>4. QED
    BY <1>2, <1>3 DEF FailLive, Apps

LEMMA SettleHeldType ==
    ASSUME NEW a \in Apps
    PROVE  SettleHeld(a) \in Apps
<1>1. a.held \in Seq(Notices) /\ a.history \in Seq(Items)
    BY DEF Apps
<1>2. a.history \o [i \in DOMAIN a.held |-> Note(a.held[i])] \in Seq(Items)
    BY <1>1, NoteItems
<1>3. <<>> \in Seq(Notices)
    OBVIOUS
<1>4. QED
    BY <1>2, <1>3 DEF SettleHeld, Apps

LEMMA SettleDeliveredType ==
    ASSUME NEW a \in Apps, NEW n \in Notices
    PROVE  SettleDelivered(a, n) \in Apps
<1>1. Push(a, Note(n)) \in Apps
    BY ItemTypes, PushType
<1>2. RemoveFirst(Push(a, Note(n)).held, n) \in Seq(Notices)
    BY <1>1, RemoveFirstType DEF Apps
<1>3. QED
    BY <1>1, <1>2 DEF SettleDelivered, Apps

LEMMA DeliverSteeredType ==
    ASSUME NEW a \in Apps, NEW m \in Msgs
    PROVE  DeliverSteered(a, m) \in Apps
<1>1. Push(FlushSegment(a), User(m)) \in Apps
    BY ItemTypes, FlushSegmentType, PushType
<1>2. RemoveFirst(Push(FlushSegment(a), User(m)).steered, m) \in Seq(Msgs)
    BY <1>1, RemoveFirstType DEF Apps
<1>3. QED
    BY <1>1, <1>2 DEF DeliverSteered, Apps

LEMMA ReclaimSteeredType ==
    ASSUME NEW a \in Apps
    PROVE  ReclaimSteered(a) \in Apps
<1>1. CASE a.steered = <<>>
    BY <1>1 DEF ReclaimSteered
<1>2. CASE a.steered # <<>>
  <2>1. [shell |-> FALSE, texts |-> a.steered] \in Entries
    BY <1>2 DEF Entries, Apps
  <2>2. <<[shell |-> FALSE, texts |-> a.steered]>> \o a.queued \in Seq(Entries)
    BY <2>1 DEF Apps
  <2>3. <<>> \in Seq(Msgs)
    OBVIOUS
  <2>4. QED
    BY <1>2, <2>2, <2>3 DEF ReclaimSteered, Apps
<1>3. QED
    BY <1>1, <1>2

LEMMA QueueDraftType ==
    ASSUME NEW a \in Apps, NEW d \in Drafts, NEW newBatch \in BOOLEAN
    PROVE  QueueDraft(a, d, newBatch) \in Apps
<1>1. a.queued \in Seq(Entries)
    BY DEF Apps
<1>2. CASE d \in Msgs /\ ~newBatch /\ a.queued # <<>> /\ ~Last(a.queued).shell
  <2> DEFINE k == Len(a.queued)
             entry == [a.queued[k] EXCEPT !.texts = Append(@, d)]
             q == [a.queued EXCEPT ![k] = entry]
  <2>1. k \in 1 .. Len(a.queued) /\ a.queued[k] \in Entries /\ ~a.queued[k].shell
    BY <1>1, <1>2 DEF Last
  <2>2. a.queued[k].texts \in Seq(Msgs)
    BY <2>1 DEF Entries
  <2>3. Append(a.queued[k].texts, d) \in Seq(Msgs) \ {<<>>}
    BY <1>2, <2>2
  <2>4. entry \in Entries
    BY <2>1, <2>3 DEF Entries
  <2>5. q \in Seq(Entries)
    <3> HIDE DEF entry, k
    <3>1. QED
        BY <1>1, <2>1, <2>4, ExceptSeq
  <2>6. QueueDraft(a, d, newBatch) = [a EXCEPT !.queued = q]
    BY <1>2 DEF QueueDraft
  <2>7. QED
    <3> HIDE DEF q
    <3>1. QED
        BY <2>5, <2>6 DEF Apps
<1>3. [shell |-> d \in Shells, texts |-> <<d>>] \in Entries
  <2>1. CASE d \in Shells
    <3>1. <<d>> \in Seq(Shells) \ {<<>>} /\ (d \in Shells) = TRUE
        BY <2>1
    <3>2. QED
        BY <3>1 DEF Entries
  <2>2. CASE d \notin Shells
    <3>1. <<d>> \in Seq(Msgs) \ {<<>>} /\ (d \in Shells) = FALSE
        BY <2>2 DEF Drafts
    <3>2. QED
        BY <3>1 DEF Entries
  <2>3. QED
    BY <2>1, <2>2
<1>4. CASE ~(d \in Msgs /\ ~newBatch /\ a.queued # <<>> /\ ~Last(a.queued).shell)
  <2>1. Append(a.queued, [shell |-> d \in Shells, texts |-> <<d>>]) \in Seq(Entries)
    BY <1>1, <1>3
  <2>2. QED
    BY <1>4, <2>1 DEF QueueDraft, Apps
<1>5. QED
    BY <1>2, <1>4

LEMMA TrackAttemptType ==
    ASSUME NEW a \in Apps, NEW e
    PROVE  TrackAttempt(a, e) \in Apps
<1>1. Len(a.history) \in Nat
    BY DEF Apps
<1>2. QED
    BY <1>1 DEF TrackAttempt, Apps

LEMMA WithdrawAttemptType ==
    ASSUME NEW a \in Apps
    PROVE  WithdrawAttempt(a) \in Apps
<1>1. a.history \in Seq(Items) /\ a.floor \in Int
    BY DEF Apps, NoFloor
<1>2. Before(a.history, a.floor, Attempted) \in Seq(Items)
    BY <1>1, AttemptTail
<1>3. QED
    BY <1>1, <1>2 DEF WithdrawAttempt, Apps, Nothing

LEMMA OnStreamDoneType ==
    ASSUME NEW a \in Apps
    PROVE  OnStreamDone(a) \in Apps
<1>1. CASE a.mode = "compact"
  <2>1. Push(a, Compaction) \in Apps
    BY ItemTypes, PushType
  <2>2. [Push(a, Compaction) EXCEPT !.mode = "idle", !.draft = FALSE] \in Apps
    BY <2>1 DEF Apps, Modes
  <2>3. QED
    BY <1>1, <2>2, SettleHeldType DEF OnStreamDone
<1>2. CASE a.mode # "compact"
  <2> DEFINE b == SettleHeld(FlushSegment([a EXCEPT !.draft = FALSE]))
             c == IF a.mode = "shell" THEN b ELSE Push(b, Summary)
  <2>1. [a EXCEPT !.draft = FALSE] \in Apps
    BY DEF Apps
  <2>2. b \in Apps
    BY <2>1, FlushSegmentType, SettleHeldType
  <2>3. c \in Apps
    BY <2>2, ItemTypes, PushType
  <2>4. [c EXCEPT !.mode = "idle"] \in Apps
    <3> HIDE DEF c
    <3>1. QED
        BY <2>3 DEF Apps, Modes
  <2>5. QED
    BY <1>2, <2>4 DEF OnStreamDone
<1>3. QED
    BY <1>1, <1>2

LEMMA FailStreamType ==
    ASSUME NEW a \in Apps
    PROVE  FailStream(a) \in Apps
<1>1. FailLive(FlushSegment(SettleReasoning(a))) \in Apps
    BY SettleReasoningType, FlushSegmentType, FailLiveType
<1>2. Push(FailLive(FlushSegment(SettleReasoning(a))), Error) \in Apps
    BY <1>1, ItemTypes, PushType
<1>3. QED
    BY <1>2 DEF FailStream, Apps, Modes

LEMMA BlockPromptType ==
    ASSUME NEW a \in Apps
    PROVE  /\ BlockPrompt(a) \in Apps
           /\ {item[2] : item \in Range(BlockedMsgs(a))} \subseteq Msgs
<1> DEFINE under == Before(a.history, 0, IsHook)
           h == Before(under, 0, IsUser) \o After(a.history, 0, IsHook) \o <<Error>>
<1>1. a.history \in Seq(Items)
    BY DEF Apps
<1>2. under \in Seq(Items) /\ After(a.history, 0, IsHook) \in Seq(Items)
    BY <1>1, HookTail
<1>3. /\ Before(under, 0, IsUser) \in Seq(Items)
      /\ \A item \in Range(After(under, 0, IsUser)) : item \in Items /\ IsUser(item)
  <2> HIDE DEF under
  <2>1. QED
    BY <1>2, UserTail
<1>4. h \in Seq(Items)
  <2>1. <<Error>> \in Seq(Items)
    BY ItemTypes
  <2> HIDE DEF under
  <2>2. QED
    BY <1>2, <1>3, <2>1
<1>5. BlockPrompt(a) = [a EXCEPT !.history = h, !.mode = "idle", !.draft = FALSE]
    BY DEF BlockPrompt
<1>6. BlockPrompt(a) \in Apps
  <2> HIDE DEF h
  <2>1. QED
    BY <1>4, <1>5 DEF Apps, Modes
<1>7. \A item \in Items : IsUser(item) => item[2] \in Msgs
    BY UserItemIsMessage
<1>8. QED
    BY <1>3, <1>6, <1>7 DEF BlockedMsgs

LEMMA UndoType ==
    ASSUME NEW a \in Apps
    PROVE  /\ Undo(a) \in Apps
           /\ {item[2] : item \in Range(Undone(a))} \subseteq Msgs
<1>1. a.history \in Seq(Items)
    BY DEF Apps
<1>2. /\ Before(a.history, 0, IsUser) \in Seq(Items)
      /\ \A item \in Range(After(a.history, 0, IsUser)) : item \in Items /\ IsUser(item)
    BY <1>1, UserTail
<1>3. Undo(a) \in Apps
    BY <1>2 DEF Undo, Apps, Modes
<1>4. QED
    BY <1>2, <1>3, UserItemIsMessage DEF Undone

LEMMA KeepType ==
    ASSUME NEW a \in Apps
    PROVE  Keep(a) \in Apps
<1> DEFINE b == FailLive(FlushSegment(a))
           c == IF a.mode = "shell" THEN b ELSE Push(b, Error)
           d == SettleHeld(c)
           e == IF a.mode = "reply" THEN Push(d, Summary) ELSE d
<1>1. b \in Apps
    BY FlushSegmentType, FailLiveType
<1>2. c \in Apps
    BY <1>1, ItemTypes, PushType
<1>3. e \in Apps
  <2> HIDE DEF c
  <2>1. QED
    BY <1>2, SettleHeldType, ItemTypes, PushType
<1>4. Keep(a) = [e EXCEPT !.mode = "idle", !.draft = FALSE]
    BY DEF Keep
<1>5. QED
  <2> HIDE DEF e
  <2>1. QED
    BY <1>3, <1>4 DEF Apps, Modes

\* What the events the loop reads carry.
LEMMA EventTypes ==
    ASSUME NEW e \in Events
    PROVE  /\ e[1] \in {"Chunk", "ToolBatch"} => e[2] \in Nat
           /\ e[1] = "Steered" => e[2] \in Msgs
           /\ e[1] = "NoticeDelivered" => e[2] \in Notices
<1>1. e[1] \in {"Chunk", "ToolBatch"} => e[2] \in Nat
    BY DEF Events
<1>2. e[1] = "Steered" => e[2] \in Msgs
    BY DEF Events
<1>3. e[1] = "NoticeDelivered" => e[2] \in Notices
    BY DEF Events
<1>4. QED
    BY <1>1, <1>2, <1>3

LEMMA OnStreamEventType ==
    ASSUME NEW a0 \in Apps, NEW e \in Events
    PROVE  OnStreamEvent(a0, e) \in Apps
<1> DEFINE a == TrackAttempt(a0, e)
<1>1. a \in Apps
    BY TrackAttemptType
<1> HIDE DEF a
<1>2. e[1] = "Chunk" => [a EXCEPT !.text = e[2]] \in Apps
    BY <1>1, EventTypes DEF Apps
<1>3. [a EXCEPT !.thought = TRUE] \in Apps
    BY <1>1 DEF Apps
<1>4. SettleReasoning(a) \in Apps /\ WithdrawAttempt(a) \in Apps
    BY <1>1, SettleReasoningType, WithdrawAttemptType
<1>5. FlushSegment(a) \in Apps
    BY <1>1, FlushSegmentType
<1>6. Push(FlushSegment(a), Hook) \in Apps
    BY <1>5, PushType, ItemTypes
<1>7. [FlushSegment(a) EXCEPT !.draft = TRUE] \in Apps
    BY <1>5 DEF Apps
<1>8. e[1] = "ToolBatch" => [FlushSegment(a) EXCEPT !.live = <<e[2]>>] \in Apps
  <2>1. e[1] = "ToolBatch" => <<e[2]>> \in Seq(Nat \cup Shells)
    BY EventTypes
  <2>2. QED
    BY <1>5, <2>1 DEF Apps
<1>9. a.live # <<>> =>
        [Push(a, Tool(Head(a.live))) EXCEPT !.live = Tail(@), !.draft = FALSE] \in Apps
  <2> SUFFICES ASSUME a.live # <<>>
               PROVE  [Push(a, Tool(Head(a.live))) EXCEPT !.live = Tail(@), !.draft = FALSE]
                        \in Apps
    OBVIOUS
  <2>1. a.live \in Seq(Nat \cup Shells)
    BY <1>1 DEF Apps
  <2>2. Head(a.live) \in Nat \cup Shells /\ Tail(a.live) \in Seq(Nat \cup Shells)
    BY <2>1
  <2>3. Push(a, Tool(Head(a.live))) \in Apps
    BY <1>1, <2>2, ItemTypes, PushType
  <2>4. Push(a, Tool(Head(a.live))).live = a.live
    BY <1>1 DEF Push, Apps
  <2>5. QED
    BY <2>2, <2>3, <2>4 DEF Apps
<1>10. e[1] = "Steered" => DeliverSteered(a, e[2]) \in Apps
    BY <1>1, EventTypes, DeliverSteeredType
<1>11. e[1] = "NoticeDelivered" => SettleDelivered(FlushSegment(a), e[2]) \in Apps
    BY <1>5, EventTypes, SettleDeliveredType
<1>12. QED
    BY <1>1, <1>2, <1>3, <1>4, <1>6, <1>7, <1>8, <1>9, <1>10, <1>11
    DEF OnStreamEvent, a

-----------------------------------------------------------------------------
(* What a turn's end starts.                                               *)

Startable == [app : Apps, worker : Workers]

LEMMA NoWorkerType == NoWorker \in Workers
BY DEF NoWorker, Workers

LEMMA StartTurnType ==
    ASSUME NEW a \in Apps, NEW batch \in Seq(Msgs)
    PROVE  StartTurn(a, batch) \in Startable
<1> DEFINE b == BeginStream(RecordBatch(a, batch))
<1>1. b \in Apps
    BY RecordBatchType, BeginType
<1>2. Len(b.history) - Len(batch) \in Nat
  <2>1. b.history = a.history \o [i \in DOMAIN batch |-> User(batch[i])]
    BY RecordBatchType DEF RecordBatch, BeginStream, Apps
  <2>2. /\ a.history \in Seq(Items)
        /\ [i \in DOMAIN batch |-> User(batch[i])] \in Seq(Items)
        /\ Len([i \in DOMAIN batch |-> User(batch[i])]) = Len(batch)
    BY UserItems DEF Apps
  <2>3. QED
    BY <2>1, <2>2, ConcatProperties
<1> HIDE DEF b
<1>3. ReplyWorker(b.history, batch) \in Workers
    BY <1>2, NoWorkerType DEF ReplyWorker, Workers
<1>4. QED
    BY <1>1, <1>3 DEF StartTurn, Startable, b

LEMMA StartBackgroundTurnType ==
    ASSUME NEW a \in Apps
    PROVE  StartBackgroundTurn(a) \in Startable
<1>1. Len(a.history) - Len(<<>>) \in Nat /\ <<>> \in Seq(Msgs)
    BY DEF Apps
<1>2. ReplyWorker(a.history, <<>>) \in Workers
    BY <1>1, NoWorkerType DEF ReplyWorker, Workers
<1>3. QED
    BY <1>2, BeginType DEF StartBackgroundTurn, Startable

LEMMA RunShellType ==
    ASSUME NEW a \in Apps, NEW cmd \in Shells
    PROVE  RunShell(a, cmd) \in Startable
<1> DEFINE b == BeginShell(a, cmd)
<1>1. b \in Apps
    BY BeginShellType
<1>2. Len(b.history) - 1 \in Nat
  <2>1. b.history = Append(a.history, Shell(cmd))
    BY DEF BeginShell, Push, Apps
  <2>2. QED
    BY <2>1 DEF Apps
<1> HIDE DEF b
<1>3. ShellWorker(b.history) \in Workers
    BY <1>2, NoWorkerType DEF ShellWorker, Workers
<1>4. QED
    BY <1>1, <1>3 DEF RunShell, Startable, b

LEMMA AfterTurnType ==
    ASSUME NEW a \in Apps, NEW unheard
    PROVE  AfterTurn(a, unheard) \in Startable
<1> DEFINE b == ReclaimSteered(SettleHeld(a))
           c == [b EXCEPT !.queued = Tail(@)]
<1>1. b \in Apps
    BY SettleHeldType, ReclaimSteeredType
<1> HIDE DEF b
<1>2. CASE b.queued # <<>>
  <2>1. Head(b.queued) \in Entries /\ Tail(b.queued) \in Seq(Entries)
    BY <1>1, <1>2 DEF Apps
  <2>2. c \in Apps
    BY <1>1, <2>1 DEF Apps
  <2> HIDE DEF c
  <2>3. CASE Head(b.queued).shell
    <3>1. Head(b.queued).texts[1] \in Shells
      <4>1. Head(b.queued).texts \in Seq(Shells) /\ Head(b.queued).texts # <<>>
        BY <2>1, <2>3 DEF Entries
      <4>2. QED
        BY <4>1
    <3>2. RunShell(c, Head(b.queued).texts[1]) \in Startable
        BY <2>2, <3>1, RunShellType
    <3>3. QED
        BY <1>2, <2>3, <3>2 DEF AfterTurn, NextTurn, b, c
  <2>4. CASE ~Head(b.queued).shell
    <3>1. Head(b.queued).texts \in Seq(Msgs)
        BY <2>1, <2>4 DEF Entries
    <3>2. StartTurn(c, Head(b.queued).texts) \in Startable
        BY <2>2, <3>1, StartTurnType
    <3>3. QED
        BY <1>2, <2>4, <3>2 DEF AfterTurn, NextTurn, b, c
  <2>5. QED
    BY <2>3, <2>4
<1>3. CASE b.queued = <<>>
  <2>1. Rest(b) \in Startable /\ StartBackgroundTurn(b) \in Startable
    BY <1>1, NoWorkerType, StartBackgroundTurnType DEF Rest, Startable
  <2>2. QED
    BY <1>3, <2>1 DEF AfterTurn, NextTurn, b
<1>4. QED
    BY <1>2, <1>3

-----------------------------------------------------------------------------
(* Type correctness, action by action.                                     *)

LEMMA HeldByType ==
    ASSUME NEW a \in Apps
    PROVE  HeldBy(a) \subseteq Drafts \cup Notices
<1>1. /\ a.history \in Seq(Items) /\ a.queued \in Seq(Entries)
      /\ a.steered \in Seq(Msgs) /\ a.held \in Seq(Notices)
    BY DEF Apps
<1>2. Recorded(a, IsDraft) \subseteq Drafts
    BY <1>1, UserItemIsMessage DEF Recorded
<1>3. Recorded(a, IsNote) \subseteq Notices
    BY <1>1, UserItemIsMessage DEF Recorded
<1>4. QueuedDrafts(a) \subseteq Drafts
  <2>1. ASSUME NEW i \in DOMAIN a.queued PROVE Range(a.queued[i].texts) \subseteq Drafts
    <3>1. a.queued[i] \in Entries
        BY <1>1
    <3>2. a.queued[i].texts \in Seq(Msgs) \/ a.queued[i].texts \in Seq(Shells)
        BY <3>1 DEF Entries
    <3>3. QED
        BY <3>2, RangeType DEF Drafts
  <2>2. QED
    BY <2>1 DEF QueuedDrafts
<1>5. Range(a.steered) \subseteq Drafts /\ Range(a.held) \subseteq Notices
    BY <1>1, RangeType DEF Drafts
<1>6. QED
    BY <1>2, <1>3, <1>4, <1>5 DEF HeldBy

LEMMA LaunchType ==
    ASSUME NEW started \in Startable, Launch(started)
    PROVE  app' \in Apps /\ worker' \in Workers
BY DEF Launch, Startable

LEMMA DispatchType ==
    ASSUME NEW a \in Apps, NEW unheard, DispatchAfterTurn(a, unheard)
    PROVE  /\ app' \in Apps /\ worker' \in Workers
           /\ steerQ' \in Seq(Msgs) /\ board' \in Seq(Notices)
<1>1. app' \in Apps /\ worker' \in Workers
    BY AfterTurnType, LaunchType DEF DispatchAfterTurn
<1>2. QED
    BY <1>1 DEF DispatchAfterTurn

LEMMA AbandonType ==
    ASSUME TypeOK, AbandonInflight
    PROVE  /\ chan' \in Seq(Events)
           /\ ghosts' \in [{"board", "steer"} -> 0 .. MaxGhosts]
<1>1. chan' \in Seq(Events)
    BY DEF AbandonInflight
<1>2. MaxGhosts \in Nat
    BY BoundsAssumption
<1>3. QED
    BY <1>1, <1>2 DEF AbandonInflight, TypeOK

LEMMA NewAppType == NewApp \in Apps
BY DEF NewApp, Apps, Modes, Nothing, NoFloor

LEMMA InitType == Init => TypeOK
<1> SUFFICES ASSUME Init PROVE TypeOK
    OBVIOUS
<1>1. [pc \in {"board", "steer"} |-> 0] \in [{"board", "steer"} -> 0 .. MaxGhosts]
    BY BoundsAssumption
<1>2. QED
    BY <1>1, NewAppType, NoWorkerType DEF Init, TypeOK

\* Typing and erasing move the composer alone.
LEMMA EditsFrame ==
    ASSUME (\E d \in Drafts : Type(d)) \/ Erase
    PROVE  UNCHANGED <<unsent, app, chan, worker, wire, ghosts, steerQ, board, posted,
                       compacts, clears, dropped>>
BY DEF Type, Erase, Editing

\* What is given back is with the user, as the composer's text.
LEMMA RestoreType ==
    ASSUME TypeOK, NEW back, back \subseteq Drafts, Restore(back)
    PROVE  /\ unsent' \subseteq Drafts /\ composer' \subseteq unsent'
           /\ dropped' \subseteq Drafts \cup Notices
BY DEF TypeOK, Restore

LEMMA UserStepType ==
    ASSUME TypeOK, UserStep
    PROVE  TypeOK'
<1> USE DEF TypeOK
<1>1. ASSUME NEW d \in Drafts, Submit(d) PROVE TypeOK'
  <2>1. CASE d \in Msgs
    <3>1. <<d>> \in Seq(Msgs)
        BY <2>1
    <3>2. StartTurn(app, <<d>>) \in Startable
        BY <3>1, StartTurnType
    <3>3. app' \in Apps /\ worker' \in Workers
        BY <1>1, <2>1, <3>2, LaunchType DEF Submit
    <3>4. QED
        BY <1>1, <3>3 DEF Submit, Sent
  <2>2. CASE d \notin Msgs
    <3>1. RunShell(app, d) \in Startable
        BY <2>2, RunShellType DEF Drafts
    <3>2. app' \in Apps /\ worker' \in Workers
        BY <1>1, <2>2, <3>1, LaunchType DEF Submit
    <3>3. QED
        BY <1>1, <3>2 DEF Submit, Sent
  <2>3. QED
    BY <2>1, <2>2
<1>2. ASSUME NEW d \in Drafts, Enter(d) PROVE TypeOK'
  <2>1. CASE TurnSteerable(app) /\ d \in Msgs
    <3>1. Append(app.steered, d) \in Seq(Msgs) /\ Append(steerQ, d) \in Seq(Msgs)
        BY <2>1 DEF Apps
    <3>2. [app EXCEPT !.steered = Append(@, d)] \in Apps
        BY <3>1 DEF Apps
    <3>3. QED
        BY <1>2, <2>1, <3>1, <3>2 DEF Enter, Sent
  <2>2. CASE ~(TurnSteerable(app) /\ d \in Msgs)
    <3>1. QueueDraft(app, d, FALSE) \in Apps
        BY QueueDraftType
    <3>2. QED
        BY <1>2, <2>2, <3>1 DEF Enter, Sent
  <2>3. QED
    BY <2>1, <2>2
<1>3. ASSUME NEW d \in Drafts, QueueFollowUp(d) PROVE TypeOK'
  <2>1. QueueDraft(app, d, TRUE) \in Apps
    BY QueueDraftType
  <2>2. QED
    BY <1>3, <2>1 DEF QueueFollowUp, Sent
<1>4. CASE RecallLastQueued
  <2>1. Front(app.queued) \in Seq(Entries) /\ Last(app.queued) \in Entries
    BY <1>4 DEF RecallLastQueued, Front, Last, Apps
  <2>2. [app EXCEPT !.queued = Front(@)] \in Apps
    BY <2>1 DEF Apps
  <2>3. Range(Last(app.queued).texts) \subseteq Drafts
    <3>1. Last(app.queued).texts \in Seq(Msgs) \/ Last(app.queued).texts \in Seq(Shells)
        BY <2>1 DEF Entries
    <3>2. QED
        BY <3>1, RangeType DEF Drafts
  <2>4. /\ unsent' \subseteq Drafts /\ composer' \subseteq unsent' /\ app' \in Apps
        /\ UNCHANGED <<chan, worker, ghosts, steerQ, board, posted, compacts, clears, dropped>>
    BY <1>4, <2>2, <2>3 DEF RecallLastQueued, Recalled
  <2>5. QED
    BY <2>4
<1>5. CASE RecallSteered
  <2>1. Front(steerQ) \in Seq(Msgs) /\ Last(steerQ) \in Msgs
    BY <1>5 DEF RecallSteered, Front, Last
  <2>2. RemoveFirst(app.steered, Last(steerQ)) \in Seq(Msgs)
    BY RemoveFirstType DEF Apps
  <2>3. [app EXCEPT !.steered = RemoveFirst(@, Last(steerQ))] \in Apps
    BY <2>2 DEF Apps
  <2>4. QED
    BY <1>5, <2>1, <2>3 DEF RecallSteered, Recalled, Drafts
<1>6. CASE Interrupt
  <2> DEFINE a == SettleReasoning(app)
  <2>1. a \in Apps
    BY SettleReasoningType
  <2> HIDE DEF a
  <2>2. /\ chan' \in Seq(Events)
        /\ ghosts' \in [{"board", "steer"} -> 0 .. MaxGhosts]
    BY <1>6, AbandonType DEF Interrupt
  <2>3. CASE Undoable(a)
    <3>1. /\ Undo(a) \in Apps
          /\ {item[2] : item \in Range(Undone(a))} \subseteq Drafts
        BY <2>1, UndoType DEF Drafts
    <3>2. /\ DispatchAfterTurn(Undo(a), board)
          /\ Restore({item[2] : item \in Range(Undone(a))})
        BY <1>6, <2>3 DEF Interrupt, a
    <3>3. /\ unsent' \subseteq Drafts /\ composer' \subseteq unsent'
          /\ dropped' \subseteq Drafts \cup Notices
        BY <3>1, <3>2, RestoreType
    <3>4. QED
        BY <1>6, <2>2, <3>1, <3>2, <3>3, DispatchType DEF Interrupt
  <2>4. CASE ~Undoable(a)
    <3>1. Keep(a) \in Apps
        BY <2>1, KeepType
    <3>2. DispatchAfterTurn(Keep(a), board) /\ UNCHANGED <<unsent, composer, dropped>>
        BY <1>6, <2>4 DEF Interrupt, NothingBack, a
    <3>3. QED
        BY <1>6, <2>2, <3>1, <3>2, DispatchType DEF Interrupt
  <2>5. QED
    BY <2>3, <2>4
<1>7. CASE StartCompactTurn
  <2>1. CompactWorker(app.history) \in Workers
    <3>1. Len(app.history) \in Nat
        BY DEF Apps
    <3>2. QED
        BY <3>1, NoWorkerType DEF CompactWorker, Workers
  <2>2. [app |-> BeginCompact(app), worker |-> CompactWorker(app.history)] \in Startable
    BY <2>1, BeginType DEF Startable
  <2>3. app' \in Apps /\ worker' \in Workers
    BY <1>7, <2>2, LaunchType DEF StartCompactTurn
  <2>4. QED
    BY <1>7, <2>3 DEF StartCompactTurn
<1>8. CASE ClearConversation
  <2>1. [NewApp EXCEPT !.floor = app.floor, !.steeredThisTurn = app.steeredThisTurn] \in Apps
    BY NewAppType DEF Apps
  <2>2. /\ chan' \in Seq(Events)
        /\ ghosts' \in [{"board", "steer"} -> 0 .. MaxGhosts]
    BY <1>8, AbandonType DEF ClearConversation
  <2>3. HeldBy(app) \subseteq Drafts \cup Notices
    BY HeldByType
  <2>4. <<>> \in Seq(Notices) /\ <<>> \in Seq(Msgs)
    OBVIOUS
  <2>5. QED
    BY <1>8, <2>1, <2>2, <2>3, <2>4, NoWorkerType DEF ClearConversation
<1>9. CASE (\E d \in Drafts : Type(d)) \/ Erase
  <2>1. composer' \subseteq unsent
    BY <1>9 DEF Type, Erase
  <2>2. QED
    BY <1>9, <2>1, EditsFrame
<1>10. QED
    BY <1>1, <1>2, <1>3, <1>4, <1>5, <1>6, <1>7, <1>8, <1>9 DEF UserStep

LEMMA PostNoticeType ==
    ASSUME TypeOK, NEW n \in Notices, PostNotice(n)
    PROVE  TypeOK'
<1> USE DEF TypeOK
<1> DEFINE a == [app EXCEPT !.held = Append(@, n)]
<1>1. Append(app.held, n) \in Seq(Notices) /\ Append(board, n) \in Seq(Notices)
    BY DEF Apps
<1>2. a \in Apps
    BY <1>1 DEF Apps
<1> HIDE DEF a
<1>3. CASE Idle
  <2>1. DispatchAfterTurn(a, Append(board, n))
    BY <1>3 DEF PostNotice, a
  <2>2. QED
    BY <1>2, <2>1, DispatchType DEF PostNotice
<1>4. CASE ~Idle
  <2>1. app' = a /\ board' = Append(board, n) /\ UNCHANGED <<worker, wire, steerQ>>
    BY <1>4 DEF PostNotice, a
  <2>2. QED
    BY <1>1, <1>2, <2>1 DEF PostNotice
<1>5. QED
    BY <1>3, <1>4

LEMMA EndedType ==
    ASSUME NEW a0 \in Apps, NEW e
    PROVE  Ended(a0, e) \in Apps
<1> DEFINE a == TrackAttempt(a0, e)
<1>1. a \in Apps
    BY TrackAttemptType
<1> HIDE DEF a
<1>2. OnStreamDone(a) \in Apps /\ FailStream(a) \in Apps /\ BlockPrompt(a) \in Apps
    BY <1>1, OnStreamDoneType, FailStreamType, BlockPromptType
<1>3. QED
    BY <1>2 DEF Ended, a

LEMMA OnReplyEventType ==
    ASSUME TypeOK, OnReplyEvent
    PROVE  TypeOK'
<1> USE DEF TypeOK
<1> DEFINE e == Head(chan)
<1>1. e \in Events /\ chan' \in Seq(Events)
    BY DEF OnReplyEvent
<1>2. /\ unsent' \subseteq Drafts /\ composer' \subseteq unsent'
      /\ dropped' \subseteq Drafts \cup Notices
  <2> DEFINE back == {item[2] : item \in Range(BlockedMsgs(app))}
  <2>1. back \subseteq Drafts
    BY BlockPromptType DEF Drafts
  <2>2. Restore(back) \/ UNCHANGED <<unsent, composer, dropped>>
    BY DEF OnReplyEvent, NothingBack
  <2> HIDE DEF back
  <2>3. QED
    BY <2>1, <2>2, RestoreType
<1>3. /\ app' \in Apps /\ worker' \in Workers
      /\ steerQ' \in Seq(Msgs) /\ board' \in Seq(Notices)
  <2> HIDE DEF e
  <2>1. CASE e[1] \in Terminal
    <3>1. DispatchAfterTurn(Ended(app, e), board)
        BY <2>1 DEF OnReplyEvent, e
    <3>2. QED
        BY <3>1, EndedType, DispatchType
  <2>2. CASE e[1] \notin Terminal
    <3>1. app' = OnStreamEvent(app, e) /\ UNCHANGED <<worker, wire, board, steerQ>>
        BY <2>2 DEF OnReplyEvent, e
    <3>2. QED
        BY <1>1, <3>1, OnStreamEventType
  <2>3. QED
    BY <2>1, <2>2
<1>4. QED
    BY <1>1, <1>2, <1>3 DEF OnReplyEvent

\* What the backend threads send.
LEMMA PlainEvents ==
    \A kind \in {"ThinkingStart", "ThinkingChunk", "ThinkingEnd", "ToolCallDelta",
                 "HookNote", "ToolEnd", "Retrying", "StreamDone", "Error",
                 "PromptBlocked"} : Event(kind) \in Events
BY DEF Event, Events

LEMMA SendType ==
    ASSUME TypeOK, NEW events \in Seq(Events), Send(events)
    PROVE  chan' \in Seq(Events)
BY DEF Send, TypeOK

LEMMA EndThinkingType ==
    /\ EndThinking \in Seq(Events)
    /\ \A e \in Events : Append(EndThinking, e) \in Seq(Events)
<1>1. Event("ThinkingEnd") \in Events
    BY PlainEvents
<1>2. EndThinking \in Seq(Events)
    BY <1>1 DEF EndThinking
<1>3. QED
    BY <1>2

\* A worker's step leaves the shared state typed when it leaves itself, its channel
\* and the two shared queues typed.
LEMMA WorkerOnlyType ==
    ASSUME TypeOK, WorkerOnly, worker' \in Workers, chan' \in Seq(Events),
           steerQ' \in Seq(Msgs), board' \in Seq(Notices)
    PROVE  TypeOK'
BY DEF TypeOK, WorkerOnly

LEMMA WorkerStepType ==
    ASSUME TypeOK, WorkerStep
    PROVE  TypeOK'
<1>1. worker \in Workers /\ steerQ \in Seq(Msgs) /\ board \in Seq(Notices)
    BY DEF TypeOK
<1>0. /\ worker.att + 1 \in Nat /\ worker.rounds + 1 \in Nat /\ worker.lost + 1 \in Nat
      /\ worker.pieces + 1 \in Nat /\ worker.unfinished + 1 \in Nat
    BY <1>1 DEF Workers
<1>2. NextAttempt(worker) \in Workers /\ GoOn \in Workers
    BY <1>0, <1>1 DEF NextAttempt, GoOn, Workers
<1>19. NextAttempt(worker).rounds = worker.rounds /\ NextAttempt(worker).lost = worker.lost
    BY <1>1 DEF NextAttempt, Workers
<1>20. GoOn.unfinished = worker.unfinished
    BY <1>1 DEF GoOn, Workers
<1>3. Unsaid => Local
    BY DEF Unsaid
<1>4. ASSUME Local, worker' \in Workers, chan' \in Seq(Events) PROVE TypeOK'
    BY <1>1, <1>4, WorkerOnlyType DEF Local
<1>5. CASE Open
  <2>1. PICK noted \in {<<>>, <<Hook>>}, blocked \in BOOLEAN :
            /\ worker' = [worker EXCEPT !.pc = IF blocked THEN "gone" ELSE "board"]
            /\ Send(IF blocked
                    THEN Append([i \in DOMAIN noted |-> Event("HookNote")],
                                Event("PromptBlocked"))
                    ELSE [i \in DOMAIN noted |-> Event("HookNote")])
    BY <1>5 DEF Open
  <2>2. worker' \in Workers
    BY <1>1, <2>1 DEF Workers
  <2>3. [i \in DOMAIN noted |-> Event("HookNote")] \in Seq(Events)
    <3>1. Event("HookNote") \in Events
        BY PlainEvents
    <3>2. PICK n \in Nat : DOMAIN noted = 1 .. n
        OBVIOUS
    <3>3. [i \in 1 .. n |-> Event("HookNote")] \in [1 .. n -> Events]
        BY <3>1
    <3>4. QED
        BY <3>2, <3>3, SeqDef
  <2>4. chan' \in Seq(Events)
    <3>1. Append([i \in DOMAIN noted |-> Event("HookNote")], Event("PromptBlocked"))
            \in Seq(Events)
        BY <2>3, PlainEvents
    <3>2. QED
        BY <2>1, <2>3, <3>1, SendType
  <2>5. QED
    BY <1>4, <1>5, <2>2, <2>4 DEF Open
<1>6. CASE TakeBoard
  <2>1. [i \in DOMAIN board |-> <<"NoticeDelivered", board[i]>>] \in Seq(Events)
    <3>1. Len(board) \in Nat /\ DOMAIN board = 1 .. Len(board)
        BY <1>1
    <3>2. \A i \in 1 .. Len(board) : <<"NoticeDelivered", board[i]>> \in Events
        BY <1>1 DEF Events
    <3>3. [i \in 1 .. Len(board) |-> <<"NoticeDelivered", board[i]>>]
            \in [1 .. Len(board) -> Events]
        BY <3>2
    <3>4. QED
        BY <3>1, <3>3, SeqDef
  <2>2. chan' \in Seq(Events)
    BY <1>6, <2>1, SendType DEF TakeBoard
  <2>3. worker' \in Workers
    BY <1>1, <1>6 DEF TakeBoard, Workers
  <2>4. board' \in Seq(Notices) /\ steerQ' \in Seq(Msgs)
    BY <1>1, <1>6 DEF TakeBoard
  <2>5. QED
    BY <1>6, <2>2, <2>3, <2>4, WorkerOnlyType DEF TakeBoard
<1>7. CASE TakeSteer
  <2>1. [i \in DOMAIN steerQ |-> <<"Steered", steerQ[i]>>] \in Seq(Events)
    <3>1. Len(steerQ) \in Nat /\ DOMAIN steerQ = 1 .. Len(steerQ)
        BY <1>1
    <3>2. \A i \in 1 .. Len(steerQ) : <<"Steered", steerQ[i]>> \in Events
        BY <1>1 DEF Events
    <3>3. [i \in 1 .. Len(steerQ) |-> <<"Steered", steerQ[i]>>]
            \in [1 .. Len(steerQ) -> Events]
        BY <3>2
    <3>4. QED
        BY <3>1, <3>3, SeqDef
  <2>2. chan' \in Seq(Events)
    BY <1>7, <2>1, SendType DEF TakeSteer
  <2>3. worker' \in Workers
    BY <1>0, <1>2, <1>7, <1>19 DEF TakeSteer, Workers
  <2>4. board' \in Seq(Notices) /\ steerQ' \in Seq(Msgs)
    BY <1>1, <1>7 DEF TakeSteer
  <2>5. QED
    BY <1>7, <2>2, <2>3, <2>4, WorkerOnlyType DEF TakeSteer
<1>8. CASE Think
  <2>1. <<Event("ThinkingStart"), Event("ThinkingChunk")>> \in Seq(Events)
    BY PlainEvents
  <2>2. worker' \in Workers
    BY <1>0, <1>1, <1>8 DEF Think, Workers
  <2>3. QED
    BY <1>3, <1>4, <1>8, <2>1, <2>2, SendType DEF Think
<1>9. CASE Speak
  <2>1. <<"Chunk", worker.att>> \in Events
    BY <1>1 DEF Events, Workers
  <2>2. worker' \in Workers
    BY <1>0, <1>1, <1>9 DEF Speak, Workers
  <2>3. Append(EndThinking, <<"Chunk", worker.att>>) \in Seq(Events)
    BY <2>1, EndThinkingType
  <2>4. QED
    BY <1>3, <1>4, <1>9, <2>2, <2>3, SendType DEF Speak
<1>10. CASE DraftCall
  <2>1. Append(EndThinking, Event("ToolCallDelta")) \in Seq(Events)
    BY PlainEvents, EndThinkingType
  <2>2. worker' \in Workers
    BY <1>1, <1>10 DEF DraftCall, Workers
  <2>3. QED
    BY <1>3, <1>4, <1>10, <2>1, <2>2, SendType DEF DraftCall
<1>11. CASE Retry
  <2>1. <<Event("Retrying")>> \in Seq(Events)
    BY PlainEvents
  <2>2. worker' \in Workers
    BY <1>0, <1>2, <1>11, <1>19 DEF Retry, Workers
  <2>3. QED
    BY <1>3, <1>4, <1>11, <2>1, <2>2, SendType DEF Retry
<1>12. CASE RoundFailed
  <2>1. \A ended \in {<<>>, EndThinking} : Append(ended, Event("Error")) \in Seq(Events)
    <3>1. Event("Error") \in Events /\ <<>> \in Seq(Events) /\ EndThinking \in Seq(Events)
        BY PlainEvents, EndThinkingType
    <3>2. \A q \in Seq(Events) : Append(q, Event("Error")) \in Seq(Events)
        BY <3>1
    <3>3. QED
        BY <3>1, <3>2
  <2>2. worker' \in Workers
    BY <1>1, <1>12 DEF RoundFailed, Workers
  <2>3. QED
    BY <1>3, <1>4, <1>12, <2>1, <2>2, SendType DEF RoundFailed
<1>13. CASE RoundComplete
  <2>1. /\ Append(EndThinking, Event("StreamDone")) \in Seq(Events)
        /\ Append(EndThinking, Event("HookNote")) \in Seq(Events)
    BY PlainEvents, EndThinkingType
  <2>2. worker' \in Workers
    <3>1. /\ [worker EXCEPT !.pc = "gone", !.said = FALSE] \in Workers
          /\ [GoOn EXCEPT !.unfinished = 0] \in Workers
        BY <1>1, <1>2 DEF Workers
    <3>2. QED
        BY <1>13, <3>1 DEF RoundComplete
  <2>3. chan' \in Seq(Events)
    BY <1>13, <2>1, SendType DEF RoundComplete
  <2>4. QED
    BY <1>4, <1>13, <2>2, <2>3 DEF RoundComplete
<1>14. CASE RoundUnfinished
  <2>1. /\ Append(EndThinking, Event("Error")) \in Seq(Events)
        /\ Append(EndThinking, Event("HookNote")) \in Seq(Events)
    BY PlainEvents, EndThinkingType
  <2>2. worker' \in Workers
    <3>1. /\ [worker EXCEPT !.pc = "gone"] \in Workers
          /\ [GoOn EXCEPT !.unfinished = @ + 1] \in Workers
        BY <1>0, <1>1, <1>2, <1>20 DEF Workers
    <3>2. QED
        BY <1>14, <3>1 DEF RoundUnfinished
  <2>3. chan' \in Seq(Events)
    BY <1>14, <2>1, SendType DEF RoundUnfinished
  <2>4. QED
    BY <1>4, <1>14, <2>2, <2>3 DEF RoundUnfinished
<1>15. CASE ToolCalls
  <2>1. <<"ToolBatch", worker.att>> \in Events
    BY <1>1 DEF Events, Workers
  <2>2. EndThinking \o <<<<"ToolBatch", worker.att>>>> \in Seq(Events)
    BY <2>1, EndThinkingType
  <2>3. worker' \in Workers
    BY <1>1, <1>15 DEF ToolCalls, Workers
  <2>4. QED
    BY <1>4, <1>15, <2>2, <2>3, SendType DEF ToolCalls
<1>16. CASE ToolDone
  <2>1. /\ <<Event("ToolEnd")>> \in Seq(Events)
        /\ <<Event("ToolEnd"), Event("Error")>> \in Seq(Events)
    BY PlainEvents
  <2>2. worker' \in Workers
    BY <1>1, <1>2, <1>16 DEF ToolDone, Workers
  <2>3. chan' \in Seq(Events)
    BY <1>16, <2>1, SendType DEF ToolDone
  <2>4. QED
    BY <1>4, <1>16, <2>2, <2>3 DEF ToolDone
<1>17. CASE ShellDone
  <2>1. <<Event("ToolEnd"), Event("StreamDone")>> \in Seq(Events)
    BY PlainEvents
  <2>2. worker' \in Workers
    BY <1>1, <1>17 DEF ShellDone, Workers
  <2>3. QED
    BY <1>3, <1>4, <1>17, <2>1, <2>2, SendType DEF ShellDone
<1>18. QED
    BY <1>5, <1>6, <1>7, <1>8, <1>9, <1>10, <1>11, <1>12, <1>13, <1>14, <1>15, <1>16,
       <1>17 DEF WorkerStep

LEMMA GhostStepType ==
    ASSUME TypeOK, GhostStep
    PROVE  TypeOK'
<1>1. MaxGhosts \in Nat
    BY BoundsAssumption
<1>2. ghosts \in [{"board", "steer"} -> 0 .. MaxGhosts]
    BY DEF TypeOK
<1>3. CASE GhostTakesBoard
  <2>1. ghosts["board"] - 1 \in 0 .. MaxGhosts /\ ghosts["steer"] + 1 \in 0 .. MaxGhosts
    BY <1>1, <1>2, <1>3 DEF GhostTakesBoard
  <2>2. ghosts' \in [{"board", "steer"} -> 0 .. MaxGhosts]
    BY <1>2, <1>3, <2>1 DEF GhostTakesBoard
  <2>3. board' \in Seq(Notices)
    BY <1>3 DEF GhostTakesBoard
  <2>4. QED
    BY <1>3, <2>2, <2>3 DEF TypeOK, GhostTakesBoard
<1>4. CASE GhostTakesSteer
  <2>1. ghosts["steer"] - 1 \in 0 .. MaxGhosts
    BY <1>1, <1>2, <1>4 DEF GhostTakesSteer
  <2>2. ghosts' \in [{"board", "steer"} -> 0 .. MaxGhosts]
    BY <1>2, <1>4, <2>1 DEF GhostTakesSteer
  <2>3. steerQ' \in Seq(Msgs)
    BY <1>4 DEF GhostTakesSteer
  <2>4. QED
    BY <1>4, <2>2, <2>3 DEF TypeOK, GhostTakesSteer
<1>5. QED
    BY <1>3, <1>4 DEF GhostStep

\* Whatever the user, the backend threads and the loop do, every variable keeps its
\* type: in particular a merged batch holds messages only and no entry is empty.
THEOREM TypeCorrect == Spec => []TypeOK
<1>1. TypeOK /\ [Next]_vars => TypeOK'
  <2> SUFFICES ASSUME TypeOK, [Next]_vars PROVE TypeOK'
    OBVIOUS
  <2>1. CASE Next
    BY <2>1, UserStepType, PostNoticeType, OnReplyEventType, WorkerStepType, GhostStepType
    DEF Next
  <2>2. CASE UNCHANGED vars
    BY <2>2 DEF vars, TypeOK
  <2>3. QED
    BY <2>1, <2>2
<1>2. QED
    BY InitType, <1>1, PTL DEF Spec

-----------------------------------------------------------------------------
(***************************************************************************)
(* How a turn ends: a busy session always has a thread to end its turn,    *)
(* and a session at rest has nothing waiting.  Each needs the other: the   *)
(* loop dispatches what waits when it reads the turn's end, which is there *)
(* to be read because the thread sent it last; and a turn starts on an     *)
(* empty channel because the one before it left nothing behind.            *)
(***************************************************************************)
\* The inductive invariant.
TurnEnds == TypeOK /\ NoTurnIsStranded /\ NothingWaitsAtRest

-----------------------------------------------------------------------------
(* What the App's methods do to the mode, and to what waits.               *)

LEMMA ModeFrame ==
    ASSUME NEW a \in Apps
    PROVE  /\ \A item \in Items : Push(a, item).mode = a.mode
           /\ FlushSegment(a).mode = a.mode
           /\ FailLive(a).mode = a.mode
           /\ SettleHeld(a).mode = a.mode
           /\ ReclaimSteered(a).mode = a.mode
           /\ WithdrawAttempt(a).mode = a.mode
           /\ \A e : TrackAttempt(a, e).mode = a.mode
BY DEF Push, FlushSegment, FailLive, SettleHeld, ReclaimSteered, WithdrawAttempt,
       TrackAttempt, Apps

LEMMA SettleReasoningFrame ==
    ASSUME NEW a \in Apps
    PROVE  SettleReasoning(a).mode = a.mode
<1>1. Push(FlushSegment(a), Reasoning).mode = a.mode
    BY FlushSegmentType, ItemTypes, ModeFrame
<1>2. Push(FlushSegment(a), Reasoning) \in Apps
    BY FlushSegmentType, ItemTypes, PushType
<1>3. QED
    BY <1>1, <1>2 DEF SettleReasoning, Apps

\* No event but the turn's end ends the turn.
LEMMA OnStreamEventFrame ==
    ASSUME NEW a0 \in Apps, NEW e \in Events
    PROVE  OnStreamEvent(a0, e).mode = a0.mode
<1> DEFINE a == TrackAttempt(a0, e)
<1>1. a \in Apps /\ a.mode = a0.mode
    BY TrackAttemptType, ModeFrame
<1> HIDE DEF a
<1>2. FlushSegment(a) \in Apps /\ FlushSegment(a).mode = a0.mode
    BY <1>1, FlushSegmentType, ModeFrame
<1>3. [a EXCEPT !.text = e[2]].mode = a0.mode /\ [a EXCEPT !.thought = TRUE].mode = a0.mode
    BY <1>1 DEF Apps
<1>4. SettleReasoning(a).mode = a0.mode /\ WithdrawAttempt(a).mode = a0.mode
    BY <1>1, SettleReasoningFrame, ModeFrame
<1>5. Push(FlushSegment(a), Hook).mode = a0.mode
    BY <1>2, ModeFrame, ItemTypes
<1>6. /\ [FlushSegment(a) EXCEPT !.draft = TRUE].mode = a0.mode
      /\ [FlushSegment(a) EXCEPT !.live = <<e[2]>>].mode = a0.mode
    BY <1>2 DEF Apps
<1>7. [Push(a, Tool(Head(a.live))) EXCEPT !.live = Tail(@), !.draft = FALSE].mode = a0.mode
    BY <1>1 DEF Push, Apps
<1>8. DeliverSteered(a, e[2]).mode = a0.mode
    BY <1>2 DEF DeliverSteered, Push, Apps
<1>9. SettleDelivered(FlushSegment(a), e[2]).mode = a0.mode
    BY <1>2 DEF SettleDelivered, Push, Apps
<1>10. QED
    BY <1>1, <1>3, <1>4, <1>5, <1>6, <1>7, <1>8, <1>9 DEF OnStreamEvent, a

\* The turn's end, and an interrupt either way, leave the App at rest.
LEMMA EndedIsIdle ==
    ASSUME NEW a0 \in Apps, NEW e
    PROVE  Ended(a0, e).mode = "idle"
<1> DEFINE a == TrackAttempt(a0, e)
<1>1. a \in Apps
    BY TrackAttemptType
<1> HIDE DEF a
<1>2. OnStreamDone(a).mode = "idle"
  <2>1. Push(a, Compaction) \in Apps
    BY <1>1, ItemTypes, PushType
  <2>2. [Push(a, Compaction) EXCEPT !.mode = "idle", !.draft = FALSE] \in Apps
    BY <2>1 DEF Apps, Modes
  <2>3. [Push(a, Compaction) EXCEPT !.mode = "idle", !.draft = FALSE].mode = "idle"
    BY <2>1 DEF Apps
  <2> DEFINE b == SettleHeld(FlushSegment([a EXCEPT !.draft = FALSE]))
             c == IF a.mode = "shell" THEN b ELSE Push(b, Summary)
  <2>4. [a EXCEPT !.draft = FALSE] \in Apps
    BY <1>1 DEF Apps
  <2>5. b \in Apps
    BY <2>4, FlushSegmentType, SettleHeldType
  <2>6. c \in Apps
    BY <2>5, ItemTypes, PushType
  <2>7. [c EXCEPT !.mode = "idle"].mode = "idle"
    <3> HIDE DEF c
    <3>1. QED
        BY <2>6 DEF Apps
  <2>8. QED
    BY <2>2, <2>3, <2>7, ModeFrame DEF OnStreamDone
<1>3. FailStream(a).mode = "idle"
  <2>1. Push(FailLive(FlushSegment(SettleReasoning(a))), Error) \in Apps
    BY <1>1, SettleReasoningType, FlushSegmentType, FailLiveType, ItemTypes, PushType
  <2>2. QED
    BY <2>1 DEF FailStream, Apps
<1>4. BlockPrompt(a).mode = "idle"
    BY <1>1 DEF BlockPrompt, Apps
<1>5. QED
    BY <1>2, <1>3, <1>4 DEF Ended, a

LEMMA InterruptedIsIdle ==
    ASSUME NEW a \in Apps
    PROVE  Undo(a).mode = "idle" /\ Keep(a).mode = "idle"
<1>1. Undo(a).mode = "idle"
    BY DEF Undo, Apps
<1>2. Keep(a).mode = "idle"
  <2> DEFINE b == FailLive(FlushSegment(a))
             c == IF a.mode = "shell" THEN b ELSE Push(b, Error)
             d == SettleHeld(c)
             e == IF a.mode = "reply" THEN Push(d, Summary) ELSE d
  <2>1. b \in Apps
    BY FlushSegmentType, FailLiveType
  <2>2. c \in Apps
    BY <2>1, ItemTypes, PushType
  <2>3. e \in Apps
    <3> HIDE DEF c
    <3>1. QED
        BY <2>2, SettleHeldType, ItemTypes, PushType
  <2>4. Keep(a) = [e EXCEPT !.mode = "idle", !.draft = FALSE]
    BY DEF Keep
  <2>5. QED
    <3> HIDE DEF e
    <3>1. QED
        BY <2>3, <2>4 DEF Apps
<1>3. QED
    BY <1>1, <1>2

-----------------------------------------------------------------------------
(* dispatch_after_turn.                                                    *)

\* What a started turn's thread and mode are.
LEMMA StartedKinds ==
    ASSUME NEW a \in Apps
    PROVE  /\ \A batch \in Seq(Msgs) :
                 /\ StartTurn(a, batch).app.mode = "reply"
                 /\ StartTurn(a, batch).worker.kind = "reply"
                 /\ StartTurn(a, batch).worker.pc = "opening"
           /\ \A cmd \in Shells :
                 /\ RunShell(a, cmd).app.mode = "shell"
                 /\ RunShell(a, cmd).worker.kind = "shell"
                 /\ RunShell(a, cmd).worker.pc = "running"
           /\ StartBackgroundTurn(a).app.mode = "reply"
           /\ StartBackgroundTurn(a).worker.kind = "reply"
           /\ StartBackgroundTurn(a).worker.pc = "opening"
<1>1. \A h, batch : /\ ReplyWorker(h, batch).kind = "reply"
                    /\ ReplyWorker(h, batch).pc = "opening"
    BY DEF ReplyWorker, NoWorker
<1>2. \A h : ShellWorker(h).kind = "shell" /\ ShellWorker(h).pc = "running"
    BY DEF ShellWorker, NoWorker
<1>3. \A b \in Apps : BeginStream(b).mode = "reply"
    BY DEF BeginStream, Apps
<1>4. ASSUME NEW batch \in Seq(Msgs)
      PROVE  /\ StartTurn(a, batch).app.mode = "reply"
             /\ StartTurn(a, batch).worker.kind = "reply"
             /\ StartTurn(a, batch).worker.pc = "opening"
    BY <1>1, <1>3, RecordBatchType DEF StartTurn
<1>5. ASSUME NEW cmd \in Shells
      PROVE  /\ RunShell(a, cmd).app.mode = "shell"
             /\ RunShell(a, cmd).worker.kind = "shell"
             /\ RunShell(a, cmd).worker.pc = "running"
  <2>1. Push(a, Shell(cmd)) \in Apps
    BY ItemTypes, PushType
  <2>2. BeginShell(a, cmd).mode = "shell"
    BY <2>1 DEF BeginShell, Apps
  <2>3. QED
    BY <1>2, <2>2 DEF RunShell
<1>6. /\ StartBackgroundTurn(a).app.mode = "reply"
      /\ StartBackgroundTurn(a).worker.kind = "reply"
      /\ StartBackgroundTurn(a).worker.pc = "opening"
    BY <1>1, <1>3 DEF StartBackgroundTurn
<1>7. QED
    BY <1>4, <1>5, <1>6

\* With no queued turn after the reclaim, nothing steered was left, and no cell.
LEMMA NothingLeft ==
    ASSUME NEW a \in Apps, ReclaimSteered(SettleHeld(a)).queued = <<>>
    PROVE  /\ ReclaimSteered(SettleHeld(a)).steered = <<>>
           /\ ReclaimSteered(SettleHeld(a)).held = <<>>
<1> DEFINE s == SettleHeld(a)
<1>1. s \in Apps /\ s.held = <<>>
    BY SettleHeldType DEF SettleHeld, Apps
<1> HIDE DEF s
<1>2. s.steered = <<>>
  <2> SUFFICES ASSUME s.steered # <<>> PROVE FALSE
    OBVIOUS
  <2>1. ReclaimSteered(s).queued = <<[shell |-> FALSE, texts |-> s.steered]>> \o s.queued
    BY <1>1 DEF ReclaimSteered, Apps
  <2>2. s.queued \in Seq(Entries) /\ [shell |-> FALSE, texts |-> s.steered] \in Entries
    BY <1>1 DEF Apps, Entries
  <2>3. ReclaimSteered(s).queued # <<>>
    BY <2>1, <2>2
  <2>4. QED
    BY <2>3 DEF s
<1>3. QED
    BY <1>1, <1>2 DEF ReclaimSteered, s

\* Whatever an App at rest dispatches, on an empty channel, is a turn of its own or
\* rest with nothing waiting.
LEMMA DispatchEnds ==
    ASSUME NEW a \in Apps, a.mode = "idle", NEW unheard,
           DispatchAfterTurn(a, unheard), chan' = <<>>
    PROVE  NoTurnIsStranded' /\ NothingWaitsAtRest'
<1> DEFINE b == ReclaimSteered(SettleHeld(a))
           c == [b EXCEPT !.queued = Tail(@)]
           next == Head(b.queued)
<1>1. b \in Apps /\ b.mode = "idle"
    BY SettleHeldType, ReclaimSteeredType, ModeFrame
<1>2. b.queued = <<>> => b.steered = <<>> /\ b.held = <<>>
    BY NothingLeft
<1> HIDE DEF b
<1>3. /\ app' = AfterTurn(a, unheard).app /\ worker' = AfterTurn(a, unheard).worker
      /\ board' = <<>> /\ steerQ' = <<>>
    BY DEF DispatchAfterTurn, Launch
<1>4. \A i \in DOMAIN chan' : FALSE
    OBVIOUS
<1>5. CASE AfterTurn(a, unheard) = Rest(b) /\ b.queued = <<>>
  <2>1. app' = b /\ worker' = NoWorker
    BY <1>3, <1>5 DEF Rest
  <2>2. QED
    BY <1>1, <1>2, <1>3, <1>4, <1>5, <2>1 DEF NoTurnIsStranded, NothingWaitsAtRest, Idle
<1>6. ASSUME app'.mode # "idle", worker'.kind = app'.mode, worker'.pc # "gone"
      PROVE  NoTurnIsStranded' /\ NothingWaitsAtRest'
    BY <1>4, <1>6 DEF NoTurnIsStranded, NothingWaitsAtRest, Idle
<1>7. CASE b.queued # <<>>
  <2>1. next \in Entries /\ Tail(b.queued) \in Seq(Entries)
    BY <1>1, <1>7 DEF Apps
  <2>2. c \in Apps
    BY <1>1, <2>1 DEF Apps
  <2> HIDE DEF c
  <2>3. CASE next.shell
    <3>1. next.texts \in Seq(Shells) /\ next.texts # <<>>
        BY <2>1, <2>3 DEF Entries
    <3>2. next.texts[1] \in Shells
        BY <3>1
    <3>3. AfterTurn(a, unheard) = RunShell(c, next.texts[1])
        BY <1>7, <2>3 DEF AfterTurn, NextTurn, b, c
    <3>4. QED
        BY <1>3, <1>6, <2>2, <3>2, <3>3, StartedKinds
  <2>4. CASE ~next.shell
    <3>1. next.texts \in Seq(Msgs)
        BY <2>1, <2>4 DEF Entries
    <3>2. AfterTurn(a, unheard) = StartTurn(c, next.texts)
        BY <1>7, <2>4 DEF AfterTurn, NextTurn, b, c
    <3>3. QED
        BY <1>3, <1>6, <2>2, <3>1, <3>2, StartedKinds
  <2>5. QED
    BY <2>3, <2>4
<1>8. CASE b.queued = <<>> /\ AfterTurn(a, unheard) = StartBackgroundTurn(b)
    BY <1>1, <1>3, <1>6, <1>8, StartedKinds
<1>9. b.queued = <<>> => \/ AfterTurn(a, unheard) = Rest(b)
                         \/ AfterTurn(a, unheard) = StartBackgroundTurn(b)
    BY DEF AfterTurn, NextTurn, b
<1>10. QED
    BY <1>5, <1>7, <1>8, <1>9

-----------------------------------------------------------------------------
(* What a thread sends.                                                    *)

Quiet(events) == \A i \in DOMAIN events : events[i][1] \notin Terminal

\* While a thread is at work, its channel holds no turn's end and the session is
\* busy in its mode.
LEMMA AtWork ==
    ASSUME TurnEnds, worker.pc # "gone"
    PROVE  ~Idle /\ worker.kind = app.mode /\ Quiet(chan)
<1>1. ~Idle
    BY DEF TurnEnds, NothingWaitsAtRest, NoWorker
<1>2. QED
    BY <1>1 DEF TurnEnds, NoTurnIsStranded, Quiet

LEMMA StillAtWork ==
    ASSUME TurnEnds, worker.pc # "gone", WorkerOnly,
           worker'.kind = worker.kind, worker'.pc # "gone",
           NEW events \in Seq(Events), Quiet(events), chan' = chan \o events
    PROVE  NoTurnIsStranded' /\ NothingWaitsAtRest'
<1>1. ~Idle /\ worker.kind = app.mode /\ Quiet(chan)
    BY AtWork
<1>2. chan \in Seq(Events)
    BY DEF TurnEnds, TypeOK
<1>3. \A i \in DOMAIN chan' : chan'[i][1] \notin Terminal
  <2>1. /\ DOMAIN chan' = 1 .. Len(chan) + Len(events)
        /\ \A i \in 1 .. Len(chan) + Len(events) :
              chan'[i] = IF i <= Len(chan) THEN chan[i] ELSE events[i - Len(chan)]
    BY <1>2, ConcatProperties
  <2>2. QED
    BY <1>1, <1>2, <2>1 DEF Quiet
<1>4. app' = app
    BY DEF WorkerOnly
<1>5. QED
    BY <1>1, <1>3, <1>4 DEF NoTurnIsStranded, NothingWaitsAtRest, Idle

LEMMA TurnEndSent ==
    ASSUME TurnEnds, worker.pc # "gone", WorkerOnly,
           worker'.kind = worker.kind, worker'.pc = "gone",
           NEW events \in Seq(Events), Quiet(events), NEW end \in Events,
           end[1] \in Terminal, chan' = chan \o Append(events, end)
    PROVE  NoTurnIsStranded' /\ NothingWaitsAtRest'
<1>1. ~Idle /\ worker.kind = app.mode /\ Quiet(chan)
    BY AtWork
<1>2. chan \in Seq(Events)
    BY DEF TurnEnds, TypeOK
<1> DEFINE n == Len(chan) + Len(events)
<1>3. /\ chan' \in Seq(Events) /\ Len(chan') = n + 1
      /\ chan'[n + 1] = end
      /\ \A i \in 1 .. n : chan'[i][1] \notin Terminal
  <2> DEFINE last == Append(events, end)
  <2>1. /\ last \in Seq(Events) /\ Len(last) = Len(events) + 1
        /\ \A i \in 1 .. Len(events) : last[i] = events[i]
        /\ last[Len(events) + 1] = end
    BY AppendProperties
  <2>2. chan' = chan \o last
    OBVIOUS
  <2> HIDE DEF last
  <2>3. /\ chan' \in Seq(Events) /\ Len(chan') = Len(chan) + Len(last)
        /\ \A i \in 1 .. Len(chan) + Len(last) :
              chan'[i] = IF i <= Len(chan) THEN chan[i] ELSE last[i - Len(chan)]
    <3>1. /\ chan \o last \in Seq(Events)
          /\ Len(chan \o last) = Len(chan) + Len(last)
          /\ \A i \in 1 .. Len(chan) + Len(last) :
                (chan \o last)[i] = IF i <= Len(chan) THEN chan[i] ELSE last[i - Len(chan)]
        BY <1>2, <2>1, ConcatProperties
    <3>2. QED
        BY <2>2, <3>1
  <2>4. n \in Nat /\ Len(chan) \in Nat /\ Len(events) \in Nat
        /\ Len(chan) + Len(last) = n + 1
    BY <1>2, <2>1
  <2>5. chan'[n + 1] = end
    BY <2>1, <2>3, <2>4
  <2>6. ASSUME NEW i \in 1 .. n PROVE chan'[i][1] \notin Terminal
    <3>1. CASE i <= Len(chan)
        BY <1>1, <1>2, <2>3, <2>4, <3>1 DEF Quiet
    <3>2. CASE i > Len(chan)
      <4>1. i - Len(chan) \in 1 .. Len(events)
        BY <2>4, <3>2
      <4>2. chan'[i] = events[i - Len(chan)]
        BY <2>1, <2>3, <2>4, <3>2, <4>1
      <4>3. QED
        BY <4>1, <4>2 DEF Quiet
    <3>3. QED
        BY <2>4, <3>1, <3>2
  <2>7. \A i \in 1 .. n : chan'[i][1] \notin Terminal
    BY <2>6
  <2>8. chan' \in Seq(Events) /\ Len(chan') = n + 1
    BY <2>3, <2>4
  <2> HIDE DEF n
  <2>9. QED
    BY <2>5, <2>7, <2>8
<1>4. n \in Nat /\ DOMAIN chan' = 1 .. n + 1 /\ chan' # <<>> /\ Last(chan') = end
    BY <1>2, <1>3 DEF Last
<1>5. app' = app
    BY DEF WorkerOnly
<1> HIDE DEF n
<1>6. \A i \in DOMAIN chan' : chan'[i][1] \in Terminal => i = Len(chan')
    BY <1>3, <1>4
<1>7. QED
    BY <1>1, <1>3, <1>4, <1>5, <1>6 DEF NoTurnIsStranded, NothingWaitsAtRest, Idle

-----------------------------------------------------------------------------
(* The user's steps.                                                       *)

LEMMA SubmitEnds ==
    ASSUME TurnEnds, NEW d \in Drafts, Submit(d)
    PROVE  NoTurnIsStranded' /\ NothingWaitsAtRest'
<1> DEFINE started == IF d \in Msgs THEN StartTurn(app, <<d>>) ELSE RunShell(app, d)
<1>1. app \in Apps /\ chan' = <<>>
    BY DEF TurnEnds, TypeOK, NothingWaitsAtRest, Submit
<1>2. app' = started.app /\ worker' = started.worker
    BY DEF Submit, Launch
<1>3. started.app.mode # "idle" /\ started.worker.kind = started.app.mode
      /\ started.worker.pc # "gone"
  <2>1. CASE d \in Msgs
    <3>1. <<d>> \in Seq(Msgs)
        BY <2>1
    <3>2. QED
        BY <1>1, <2>1, <3>1, StartedKinds
  <2>2. CASE d \notin Msgs
    <3>1. d \in Shells
        BY <2>2 DEF Drafts
    <3>2. QED
        BY <1>1, <2>2, <3>1, StartedKinds
  <2>3. QED
    BY <2>1, <2>2
<1> HIDE DEF started
<1>4. \A i \in DOMAIN chan' : FALSE
    BY <1>1
<1>5. QED
    BY <1>2, <1>3, <1>4 DEF NoTurnIsStranded, NothingWaitsAtRest, Idle

\* A step that leaves a busy session busy, its thread and its channel alone.
LEMMA StillBusy ==
    ASSUME TurnEnds, ~Idle, app'.mode = app.mode, UNCHANGED <<worker, chan>>
    PROVE  NoTurnIsStranded' /\ NothingWaitsAtRest'
BY DEF TurnEnds, NoTurnIsStranded, NothingWaitsAtRest, Idle

LEMMA QueueDraftFrame ==
    ASSUME NEW a \in Apps, NEW d, NEW newBatch
    PROVE  QueueDraft(a, d, newBatch).mode = a.mode
BY DEF QueueDraft, Apps

LEMMA WaitingEnds ==
    ASSUME TurnEnds,
           \/ \E d \in Drafts : Enter(d) \/ QueueFollowUp(d)
           \/ RecallLastQueued
           \/ RecallSteered
    PROVE  NoTurnIsStranded' /\ NothingWaitsAtRest'
<1>1. app \in Apps
    BY DEF TurnEnds, TypeOK
<1>2. CASE \E d \in Drafts : Enter(d)
  <2>1. PICK d \in Drafts : Enter(d)
    BY <1>2
  <2>2. [app EXCEPT !.steered = Append(@, d)].mode = app.mode
    BY <1>1 DEF Apps
  <2>3. \/ app' = [app EXCEPT !.steered = Append(@, d)]
        \/ app' = QueueDraft(app, d, FALSE)
    BY <2>1 DEF Enter
  <2>4. app'.mode = app.mode
    <3>1. QueueDraft(app, d, FALSE).mode = app.mode
        BY <1>1, QueueDraftFrame
    <3>2. QED
        BY <2>2, <2>3, <3>1
  <2>5. ~Idle /\ UNCHANGED <<worker, chan>>
    BY <2>1 DEF Enter
  <2>6. QED
    BY <2>4, <2>5, StillBusy
<1>3. CASE \E d \in Drafts : QueueFollowUp(d)
  <2>1. PICK d \in Drafts : QueueFollowUp(d)
    BY <1>3
  <2>2. app'.mode = app.mode /\ ~Idle /\ UNCHANGED <<worker, chan>>
    BY <1>1, <2>1, QueueDraftFrame DEF QueueFollowUp
  <2>3. QED
    BY <2>2, StillBusy
<1>4. CASE RecallLastQueued
  <2>1. ~Idle
    BY <1>4 DEF RecallLastQueued, TurnEnds, NothingWaitsAtRest
  <2>2. app'.mode = app.mode /\ UNCHANGED <<worker, chan>>
    BY <1>1, <1>4 DEF RecallLastQueued, Apps
  <2>3. QED
    BY <2>1, <2>2, StillBusy
<1>5. CASE RecallSteered
  <2>1. ~Idle
    BY <1>5 DEF RecallSteered, TurnEnds, NothingWaitsAtRest
  <2>2. app'.mode = app.mode /\ UNCHANGED <<worker, chan>>
    BY <1>1, <1>5 DEF RecallSteered, Apps
  <2>3. QED
    BY <2>1, <2>2, StillBusy
<1>6. QED
    BY <1>2, <1>3, <1>4, <1>5

LEMMA InterruptEnds ==
    ASSUME TurnEnds, Interrupt
    PROVE  NoTurnIsStranded' /\ NothingWaitsAtRest'
<1> DEFINE a == SettleReasoning(app)
<1>1. app \in Apps
    BY DEF TurnEnds, TypeOK
<1>2. a \in Apps
    BY <1>1, SettleReasoningType
<1>3. chan' = <<>>
    BY DEF Interrupt, AbandonInflight
<1> HIDE DEF a
<1>4. DispatchAfterTurn(Undo(a), board) \/ DispatchAfterTurn(Keep(a), board)
    BY DEF Interrupt, a
<1>5. /\ Undo(a) \in Apps /\ Undo(a).mode = "idle"
      /\ Keep(a) \in Apps /\ Keep(a).mode = "idle"
    BY <1>2, UndoType, KeepType, InterruptedIsIdle
<1>6. QED
    BY <1>3, <1>4, <1>5, DispatchEnds

LEMMA CompactEnds ==
    ASSUME TurnEnds, StartCompactTurn
    PROVE  NoTurnIsStranded' /\ NothingWaitsAtRest'
<1>1. app \in Apps /\ chan' = <<>>
    BY DEF TurnEnds, TypeOK, NothingWaitsAtRest, StartCompactTurn
<1>2. /\ app' = BeginCompact(app) /\ worker' = CompactWorker(app.history)
    BY DEF StartCompactTurn, Launch
<1>3. /\ BeginCompact(app).mode = "compact"
      /\ CompactWorker(app.history).kind = "compact"
      /\ CompactWorker(app.history).pc = "round"
    BY <1>1 DEF BeginCompact, CompactWorker, NoWorker, Apps
<1>4. \A i \in DOMAIN chan' : FALSE
    BY <1>1
<1>5. QED
    BY <1>2, <1>3, <1>4 DEF NoTurnIsStranded, NothingWaitsAtRest, Idle

LEMMA ClearEnds ==
    ASSUME TurnEnds, ClearConversation
    PROVE  NoTurnIsStranded' /\ NothingWaitsAtRest'
<1> DEFINE new == [NewApp EXCEPT !.floor = app.floor,
                                 !.steeredThisTurn = app.steeredThisTurn]
<1>1. /\ app' = new /\ worker' = NoWorker /\ chan' = <<>>
      /\ board' = <<>> /\ steerQ' = <<>>
    BY DEF ClearConversation, AbandonInflight
<1>2. /\ new.mode = "idle" /\ new.queued = <<>> /\ new.steered = <<>>
      /\ new.held = <<>>
    BY DEF NewApp
<1> HIDE DEF new
<1>3. \A i \in DOMAIN chan' : FALSE
    BY <1>1
<1>4. QED
    BY <1>1, <1>2, <1>3 DEF NoTurnIsStranded, NothingWaitsAtRest, Idle

LEMMA EditEnds ==
    ASSUME TurnEnds, (\E d \in Drafts : Type(d)) \/ Erase
    PROVE  NoTurnIsStranded' /\ NothingWaitsAtRest'
BY EditsFrame DEF TurnEnds, NoTurnIsStranded, NothingWaitsAtRest, Idle

LEMMA UserStepEnds ==
    ASSUME TurnEnds, UserStep
    PROVE  NoTurnIsStranded' /\ NothingWaitsAtRest'
BY SubmitEnds, WaitingEnds, InterruptEnds, CompactEnds, ClearEnds, EditEnds DEF UserStep

-----------------------------------------------------------------------------
(* The loop's other inputs.                                                *)

LEMMA PostNoticeEnds ==
    ASSUME TurnEnds, NEW n \in Notices, PostNotice(n)
    PROVE  NoTurnIsStranded' /\ NothingWaitsAtRest'
<1> DEFINE a == [app EXCEPT !.held = Append(@, n)]
<1>1. app \in Apps /\ app.held \in Seq(Notices)
    BY DEF TurnEnds, TypeOK, Apps
<1>2. Append(app.held, n) \in Seq(Notices)
    BY <1>1
<1>3. a \in Apps /\ a.mode = app.mode
    BY <1>1, <1>2 DEF Apps
<1> HIDE DEF a
<1>4. CASE Idle
  <2>1. chan' = <<>>
    BY <1>4 DEF TurnEnds, NothingWaitsAtRest, PostNotice
  <2>2. DispatchAfterTurn(a, Append(board, n))
    BY <1>4 DEF PostNotice, a
  <2>3. QED
    BY <1>3, <1>4, <2>1, <2>2, DispatchEnds DEF Idle
<1>5. CASE ~Idle
  <2>1. app' = a /\ UNCHANGED <<worker, chan>>
    BY <1>5 DEF PostNotice, a
  <2>2. QED
    BY <1>3, <1>5, <2>1, StillBusy
<1>6. QED
    BY <1>4, <1>5

LEMMA ReplyEventEnds ==
    ASSUME TurnEnds, OnReplyEvent
    PROVE  NoTurnIsStranded' /\ NothingWaitsAtRest'
<1> DEFINE e == Head(chan)
<1>1. app \in Apps /\ chan \in Seq(Events)
    BY DEF TurnEnds, TypeOK
<1>2. chan # <<>> /\ chan' = Tail(chan)
    BY DEF OnReplyEvent
<1>3. /\ e = chan[1] /\ e \in Events /\ Len(chan) \in Nat /\ Len(chan) >= 1
      /\ DOMAIN chan = 1 .. Len(chan)
    BY <1>1, <1>2
<1>4. ~Idle
    BY <1>2 DEF TurnEnds, NothingWaitsAtRest
<1> HIDE DEF e
<1>5. CASE e[1] \in Terminal
  <2>1. Len(chan) = 1
    BY <1>3, <1>5 DEF TurnEnds, NoTurnIsStranded
  <2>2. chan' = <<>>
    BY <1>1, <1>2, <2>1
  <2>3. DispatchAfterTurn(Ended(app, e), board)
    BY <1>5 DEF OnReplyEvent, e
  <2>4. Ended(app, e) \in Apps /\ Ended(app, e).mode = "idle"
    BY <1>1, EndedType, EndedIsIdle
  <2>5. QED
    BY <2>2, <2>3, <2>4, DispatchEnds
<1>6. CASE e[1] \notin Terminal
  <2>1. app' = OnStreamEvent(app, e) /\ worker' = worker
    BY <1>6 DEF OnReplyEvent, e
  <2>2. app'.mode = app.mode
    BY <1>1, <1>3, <2>1, OnStreamEventFrame
  <2>3. /\ Len(chan') = Len(chan) - 1 /\ DOMAIN chan' = 1 .. Len(chan) - 1
        /\ \A i \in 1 .. Len(chan) - 1 : chan'[i] = chan[i + 1]
    BY <1>1, <1>2
  <2>4. \A i \in DOMAIN chan' :
            chan'[i][1] \in Terminal => i = Len(chan') /\ worker'.pc = "gone"
    <3>1. ASSUME NEW i \in DOMAIN chan', chan'[i][1] \in Terminal
          PROVE  i = Len(chan') /\ worker'.pc = "gone"
      <4>1. i + 1 \in DOMAIN chan /\ chan[i + 1][1] \in Terminal
        BY <1>3, <2>3, <3>1
      <4>2. i + 1 = Len(chan) /\ worker.pc = "gone"
        BY <4>1 DEF TurnEnds, NoTurnIsStranded
      <4>3. QED
        BY <1>3, <2>1, <2>3, <4>2
    <3>2. QED
        BY <3>1
  <2>5. worker.pc = "gone" => chan' # <<>> /\ Last(chan')[1] \in Terminal
    <3> SUFFICES ASSUME worker.pc = "gone"
                 PROVE  chan' # <<>> /\ Last(chan')[1] \in Terminal
        OBVIOUS
    <3>1. chan[Len(chan)][1] \in Terminal
        BY <1>4 DEF TurnEnds, NoTurnIsStranded, Last
    <3>2. Len(chan) # 1
        BY <1>3, <1>6, <3>1
    <3>3. Len(chan) - 1 \in 1 .. Len(chan) - 1 /\ Len(chan') # 0
        BY <1>3, <2>3, <3>2
    <3>4. chan'[Len(chan')] = chan[Len(chan)]
      <4>1. chan'[Len(chan) - 1] = chan[Len(chan) - 1 + 1]
        BY <2>3, <3>3
      <4>2. Len(chan) - 1 + 1 = Len(chan)
        BY <1>3
      <4>3. QED
        BY <2>3, <4>1, <4>2
    <3>5. QED
        BY <3>1, <3>3, <3>4 DEF Last
  <2>6. QED
    BY <1>4, <2>1, <2>2, <2>4, <2>5
    DEF TurnEnds, NoTurnIsStranded, NothingWaitsAtRest, Idle
<1>7. QED
    BY <1>5, <1>6

LEMMA GhostStepEnds ==
    ASSUME TurnEnds, GhostStep
    PROVE  NoTurnIsStranded' /\ NothingWaitsAtRest'
<1>1. UNCHANGED <<app, chan, worker>> /\ board' \in {board, <<>>} /\ steerQ' \in {steerQ, <<>>}
    BY DEF GhostStep, GhostTakesBoard, GhostTakesSteer
<1>2. QED
    BY <1>1 DEF TurnEnds, NoTurnIsStranded, NothingWaitsAtRest, Idle

-----------------------------------------------------------------------------
(* The thread's steps.                                                     *)

LEMMA QuietEvents ==
    /\ \A kind \in {"ThinkingStart", "ThinkingChunk", "ThinkingEnd", "ToolCallDelta",
                     "HookNote", "ToolEnd", "Retrying"} :
          Event(kind) \in Events /\ Event(kind)[1] \notin Terminal
    /\ \A kind \in {"StreamDone", "Error", "PromptBlocked"} :
          Event(kind) \in Events /\ Event(kind)[1] \in Terminal
    /\ \A k \in Nat : /\ <<"Chunk", k>> \in Events /\ <<"Chunk", k>>[1] \notin Terminal
                      /\ <<"ToolBatch", k>> \in Events
                      /\ <<"ToolBatch", k>>[1] \notin Terminal
BY PlainEvents DEF Event, Events, Terminal

\* No event, one quiet event, a phase's end and one quiet event.
LEMMA QuietRuns ==
    ASSUME NEW e \in Events, e[1] \notin Terminal
    PROVE  /\ <<e>> \in Seq(Events) /\ Quiet(<<e>>)
           /\ EndThinking \in Seq(Events) /\ Quiet(EndThinking)
           /\ Append(EndThinking, e) \in Seq(Events) /\ Quiet(Append(EndThinking, e))
           /\ EndThinking \o <<e>> \in Seq(Events) /\ Quiet(EndThinking \o <<e>>)
<1>1. <<e>> \in Seq(Events) /\ Quiet(<<e>>)
    BY DEF Quiet
<1>2. Event("ThinkingEnd") \in Events /\ Event("ThinkingEnd")[1] \notin Terminal
    BY QuietEvents
<1>3. EndThinking \in Seq(Events) /\ Quiet(EndThinking)
  <2>1. <<Event("ThinkingEnd")>> \in Seq(Events) /\ Quiet(<<Event("ThinkingEnd")>>)
    BY <1>2 DEF Quiet
  <2>2. <<>> \in Seq(Events) /\ Quiet(<<>>)
    BY DEF Quiet
  <2>3. QED
    BY <2>1, <2>2 DEF EndThinking
<1> DEFINE t == EndThinking
<1> HIDE DEF t
<1>4. t \in Seq(Events) /\ \A i \in 1 .. Len(t) : t[i][1] \notin Terminal
    BY <1>3 DEF Quiet, t
<1>5. Append(t, e) \in Seq(Events) /\ Quiet(Append(t, e))
  <2>1. /\ Append(t, e) \in Seq(Events) /\ Len(Append(t, e)) = Len(t) + 1
        /\ \A i \in 1 .. Len(t) : Append(t, e)[i] = t[i]
        /\ Append(t, e)[Len(t) + 1] = e
    BY <1>4, AppendProperties
  <2>2. QED
    BY <1>4, <2>1 DEF Quiet
<1>6. t \o <<e>> \in Seq(Events) /\ Quiet(t \o <<e>>)
  <2>1. <<e>> \in Seq(Events) /\ Len(<<e>>) = 1 /\ <<e>>[1] = e
    BY <1>1
  <2>2. /\ t \o <<e>> \in Seq(Events) /\ Len(t \o <<e>>) = Len(t) + 1
        /\ \A i \in 1 .. Len(t) + 1 :
              (t \o <<e>>)[i] = IF i <= Len(t) THEN t[i] ELSE <<e>>[i - Len(t)]
    BY <1>4, <2>1, ConcatProperties
  <2>3. \A i \in 1 .. Len(t) + 1 : (t \o <<e>>)[i][1] \notin Terminal
    BY <1>4, <2>1, <2>2
  <2>4. QED
    BY <2>2, <2>3 DEF Quiet
<1>7. QED
    BY <1>1, <1>3, <1>5, <1>6 DEF t

\* A thread that stays at work, and one that has sent its last word.
LEMMA OpenEnds ==
    ASSUME TurnEnds, Open
    PROVE  NoTurnIsStranded' /\ NothingWaitsAtRest'
<1>1. PICK noted \in {<<>>, <<Hook>>}, blocked \in BOOLEAN :
        /\ worker' = [worker EXCEPT !.pc = IF blocked THEN "gone" ELSE "board"]
        /\ Send(IF blocked
                THEN Append([i \in DOMAIN noted |-> Event("HookNote")], Event("PromptBlocked"))
                ELSE [i \in DOMAIN noted |-> Event("HookNote")])
    BY DEF Open
<1> DEFINE notes == [i \in DOMAIN noted |-> Event("HookNote")]
<1>2. notes \in Seq(Events) /\ Quiet(notes)
  <2> DEFINE h == Event("HookNote")
  <2>1. h \in Events /\ h[1] \notin Terminal
    BY QuietEvents
  <2> HIDE DEF h
  <2>2. [i \in DOMAIN noted |-> h] \in Seq(Events)
    <3>1. <<>> \in Seq({Hook}) /\ <<Hook>> \in Seq({Hook})
        OBVIOUS
    <3>2. noted \in Seq({Hook})
        BY <3>1
    <3>3. QED
        BY <2>1, <3>2
  <2>3. Quiet([i \in DOMAIN noted |-> h])
    BY <2>1 DEF Quiet
  <2>4. QED
    BY <2>2, <2>3 DEF h
<1> HIDE DEF notes
<1>3. worker \in Workers /\ worker.pc = "opening" /\ WorkerOnly
    BY DEF TurnEnds, TypeOK, Open, Local
<1>4. CASE blocked
  <2>1. chan' = chan \o Append(notes, Event("PromptBlocked"))
    BY <1>1, <1>4 DEF Send, notes
  <2>2. worker'.kind = worker.kind /\ worker'.pc = "gone"
    BY <1>1, <1>3, <1>4 DEF Workers
  <2>3. QED
    BY <1>2, <1>3, <2>1, <2>2, QuietEvents, TurnEndSent
<1>5. CASE ~blocked
  <2>1. chan' = chan \o notes
    BY <1>1, <1>5 DEF Send, notes
  <2>2. worker'.kind = worker.kind /\ worker'.pc # "gone"
    BY <1>1, <1>3, <1>5 DEF Workers
  <2>3. QED
    BY <1>2, <1>3, <2>1, <2>2, StillAtWork
<1>6. QED
    BY <1>4, <1>5

LEMMA TakeEnds ==
    ASSUME TurnEnds, TakeBoard \/ TakeSteer
    PROVE  NoTurnIsStranded' /\ NothingWaitsAtRest'
<1>1. worker \in Workers /\ board \in Seq(Notices) /\ steerQ \in Seq(Msgs)
    BY DEF TurnEnds, TypeOK
<1>2. CASE TakeBoard
  <2> DEFINE events == [i \in DOMAIN board |-> <<"NoticeDelivered", board[i]>>]
  <2>1. \A n \in Notices : <<"NoticeDelivered", n>> \in Events
    BY DEF Events
  <2>2. events \in Seq(Events)
    BY <1>1, <2>1
  <2>3. Quiet(events)
    BY DEF Quiet, Terminal
  <2>4. chan' = chan \o events
    BY <1>2 DEF TakeBoard, Send
  <2> HIDE DEF events
  <2>5. /\ worker'.kind = worker.kind /\ worker'.pc # "gone" /\ worker.pc # "gone"
        /\ WorkerOnly
    BY <1>1, <1>2 DEF TakeBoard, Workers
  <2>6. QED
    BY <2>2, <2>3, <2>4, <2>5, StillAtWork
<1>3. CASE TakeSteer
  <2> DEFINE events == [i \in DOMAIN steerQ |-> <<"Steered", steerQ[i]>>]
  <2>1. \A m \in Msgs : <<"Steered", m>> \in Events
    BY DEF Events
  <2>2. events \in Seq(Events)
    BY <1>1, <2>1
  <2>3. Quiet(events)
    BY DEF Quiet, Terminal
  <2>4. chan' = chan \o events
    BY <1>3 DEF TakeSteer, Send
  <2> HIDE DEF events
  <2>5. /\ worker'.kind = worker.kind /\ worker'.pc # "gone" /\ worker.pc # "gone"
        /\ WorkerOnly
    BY <1>1, <1>3 DEF TakeSteer, NextAttempt, Workers
  <2>6. QED
    BY <2>2, <2>3, <2>4, <2>5, StillAtWork
<1>4. QED
    BY <1>2, <1>3

LEMMA StreamEnds ==
    ASSUME TurnEnds, Think \/ Speak \/ DraftCall \/ Retry \/ ToolCalls
    PROVE  NoTurnIsStranded' /\ NothingWaitsAtRest'
<1>1. worker \in Workers /\ worker.att \in Nat
    BY DEF TurnEnds, TypeOK, Workers
<1>2. worker'.kind = worker.kind /\ worker'.pc # "gone" /\ worker.pc # "gone" /\ WorkerOnly
    BY <1>1 DEF Think, Speak, DraftCall, Retry, ToolCalls, Streaming, NextAttempt, Unsaid,
                Local, Workers
<1>3. ASSUME NEW events \in Seq(Events), Quiet(events), chan' = chan \o events
      PROVE  NoTurnIsStranded' /\ NothingWaitsAtRest'
    BY <1>2, <1>3, StillAtWork
<1>4. CASE Think
  <2> DEFINE events == <<Event("ThinkingStart"), Event("ThinkingChunk")>>
  <2>1. /\ Event("ThinkingStart") \in Events /\ Event("ThinkingStart")[1] \notin Terminal
        /\ Event("ThinkingChunk") \in Events /\ Event("ThinkingChunk")[1] \notin Terminal
    BY QuietEvents
  <2>2. events \in Seq(Events)
    BY <2>1
  <2>3. Quiet(events)
    BY <2>1 DEF Quiet
  <2>4. chan' = chan \o events
    BY <1>4 DEF Think, Send
  <2>5. QED
    BY <1>3, <2>2, <2>3, <2>4
<1>5. CASE Speak
    BY <1>1, <1>3, <1>5, QuietEvents, QuietRuns DEF Speak, Send
<1>6. CASE DraftCall
    BY <1>3, <1>6, QuietEvents, QuietRuns DEF DraftCall, Send
<1>7. CASE Retry
    BY <1>3, <1>7, QuietEvents, QuietRuns DEF Retry, Send
<1>8. CASE ToolCalls
    BY <1>1, <1>3, <1>8, QuietEvents, QuietRuns DEF ToolCalls, Send
<1>9. QED
    BY <1>4, <1>5, <1>6, <1>7, <1>8

\* An outcome either goes on with one more event or sends the turn's end.
LEMMA OutcomeEnds ==
    ASSUME TurnEnds, RoundFailed \/ RoundComplete \/ RoundUnfinished
    PROVE  NoTurnIsStranded' /\ NothingWaitsAtRest'
<1>1. worker \in Workers
    BY DEF TurnEnds, TypeOK
<1>2. worker.pc # "gone" /\ WorkerOnly
    BY DEF RoundFailed, RoundComplete, RoundUnfinished, Unsaid, Local
<1>3. ASSUME worker'.kind = worker.kind, worker'.pc = "gone",
             NEW kind \in {"StreamDone", "Error"}, NEW run \in {<<>>, EndThinking},
             chan' = chan \o Append(run, Event(kind))
      PROVE  NoTurnIsStranded' /\ NothingWaitsAtRest'
  <2>1. Event(kind) \in Events /\ Event(kind)[1] \in Terminal
    BY QuietEvents
  <2>2. EndThinking \in Seq(Events) /\ Quiet(EndThinking)
    BY QuietEvents, QuietRuns
  <2>3. <<>> \in Seq(Events) /\ Quiet(<<>>)
    BY DEF Quiet
  <2>4. run \in Seq(Events) /\ Quiet(run)
    BY <2>2, <2>3
  <2>5. QED
    BY <1>2, <1>3, <2>1, <2>4, TurnEndSent
<1>4. ASSUME worker'.kind = worker.kind, worker'.pc # "gone",
             chan' = chan \o Append(EndThinking, Event("HookNote"))
      PROVE  NoTurnIsStranded' /\ NothingWaitsAtRest'
    BY <1>2, <1>4, QuietEvents, QuietRuns, StillAtWork
<1>5. CASE RoundFailed
  <2>1. worker'.kind = worker.kind /\ worker'.pc = "gone"
    BY <1>1, <1>5 DEF RoundFailed, Workers
  <2>2. PICK run \in {<<>>, EndThinking} : chan' = chan \o Append(run, Event("Error"))
    BY <1>5 DEF RoundFailed, Send
  <2>3. QED
    BY <1>3, <2>1, <2>2
<1>6. /\ GoOn.kind = worker.kind /\ GoOn.pc = "board" /\ GoOn \in Workers
      /\ [worker EXCEPT !.pc = "gone", !.said = FALSE].kind = worker.kind
      /\ [worker EXCEPT !.pc = "gone", !.said = FALSE].pc = "gone"
      /\ [worker EXCEPT !.pc = "gone"].kind = worker.kind
      /\ [worker EXCEPT !.pc = "gone"].pc = "gone"
    BY <1>1 DEF GoOn, Workers
<1>7. /\ \A n : /\ [GoOn EXCEPT !.unfinished = n].kind = worker.kind
                /\ [GoOn EXCEPT !.unfinished = n].pc = "board"
    <2> DEFINE g == GoOn
    <2> HIDE DEF g
    <2>1. g \in Workers /\ g.kind = worker.kind /\ g.pc = "board"
        BY <1>6 DEF g
    <2>2. \A n : [g EXCEPT !.unfinished = n].kind = worker.kind
                /\ [g EXCEPT !.unfinished = n].pc = "board"
        BY <2>1 DEF Workers
    <2>3. QED
        BY <2>2 DEF g
<1>8. CASE RoundComplete
  <2>1. CASE /\ worker' = [worker EXCEPT !.pc = "gone", !.said = FALSE]
             /\ Send(Append(EndThinking, Event("StreamDone")))
    BY <1>3, <1>6, <2>1 DEF Send
  <2>2. CASE /\ worker' = [GoOn EXCEPT !.unfinished = 0]
             /\ Send(Append(EndThinking, Event("HookNote")))
    BY <1>4, <1>7, <2>2 DEF Send
  <2>3. QED
    BY <1>8, <2>1, <2>2 DEF RoundComplete
<1>9. CASE RoundUnfinished
  <2>1. CASE /\ worker' = [worker EXCEPT !.pc = "gone"]
             /\ Send(Append(EndThinking, Event("Error")))
    BY <1>3, <1>6, <2>1 DEF Send
  <2>2. CASE /\ worker' = [GoOn EXCEPT !.unfinished = worker.unfinished + 1]
             /\ Send(Append(EndThinking, Event("HookNote")))
    BY <1>4, <1>7, <2>2 DEF Send
  <2>3. worker.unfinished = GoOn.unfinished
    BY <1>1 DEF GoOn, Workers
  <2>4. QED
    BY <1>9, <2>1, <2>2, <2>3 DEF RoundUnfinished
<1>10. QED
    BY <1>5, <1>8, <1>9

LEMMA DoneEnds ==
    ASSUME TurnEnds, ToolDone \/ ShellDone
    PROVE  NoTurnIsStranded' /\ NothingWaitsAtRest'
<1>1. worker \in Workers
    BY DEF TurnEnds, TypeOK
<1>2. worker.pc # "gone" /\ WorkerOnly
    BY DEF ToolDone, ShellDone, Unsaid, Local
<1>3. <<Event("ToolEnd")>> \in Seq(Events) /\ Quiet(<<Event("ToolEnd")>>)
    BY QuietEvents, QuietRuns
<1>4. ASSUME worker'.kind = worker.kind, worker'.pc = "gone",
             NEW kind \in {"StreamDone", "Error"},
             chan' = chan \o <<Event("ToolEnd"), Event(kind)>>
      PROVE  NoTurnIsStranded' /\ NothingWaitsAtRest'
  <2>1. \A x, y : <<x, y>> = Append(<<x>>, y)
    OBVIOUS
  <2>2. Event(kind) \in Events /\ Event(kind)[1] \in Terminal
    BY QuietEvents
  <2>3. chan' = chan \o Append(<<Event("ToolEnd")>>, Event(kind))
    BY <1>4, <2>1
  <2>4. QED
    BY <1>2, <1>3, <1>4, <2>2, <2>3, TurnEndSent
<1>5. /\ GoOn.kind = worker.kind /\ GoOn.pc # "gone"
      /\ [worker EXCEPT !.pc = "gone"].kind = worker.kind
      /\ [worker EXCEPT !.pc = "gone"].pc = "gone"
    BY <1>1 DEF GoOn, Workers
<1>6. CASE ToolDone
  <2>1. CASE worker' = GoOn /\ Send(<<Event("ToolEnd")>>)
    BY <1>2, <1>3, <1>5, <2>1, StillAtWork DEF Send
  <2>2. CASE /\ worker' = [worker EXCEPT !.pc = "gone"]
             /\ Send(<<Event("ToolEnd"), Event("Error")>>)
    BY <1>4, <1>5, <2>2 DEF Send
  <2>3. QED
    BY <1>6, <2>1, <2>2 DEF ToolDone
<1>7. CASE ShellDone
    BY <1>4, <1>5, <1>7 DEF ShellDone, Send
<1>8. QED
    BY <1>6, <1>7

-----------------------------------------------------------------------------

LEMMA TurnEndsInvariant == Spec => []TurnEnds
<1>1. Init => TurnEnds
  <2> SUFFICES ASSUME Init PROVE TurnEnds
    OBVIOUS
  <2>1. \A i \in DOMAIN chan : FALSE
    BY DEF Init
  <2>2. QED
    BY <2>1, InitType
    DEF Init, TurnEnds, NoTurnIsStranded, NothingWaitsAtRest, Idle, NewApp
<1>2. TurnEnds /\ TypeOK' /\ [Next]_vars => TurnEnds'
  <2> SUFFICES ASSUME TurnEnds, TypeOK', [Next]_vars
               PROVE  NoTurnIsStranded' /\ NothingWaitsAtRest'
    BY DEF TurnEnds
  <2>1. CASE WorkerStep
    BY <2>1, OpenEnds, TakeEnds, StreamEnds, OutcomeEnds, DoneEnds DEF WorkerStep
  <2>2. CASE Next
    BY <2>1, <2>2, UserStepEnds, PostNoticeEnds, ReplyEventEnds, GhostStepEnds DEF Next
  <2>3. CASE UNCHANGED vars
    BY <2>3 DEF vars, TurnEnds, NoTurnIsStranded, NothingWaitsAtRest, Idle
  <2>4. QED
    BY <2>2, <2>3
<1>3. QED
    BY <1>1, <1>2, TypeCorrect, PTL DEF Spec

\* Whatever the user, the threads and the loop do in whatever order - interrupts,
\* /clear and abandoned threads included - a busy session has a thread of its kind
\* at work or the turn's one end waiting to be read, last in the channel.
THEOREM NeverStranded == Spec => []NoTurnIsStranded
<1>1. TurnEnds => NoTurnIsStranded
    BY DEF TurnEnds
<1>2. QED
    BY <1>1, TurnEndsInvariant, PTL

\* Whichever way a turn ended - its own end, an error, a blocked prompt, an
\* interrupt, a /clear - a session at rest has no queued turn, unread steer, held
\* cell or undelivered note left.
THEOREM RestIsQuiet == Spec => []NothingWaitsAtRest
<1>1. TurnEnds => NothingWaitsAtRest
    BY DEF TurnEnds
<1>2. QED
    BY <1>1, TurnEndsInvariant, PTL

-----------------------------------------------------------------------------
(***************************************************************************)
(* Where drafts and notices are, for any messages, commands, notices and   *)
(* bounds: what the App holds, what is with the user and what is lost are  *)
(* apart and together all there is, and what the backend may still read or *)
(* has announced is a copy of rows the App still holds.                    *)
(***************************************************************************)
(***************************************************************************)
(* What a sequence holds, when D says what each element does: D[item] for  *)
(* a history item, D[entry] for a queue entry, D[e] for an event.          *)
(***************************************************************************)
Carried(s, D) == UNION {D[s[i]] : i \in DOMAIN s}
Apart(s, D) == \A i, j \in DOMAIN s : i # j => D[s[i]] \cap D[s[j]] = {}

ItemHolds == [item \in Items |-> IF IsDraft(item) \/ IsNote(item) THEN {item[2]} ELSE {}]
EntryHolds == [entry \in Entries |-> Range(entry.texts)]
EventHolds == [e \in Events |-> IF e[1] \in {"Steered", "NoticeDelivered"} THEN {e[2]} ELSE {}]

\* No draft is queued twice, and a command is an entry of its own.
OneEach(entry) == IsInjective(entry.texts) /\ (entry.shell => entry.texts = <<entry.texts[1]>>)
Tidy(q) == Apart(q, EntryHolds) /\ \A entry \in Range(q) : OneEach(entry)

\* What the App holds, and that it holds nothing twice.
Kept(a) == Carried(a.history, ItemHolds) \cup Carried(a.queued, EntryHolds)
           \cup Range(a.steered) \cup Range(a.held)
NoneTwice(a) ==
    /\ Apart(a.history, ItemHolds)
    /\ Tidy(a.queued)
    /\ IsInjective(a.steered)
    /\ IsInjective(a.held)
    /\ Carried(a.history, ItemHolds) \cap Carried(a.queued, EntryHolds) = {}
    /\ Carried(a.history, ItemHolds) \cap Range(a.steered) = {}
    /\ Carried(a.history, ItemHolds) \cap Range(a.held) = {}
    /\ Carried(a.queued, EntryHolds) \cap Range(a.steered) = {}

Everything == Drafts \cup posted
AllThere ==
    /\ NoneTwice(app)
    /\ Kept(app) \cap unsent = {}
    /\ Kept(app) \cap dropped = {}
    /\ unsent \cap dropped = {}
    /\ Kept(app) \cup unsent \cup dropped = Everything

\* What was sent to the loop and not read names rows the App still holds, each once.
Mirrored(a, sent) ==
    /\ Apart(sent, EventHolds)
    /\ IsInjective(steerQ) /\ IsInjective(board)
    /\ Carried(sent, EventHolds) \cap (Range(steerQ) \cup Range(board)) = {}
    /\ Range(steerQ) \subseteq Range(a.steered)
    /\ Range(board) \subseteq Range(a.held)
    /\ Carried(sent, EventHolds) \subseteq Range(a.steered) \cup Range(a.held)

OnlyRepliesSteered == app.mode # "reply" => app.steered = <<>>
Accounted == AllThere /\ Mirrored(app, chan) /\ OnlyRepliesSteered

\* The inductive invariant.
NothingLost == TurnEnds /\ Accounted

-----------------------------------------------------------------------------
(* What joined, taken and mapped sequences hold.                           *)

LEMMA JoinHolds ==
    ASSUME NEW S, NEW D, NEW s \in Seq(S), NEW t \in Seq(S)
    PROVE  /\ s \o t \in Seq(S)
           /\ Carried(s \o t, D) = Carried(s, D) \cup Carried(t, D)
           /\ Apart(s \o t, D) <=> /\ Apart(s, D) /\ Apart(t, D)
                                   /\ Carried(s, D) \cap Carried(t, D) = {}
<1> DEFINE st == s \o t
           m == Len(s)
           n == Len(t)
<1>1. /\ st \in Seq(S) /\ m \in Nat /\ n \in Nat
      /\ DOMAIN s = 1 .. m /\ DOMAIN t = 1 .. n /\ DOMAIN st = 1 .. m + n
      /\ \A i \in 1 .. m + n : st[i] = IF i <= m THEN s[i] ELSE t[i - m]
    BY ConcatProperties, LenProperties
<1> HIDE DEF st, m, n
<1>2. /\ \A i \in 1 .. m : i \in 1 .. m + n /\ st[i] = s[i]
      /\ \A i \in 1 .. n : m + i \in 1 .. m + n /\ st[m + i] = t[i]
      /\ \A k \in 1 .. m + n : k \in 1 .. m \/ \E i \in 1 .. n : k = m + i
  <2>1. \A i \in 1 .. m : i \in 1 .. m + n /\ st[i] = s[i]
    BY <1>1
  <2>2. ASSUME NEW i \in 1 .. n PROVE m + i \in 1 .. m + n /\ st[m + i] = t[i]
    <3>1. m + i \in 1 .. m + n /\ ~(m + i <= m) /\ (m + i) - m = i
        BY <1>1
    <3>2. QED
        BY <1>1, <3>1
  <2>3. ASSUME NEW k \in 1 .. m + n, k \notin 1 .. m PROVE \E i \in 1 .. n : k = m + i
    <3>1. k - m \in 1 .. n /\ k = m + (k - m)
        BY <1>1, <2>3
    <3>2. QED
        BY <3>1
  <2>4. QED
    BY <2>1, <2>2, <2>3
<1>3. Carried(st, D) = Carried(s, D) \cup Carried(t, D)
  <2>1. \A x : (\E k \in 1 .. m + n : x \in D[st[k]])
               <=> (\E i \in 1 .. m : x \in D[s[i]]) \/ (\E i \in 1 .. n : x \in D[t[i]])
    BY <1>2
  <2>2. /\ \A x : x \in Carried(st, D) <=> \E k \in 1 .. m + n : x \in D[st[k]]
        /\ \A x : x \in Carried(s, D) <=> \E i \in 1 .. m : x \in D[s[i]]
        /\ \A x : x \in Carried(t, D) <=> \E i \in 1 .. n : x \in D[t[i]]
    BY <1>1 DEF Carried
  <2>3. QED
    BY <2>1, <2>2
<1>4. ASSUME Apart(st, D)
      PROVE  Apart(s, D) /\ Apart(t, D) /\ Carried(s, D) \cap Carried(t, D) = {}
  <2>1. \A i, j \in 1 .. m + n : i # j => D[st[i]] \cap D[st[j]] = {}
    BY <1>1, <1>4 DEF Apart
  <2>2. Apart(s, D)
    BY <1>1, <1>2, <2>1 DEF Apart
  <2>3. ASSUME NEW i \in 1 .. n, NEW j \in 1 .. n, i # j PROVE D[t[i]] \cap D[t[j]] = {}
    <3>1. m + i # m + j
        BY <1>1, <2>3
    <3>2. QED
        BY <1>2, <2>1, <3>1
  <2>4. ASSUME NEW i \in 1 .. m, NEW j \in 1 .. n PROVE D[s[i]] \cap D[t[j]] = {}
    <3>1. i # m + j
        BY <1>1
    <3>2. QED
        BY <1>2, <2>1, <3>1
  <2>5. QED
    BY <1>1, <2>2, <2>3, <2>4 DEF Apart, Carried
<1>5. ASSUME Apart(s, D), Apart(t, D), Carried(s, D) \cap Carried(t, D) = {}
      PROVE  Apart(st, D)
  <2>1. /\ \A i, j \in 1 .. m : i # j => D[s[i]] \cap D[s[j]] = {}
        /\ \A i, j \in 1 .. n : i # j => D[t[i]] \cap D[t[j]] = {}
        /\ \A i \in 1 .. m, j \in 1 .. n : D[s[i]] \cap D[t[j]] = {}
    <3>1. /\ \A i, j \in 1 .. m : i # j => D[s[i]] \cap D[s[j]] = {}
          /\ \A i, j \in 1 .. n : i # j => D[t[i]] \cap D[t[j]] = {}
        BY <1>1, <1>5 DEF Apart
    <3>2. ASSUME NEW i \in 1 .. m, NEW j \in 1 .. n PROVE D[s[i]] \cap D[t[j]] = {}
      <4>1. D[s[i]] \subseteq Carried(s, D) /\ D[t[j]] \subseteq Carried(t, D)
        BY <1>1 DEF Carried
      <4>2. QED
        BY <1>5, <4>1
    <3>3. QED
        BY <3>1, <3>2
  <2>2. ASSUME NEW k \in 1 .. m + n, NEW l \in 1 .. m + n, k # l
        PROVE  D[st[k]] \cap D[st[l]] = {}
    <3>1. CASE k \in 1 .. m /\ l \in 1 .. m
      <4>1. D[s[k]] \cap D[s[l]] = {} /\ st[k] = s[k] /\ st[l] = s[l]
        BY <1>2, <2>1, <2>2, <3>1
      <4>2. QED
        BY <4>1
    <3>2. CASE k \in 1 .. m /\ l \notin 1 .. m
      <4>1. PICK j \in 1 .. n : l = m + j
        BY <1>2, <3>2
      <4>2. D[s[k]] \cap D[t[j]] = {} /\ st[k] = s[k] /\ st[l] = t[j]
        BY <1>2, <2>1, <3>2, <4>1
      <4>3. QED
        BY <4>2
    <3>3. CASE k \notin 1 .. m /\ l \in 1 .. m
      <4>1. PICK i \in 1 .. n : k = m + i
        BY <1>2, <3>3
      <4>2. D[s[l]] \cap D[t[i]] = {} /\ st[k] = t[i] /\ st[l] = s[l]
        BY <1>2, <2>1, <3>3, <4>1
      <4>3. QED
        BY <4>2
    <3>4. CASE k \notin 1 .. m /\ l \notin 1 .. m
      <4>1. PICK i \in 1 .. n : k = m + i
        BY <1>2, <3>4
      <4>2. PICK j \in 1 .. n : l = m + j
        BY <1>2, <3>4
      <4>3. i # j
        BY <2>2, <4>1, <4>2
      <4>4. D[t[i]] \cap D[t[j]] = {} /\ st[k] = t[i] /\ st[l] = t[j]
        BY <1>2, <2>1, <4>1, <4>2, <4>3
      <4>5. QED
        BY <4>4
    <3>5. QED
        BY <3>1, <3>2, <3>3, <3>4
  <2>3. QED
    BY <1>1, <2>2 DEF Apart
<1>6. QED
    BY <1>1, <1>3, <1>4, <1>5 DEF st

LEMMA UnitHolds ==
    ASSUME NEW D, NEW x
    PROVE  /\ Carried(<<>>, D) = {} /\ Apart(<<>>, D)
           /\ Carried(<<x>>, D) = D[x] /\ Apart(<<x>>, D)
<1>1. DOMAIN <<>> = {} /\ DOMAIN <<x>> = {1} /\ <<x>>[1] = x
    OBVIOUS
<1> DEFINE s == <<x>>
<1>2. DOMAIN s = {1} /\ s[1] = x
    BY <1>1
<1> HIDE DEF s
<1>3. Carried(s, D) = D[x] /\ Apart(s, D)
    BY <1>2 DEF Carried, Apart
<1>4. Carried(<<>>, D) = {} /\ Apart(<<>>, D)
    BY <1>1 DEF Carried, Apart
<1>5. QED
    BY <1>3, <1>4 DEF s

LEMMA AppendHolds ==
    ASSUME NEW S, NEW D, NEW s \in Seq(S), NEW x \in S
    PROVE  /\ Append(s, x) \in Seq(S)
           /\ Carried(Append(s, x), D) = Carried(s, D) \cup D[x]
           /\ Apart(Append(s, x), D) <=> Apart(s, D) /\ Carried(s, D) \cap D[x] = {}
<1> DEFINE t == <<x>>
<1>1. t \in Seq(S) /\ Append(s, x) = s \o t
    BY AppendIsConcat
<1>2. Carried(t, D) = D[x] /\ Apart(t, D)
    BY UnitHolds
<1> HIDE DEF t
<1>3. /\ s \o t \in Seq(S)
      /\ Carried(s \o t, D) = Carried(s, D) \cup Carried(t, D)
      /\ Apart(s \o t, D) <=> /\ Apart(s, D) /\ Apart(t, D)
                              /\ Carried(s, D) \cap Carried(t, D) = {}
    BY <1>1, JoinHolds
<1>4. QED
    BY <1>1, <1>2, <1>3

\* Elements that hold nothing.
LEMMA PlainHolds ==
    ASSUME NEW D, NEW s, \A i \in DOMAIN s : D[s[i]] = {}
    PROVE  Carried(s, D) = {} /\ Apart(s, D)
BY DEF Carried, Apart

\* Elements that each hold one element of another sequence.
LEMMA ImageHolds ==
    ASSUME NEW D, NEW ms, NEW s, DOMAIN s = DOMAIN ms,
           \A i \in DOMAIN ms : D[s[i]] = {ms[i]}
    PROVE  /\ Carried(s, D) = Range(ms)
           /\ Apart(s, D) <=> IsInjective(ms)
<1>1. Carried(s, D) = Range(ms)
    BY DEF Carried, Range
<1>2. Apart(s, D) <=> IsInjective(ms)
    BY DEF Apart, IsInjective
<1>3. QED
    BY <1>1, <1>2

\* The parts of a sequence: up to k and after, its head and tail, its front and last.
LEMMA SplitSeq ==
    ASSUME NEW S, NEW s \in Seq(S), NEW k \in 0 .. Len(s)
    PROVE  /\ SubSeq(s, 1, k) \in Seq(S) /\ SubSeq(s, k + 1, Len(s)) \in Seq(S)
           /\ s = SubSeq(s, 1, k) \o SubSeq(s, k + 1, Len(s))
<1>1. Len(s) \in Nat /\ k \in Nat /\ k <= Len(s)
    BY LenProperties
<1>2. 1 \in 1 .. Len(s) + 1 /\ k \in 1 - 1 .. Len(s) /\ Len(s) \in k .. Len(s)
    BY <1>1
<1>3. SubSeq(s, 1, k) \o SubSeq(s, k + 1, Len(s)) = SubSeq(s, 1, Len(s))
    BY <1>2, ConcatAdjacentSubSeq
<1>4. SubSeq(s, 1, k) \in Seq(S)
  <2>1. \A i \in 1 .. k : s[i] \in S
    BY <1>1, ElementOfSeq
  <2>2. QED
    BY <1>1, <2>1, SubSeqProperties
<1>5. SubSeq(s, k + 1, Len(s)) \in Seq(S)
  <2>1. \A i \in k + 1 .. Len(s) : s[i] \in S
    BY <1>1, ElementOfSeq
  <2>2. k + 1 \in Int /\ Len(s) \in Int
    BY <1>1
  <2>3. QED
    BY <2>1, <2>2, SubSeqProperties
<1>6. QED
    BY <1>3, <1>4, <1>5, SubSeqFull

LEMMA SplitEnds ==
    ASSUME NEW S, NEW s \in Seq(S), s # <<>>
    PROVE  /\ Head(s) \in S /\ Tail(s) \in Seq(S) /\ s = <<Head(s)>> \o Tail(s)
           /\ Last(s) \in S /\ Front(s) \in Seq(S) /\ s = Front(s) \o <<Last(s)>>
<1>1. Len(s) \in Nat /\ Len(s) # 0 /\ Head(s) = s[1] /\ Head(s) \in S /\ Tail(s) \in Seq(S)
    BY LenProperties, EmptySeq, HeadTailProperties
<1>2. 1 \in 1 .. Len(s) /\ Len(s) \in 1 .. Len(s) /\ Len(s) - 1 \in 0 .. Len(s)
    BY <1>1
<1>3. s = <<Head(s)>> \o Tail(s)
  <2>1. SubSeq(s, 1, Len(s)) = <<s[1]>> \o SubSeq(s, 1 + 1, Len(s))
    BY <1>2, SubSeqRecursiveFirst
  <2>2. QED
    BY <1>1, <2>1, TailIsSubSeq, SubSeqFull
<1>4. s = Front(s) \o <<Last(s)>>
  <2>1. SubSeq(s, 1, Len(s)) = SubSeq(s, 1, Len(s) - 1) \o <<s[Len(s)]>>
    BY <1>2, SubSeqRecursiveSecond
  <2>2. QED
    BY <2>1, SubSeqFull DEF Front, Last
<1>5. Last(s) \in S
    BY <1>2, ElementOfSeq DEF Last
<1>6. Front(s) \in Seq(S)
    BY <1>2, SplitSeq DEF Front
<1>7. QED
    BY <1>1, <1>3, <1>4, <1>5, <1>6

\* The elements of joined sequences, and those left when one is taken out.
LEMMA JoinRange ==
    ASSUME NEW S, NEW s \in Seq(S), NEW t \in Seq(S)
    PROVE  /\ Range(s \o t) = Range(s) \cup Range(t)
           /\ IsInjective(s \o t) <=> /\ IsInjective(s) /\ IsInjective(t)
                                      /\ Range(s) \cap Range(t) = {}
<1> DEFINE D == [x \in S |-> {x}]
<1>1. ASSUME NEW u \in Seq(S)
      PROVE  Carried(u, D) = Range(u) /\ (Apart(u, D) <=> IsInjective(u))
  <2>1. \A i \in DOMAIN u : u[i] \in S
    BY LenProperties, ElementOfSeq
  <2>2. \A i \in DOMAIN u : D[u[i]] = {u[i]}
    BY <2>1
  <2> HIDE DEF D
  <2>3. QED
    BY <2>2, ImageHolds
<1> HIDE DEF D
<1>2. /\ s \o t \in Seq(S)
      /\ Carried(s \o t, D) = Carried(s, D) \cup Carried(t, D)
      /\ Apart(s \o t, D) <=> /\ Apart(s, D) /\ Apart(t, D)
                              /\ Carried(s, D) \cap Carried(t, D) = {}
    BY JoinHolds
<1>3. QED
    BY <1>1, <1>2

LEMMA UnitRange ==
    ASSUME NEW x
    PROVE  /\ Range(<<>>) = {} /\ IsInjective(<<>>)
           /\ Range(<<x>>) = {x} /\ IsInjective(<<x>>)
<1> DEFINE s == <<x>>
<1>1. DOMAIN s = {1} /\ s[1] = x
    OBVIOUS
<1> HIDE DEF s
<1>2. Range(s) = {x} /\ IsInjective(s)
    BY <1>1 DEF Range, IsInjective
<1>3. DOMAIN <<>> = {}
    OBVIOUS
<1>4. Range(<<>>) = {} /\ IsInjective(<<>>)
    BY <1>3 DEF Range, IsInjective
<1>5. QED
    BY <1>2, <1>4 DEF s

LEMMA TakenOut ==
    ASSUME NEW S, NEW s \in Seq(S), IsInjective(s), NEW e \in Range(s)
    PROVE  /\ IsInjective(RemoveFirst(s, e))
           /\ Range(RemoveFirst(s, e)) = Range(s) \ {e}
<1> DEFINE I == {i \in 1 .. Len(s) : s[i] = e}
           k == Min(I)
           left == SubSeq(s, 1, k - 1)
           right == SubSeq(s, k + 1, Len(s))
<1>0. Len(s) \in Nat /\ DOMAIN s = 1 .. Len(s)
    BY LenProperties
<1>1. I # {}
    BY <1>0 DEF Range
<1>2. k \in I
  <2>1. I \in SUBSET Nat
    BY <1>0
  <2> HIDE DEF I
  <2>2. \E x \in I : \A y \in I : x <= y
    BY <1>1, <2>1, LeastNatural
  <2>3. QED
    BY <2>2 DEF Min
<1>3. RemoveFirst(s, e) = left \o right
    BY <1>1 DEF RemoveFirst, RemoveAt, SelectInSeq
<1> HIDE DEF k
<1>4. k \in 1 .. Len(s) /\ s[k] = e
    BY <1>2
<1> HIDE DEF I
<1> DEFINE mid == <<s[k]>>
<1>5. /\ left \in Seq(S) /\ right \in Seq(S) /\ mid \in Seq(S)
      /\ s = left \o (mid \o right)
  <2>1. k - 1 \in 0 .. Len(s) /\ k \in 0 .. Len(s) /\ (k - 1) + 1 = k /\ Len(s) \in k .. Len(s)
    BY <1>0, <1>4
  <2>2. /\ left \in Seq(S)
        /\ s = left \o SubSeq(s, (k - 1) + 1, Len(s))
    BY <2>1, SplitSeq
  <2>3. right \in Seq(S)
    BY <2>1, SplitSeq
  <2>4. SubSeq(s, k, Len(s)) = mid \o right
    BY <1>4, <2>1, SubSeqRecursiveFirst
  <2>5. s[k] \in S
    BY <1>4, ElementOfSeq
  <2>6. mid \in Seq(S)
    BY <2>5
  <2> HIDE DEF left, mid, right
  <2>7. QED
    BY <2>1, <2>2, <2>3, <2>4, <2>6
<1>6. Range(mid) = {e} /\ IsInjective(mid)
    BY <1>4, UnitRange
<1> HIDE DEF left, right, mid
<1>7. mid \o right \in Seq(S)
    BY <1>5, ConcatProperties
<1>8. /\ Range(mid \o right) = Range(mid) \cup Range(right)
      /\ IsInjective(mid \o right) <=> /\ IsInjective(mid) /\ IsInjective(right)
                                       /\ Range(mid) \cap Range(right) = {}
      /\ Range(left \o right) = Range(left) \cup Range(right)
      /\ IsInjective(left \o right) <=> /\ IsInjective(left) /\ IsInjective(right)
                                        /\ Range(left) \cap Range(right) = {}
    BY <1>5, JoinRange
<1>9. /\ Range(s) = Range(left) \cup Range(mid \o right)
      /\ IsInjective(left) /\ IsInjective(mid \o right)
      /\ Range(left) \cap Range(mid \o right) = {}
    BY <1>5, <1>7, JoinRange
<1>10. QED
    BY <1>3, <1>6, <1>8, <1>9

-----------------------------------------------------------------------------
(* What items, entries and events hold.                                    *)

LEMMA ItemsHold ==
    /\ \A m \in Msgs : ItemHolds[User(m)] = {m}
    /\ \A c \in Shells : ItemHolds[Shell(c)] = {c} /\ ItemHolds[Tool(c)] = {}
    /\ \A n \in Notices : ItemHolds[Note(n)] = {n}
    /\ \A k \in Nat : ItemHolds[Tool(k)] = {} /\ (k # Nothing => ItemHolds[Asst(k)] = {})
    /\ \A item \in {Hook, Reasoning, Error, Summary, Compaction} : ItemHolds[item] = {}
    /\ \A item \in Items : IsHook(item) \/ Attempted(item) => ItemHolds[item] = {}
    /\ \A item \in Items : IsUser(item) => ItemHolds[item] = {item[2]}
<1>1. \A item \in Items : ItemHolds[item] = IF IsDraft(item) \/ IsNote(item) THEN {item[2]} ELSE {}
    BY DEF ItemHolds
<1>2. /\ \A m \in Msgs : IsDraft(User(m)) /\ User(m)[2] = m
      /\ \A c : IsDraft(Shell(c)) /\ Shell(c)[2] = c /\ ~IsDraft(Tool(c)) /\ ~IsNote(Tool(c))
      /\ \A n : IsNote(Note(n)) /\ Note(n)[2] = n
      /\ \A k : ~IsDraft(Asst(k)) /\ ~IsNote(Asst(k))
    BY DEF IsDraft, IsNote, User, Shell, Tool, Note, Asst
<1>3. \A item \in {Hook, Reasoning, Error, Summary, Compaction} : ~IsDraft(item) /\ ~IsNote(item)
    BY DEF IsDraft, IsNote, Hook, Reasoning, Error, Summary, Compaction
<1>4. \A item : IsHook(item) \/ Attempted(item) => ~IsDraft(item) /\ ~IsNote(item)
    BY DEF IsHook, Attempted, IsDraft, IsNote
<1>5. \A item : IsUser(item) => IsDraft(item)
    BY DEF IsUser, IsDraft
<1>6. QED
    BY <1>1, <1>2, <1>3, <1>4, <1>5, ItemTypes

\* Messages, commands, notices and drafts are told apart.
LEMMA Kinds ==
    /\ Msgs \subseteq Drafts /\ Shells \subseteq Drafts /\ Drafts = Msgs \cup Shells
    /\ Drafts \cap Notices = {} /\ Msgs \cap Notices = {} /\ Shells \cap Notices = {}
BY DraftAssumption DEF Drafts

LEMMA HoldTypes ==
    /\ \A item \in Items : ItemHolds[item] \subseteq Drafts \cup Notices
    /\ \A entry \in Entries : EntryHolds[entry] = Range(entry.texts)
                              /\ EntryHolds[entry] \subseteq Drafts
    /\ \A e \in Events : EventHolds[e] \subseteq Msgs \cup Notices
<1>1. \A item \in Items : ItemHolds[item] \subseteq Drafts \cup Notices
    BY UserItemIsMessage DEF ItemHolds
<1>2. ASSUME NEW entry \in Entries
      PROVE  EntryHolds[entry] = Range(entry.texts) /\ EntryHolds[entry] \subseteq Drafts
  <2>1. EntryHolds[entry] = Range(entry.texts)
    BY DEF EntryHolds
  <2>2. entry.texts \in Seq(Msgs) \/ entry.texts \in Seq(Shells)
    BY DEF Entries
  <2>3. Range(entry.texts) \subseteq Msgs \/ Range(entry.texts) \subseteq Shells
    BY <2>2, RangeType
  <2>4. QED
    BY <2>1, <2>3, Kinds
<1>3. \A e \in Events : EventHolds[e] \subseteq Msgs \cup Notices
    BY DEF EventHolds, Events
<1>4. QED
    BY <1>1, <1>2, <1>3

LEMMA JoinItems ==
    ASSUME NEW s \in Seq(Items), NEW t \in Seq(Items)
    PROVE  /\ s \o t \in Seq(Items)
           /\ Carried(s \o t, ItemHolds) = Carried(s, ItemHolds) \cup Carried(t, ItemHolds)
           /\ Apart(s \o t, ItemHolds)
                <=> /\ Apart(s, ItemHolds) /\ Apart(t, ItemHolds)
                    /\ Carried(s, ItemHolds) \cap Carried(t, ItemHolds) = {}
BY JoinHolds

LEMMA AppendItem ==
    ASSUME NEW s \in Seq(Items), NEW x \in Items
    PROVE  /\ Append(s, x) \in Seq(Items)
           /\ Carried(Append(s, x), ItemHolds) = Carried(s, ItemHolds) \cup ItemHolds[x]
           /\ Apart(Append(s, x), ItemHolds)
                <=> Apart(s, ItemHolds) /\ Carried(s, ItemHolds) \cap ItemHolds[x] = {}
BY AppendHolds

-----------------------------------------------------------------------------
(* The App's methods that move no draft and no notice.                     *)

\* b holds what a held, where a held it.
SameStock(b, a) ==
    /\ b \in Apps
    /\ b.queued = a.queued /\ b.steered = a.steered /\ b.held = a.held
    /\ Carried(b.history, ItemHolds) = Carried(a.history, ItemHolds)
    /\ Apart(a.history, ItemHolds) => Apart(b.history, ItemHolds)

LEMMA SameRest ==
    ASSUME NEW a \in Apps, NEW b \in Apps, b.history = a.history,
           b.queued = a.queued, b.steered = a.steered, b.held = a.held
    PROVE  SameStock(b, a)
BY DEF SameStock

LEMMA SameThen ==
    ASSUME NEW a, NEW b, NEW c, SameStock(b, a), SameStock(c, b)
    PROVE  SameStock(c, a)
BY DEF SameStock

LEMMA SameKept ==
    ASSUME NEW a, NEW b, SameStock(b, a), NoneTwice(a)
    PROVE  NoneTwice(b) /\ Kept(b) = Kept(a)
BY DEF SameStock, NoneTwice, Kept

LEMMA SamePush ==
    ASSUME NEW a \in Apps, NEW item \in Items, ItemHolds[item] = {}
    PROVE  SameStock(Push(a, item), a)
<1>1. /\ Push(a, item) \in Apps
      /\ Push(a, item).history = Append(a.history, item)
      /\ Push(a, item).queued = a.queued /\ Push(a, item).steered = a.steered
      /\ Push(a, item).held = a.held
    BY PushType DEF Push, Apps
<1>2. a.history \in Seq(Items)
    BY DEF Apps
<1>3. /\ Carried(Append(a.history, item), ItemHolds)
            = Carried(a.history, ItemHolds) \cup ItemHolds[item]
      /\ Apart(Append(a.history, item), ItemHolds)
            <=> Apart(a.history, ItemHolds) /\ Carried(a.history, ItemHolds) \cap ItemHolds[item] = {}
    BY <1>2, AppendItem
<1>4. QED
    BY <1>1, <1>3 DEF SameStock

LEMMA SameFlush ==
    ASSUME NEW a \in Apps
    PROVE  SameStock(FlushSegment(a), a)
<1>1. FlushSegment(a) \in Apps
    BY FlushSegmentType
<1>2. CASE a.text = Nothing
    BY <1>1, <1>2, SameRest DEF FlushSegment
<1>3. CASE a.text # Nothing
  <2>1. Asst(a.text) \in Items /\ ItemHolds[Asst(a.text)] = {}
    BY <1>3, ItemTypes, ItemsHold DEF Apps
  <2> DEFINE p == Push(a, Asst(a.text))
  <2>2. SameStock(p, a) /\ p \in Apps
    BY <2>1, SamePush, PushType
  <2>3. FlushSegment(a) = [p EXCEPT !.text = Nothing]
    BY <1>3 DEF FlushSegment
  <2> HIDE DEF p
  <2>4. SameStock([p EXCEPT !.text = Nothing], p)
    <3>1. [p EXCEPT !.text = Nothing] \in Apps
        BY <1>1, <2>3
    <3>2. QED
        BY <2>2, <3>1, SameRest DEF Apps
  <2>5. QED
    BY <2>2, <2>3, <2>4, SameThen
<1>4. QED
    BY <1>2, <1>3

LEMMA SameReasoning ==
    ASSUME NEW a \in Apps
    PROVE  SameStock(SettleReasoning(a), a)
<1>1. SettleReasoning(a) \in Apps
    BY SettleReasoningType
<1>2. CASE ~a.thought
    BY <1>1, <1>2, SameRest DEF SettleReasoning
<1>3. CASE a.thought
  <2> DEFINE f == FlushSegment(a)
             p == Push(f, Reasoning)
  <2>1. f \in Apps /\ SameStock(f, a) /\ Reasoning \in Items /\ ItemHolds[Reasoning] = {}
    BY FlushSegmentType, SameFlush, ItemTypes, ItemsHold
  <2> HIDE DEF f
  <2>2. SameStock(p, f) /\ p \in Apps
    BY <2>1, SamePush, PushType
  <2>3. SettleReasoning(a) = [p EXCEPT !.thought = FALSE]
    BY <1>3 DEF SettleReasoning, f
  <2> HIDE DEF p
  <2>4. SameStock([p EXCEPT !.thought = FALSE], p)
    <3>1. [p EXCEPT !.thought = FALSE] \in Apps
        BY <1>1, <2>3
    <3>2. QED
        BY <2>2, <3>1, SameRest DEF Apps
  <2>5. QED
    BY <2>1, <2>2, <2>3, <2>4, SameThen
<1>4. QED
    BY <1>2, <1>3

\* More items that hold nothing.
LEMMA SamePlain ==
    ASSUME NEW a \in Apps, NEW b \in Apps, NEW more \in Seq(Items),
           \A i \in DOMAIN more : ItemHolds[more[i]] = {},
           b.history = a.history \o more,
           b.queued = a.queued, b.steered = a.steered, b.held = a.held
    PROVE  SameStock(b, a)
<1>1. a.history \in Seq(Items)
    BY DEF Apps
<1>2. Carried(more, ItemHolds) = {} /\ Apart(more, ItemHolds)
    BY PlainHolds
<1>3. /\ Carried(a.history \o more, ItemHolds)
            = Carried(a.history, ItemHolds) \cup Carried(more, ItemHolds)
      /\ Apart(a.history \o more, ItemHolds)
            <=> /\ Apart(a.history, ItemHolds) /\ Apart(more, ItemHolds)
                /\ Carried(a.history, ItemHolds) \cap Carried(more, ItemHolds) = {}
    BY <1>1, JoinItems
<1>4. QED
    BY <1>2, <1>3 DEF SameStock

LEMMA SameFailLive ==
    ASSUME NEW a \in Apps
    PROVE  SameStock(FailLive(a), a)
<1> DEFINE more == [i \in DOMAIN a.live |-> Tool(a.live[i])]
<1>1. /\ FailLive(a) \in Apps
      /\ FailLive(a).history = a.history \o more
      /\ FailLive(a).queued = a.queued /\ FailLive(a).steered = a.steered
      /\ FailLive(a).held = a.held
    BY FailLiveType DEF FailLive, Apps
<1>2. a.live \in Seq(Nat \cup Shells)
    BY DEF Apps
<1>3. \A i \in DOMAIN a.live : a.live[i] \in Nat \cup Shells
    BY <1>2, LenProperties, ElementOfSeq
<1>4. more \in Seq(Items) /\ \A i \in DOMAIN more : ItemHolds[more[i]] = {}
    BY <1>2, <1>3, ToolItems, ItemsHold
<1> HIDE DEF more
<1>5. QED
    BY <1>1, <1>4, SamePlain

LEMMA SameTrack ==
    ASSUME NEW a \in Apps, NEW e
    PROVE  SameStock(TrackAttempt(a, e), a)
<1>1. TrackAttempt(a, e) \in Apps
    BY TrackAttemptType
<1>2. /\ TrackAttempt(a, e).history = a.history /\ TrackAttempt(a, e).queued = a.queued
      /\ TrackAttempt(a, e).steered = a.steered /\ TrackAttempt(a, e).held = a.held
    BY DEF TrackAttempt, Apps
<1>3. QED
    BY <1>1, <1>2, SameRest

\* A history without its tail of items that hold nothing.
LEMMA CutHolds ==
    ASSUME NEW s \in Seq(Items), NEW k \in 0 .. Len(s),
           \A x \in Range(SubSeq(s, k + 1, Len(s))) : ItemHolds[x] = {}
    PROVE  /\ Carried(SubSeq(s, 1, k), ItemHolds) = Carried(s, ItemHolds)
           /\ Apart(s, ItemHolds) => Apart(SubSeq(s, 1, k), ItemHolds)
<1> DEFINE p == SubSeq(s, 1, k)
           q == SubSeq(s, k + 1, Len(s))
<1>1. p \in Seq(Items) /\ q \in Seq(Items) /\ s = p \o q
    BY SplitSeq
<1>2. Carried(q, ItemHolds) = {} /\ Apart(q, ItemHolds)
    BY PlainHolds DEF Range
<1> HIDE DEF p, q
<1>3. /\ Carried(p \o q, ItemHolds) = Carried(p, ItemHolds) \cup Carried(q, ItemHolds)
      /\ Apart(p \o q, ItemHolds) <=> /\ Apart(p, ItemHolds) /\ Apart(q, ItemHolds)
                                      /\ Carried(p, ItemHolds) \cap Carried(q, ItemHolds) = {}
    BY <1>1, JoinItems
<1>4. QED
    BY <1>1, <1>2, <1>3 DEF p

LEMMA SameWithdraw ==
    ASSUME NEW a \in Apps
    PROVE  SameStock(WithdrawAttempt(a), a)
<1> DEFINE b == WithdrawAttempt(a)
           k == TailStart(a.history, a.floor, Attempted)
<1>1. b \in Apps /\ b.queued = a.queued /\ b.steered = a.steered /\ b.held = a.held
      /\ b.history = (IF a.floor = NoFloor THEN a.history ELSE Before(a.history, a.floor, Attempted))
    BY WithdrawAttemptType DEF WithdrawAttempt, Apps
<1>2. a.history \in Seq(Items) /\ a.floor \in Int
    BY DEF Apps, NoFloor
<1>3. /\ k \in 0 .. Len(a.history)
      /\ Before(a.history, a.floor, Attempted) = SubSeq(a.history, 1, k)
      /\ \A x \in Range(SubSeq(a.history, k + 1, Len(a.history))) : x \in Items /\ Attempted(x)
    BY <1>2, AttemptTail DEF Before, After
<1> HIDE DEF k, b
<1>4. \A x \in Range(SubSeq(a.history, k + 1, Len(a.history))) : ItemHolds[x] = {}
    BY <1>3, ItemsHold
<1>5. /\ Carried(SubSeq(a.history, 1, k), ItemHolds) = Carried(a.history, ItemHolds)
      /\ Apart(a.history, ItemHolds) => Apart(SubSeq(a.history, 1, k), ItemHolds)
    BY <1>2, <1>3, <1>4, CutHolds
<1>6. SameStock(b, a)
    BY <1>1, <1>3, <1>5 DEF SameStock
<1>7. QED
    BY <1>6 DEF b

LEMMA SameBegin ==
    ASSUME NEW a \in Apps
    PROVE  SameStock(BeginStream(a), a) /\ SameStock(BeginCompact(a), a)
<1>1. BeginStream(a) \in Apps /\ BeginCompact(a) \in Apps
    BY BeginType
<1>2. /\ BeginStream(a).history = a.history /\ BeginStream(a).queued = a.queued
      /\ BeginStream(a).steered = a.steered /\ BeginStream(a).held = a.held
    BY DEF BeginStream, Apps
<1>3. /\ BeginCompact(a).history = a.history /\ BeginCompact(a).queued = a.queued
      /\ BeginCompact(a).steered = a.steered /\ BeginCompact(a).held = a.held
    BY DEF BeginCompact, Apps
<1>4. QED
    BY <1>1, <1>2, <1>3, SameRest

-----------------------------------------------------------------------------
(* The App's methods that move drafts and notices.                         *)

LEMMA JoinEntries ==
    ASSUME NEW s \in Seq(Entries), NEW t \in Seq(Entries)
    PROVE  /\ s \o t \in Seq(Entries)
           /\ Carried(s \o t, EntryHolds) = Carried(s, EntryHolds) \cup Carried(t, EntryHolds)
           /\ Tidy(s \o t) <=> /\ Tidy(s) /\ Tidy(t)
                               /\ Carried(s, EntryHolds) \cap Carried(t, EntryHolds) = {}
<1>1. /\ s \o t \in Seq(Entries)
      /\ Carried(s \o t, EntryHolds) = Carried(s, EntryHolds) \cup Carried(t, EntryHolds)
      /\ Apart(s \o t, EntryHolds)
            <=> /\ Apart(s, EntryHolds) /\ Apart(t, EntryHolds)
                /\ Carried(s, EntryHolds) \cap Carried(t, EntryHolds) = {}
    BY JoinHolds
<1>2. Range(s \o t) = Range(s) \cup Range(t)
    BY JoinRange
<1>3. QED
    BY <1>1, <1>2 DEF Tidy

LEMMA UnitEntry ==
    ASSUME NEW entry \in Entries
    PROVE  /\ <<entry>> \in Seq(Entries)
           /\ Carried(<<entry>>, EntryHolds) = Range(entry.texts)
           /\ Tidy(<<entry>>) <=> OneEach(entry)
<1>1. <<entry>> \in Seq(Entries)
    OBVIOUS
<1>2. Carried(<<entry>>, EntryHolds) = EntryHolds[entry] /\ Apart(<<entry>>, EntryHolds)
    BY UnitHolds
<1>3. Range(<<entry>>) = {entry}
    BY UnitRange
<1>4. QED
    BY <1>1, <1>2, <1>3, HoldTypes DEF Tidy

LEMMA NoEntry ==
    <<>> \in Seq(Entries) /\ Carried(<<>>, EntryHolds) = {} /\ Tidy(<<>>)
<1>1. <<>> \in Seq(Entries) /\ DOMAIN <<>> = {}
    OBVIOUS
<1>2. Carried(<<>>, EntryHolds) = {} /\ Apart(<<>>, EntryHolds)
    BY <1>1, PlainHolds
<1>3. Range(<<>>) = {}
    BY <1>1 DEF Range
<1>4. QED
    BY <1>1, <1>2, <1>3 DEF Tidy

\* Which drafts and notices can be where.
LEMMA KeptTypes ==
    ASSUME NEW a \in Apps
    PROVE  /\ Carried(a.history, ItemHolds) \subseteq Drafts \cup Notices
           /\ Carried(a.queued, EntryHolds) \subseteq Drafts
           /\ Range(a.steered) \subseteq Msgs
           /\ Range(a.held) \subseteq Notices
           /\ Kept(a) \subseteq Drafts \cup Notices
<1>1. /\ a.history \in Seq(Items) /\ a.queued \in Seq(Entries)
      /\ a.steered \in Seq(Msgs) /\ a.held \in Seq(Notices)
    BY DEF Apps
<1>2. Carried(a.history, ItemHolds) \subseteq Drafts \cup Notices
  <2>1. \A i \in DOMAIN a.history : a.history[i] \in Items
    BY <1>1, LenProperties, ElementOfSeq
  <2>2. QED
    BY <2>1, HoldTypes DEF Carried
<1>3. Carried(a.queued, EntryHolds) \subseteq Drafts
  <2>1. \A i \in DOMAIN a.queued : a.queued[i] \in Entries
    BY <1>1, LenProperties, ElementOfSeq
  <2>2. QED
    BY <2>1, HoldTypes DEF Carried
<1>4. Range(a.steered) \subseteq Msgs /\ Range(a.held) \subseteq Notices
    BY <1>1, RangeType
<1>5. QED
    BY <1>2, <1>3, <1>4, Kinds DEF Kept

\* The held cells settle: each on the record, at its end.
LEMMA HeldSettled ==
    ASSUME NEW a \in Apps, NoneTwice(a)
    PROVE  /\ NoneTwice(SettleHeld(a)) /\ Kept(SettleHeld(a)) = Kept(a)
           /\ SettleHeld(a) \in Apps /\ SettleHeld(a).held = <<>>
           /\ SettleHeld(a).queued = a.queued /\ SettleHeld(a).steered = a.steered
<1> DEFINE b == SettleHeld(a)
           notes == [i \in DOMAIN a.held |-> Note(a.held[i])]
<1>1. /\ b \in Apps /\ b.held = <<>> /\ b.queued = a.queued /\ b.steered = a.steered
      /\ b.history = a.history \o notes
    BY SettleHeldType DEF SettleHeld, Apps
<1>2. a.held \in Seq(Notices) /\ a.history \in Seq(Items)
    BY DEF Apps
<1>3. notes \in Seq(Items)
    BY <1>2, NoteItems
<1>4. Carried(notes, ItemHolds) = Range(a.held) /\ (Apart(notes, ItemHolds) <=> IsInjective(a.held))
  <2>1. DOMAIN notes = DOMAIN a.held
    OBVIOUS
  <2>2. \A i \in DOMAIN a.held : a.held[i] \in Notices
    BY <1>2, LenProperties, ElementOfSeq
  <2>3. \A i \in DOMAIN a.held : ItemHolds[notes[i]] = {a.held[i]}
    BY <2>2, ItemsHold
  <2> HIDE DEF notes
  <2>4. QED
    BY <2>1, <2>3, ImageHolds
<1> HIDE DEF notes, b
<1>5. /\ Carried(b.history, ItemHolds) = Carried(a.history, ItemHolds) \cup Range(a.held)
      /\ Apart(b.history, ItemHolds)
    BY <1>1, <1>2, <1>3, <1>4, JoinItems DEF NoneTwice
<1>6. Range(b.held) = {} /\ IsInjective(b.held)
    BY <1>1, UnitRange
<1>7. NoneTwice(b) /\ Kept(b) = Kept(a)
    BY <1>1, <1>5, <1>6, KeptTypes, Kinds DEF NoneTwice, Kept
<1>8. QED
    BY <1>1, <1>7 DEF b

\* A notice the turn has read: its held cell settles, once.
LEMMA NoticeSettled ==
    ASSUME NEW a \in Apps, NoneTwice(a), NEW n \in Notices
    PROVE  /\ NoneTwice(SettleDelivered(a, n)) /\ Kept(SettleDelivered(a, n)) = Kept(a)
           /\ Range(SettleDelivered(a, n).held) = Range(a.held) \ {n}
           /\ SettleDelivered(a, n).steered = a.steered
<1> DEFINE b == SettleDelivered(a, n)
           p == Push(a, Note(n))
<1>1. CASE n \notin Range(a.held)
  <2>1. b = a
    BY <1>1 DEF SettleDelivered
  <2>2. QED
    BY <1>1, <2>1
<1>2. CASE n \in Range(a.held)
  <2>1. /\ b.history = Append(a.history, Note(n)) /\ b.held = RemoveFirst(a.held, n)
        /\ b.queued = a.queued /\ b.steered = a.steered
    BY <1>2 DEF SettleDelivered, Push, Apps
  <2>2. Note(n) \in Items /\ ItemHolds[Note(n)] = {n} /\ a.history \in Seq(Items)
        /\ a.held \in Seq(Notices)
    BY ItemTypes, ItemsHold DEF Apps
  <2> HIDE DEF b
  <2>3. IsInjective(b.held) /\ Range(b.held) = Range(a.held) \ {n}
    BY <1>2, <2>1, <2>2, TakenOut DEF NoneTwice
  <2>4. /\ Carried(b.history, ItemHolds) = Carried(a.history, ItemHolds) \cup {n}
        /\ Apart(b.history, ItemHolds)
    <3>1. Carried(a.history, ItemHolds) \cap {n} = {}
        BY <1>2 DEF NoneTwice
    <3>2. QED
        BY <2>1, <2>2, <3>1, AppendItem DEF NoneTwice
  <2>5. n \notin Carried(a.queued, EntryHolds) /\ n \notin Range(a.steered)
    BY KeptTypes, Kinds
  <2>6. NoneTwice(b) /\ Kept(b) = Kept(a)
    BY <1>2, <2>1, <2>3, <2>4, <2>5 DEF NoneTwice, Kept
  <2>7. QED
    BY <2>1, <2>3, <2>6 DEF b
<1>3. QED
    BY <1>1, <1>2

\* A message the turn has read goes from its row to the record.
LEMMA SteeredDelivered ==
    ASSUME NEW a \in Apps, NoneTwice(a), NEW m \in Range(a.steered)
    PROVE  /\ NoneTwice(DeliverSteered(a, m)) /\ Kept(DeliverSteered(a, m)) = Kept(a)
           /\ Range(DeliverSteered(a, m).steered) = Range(a.steered) \ {m}
           /\ DeliverSteered(a, m).held = a.held
<1> DEFINE b == DeliverSteered(a, m)
           f == FlushSegment(a)
<1>1. f \in Apps /\ SameStock(f, a)
    BY FlushSegmentType, SameFlush
<1> HIDE DEF f
<1>2. NoneTwice(f) /\ Kept(f) = Kept(a) /\ f.steered = a.steered /\ f.held = a.held
    BY <1>1, SameKept DEF SameStock
<1>3. /\ b.history = Append(f.history, User(m)) /\ b.steered = RemoveFirst(f.steered, m)
      /\ b.queued = f.queued /\ b.held = f.held
    BY <1>1 DEF DeliverSteered, Push, Apps, f
<1>4. m \in Msgs /\ m \in Range(f.steered)
    BY <1>2, KeptTypes
<1>5. User(m) \in Items /\ ItemHolds[User(m)] = {m} /\ f.history \in Seq(Items)
      /\ f.steered \in Seq(Msgs)
    BY <1>1, <1>4, ItemTypes, ItemsHold DEF Apps
<1> HIDE DEF b
<1>6. IsInjective(b.steered) /\ Range(b.steered) = Range(f.steered) \ {m}
    BY <1>2, <1>3, <1>4, <1>5, TakenOut DEF NoneTwice
<1>7. /\ Carried(b.history, ItemHolds) = Carried(f.history, ItemHolds) \cup {m}
      /\ Apart(b.history, ItemHolds)
  <2>1. Carried(f.history, ItemHolds) \cap {m} = {}
    BY <1>2, <1>4 DEF NoneTwice
  <2>2. QED
    BY <1>2, <1>3, <1>5, <2>1, AppendItem DEF NoneTwice
<1>8. m \notin Range(f.held) /\ m \notin Carried(f.queued, EntryHolds)
    BY <1>1, <1>2, <1>4, KeptTypes, Kinds DEF NoneTwice
<1>9. NoneTwice(b) /\ Kept(b) = Kept(f)
    BY <1>2, <1>3, <1>4, <1>6, <1>7, <1>8 DEF NoneTwice, Kept
<1>10. QED
    BY <1>2, <1>3, <1>6, <1>9 DEF b

\* What the turn never read goes to the head of the queue, as one entry.
LEMMA SteersReclaimed ==
    ASSUME NEW a \in Apps, NoneTwice(a)
    PROVE  /\ NoneTwice(ReclaimSteered(a)) /\ Kept(ReclaimSteered(a)) = Kept(a)
           /\ ReclaimSteered(a) \in Apps /\ ReclaimSteered(a).steered = <<>>
<1> DEFINE b == ReclaimSteered(a)
<1>1. b \in Apps
    BY ReclaimSteeredType
<1>2. CASE a.steered = <<>>
    BY <1>1, <1>2 DEF ReclaimSteered
<1>3. CASE a.steered # <<>>
  <2> DEFINE entry == [shell |-> FALSE, texts |-> a.steered]
             q == <<entry>>
  <2>1. /\ b.queued = q \o a.queued /\ b.steered = <<>>
        /\ b.history = a.history /\ b.held = a.held
    BY <1>3 DEF ReclaimSteered, Apps
  <2>2. entry \in Entries /\ entry.texts = a.steered /\ entry.shell = FALSE
    BY <1>3 DEF Entries, Apps
  <2>3. a.queued \in Seq(Entries)
    BY DEF Apps
  <2> HIDE DEF entry
  <2>4. /\ q \in Seq(Entries) /\ Carried(q, EntryHolds) = Range(a.steered)
        /\ Tidy(q) <=> IsInjective(a.steered)
    BY <2>2, UnitEntry DEF OneEach
  <2> HIDE DEF q, b
  <2>5. /\ Carried(b.queued, EntryHolds) = Range(a.steered) \cup Carried(a.queued, EntryHolds)
        /\ Tidy(b.queued)
    BY <2>1, <2>3, <2>4, JoinEntries DEF NoneTwice
  <2>6. Range(b.steered) = {} /\ IsInjective(b.steered)
    BY <2>1, UnitRange
  <2>7. NoneTwice(b) /\ Kept(b) = Kept(a)
    BY <2>1, <2>5, <2>6 DEF NoneTwice, Kept
  <2>8. QED
    BY <1>1, <2>1, <2>7 DEF b
<1>4. QED
    BY <1>2, <1>3

\* A batch goes on the record.
LEMMA BatchRecorded ==
    ASSUME NEW a \in Apps, NoneTwice(a), NEW ms \in Seq(Msgs), IsInjective(ms),
           Range(ms) \cap Kept(a) = {}
    PROVE  /\ NoneTwice(RecordBatch(a, ms)) /\ Kept(RecordBatch(a, ms)) = Kept(a) \cup Range(ms)
           /\ RecordBatch(a, ms) \in Apps /\ RecordBatch(a, ms).steered = a.steered
<1> DEFINE b == RecordBatch(a, ms)
           more == [i \in DOMAIN ms |-> User(ms[i])]
<1>1. /\ b \in Apps /\ b.history = a.history \o more
      /\ b.queued = a.queued /\ b.steered = a.steered /\ b.held = a.held
    BY RecordBatchType DEF RecordBatch, Apps
<1>2. more \in Seq(Items) /\ a.history \in Seq(Items)
    BY UserItems DEF Apps
<1>3. Carried(more, ItemHolds) = Range(ms) /\ (Apart(more, ItemHolds) <=> IsInjective(ms))
  <2>1. DOMAIN more = DOMAIN ms
    OBVIOUS
  <2>2. \A i \in DOMAIN ms : ms[i] \in Msgs
    BY LenProperties, ElementOfSeq
  <2>3. \A i \in DOMAIN ms : ItemHolds[more[i]] = {ms[i]}
    BY <2>2, ItemsHold
  <2> HIDE DEF more
  <2>4. QED
    BY <2>1, <2>3, ImageHolds
<1> HIDE DEF more, b
<1>4. /\ Carried(b.history, ItemHolds) = Carried(a.history, ItemHolds) \cup Range(ms)
      /\ Apart(b.history, ItemHolds)
  <2>1. Carried(a.history, ItemHolds) \cap Range(ms) = {}
    BY DEF Kept
  <2>2. QED
    BY <1>1, <1>2, <1>3, <2>1, JoinItems DEF NoneTwice
<1>5. NoneTwice(b) /\ Kept(b) = Kept(a) \cup Range(ms)
  <2>1. /\ Range(ms) \cap Carried(a.queued, EntryHolds) = {}
        /\ Range(ms) \cap Range(a.steered) = {} /\ Range(ms) \cap Range(a.held) = {}
    BY DEF Kept
  <2>2. NoneTwice(b)
    BY <1>1, <1>4, <2>1 DEF NoneTwice
  <2>3. QED
    BY <1>1, <1>4, <2>2 DEF Kept
<1>6. QED
    BY <1>1, <1>5 DEF b

\* A command goes on the record.
LEMMA ShellRecorded ==
    ASSUME NEW a \in Apps, NoneTwice(a), NEW cmd \in Shells, cmd \notin Kept(a)
    PROVE  /\ NoneTwice(BeginShell(a, cmd)) /\ Kept(BeginShell(a, cmd)) = Kept(a) \cup {cmd}
           /\ BeginShell(a, cmd) \in Apps /\ BeginShell(a, cmd).steered = a.steered
<1> DEFINE b == BeginShell(a, cmd)
<1>1. /\ b \in Apps /\ b.history = Append(a.history, Shell(cmd))
      /\ b.queued = a.queued /\ b.steered = a.steered /\ b.held = a.held
    BY BeginShellType DEF BeginShell, Push, Apps
<1>2. Shell(cmd) \in Items /\ ItemHolds[Shell(cmd)] = {cmd} /\ a.history \in Seq(Items)
    BY ItemTypes, ItemsHold DEF Apps
<1> HIDE DEF b
<1>3. /\ Carried(b.history, ItemHolds) = Carried(a.history, ItemHolds) \cup {cmd}
      /\ Apart(b.history, ItemHolds)
  <2>1. Carried(a.history, ItemHolds) \cap {cmd} = {}
    BY DEF Kept
  <2>2. QED
    BY <1>1, <1>2, <2>1, AppendItem DEF NoneTwice
<1>4. NoneTwice(b)
  <2>1. /\ cmd \notin Carried(a.queued, EntryHolds)
        /\ cmd \notin Range(a.steered) /\ cmd \notin Range(a.held)
    BY DEF Kept
  <2>2. QED
    BY <1>1, <1>3, <2>1 DEF NoneTwice
<1>5. Kept(b) = Kept(a) \cup {cmd}
    BY <1>1, <1>3 DEF Kept
<1>6. QED
    BY <1>1, <1>4, <1>5 DEF b

\* With another last element.
LEMMA ReplaceLast ==
    ASSUME NEW S, NEW s \in Seq(S), s # <<>>, NEW x \in S
    PROVE  [s EXCEPT ![Len(s)] = x] = Front(s) \o <<x>>
<1> DEFINE n == Len(s)
           t == [s EXCEPT ![n] = x]
           u == Append(Front(s), x)
<1>1. n \in Nat /\ n # 0 /\ DOMAIN s = 1 .. n /\ n \in 1 .. n
    BY LenProperties, EmptySeq
<1>2. /\ t \in Seq(S) /\ Len(t) = n
      /\ \A j \in 1 .. n : t[j] = IF j = n THEN x ELSE s[j]
    BY <1>1, ExceptSeq
<1>3. /\ Front(s) \in Seq(S) /\ Len(Front(s)) = n - 1
      /\ \A j \in 1 .. n - 1 : Front(s)[j] = s[j]
  <2>1. \A i \in 1 .. n - 1 : s[i] \in S
    BY <1>1, ElementOfSeq
  <2>2. /\ SubSeq(s, 1, n - 1) \in Seq(S)
        /\ Len(SubSeq(s, 1, n - 1)) = IF 1 <= n - 1 THEN n - 1 - 1 + 1 ELSE 0
        /\ \A i \in 1 .. n - 1 - 1 + 1 : SubSeq(s, 1, n - 1)[i] = s[1 + i - 1]
    BY <1>1, <2>1, SubSeqProperties
  <2>3. QED
    BY <1>1, <2>2 DEF Front
<1>4. /\ u \in Seq(S) /\ Len(u) = (n - 1) + 1
      /\ \A j \in 1 .. n - 1 : u[j] = s[j]
      /\ u[(n - 1) + 1] = x
    BY <1>3, AppendProperties
<1>5. u = Front(s) \o <<x>>
    BY <1>3, AppendIsConcat
<1> HIDE DEF t, u, n
<1>6. Len(u) = n /\ u[n] = x
    BY <1>1, <1>4
<1>7. \A j \in 1 .. n : t[j] = u[j]
  <2>1. \A j \in 1 .. n : j = n \/ j \in 1 .. n - 1
    BY <1>1
  <2>2. QED
    BY <1>1, <1>2, <1>4, <1>6, <2>1
<1>8. t = u
    BY <1>2, <1>4, <1>6, <1>7, SeqEqual
<1>9. QED
    BY <1>5, <1>8 DEF t, n

\* A draft joins the queue.
LEMMA DraftQueued ==
    ASSUME NEW a \in Apps, NoneTwice(a), NEW d \in Drafts, d \notin Kept(a), NEW newBatch \in BOOLEAN
    PROVE  /\ NoneTwice(QueueDraft(a, d, newBatch)) /\ Kept(QueueDraft(a, d, newBatch)) = Kept(a) \cup {d}
           /\ QueueDraft(a, d, newBatch).steered = a.steered
           /\ QueueDraft(a, d, newBatch).held = a.held
<1> DEFINE b == QueueDraft(a, d, newBatch)
<1>1. /\ b \in Apps /\ b.history = a.history /\ b.steered = a.steered /\ b.held = a.held
    BY QueueDraftType DEF QueueDraft, Apps
<1>2. a.queued \in Seq(Entries) /\ d \notin Carried(a.queued, EntryHolds)
    BY DEF Apps, Kept
<1> HIDE DEF b
<1>3. SUFFICES /\ Carried(b.queued, EntryHolds) = Carried(a.queued, EntryHolds) \cup {d}
               /\ Tidy(b.queued)
  <2>1. /\ d \notin Carried(a.history, ItemHolds) /\ d \notin Range(a.steered)
        /\ d \notin Range(a.held)
    BY DEF Kept
  <2>2. ASSUME Carried(b.queued, EntryHolds) = Carried(a.queued, EntryHolds) \cup {d}, Tidy(b.queued)
        PROVE  NoneTwice(b) /\ Kept(b) = Kept(a) \cup {d}
    BY <1>1, <2>1, <2>2 DEF NoneTwice, Kept
  <2>3. QED
    BY <1>1, <2>2 DEF b
<1>4. CASE d \in Msgs /\ ~newBatch /\ a.queued # <<>> /\ ~Last(a.queued).shell
  <2> DEFINE last == Last(a.queued)
             entry == [last EXCEPT !.texts = Append(@, d)]
             front == Front(a.queued)
  <2>1. last \in Entries /\ front \in Seq(Entries) /\ a.queued = front \o <<last>>
    BY <1>2, <1>4, SplitEnds
  <2>2. b.queued = [a.queued EXCEPT ![Len(a.queued)] = entry]
    BY <1>4 DEF QueueDraft, Apps, b, Last
  <2>3. /\ ~last.shell
        /\ last.texts \in Seq(Msgs) /\ Append(last.texts, d) \in Seq(Msgs) \ {<<>>}
    <3>1. ~last.shell
        BY <1>4
    <3>2. last.texts \in Seq(Msgs)
        BY <2>1, <3>1 DEF Entries
    <3> HIDE DEF last
    <3>3. QED
        BY <1>4, <3>1, <3>2, AppendProperties
  <2> HIDE DEF last
  <2>4. entry \in Entries /\ entry.texts = Append(last.texts, d) /\ ~entry.shell
    <3>1. last \in [shell : {FALSE}, texts : Seq(Msgs) \ {<<>>}]
      <4>1. last \notin [shell : {TRUE}, texts : Seq(Shells) \ {<<>>}]
        BY <2>3
      <4>2. QED
        BY <2>1, <4>1 DEF Entries
    <3>2. entry \in [shell : {FALSE}, texts : Seq(Msgs) \ {<<>>}]
        BY <2>3, <3>1
    <3>3. QED
        BY <3>1, <3>2 DEF Entries
  <2> HIDE DEF entry, front
  <2>5. b.queued = front \o <<entry>>
    BY <1>2, <1>4, <2>2, <2>4, ReplaceLast DEF front
  <2>6. /\ <<last>> \in Seq(Entries) /\ Carried(<<last>>, EntryHolds) = Range(last.texts)
        /\ Tidy(<<last>>) <=> OneEach(last)
    BY <2>1, UnitEntry
  <2>7. /\ <<entry>> \in Seq(Entries) /\ Carried(<<entry>>, EntryHolds) = Range(entry.texts)
        /\ Tidy(<<entry>>) <=> OneEach(entry)
    BY <2>4, UnitEntry
  <2>8. /\ Range(entry.texts) = Range(last.texts) \cup {d}
        /\ IsInjective(last.texts) /\ d \notin Range(last.texts) => IsInjective(entry.texts)
    BY <1>4, <2>3, <2>4, AppendFacts
  <2> DEFINE one == <<last>>
             other == <<entry>>
  <2> HIDE DEF one, other
  <2>9. /\ Carried(a.queued, EntryHolds) = Carried(front, EntryHolds) \cup Carried(one, EntryHolds)
        /\ Tidy(front) /\ Tidy(one) /\ Carried(front, EntryHolds) \cap Carried(one, EntryHolds) = {}
    <3>1. one \in Seq(Entries) /\ front \in Seq(Entries) /\ a.queued = front \o one
        BY <2>1, <2>6 DEF one
    <3>2. /\ front \o one \in Seq(Entries)
          /\ Carried(front \o one, EntryHolds) = Carried(front, EntryHolds) \cup Carried(one, EntryHolds)
          /\ Tidy(front \o one) <=> /\ Tidy(front) /\ Tidy(one)
                                   /\ Carried(front, EntryHolds) \cap Carried(one, EntryHolds) = {}
        BY <3>1, JoinEntries
    <3>3. Tidy(front \o one)
        BY <3>1 DEF NoneTwice
    <3>4. QED
        BY <3>1, <3>2, <3>3
  <2>10. /\ Carried(b.queued, EntryHolds) = Carried(front, EntryHolds) \cup Carried(other, EntryHolds)
         /\ Tidy(b.queued) <=> /\ Tidy(front) /\ Tidy(other)
                               /\ Carried(front, EntryHolds) \cap Carried(other, EntryHolds) = {}
    <3>1. other \in Seq(Entries) /\ front \in Seq(Entries) /\ b.queued = front \o other
        BY <2>1, <2>5, <2>7 DEF other
    <3>2. /\ front \o other \in Seq(Entries)
          /\ Carried(front \o other, EntryHolds)
                = Carried(front, EntryHolds) \cup Carried(other, EntryHolds)
          /\ Tidy(front \o other) <=> /\ Tidy(front) /\ Tidy(other)
                                     /\ Carried(front, EntryHolds) \cap Carried(other, EntryHolds) = {}
        BY <3>1, JoinEntries
    <3>3. QED
        BY <3>1, <3>2
  <2>11. OneEach(last) /\ d \notin Range(last.texts)
    BY <1>2, <2>6, <2>9 DEF one
  <2>12. OneEach(entry)
    BY <2>4, <2>8, <2>11 DEF OneEach
  <2>13. QED
    BY <1>2, <2>6, <2>7, <2>8, <2>9, <2>10, <2>12 DEF one, other
<1>5. CASE ~(d \in Msgs /\ ~newBatch /\ a.queued # <<>> /\ ~Last(a.queued).shell)
  <2> DEFINE entry == [shell |-> d \in Shells, texts |-> <<d>>]
  <2>1. b.queued = Append(a.queued, entry)
    BY <1>5 DEF QueueDraft, Apps, b
  <2>2. entry \in Entries /\ entry.texts = <<d>>
    <3>1. CASE d \in Shells
      <4>1. <<d>> \in Seq(Shells) \ {<<>>} /\ (d \in Shells) = TRUE
        BY <3>1
      <4>2. QED
        BY <4>1 DEF Entries
    <3>2. CASE d \notin Shells
      <4>1. <<d>> \in Seq(Msgs) \ {<<>>} /\ (d \in Shells) = FALSE
        BY <3>2 DEF Drafts
      <4>2. QED
        BY <4>1 DEF Entries
    <3>3. QED
        BY <3>1, <3>2
  <2> HIDE DEF entry
  <2>3. Range(entry.texts) = {d} /\ OneEach(entry)
    <3>1. Range(entry.texts) = {d} /\ IsInjective(entry.texts)
        BY <2>2, UnitRange
    <3>2. entry.texts = <<entry.texts[1]>>
        BY <2>2
    <3>3. QED
        BY <3>1, <3>2 DEF OneEach
  <2> DEFINE other == <<entry>>
  <2>4. b.queued = a.queued \o other
    BY <1>2, <2>1, <2>2, AppendIsConcat
  <2>5. /\ other \in Seq(Entries) /\ Carried(other, EntryHolds) = {d} /\ Tidy(other)
    BY <2>2, <2>3, UnitEntry
  <2> HIDE DEF other
  <2>6. QED
    BY <1>2, <2>4, <2>5, JoinEntries DEF NoneTwice
<1>6. QED
    BY <1>4, <1>5

-----------------------------------------------------------------------------
(* What an undo and a blocked prompt take back.                            *)

\* Taking the trailing user items off a history takes back what they hold.
LEMMA TailTakenBack ==
    ASSUME NEW s \in Seq(Items), Apart(s, ItemHolds), NEW back,
           back = {item[2] : item \in Range(After(s, 0, IsUser))}
    PROVE  /\ Before(s, 0, IsUser) \in Seq(Items) /\ Apart(Before(s, 0, IsUser), ItemHolds)
           /\ Carried(Before(s, 0, IsUser), ItemHolds) = Carried(s, ItemHolds) \ back
           /\ back \subseteq Carried(s, ItemHolds) /\ back \subseteq Msgs
<1> DEFINE p == Before(s, 0, IsUser)
           q == After(s, 0, IsUser)
<1>1. p \in Seq(Items) /\ q \in Seq(Items) /\ s = p \o q
    BY UserTail, SplitSeq DEF Before, After
<1>2. \A x \in Range(q) : x \in Items /\ IsUser(x)
    BY UserTail
<1> HIDE DEF p, q
<1>3. Carried(q, ItemHolds) = {item[2] : item \in Range(q)}
  <2>1. \A i \in DOMAIN q : ItemHolds[q[i]] = {q[i][2]}
    BY <1>2, ItemsHold DEF Range
  <2>2. QED
    BY <2>1 DEF Carried, Range
<1>4. back = Carried(q, ItemHolds)
    BY <1>3 DEF q
<1>5. /\ Carried(p \o q, ItemHolds) = Carried(p, ItemHolds) \cup Carried(q, ItemHolds)
      /\ Apart(p \o q, ItemHolds) <=> /\ Apart(p, ItemHolds) /\ Apart(q, ItemHolds)
                                      /\ Carried(p, ItemHolds) \cap Carried(q, ItemHolds) = {}
    BY <1>1, JoinItems
<1>6. back \subseteq Msgs
    BY <1>2, UserItemIsMessage DEF q
<1>7. QED
    BY <1>1, <1>4, <1>5, <1>6 DEF p

\* An undo hands the submission back.
LEMMA UndoTakesBack ==
    ASSUME NEW a \in Apps, NoneTwice(a), NEW back,
           back = {item[2] : item \in Range(Undone(a))}
    PROVE  /\ NoneTwice(Undo(a)) /\ Kept(Undo(a)) = Kept(a) \ back
           /\ back \subseteq Kept(a) /\ back \subseteq Msgs
<1> DEFINE b == Undo(a)
<1>1. /\ b.history = Before(a.history, 0, IsUser) /\ b.queued = a.queued
      /\ b.steered = a.steered /\ b.held = a.held
    BY DEF Undo, Apps
<1>2. a.history \in Seq(Items) /\ Apart(a.history, ItemHolds)
    BY DEF Apps, NoneTwice
<1>3. back = {item[2] : item \in Range(After(a.history, 0, IsUser))}
    BY DEF Undone
<1>4. /\ Apart(b.history, ItemHolds) /\ back \subseteq Msgs
      /\ Carried(b.history, ItemHolds) = Carried(a.history, ItemHolds) \ back
      /\ back \subseteq Carried(a.history, ItemHolds)
    BY <1>1, <1>2, <1>3, TailTakenBack
<1> HIDE DEF b
<1>5. NoneTwice(b) /\ Kept(b) = Kept(a) \ back /\ back \subseteq Kept(a)
    BY <1>1, <1>4 DEF NoneTwice, Kept
<1>6. QED
    BY <1>4, <1>5 DEF b

\* A blocked prompt comes back from under the hook notes.
LEMMA BlockTakesBack ==
    ASSUME NEW a \in Apps, NoneTwice(a), NEW back,
           back = {item[2] : item \in Range(BlockedMsgs(a))}
    PROVE  /\ NoneTwice(BlockPrompt(a)) /\ Kept(BlockPrompt(a)) = Kept(a) \ back
           /\ back \subseteq Kept(a) /\ back \subseteq Msgs
<1> DEFINE b == BlockPrompt(a)
           under == Before(a.history, 0, IsHook)
           notes == After(a.history, 0, IsHook)
           kept == Before(under, 0, IsUser)
           last == <<Error>>
<1>1. /\ b.history = (kept \o notes) \o last
      /\ b.queued = a.queued /\ b.steered = a.steered /\ b.held = a.held
    BY DEF BlockPrompt, Apps
<1>2. a.history \in Seq(Items) /\ Apart(a.history, ItemHolds)
    BY DEF Apps, NoneTwice
<1>3. under \in Seq(Items) /\ notes \in Seq(Items) /\ a.history = under \o notes
    BY <1>2, HookTail, SplitSeq DEF Before, After
<1>4. \A x \in Range(notes) : ItemHolds[x] = {}
    BY <1>2, HookTail, ItemsHold
<1>5. back = {item[2] : item \in Range(After(under, 0, IsUser))}
    BY DEF BlockedMsgs
<1> HIDE DEF b, under, notes
<1>6. Carried(notes, ItemHolds) = {} /\ Apart(notes, ItemHolds)
    BY <1>4, PlainHolds DEF Range
<1>7. /\ Carried(under \o notes, ItemHolds) = Carried(under, ItemHolds) \cup Carried(notes, ItemHolds)
      /\ Apart(under \o notes, ItemHolds)
            <=> /\ Apart(under, ItemHolds) /\ Apart(notes, ItemHolds)
                /\ Carried(under, ItemHolds) \cap Carried(notes, ItemHolds) = {}
    BY <1>3, JoinItems
<1>8. Apart(under, ItemHolds) /\ Carried(under, ItemHolds) = Carried(a.history, ItemHolds)
    BY <1>2, <1>3, <1>6, <1>7
<1>9. /\ kept \in Seq(Items) /\ Apart(kept, ItemHolds)
      /\ Carried(kept, ItemHolds) = Carried(a.history, ItemHolds) \ back
      /\ back \subseteq Carried(a.history, ItemHolds) /\ back \subseteq Msgs
    BY <1>3, <1>5, <1>8, TailTakenBack
<1>10. last \in Seq(Items) /\ Carried(last, ItemHolds) = {} /\ Apart(last, ItemHolds)
    BY ItemTypes, ItemsHold, UnitHolds
<1> HIDE DEF kept, last
<1>11. /\ kept \o notes \in Seq(Items)
       /\ Carried(kept \o notes, ItemHolds) = Carried(kept, ItemHolds) \cup Carried(notes, ItemHolds)
       /\ Apart(kept \o notes, ItemHolds)
            <=> /\ Apart(kept, ItemHolds) /\ Apart(notes, ItemHolds)
                /\ Carried(kept, ItemHolds) \cap Carried(notes, ItemHolds) = {}
    BY <1>3, <1>9, JoinItems
<1> DEFINE kn == kept \o notes
<1> HIDE DEF kn
<1>12. kn \in Seq(Items) /\ Carried(kn, ItemHolds) = Carried(kept, ItemHolds) /\ Apart(kn, ItemHolds)
    BY <1>6, <1>9, <1>11 DEF kn
<1>13. /\ Carried(kn \o last, ItemHolds) = Carried(kn, ItemHolds) \cup Carried(last, ItemHolds)
       /\ Apart(kn \o last, ItemHolds)
            <=> /\ Apart(kn, ItemHolds) /\ Apart(last, ItemHolds)
                /\ Carried(kn, ItemHolds) \cap Carried(last, ItemHolds) = {}
    BY <1>10, <1>12, JoinItems
<1>14. /\ Carried(b.history, ItemHolds) = Carried(a.history, ItemHolds) \ back
       /\ Apart(b.history, ItemHolds)
    BY <1>1, <1>9, <1>10, <1>12, <1>13 DEF kn
<1>15. NoneTwice(b) /\ Kept(b) = Kept(a) \ back /\ back \subseteq Kept(a)
    BY <1>1, <1>9, <1>14 DEF NoneTwice, Kept
<1>16. QED
    BY <1>9, <1>15 DEF b

\* A kept interruption, a turn's end, a failure: nothing moves but held cells.
LEMMA KeepKeeps ==
    ASSUME NEW a \in Apps, NoneTwice(a)
    PROVE  NoneTwice(Keep(a)) /\ Kept(Keep(a)) = Kept(a)
<1> DEFINE f == FlushSegment(a)
           b == FailLive(f)
           c == IF a.mode = "shell" THEN b ELSE Push(b, Error)
           d == SettleHeld(c)
           e == IF a.mode = "reply" THEN Push(d, Summary) ELSE d
<1>1. f \in Apps /\ SameStock(f, a)
    BY FlushSegmentType, SameFlush
<1> HIDE DEF f
<1>2. b \in Apps /\ SameStock(b, f)
    BY <1>1, FailLiveType, SameFailLive
<1> HIDE DEF b
<1>3. c \in Apps /\ SameStock(c, b)
  <2>1. Push(b, Error) \in Apps /\ SameStock(Push(b, Error), b)
    BY <1>2, SamePush, PushType, ItemTypes, ItemsHold
  <2>2. SameStock(b, b)
    BY <1>2, SameRest
  <2>3. QED
    BY <1>2, <2>1, <2>2
<1> HIDE DEF c
<1>4. NoneTwice(c) /\ Kept(c) = Kept(a)
    BY <1>1, <1>2, <1>3, SameKept
<1>5. d \in Apps /\ NoneTwice(d) /\ Kept(d) = Kept(a)
    BY <1>3, <1>4, HeldSettled
<1> HIDE DEF d
<1>6. e \in Apps /\ SameStock(e, d)
  <2>1. Push(d, Summary) \in Apps /\ SameStock(Push(d, Summary), d)
    BY <1>5, SamePush, PushType, ItemTypes, ItemsHold
  <2>2. SameStock(d, d)
    BY <1>5, SameRest
  <2>3. QED
    BY <1>5, <2>1, <2>2
<1>7. Keep(a) = [e EXCEPT !.mode = "idle", !.draft = FALSE]
    BY DEF Keep, f, b, c, d
<1> HIDE DEF e
<1>8. SameStock(Keep(a), e)
    BY <1>6, <1>7, KeepType, SameRest DEF Apps
<1>9. QED
    BY <1>5, <1>6, <1>8, SameKept

LEMMA DoneKeeps ==
    ASSUME NEW a \in Apps, NoneTwice(a)
    PROVE  NoneTwice(OnStreamDone(a)) /\ Kept(OnStreamDone(a)) = Kept(a)
<1>1. CASE a.mode = "compact"
  <2> DEFINE p == Push(a, Compaction)
             b == [p EXCEPT !.mode = "idle", !.draft = FALSE]
  <2>1. p \in Apps /\ SameStock(p, a)
    BY SamePush, PushType, ItemTypes, ItemsHold
  <2> HIDE DEF p
  <2>2. b \in Apps /\ SameStock(b, p)
    <3>1. b \in Apps
        BY <2>1 DEF Apps, Modes
    <3>2. QED
        BY <2>1, <3>1, SameRest DEF Apps
  <2>3. OnStreamDone(a) = SettleHeld(b)
    BY <1>1 DEF OnStreamDone, p
  <2> HIDE DEF b
  <2>4. NoneTwice(b) /\ Kept(b) = Kept(a)
    BY <2>1, <2>2, SameKept
  <2>5. QED
    BY <2>2, <2>3, <2>4, HeldSettled
<1>2. CASE a.mode # "compact"
  <2> DEFINE n == [a EXCEPT !.draft = FALSE]
             f == FlushSegment(n)
             b == SettleHeld(f)
             c == IF a.mode = "shell" THEN b ELSE Push(b, Summary)
  <2>1. n \in Apps /\ SameStock(n, a)
    <3>1. n \in Apps
        BY DEF Apps
    <3>2. QED
        BY <3>1, SameRest DEF Apps
  <2>2. OnStreamDone(a) = [c EXCEPT !.mode = "idle"]
    BY <1>2 DEF OnStreamDone
  <2> HIDE DEF n
  <2>3. f \in Apps /\ SameStock(f, n)
    BY <2>1, FlushSegmentType, SameFlush
  <2> HIDE DEF f
  <2>4. NoneTwice(f) /\ Kept(f) = Kept(a)
    BY <2>1, <2>3, SameKept
  <2>5. b \in Apps /\ NoneTwice(b) /\ Kept(b) = Kept(a)
    BY <2>3, <2>4, HeldSettled
  <2> HIDE DEF b
  <2>6. c \in Apps /\ SameStock(c, b)
    <3>1. Push(b, Summary) \in Apps /\ SameStock(Push(b, Summary), b)
        BY <2>5, SamePush, PushType, ItemTypes, ItemsHold
    <3>2. SameStock(b, b)
        BY <2>5, SameRest
    <3>3. QED
        BY <2>5, <3>1, <3>2
  <2> HIDE DEF c
  <2>7. SameStock(OnStreamDone(a), c)
    BY <2>2, <2>6, OnStreamDoneType, SameRest DEF Apps
  <2>8. QED
    BY <2>5, <2>6, <2>7, SameKept
<1>3. QED
    BY <1>1, <1>2

LEMMA FailKeeps ==
    ASSUME NEW a \in Apps, NoneTwice(a)
    PROVE  NoneTwice(FailStream(a)) /\ Kept(FailStream(a)) = Kept(a)
<1> DEFINE r == SettleReasoning(a)
           f == FlushSegment(r)
           b == FailLive(f)
           p == Push(b, Error)
<1>1. r \in Apps /\ SameStock(r, a)
    BY SettleReasoningType, SameReasoning
<1> HIDE DEF r
<1>2. f \in Apps /\ SameStock(f, r)
    BY <1>1, FlushSegmentType, SameFlush
<1> HIDE DEF f
<1>3. b \in Apps /\ SameStock(b, f)
    BY <1>2, FailLiveType, SameFailLive
<1> HIDE DEF b
<1>4. p \in Apps /\ SameStock(p, b)
    BY <1>3, SamePush, PushType, ItemTypes, ItemsHold
<1>5. FailStream(a) = [p EXCEPT !.mode = "idle", !.draft = FALSE]
    BY DEF FailStream, r, f, b
<1> HIDE DEF p
<1>6. SameStock(FailStream(a), p)
    BY <1>4, <1>5, FailStreamType, SameRest DEF Apps
<1>7. QED
    BY <1>1, <1>2, <1>3, <1>4, <1>6, SameKept

-----------------------------------------------------------------------------
(* What is started after a turn: all that waited goes into it or stays.    *)

LEMMA HeadTaken ==
    ASSUME NEW a \in Apps, NoneTwice(a), a.queued # <<>>,
           NEW c, c = [a EXCEPT !.queued = Tail(@)]
    PROVE  /\ c \in Apps /\ NoneTwice(c) /\ c.steered = a.steered
           /\ Head(a.queued) \in Entries /\ OneEach(Head(a.queued))
           /\ Range(Head(a.queued).texts) \cap Kept(c) = {}
           /\ Kept(c) \cup Range(Head(a.queued).texts) = Kept(a)
<1> DEFINE head == Head(a.queued)
           rest == Tail(a.queued)
           one == <<head>>
<1>1. a.queued \in Seq(Entries)
    BY DEF Apps
<1>2. head \in Entries /\ rest \in Seq(Entries) /\ a.queued = one \o rest
    BY <1>1, SplitEnds
<1>3. /\ c \in Apps /\ c.queued = rest
      /\ c.history = a.history /\ c.steered = a.steered /\ c.held = a.held
    BY <1>2 DEF Apps
<1> HIDE DEF head, rest
<1>4. /\ one \in Seq(Entries) /\ Carried(one, EntryHolds) = Range(head.texts)
      /\ Tidy(one) <=> OneEach(head)
    BY <1>2, UnitEntry
<1> HIDE DEF one
<1>5. /\ Carried(one \o rest, EntryHolds) = Carried(one, EntryHolds) \cup Carried(rest, EntryHolds)
      /\ Tidy(one \o rest) <=> /\ Tidy(one) /\ Tidy(rest)
                               /\ Carried(one, EntryHolds) \cap Carried(rest, EntryHolds) = {}
    BY <1>2, <1>4, JoinEntries
<1>6. /\ Carried(a.queued, EntryHolds) = Range(head.texts) \cup Carried(rest, EntryHolds)
      /\ Tidy(rest) /\ OneEach(head) /\ Range(head.texts) \cap Carried(rest, EntryHolds) = {}
    BY <1>2, <1>4, <1>5 DEF NoneTwice
<1>7. Range(head.texts) \subseteq Drafts /\ Range(head.texts) \cap Range(a.held) = {}
  <2>1. Range(head.texts) \subseteq Drafts
    BY <1>2, HoldTypes
  <2>2. Range(a.held) \subseteq Notices
    BY KeptTypes
  <2>3. QED
    BY <2>1, <2>2, Kinds
<1>8. NoneTwice(c)
    BY <1>3, <1>6 DEF NoneTwice
<1>9. Range(head.texts) \cap Kept(c) = {} /\ Kept(c) \cup Range(head.texts) = Kept(a)
    BY <1>3, <1>6, <1>7 DEF NoneTwice, Kept
<1>10. QED
    BY <1>2, <1>3, <1>6, <1>8, <1>9 DEF head

\* A batch starts a turn.
LEMMA BatchStarted ==
    ASSUME NEW a \in Apps, NoneTwice(a), NEW ms \in Seq(Msgs), IsInjective(ms),
           Range(ms) \cap Kept(a) = {}
    PROVE  /\ NoneTwice(StartTurn(a, ms).app) /\ Kept(StartTurn(a, ms).app) = Kept(a) \cup Range(ms)
           /\ StartTurn(a, ms).app.steered = a.steered
<1> DEFINE b == RecordBatch(a, ms)
<1>1. StartTurn(a, ms).app = BeginStream(b)
    BY DEF StartTurn
<1>2. b \in Apps /\ NoneTwice(b) /\ Kept(b) = Kept(a) \cup Range(ms) /\ b.steered = a.steered
    BY BatchRecorded
<1> HIDE DEF b
<1>3. SameStock(BeginStream(b), b)
    BY <1>2, SameBegin
<1>4. NoneTwice(BeginStream(b)) /\ Kept(BeginStream(b)) = Kept(b)
    BY <1>2, <1>3, SameKept
<1>5. BeginStream(b).steered = b.steered
    BY <1>3 DEF SameStock
<1>6. QED
    BY <1>1, <1>2, <1>4, <1>5

LEMMA NextTurnKeeps ==
    ASSUME NEW a \in Apps, NoneTwice(a), NEW unheard
    PROVE  /\ NoneTwice(NextTurn(unheard, a).app) /\ Kept(NextTurn(unheard, a).app) = Kept(a)
           /\ NextTurn(unheard, a).app.steered = a.steered
<1> DEFINE head == Head(a.queued)
           c == [a EXCEPT !.queued = Tail(@)]
<1>1. CASE a.queued # <<>>
  <2>1. /\ c \in Apps /\ NoneTwice(c) /\ c.steered = a.steered
        /\ head \in Entries /\ OneEach(head) /\ Range(head.texts) \cap Kept(c) = {}
        /\ Kept(c) \cup Range(head.texts) = Kept(a)
    BY <1>1, HeadTaken
  <2>2. NextTurn(unheard, a) = IF head.shell THEN RunShell(c, head.texts[1])
                               ELSE StartTurn(c, head.texts)
    BY <1>1 DEF NextTurn
  <2> HIDE DEF c, head
  <2>3. CASE head.shell
    <3> DEFINE cmd == head.texts[1]
    <3>1. head.texts = <<cmd>>
        BY <2>1, <2>3 DEF OneEach
    <3>2. Range(head.texts) = {cmd}
      <4> HIDE DEF cmd
      <4>1. Range(<<cmd>>) = {cmd}
        BY UnitRange
      <4>2. QED
        BY <3>1, <4>1
    <3>3. head.texts \in Seq(Shells)
        BY <2>1, <2>3 DEF Entries
    <3>4. cmd \in Shells
        BY <3>2, <3>3, RangeType
    <3>5. NextTurn(unheard, a).app = BeginShell(c, cmd)
        BY <2>2, <2>3 DEF RunShell
    <3> HIDE DEF cmd
    <3>6. cmd \notin Kept(c)
        BY <2>1, <3>2
    <3>7. /\ NoneTwice(BeginShell(c, cmd)) /\ Kept(BeginShell(c, cmd)) = Kept(c) \cup {cmd}
          /\ BeginShell(c, cmd).steered = c.steered
        BY <2>1, <3>4, <3>6, ShellRecorded
    <3>8. QED
        BY <2>1, <3>2, <3>5, <3>7
  <2>4. CASE ~head.shell
    <3> DEFINE ms == head.texts
    <3>1. ms \in Seq(Msgs) /\ IsInjective(ms) /\ Range(ms) \cap Kept(c) = {}
        BY <2>1, <2>4 DEF Entries, OneEach
    <3>2. NextTurn(unheard, a) = StartTurn(c, ms)
        BY <2>2, <2>4
    <3> HIDE DEF ms
    <3>3. /\ NoneTwice(StartTurn(c, ms).app) /\ Kept(StartTurn(c, ms).app) = Kept(c) \cup Range(ms)
          /\ StartTurn(c, ms).app.steered = c.steered
        BY <2>1, <3>1, BatchStarted
    <3>4. QED
        BY <2>1, <3>2, <3>3 DEF ms
  <2>5. QED
    BY <2>3, <2>4
<1>2. CASE a.queued = <<>> /\ Range(unheard) \cap ModelNotices # {}
  <2>1. NextTurn(unheard, a).app = BeginStream(a)
    BY <1>2 DEF NextTurn, StartBackgroundTurn
  <2>2. SameStock(BeginStream(a), a)
    BY SameBegin
  <2>3. BeginStream(a).steered = a.steered
    BY <2>2 DEF SameStock
  <2>4. QED
    BY <2>1, <2>2, <2>3, SameKept
<1>3. CASE a.queued = <<>> /\ ~(Range(unheard) \cap ModelNotices # {})
  <2>1. NextTurn(unheard, a).app = a
    BY <1>3 DEF NextTurn, Rest
  <2>2. QED
    BY <2>1
<1>4. QED
    BY <1>1, <1>2, <1>3

\* A dispatch loses nothing, and leaves nothing the backend could still read.
LEMMA DispatchKeeps ==
    ASSUME NEW a \in Apps, NoneTwice(a), NEW unheard, DispatchAfterTurn(a, unheard)
    PROVE  /\ NoneTwice(app') /\ Kept(app') = Kept(a) /\ app'.steered = <<>>
           /\ steerQ' = <<>> /\ board' = <<>>
<1> DEFINE b == SettleHeld(a)
           c == ReclaimSteered(b)
<1>1. b \in Apps /\ NoneTwice(b) /\ Kept(b) = Kept(a)
    BY HeldSettled
<1> HIDE DEF b
<1>2. c \in Apps /\ NoneTwice(c) /\ Kept(c) = Kept(a) /\ c.steered = <<>>
    BY <1>1, SteersReclaimed
<1>3. /\ app' = NextTurn(unheard, c).app /\ steerQ' = <<>> /\ board' = <<>>
    BY DEF DispatchAfterTurn, Launch, AfterTurn, b
<1> HIDE DEF c
<1>4. QED
    BY <1>2, <1>3, NextTurnKeeps

\* With nothing to read and nothing sent, the copies agree.
LEMMA NothingSent ==
    ASSUME chan' = <<>>, steerQ' = <<>>, board' = <<>>
    PROVE  Mirrored(app, chan)'
<1>1. DOMAIN <<>> = {}
    OBVIOUS
<1>2. Carried(<<>>, EventHolds) = {} /\ Apart(<<>>, EventHolds)
    BY <1>1, PlainHolds
<1>3. Range(<<>>) = {} /\ IsInjective(<<>>)
    BY UnitRange
<1>4. QED
    BY <1>2, <1>3 DEF Mirrored

\* The end of a turn, read off the channel.
LEMMA EndedKeeps ==
    ASSUME NEW a0 \in Apps, NoneTwice(a0), NEW e, NEW back,
           back = IF e[1] = "PromptBlocked" THEN {item[2] : item \in Range(BlockedMsgs(a0))} ELSE {},
           e[1] \in Terminal
    PROVE  /\ Ended(a0, e) \in Apps /\ NoneTwice(Ended(a0, e))
           /\ Kept(Ended(a0, e)) = Kept(a0) \ back /\ back \subseteq Kept(a0)
           /\ back \subseteq Msgs
<1> DEFINE a == TrackAttempt(a0, e)
<1>1. a \in Apps /\ SameStock(a, a0) /\ a.history = a0.history
    BY TrackAttemptType, SameTrack DEF TrackAttempt, Apps
<1>2. Ended(a0, e) \in Apps
    BY EndedType
<1>3. Ended(a0, e) = CASE e[1] = "StreamDone" -> OnStreamDone(a)
                       [] e[1] = "Error" -> FailStream(a)
                       [] OTHER -> BlockPrompt(a)
    BY DEF Ended
<1> HIDE DEF a
<1>4. NoneTwice(a) /\ Kept(a) = Kept(a0)
    BY <1>1, SameKept
<1>5. CASE e[1] = "StreamDone"
  <2>1. Ended(a0, e) = OnStreamDone(a) /\ back = {}
    BY <1>3, <1>5
  <2>2. QED
    BY <1>1, <1>2, <1>4, <2>1, DoneKeeps
<1>6. CASE e[1] = "Error"
  <2>1. Ended(a0, e) = FailStream(a) /\ back = {}
    BY <1>3, <1>6
  <2>2. QED
    BY <1>1, <1>2, <1>4, <2>1, FailKeeps
<1>7. CASE e[1] = "PromptBlocked"
  <2>1. Ended(a0, e) = BlockPrompt(a)
    BY <1>3, <1>7
  <2>2. back = {item[2] : item \in Range(BlockedMsgs(a))}
    BY <1>1, <1>7 DEF BlockedMsgs
  <2>3. /\ NoneTwice(BlockPrompt(a)) /\ Kept(BlockPrompt(a)) = Kept(a) \ back
        /\ back \subseteq Kept(a) /\ back \subseteq Msgs
    BY <1>1, <1>4, <2>2, BlockTakesBack
  <2>4. QED
    BY <1>2, <1>4, <2>1, <2>3
<1>8. QED
    BY <1>5, <1>6, <1>7 DEF Terminal

-----------------------------------------------------------------------------
(* The events that do not end the turn.                                    *)

\* b holds all that a held, less what the event e delivered from the waiting rows.
Follows(b, a, e) ==
    /\ NoneTwice(b) /\ Kept(b) = Kept(a)
    /\ Range(a.steered) \ EventHolds[e] \subseteq Range(b.steered)
    /\ Range(a.held) \ EventHolds[e] \subseteq Range(b.held)
    /\ e[1] # "Steered" => b.steered = a.steered

LEMMA SameFollows ==
    ASSUME NEW a, NEW b, NEW e, SameStock(b, a), NoneTwice(a)
    PROVE  Follows(b, a, e)
<1>1. NoneTwice(b) /\ Kept(b) = Kept(a)
    BY SameKept
<1>2. b.steered = a.steered /\ b.held = a.held
    BY DEF SameStock
<1>3. QED
    BY <1>1, <1>2 DEF Follows

LEMMA EventFollows ==
    ASSUME NEW a0 \in Apps, NoneTwice(a0), NEW e \in Events,
           e[1] = "Steered" => e[2] \in Range(a0.steered)
    PROVE  Follows(OnStreamEvent(a0, e), a0, e)
<1> DEFINE a == TrackAttempt(a0, e)
           f == FlushSegment(a)
           b == OnStreamEvent(a0, e)
<1>1. a \in Apps /\ SameStock(a, a0)
    BY TrackAttemptType, SameTrack
<1>2. b \in Apps
    BY OnStreamEventType
<1>3. b = CASE e[1] = "Chunk" /\ a.mode # "compact" -> [a EXCEPT !.text = e[2]]
            [] e[1] = "ThinkingChunk" -> [a EXCEPT !.thought = TRUE]
            [] e[1] = "ThinkingEnd"   -> SettleReasoning(a)
            [] e[1] = "Retrying"      -> WithdrawAttempt(a)
            [] e[1] = "HookNote" /\ a.mode # "compact" -> Push(f, Hook)
            [] e[1] = "ToolCallDelta" -> [f EXCEPT !.draft = TRUE]
            [] e[1] = "ToolBatch"     -> [f EXCEPT !.live = <<e[2]>>]
            [] e[1] = "ToolEnd" /\ a.live # <<>> ->
                  [Push(a, Tool(Head(a.live))) EXCEPT !.live = Tail(@), !.draft = FALSE]
            [] e[1] = "Steered"       -> DeliverSteered(a, e[2])
            [] e[1] = "NoticeDelivered" /\ a.mode # "compact" -> SettleDelivered(f, e[2])
            [] OTHER -> a
    BY DEF OnStreamEvent
<1>0. SUFFICES Follows(b, a0, e)
    OBVIOUS
<1> HIDE DEF a, b
<1>4. f \in Apps /\ SameStock(f, a)
    BY <1>1, FlushSegmentType, SameFlush
<1>5. NoneTwice(a) /\ Kept(a) = Kept(a0) /\ a.steered = a0.steered /\ a.held = a0.held
    BY <1>1, SameKept DEF SameStock
<1>6. NoneTwice(f) /\ Kept(f) = Kept(a0) /\ f.steered = a0.steered /\ f.held = a0.held
    BY <1>4, <1>5, SameKept DEF SameStock
<1> HIDE DEF f
<1>7. ASSUME SameStock(b, a) PROVE Follows(b, a0, e)
    BY <1>1, <1>7, SameThen, SameFollows
<1>8. ASSUME SameStock(b, f) PROVE Follows(b, a0, e)
  <2>1. SameStock(f, a0)
    BY <1>1, <1>4, SameThen
  <2>2. QED
    BY <1>8, <2>1, SameThen, SameFollows
<1>9. CASE e[1] = "Chunk" /\ a.mode # "compact"
  <2>1. b = [a EXCEPT !.text = e[2]]
    BY <1>3, <1>9
  <2>2. b.history = a.history /\ b.queued = a.queued /\ b.steered = a.steered /\ b.held = a.held
    BY <1>1, <2>1 DEF Apps
  <2>3. QED
    BY <1>1, <1>2, <1>7, <2>2, SameRest
<1>10. CASE e[1] = "ThinkingChunk"
  <2>1. b = [a EXCEPT !.thought = TRUE]
    BY <1>3, <1>10
  <2>2. b.history = a.history /\ b.queued = a.queued /\ b.steered = a.steered /\ b.held = a.held
    BY <1>1, <2>1 DEF Apps
  <2>3. QED
    BY <1>1, <1>2, <1>7, <2>2, SameRest
<1>11. CASE e[1] = "ThinkingEnd"
    BY <1>1, <1>3, <1>7, <1>11, SameReasoning
<1>12. CASE e[1] = "Retrying"
    BY <1>1, <1>3, <1>7, <1>12, SameWithdraw
<1>13. CASE e[1] = "HookNote" /\ a.mode # "compact"
  <2>1. b = Push(f, Hook)
    BY <1>3, <1>13
  <2>2. Hook \in Items /\ ItemHolds[Hook] = {}
    BY ItemTypes, ItemsHold
  <2>3. QED
    BY <1>4, <1>8, <2>1, <2>2, SamePush
<1>14. CASE e[1] = "ToolCallDelta"
  <2>1. b = [f EXCEPT !.draft = TRUE]
    BY <1>3, <1>14
  <2>2. b.history = f.history /\ b.queued = f.queued /\ b.steered = f.steered /\ b.held = f.held
    BY <1>4, <2>1 DEF Apps
  <2>3. QED
    BY <1>2, <1>4, <1>8, <2>2, SameRest
<1>15. CASE e[1] = "ToolBatch"
  <2>1. b = [f EXCEPT !.live = <<e[2]>>]
    BY <1>3, <1>15
  <2>2. b.history = f.history /\ b.queued = f.queued /\ b.steered = f.steered /\ b.held = f.held
    BY <1>4, <2>1 DEF Apps
  <2>3. QED
    BY <1>2, <1>4, <1>8, <2>2, SameRest
<1>16. CASE e[1] = "ToolEnd" /\ a.live # <<>>
  <2> DEFINE tool == Tool(Head(a.live))
             p == Push(a, tool)
  <2>1. a.live \in Seq(Nat \cup Shells)
    BY <1>1 DEF Apps
  <2>2. Head(a.live) \in Nat \cup Shells
    BY <1>16, <2>1, SplitEnds
  <2>3. tool \in Items /\ ItemHolds[tool] = {}
    BY <2>2, ItemTypes, ItemsHold
  <2>4. b = [p EXCEPT !.live = Tail(@), !.draft = FALSE]
    BY <1>3, <1>16
  <2> HIDE DEF tool
  <2>5. p \in Apps /\ SameStock(p, a)
    BY <1>1, <2>3, PushType, SamePush
  <2> HIDE DEF p
  <2>6. b.history = p.history /\ b.queued = p.queued /\ b.steered = p.steered /\ b.held = p.held
    BY <2>4, <2>5 DEF Apps
  <2>7. SameStock(b, p)
    BY <1>2, <2>5, <2>6, SameRest
  <2>8. QED
    BY <1>7, <2>5, <2>7, SameThen
<1>17. CASE e[1] = "Steered"
  <2> DEFINE m == e[2]
  <2>1. b = DeliverSteered(a, m) /\ m \in Range(a.steered)
    BY <1>3, <1>5, <1>17
  <2>2. EventHolds[e] = {m}
    BY <1>17 DEF EventHolds
  <2> HIDE DEF m
  <2>3. /\ NoneTwice(b) /\ Kept(b) = Kept(a) /\ Range(b.steered) = Range(a.steered) \ {m}
        /\ b.held = a.held
    BY <1>1, <1>5, <2>1, SteeredDelivered
  <2>4. QED
    BY <1>5, <1>17, <2>2, <2>3 DEF Follows
<1>18. CASE e[1] = "NoticeDelivered" /\ a.mode # "compact"
  <2> DEFINE n == e[2]
  <2>1. b = SettleDelivered(f, n) /\ n \in Notices
    BY <1>3, <1>18, EventTypes
  <2>2. EventHolds[e] = {n}
    BY <1>18 DEF EventHolds
  <2> HIDE DEF n
  <2>3. /\ NoneTwice(b) /\ Kept(b) = Kept(f) /\ Range(b.held) = Range(f.held) \ {n}
        /\ b.steered = f.steered
    BY <1>4, <1>6, <2>1, NoticeSettled
  <2>4. QED
    BY <1>6, <1>18, <2>2, <2>3 DEF Follows
<1>19. CASE /\ ~(e[1] = "Chunk" /\ a.mode # "compact") /\ e[1] # "ThinkingChunk"
            /\ e[1] # "ThinkingEnd" /\ e[1] # "Retrying"
            /\ ~(e[1] = "HookNote" /\ a.mode # "compact") /\ e[1] # "ToolCallDelta"
            /\ e[1] # "ToolBatch" /\ ~(e[1] = "ToolEnd" /\ a.live # <<>>)
            /\ e[1] # "Steered" /\ ~(e[1] = "NoticeDelivered" /\ a.mode # "compact")
  <2>1. b = a
    BY <1>3, <1>19
  <2>2. SameStock(b, a)
    BY <1>1, <2>1, SameRest
  <2>3. QED
    BY <1>7, <2>2
<1>20. QED
    BY <1>9, <1>10, <1>11, <1>12, <1>13, <1>14, <1>15, <1>16, <1>17, <1>18, <1>19

\* The loop reads an event: what is left on the channel names rows still held.
LEMMA EventRead ==
    ASSUME TypeOK, Mirrored(app, chan), chan # <<>>, chan' = Tail(chan),
           Follows(app', app, Head(chan)), UNCHANGED <<steerQ, board>>
    PROVE  Mirrored(app, chan)'
<1> DEFINE e == Head(chan)
           rest == Tail(chan)
           one == <<e>>
<1>1. chan \in Seq(Events)
    BY DEF TypeOK
<1>2. e \in Events /\ rest \in Seq(Events) /\ chan = one \o rest
    BY <1>1, SplitEnds
<1>3. Follows(app', app, e) /\ chan' = rest
    OBVIOUS
<1> HIDE DEF e, rest
<1>4. one \in Seq(Events) /\ Carried(one, EventHolds) = EventHolds[e]
    BY <1>2, UnitHolds
<1> HIDE DEF one
<1>5. /\ one \o rest \in Seq(Events)
      /\ Carried(one \o rest, EventHolds) = Carried(one, EventHolds) \cup Carried(rest, EventHolds)
      /\ Apart(one \o rest, EventHolds)
            <=> /\ Apart(one, EventHolds) /\ Apart(rest, EventHolds)
                /\ Carried(one, EventHolds) \cap Carried(rest, EventHolds) = {}
    BY <1>2, <1>4, JoinHolds
<1>6. /\ Carried(chan, EventHolds) = EventHolds[e] \cup Carried(rest, EventHolds)
      /\ Apart(rest, EventHolds) /\ EventHolds[e] \cap Carried(rest, EventHolds) = {}
    BY <1>2, <1>4, <1>5 DEF Mirrored
<1>7. /\ Range(steerQ) \subseteq Range(app.steered) \ EventHolds[e]
      /\ Range(board) \subseteq Range(app.held) \ EventHolds[e]
      /\ Carried(rest, EventHolds)
            \subseteq (Range(app.steered) \ EventHolds[e]) \cup (Range(app.held) \ EventHolds[e])
    BY <1>6 DEF Mirrored
<1>8. QED
    BY <1>3, <1>6, <1>7 DEF Mirrored, Follows

\* A thread announces what it took: everything, or nothing that waits.
LEMMA EventsSent ==
    ASSUME Mirrored(app, chan), chan \in Seq(Events), NEW events \in Seq(Events),
           chan' = chan \o events, app' = app,
           Apart(events, EventHolds),
           IsInjective(steerQ'), Range(steerQ') \subseteq Range(steerQ),
           IsInjective(board'), Range(board') \subseteq Range(board),
           Carried(events, EventHolds) \subseteq Range(steerQ) \cup Range(board),
           Carried(events, EventHolds) \cap (Range(steerQ') \cup Range(board')) = {}
    PROVE  Mirrored(app, chan)'
<1>1. /\ chan \o events \in Seq(Events)
      /\ Carried(chan \o events, EventHolds)
            = Carried(chan, EventHolds) \cup Carried(events, EventHolds)
      /\ Apart(chan \o events, EventHolds)
            <=> /\ Apart(chan, EventHolds) /\ Apart(events, EventHolds)
                /\ Carried(chan, EventHolds) \cap Carried(events, EventHolds) = {}
    BY JoinHolds
<1>2. QED
    BY <1>1 DEF Mirrored

\* What an announcement names.
LEMMA Announcements ==
    /\ \A q \in Seq(Notices) :
          LET events == [i \in DOMAIN q |-> <<"NoticeDelivered", q[i]>>]
          IN  /\ events \in Seq(Events) /\ Carried(events, EventHolds) = Range(q)
              /\ Apart(events, EventHolds) <=> IsInjective(q)
    /\ \A q \in Seq(Msgs) :
          LET events == [i \in DOMAIN q |-> <<"Steered", q[i]>>]
          IN  /\ events \in Seq(Events) /\ Carried(events, EventHolds) = Range(q)
              /\ Apart(events, EventHolds) <=> IsInjective(q)
<1>1. ASSUME NEW q \in Seq(Notices)
      PROVE  LET events == [i \in DOMAIN q |-> <<"NoticeDelivered", q[i]>>]
             IN  /\ events \in Seq(Events) /\ Carried(events, EventHolds) = Range(q)
                 /\ Apart(events, EventHolds) <=> IsInjective(q)
  <2> DEFINE events == [i \in DOMAIN q |-> <<"NoticeDelivered", q[i]>>]
  <2>1. \A n \in Notices : <<"NoticeDelivered", n>> \in Events
                           /\ EventHolds[<<"NoticeDelivered", n>>] = {n}
    BY DEF Events, EventHolds
  <2>2. events \in Seq(Events)
    BY <2>1
  <2>3. \A i \in DOMAIN q : q[i] \in Notices
    BY LenProperties, ElementOfSeq
  <2>4. DOMAIN events = DOMAIN q /\ \A i \in DOMAIN q : EventHolds[events[i]] = {q[i]}
    BY <2>1, <2>3
  <2> HIDE DEF events
  <2>5. Carried(events, EventHolds) = Range(q) /\ (Apart(events, EventHolds) <=> IsInjective(q))
    BY <2>4, ImageHolds
  <2>6. QED
    BY <2>2, <2>5 DEF events
<1>2. ASSUME NEW q \in Seq(Msgs)
      PROVE  LET events == [i \in DOMAIN q |-> <<"Steered", q[i]>>]
             IN  /\ events \in Seq(Events) /\ Carried(events, EventHolds) = Range(q)
                 /\ Apart(events, EventHolds) <=> IsInjective(q)
  <2> DEFINE events == [i \in DOMAIN q |-> <<"Steered", q[i]>>]
  <2>1. \A m \in Msgs : <<"Steered", m>> \in Events /\ EventHolds[<<"Steered", m>>] = {m}
    BY DEF Events, EventHolds
  <2>2. events \in Seq(Events)
    BY <2>1
  <2>3. \A i \in DOMAIN q : q[i] \in Msgs
    BY LenProperties, ElementOfSeq
  <2>4. DOMAIN events = DOMAIN q /\ \A i \in DOMAIN q : EventHolds[events[i]] = {q[i]}
    BY <2>1, <2>3
  <2> HIDE DEF events
  <2>5. Carried(events, EventHolds) = Range(q) /\ (Apart(events, EventHolds) <=> IsInjective(q))
    BY <2>4, ImageHolds
  <2>6. QED
    BY <2>2, <2>5 DEF events
<1>3. QED
    BY <1>1, <1>2

-----------------------------------------------------------------------------
(* The actions.                                                            *)

\* With nothing read off the channel and the shared queues as they were, rows
\* that are still there are still mirrored.
LEMMA StillMirrored ==
    ASSUME Mirrored(app, chan), UNCHANGED <<chan, steerQ, board>>,
           Range(app.steered) \subseteq Range(app'.steered),
           Range(app.held) \subseteq Range(app'.held)
    PROVE  Mirrored(app, chan)'
BY DEF Mirrored

\* At rest nothing has been sent and nothing waits to be read.
LEMMA RestMirrored ==
    ASSUME TurnEnds, Idle, UNCHANGED <<chan, steerQ, board>>
    PROVE  Mirrored(app, chan)' /\ app.steered = <<>>
<1>1. chan = <<>> /\ steerQ = <<>> /\ board = <<>> /\ app.steered = <<>>
    BY DEF TurnEnds, NothingWaitsAtRest
<1>2. chan' = <<>> /\ steerQ' = <<>> /\ board' = <<>>
    BY <1>1
<1>3. QED
    BY <1>1, <1>2, NothingSent

LEMMA SubmitAccounted ==
    ASSUME NothingLost, NEW d \in Drafts, Submit(d)
    PROVE  Accounted'
<1> DEFINE b == IF d \in Msgs THEN StartTurn(app, <<d>>).app ELSE RunShell(app, d).app
<1>1. app \in Apps /\ NoneTwice(app) /\ d \in unsent /\ d \notin Kept(app) /\ TurnEnds /\ Idle
    BY DEF NothingLost, Accounted, AllThere, TurnEnds, TypeOK, Submit
<1>2. NoneTwice(b) /\ Kept(b) = Kept(app) \cup {d} /\ b.steered = app.steered
  <2>1. CASE d \in Msgs
    <3> DEFINE ms == <<d>>
    <3>1. ms \in Seq(Msgs) /\ Range(ms) = {d} /\ IsInjective(ms)
        BY <2>1, UnitRange
    <3> HIDE DEF ms
    <3>2. Range(ms) \cap Kept(app) = {}
        BY <1>1, <3>1
    <3>3. /\ NoneTwice(StartTurn(app, ms).app)
          /\ Kept(StartTurn(app, ms).app) = Kept(app) \cup Range(ms)
          /\ StartTurn(app, ms).app.steered = app.steered
        BY <1>1, <3>1, <3>2, BatchStarted
    <3>4. QED
        BY <2>1, <3>1, <3>3 DEF ms
  <2>2. CASE d \notin Msgs
    <3>1. d \in Shells /\ RunShell(app, d).app = BeginShell(app, d)
        BY <2>2 DEF Drafts, RunShell
    <3>2. /\ NoneTwice(BeginShell(app, d)) /\ Kept(BeginShell(app, d)) = Kept(app) \cup {d}
          /\ BeginShell(app, d).steered = app.steered
        BY <1>1, <3>1, ShellRecorded
    <3>3. QED
        BY <2>2, <3>1, <3>2
  <2>3. QED
    BY <2>1, <2>2
<1>3. app' = b
    BY DEF Submit, Launch
<1> HIDE DEF b
<1>4. Mirrored(app, chan)' /\ app.steered = <<>>
    BY <1>1, RestMirrored DEF Submit
<1>5. OnlyRepliesSteered'
    BY <1>2, <1>3, <1>4 DEF OnlyRepliesSteered
<1>6. AllThere'
  <2>1. unsent' = unsent \ {d} /\ posted' = posted /\ dropped' = dropped
    BY DEF Submit, Sent
  <2>2. QED
    BY <1>1, <1>2, <1>3, <2>1 DEF NothingLost, Accounted, AllThere, Everything
<1>7. QED
    BY <1>4, <1>5, <1>6 DEF Accounted

\* A draft the user queues.
LEMMA QueuedAccounted ==
    ASSUME NothingLost, NEW d \in Drafts, d \in unsent, NEW newBatch \in BOOLEAN,
           app' = QueueDraft(app, d, newBatch), unsent' = unsent \ {d},
           UNCHANGED <<chan, steerQ, board, posted, dropped>>
    PROVE  Accounted'
<1> DEFINE b == QueueDraft(app, d, newBatch)
<1>1. app \in Apps /\ NoneTwice(app) /\ d \notin Kept(app)
    BY DEF NothingLost, Accounted, AllThere, TurnEnds, TypeOK
<1>2. NoneTwice(b) /\ Kept(b) = Kept(app) \cup {d} /\ b.steered = app.steered /\ b.held = app.held
    BY <1>1, DraftQueued
<1>3. b.mode = app.mode
    BY <1>1, QueueDraftFrame
<1>4. app' = b
    OBVIOUS
<1> HIDE DEF b
<1>5. Mirrored(app, chan)'
    BY <1>2, <1>4, StillMirrored DEF NothingLost, Accounted
<1>6. OnlyRepliesSteered'
    BY <1>2, <1>3, <1>4 DEF NothingLost, Accounted, OnlyRepliesSteered
<1>7. AllThere'
    BY <1>1, <1>2, <1>4 DEF NothingLost, Accounted, AllThere, Everything
<1>8. QED
    BY <1>5, <1>6, <1>7 DEF Accounted

LEMMA EnterAccounted ==
    ASSUME NothingLost, NEW d \in Drafts, Enter(d)
    PROVE  Accounted'
<1>1. /\ app \in Apps /\ NoneTwice(app) /\ d \in unsent /\ d \notin Kept(app)
      /\ steerQ \in Seq(Msgs) /\ Mirrored(app, chan)
    BY DEF NothingLost, Accounted, AllThere, TurnEnds, TypeOK, Enter
<1>2. unsent' = unsent \ {d} /\ UNCHANGED <<chan, board, posted, dropped>>
    BY DEF Enter, Sent
<1>3. CASE TurnSteerable(app) /\ d \in Msgs
  <2>1. /\ app' = [app EXCEPT !.steered = Append(@, d)] /\ steerQ' = Append(steerQ, d)
        /\ app.mode = "reply"
    BY <1>3 DEF Enter, TurnSteerable
  <2>2. /\ app'.history = app.history /\ app'.queued = app.queued /\ app'.held = app.held
        /\ app'.steered = Append(app.steered, d) /\ app'.mode = "reply"
    BY <1>1, <2>1 DEF Apps
  <2>3. app.steered \in Seq(Msgs)
    BY <1>1 DEF Apps
  <2>4. /\ d \notin Range(app.steered) /\ d \notin Range(app.held)
        /\ d \notin Carried(app.history, ItemHolds) /\ d \notin Carried(app.queued, EntryHolds)
    BY <1>1 DEF Kept
  <2>5. Range(app'.steered) = Range(app.steered) \cup {d} /\ IsInjective(app'.steered)
    BY <1>1, <1>3, <2>2, <2>3, <2>4, AppendFacts DEF NoneTwice
  <2>6. d \notin Range(steerQ) /\ d \notin Range(board) /\ d \notin Carried(chan, EventHolds)
    BY <1>1, <2>4 DEF Mirrored
  <2>7. Range(steerQ') = Range(steerQ) \cup {d} /\ IsInjective(steerQ')
    BY <1>1, <1>3, <2>1, <2>6, AppendFacts DEF Mirrored
  <2>8. NoneTwice(app') /\ Kept(app') = Kept(app) \cup {d}
    BY <1>1, <2>2, <2>4, <2>5 DEF NoneTwice, Kept
  <2>9. Mirrored(app, chan)'
    BY <1>1, <1>2, <2>2, <2>5, <2>6, <2>7 DEF Mirrored
  <2>10. AllThere'
    BY <1>1, <1>2, <2>8 DEF NothingLost, Accounted, AllThere, Everything
  <2>11. QED
    BY <2>2, <2>9, <2>10 DEF Accounted, OnlyRepliesSteered
<1>4. CASE ~(TurnSteerable(app) /\ d \in Msgs)
  <2>1. app' = QueueDraft(app, d, FALSE) /\ steerQ' = steerQ
    BY <1>4 DEF Enter
  <2>2. QED
    BY <1>1, <1>2, <2>1, QueuedAccounted
<1>5. QED
    BY <1>3, <1>4

LEMMA FollowUpAccounted ==
    ASSUME NothingLost, NEW d \in Drafts, QueueFollowUp(d)
    PROVE  Accounted'
<1>1. /\ d \in unsent /\ app' = QueueDraft(app, d, TRUE) /\ unsent' = unsent \ {d}
      /\ UNCHANGED <<chan, steerQ, board, posted, dropped>>
    BY DEF QueueFollowUp, Sent, NothingLost, TurnEnds, TypeOK
<1>2. QED
    BY <1>1, QueuedAccounted

\* The last entry comes back whole.
LEMMA RecallAccounted ==
    ASSUME NothingLost, RecallLastQueued
    PROVE  Accounted'
<1> DEFINE last == Last(app.queued)
           front == Front(app.queued)
           one == <<last>>
           back == Range(last.texts)
<1>1. /\ app \in Apps /\ NoneTwice(app) /\ app.queued # <<>> /\ app.queued \in Seq(Entries)
      /\ UNCHANGED <<chan, steerQ, board, posted, dropped>>
    BY DEF NothingLost, Accounted, AllThere, TurnEnds, TypeOK, Apps, RecallLastQueued
<1>2. last \in Entries /\ front \in Seq(Entries) /\ app.queued = front \o one
    BY <1>1, SplitEnds
<1>3. app' = [app EXCEPT !.queued = front] /\ unsent' = unsent \cup back
    BY DEF RecallLastQueued, Recalled
<1> HIDE DEF last, front
<1>4. /\ one \in Seq(Entries) /\ Carried(one, EntryHolds) = back
      /\ Tidy(one) <=> OneEach(last)
    BY <1>2, UnitEntry
<1> HIDE DEF one, back
<1>5. /\ Carried(front \o one, EntryHolds) = Carried(front, EntryHolds) \cup Carried(one, EntryHolds)
      /\ Tidy(front \o one) <=> /\ Tidy(front) /\ Tidy(one)
                                /\ Carried(front, EntryHolds) \cap Carried(one, EntryHolds) = {}
    BY <1>2, <1>4, JoinEntries
<1>6. /\ app'.history = app.history /\ app'.queued = front /\ app'.steered = app.steered
      /\ app'.held = app.held /\ app'.mode = app.mode
    BY <1>1, <1>3 DEF Apps
<1>7. /\ Carried(app.queued, EntryHolds) = Carried(front, EntryHolds) \cup back
      /\ Tidy(front) /\ Carried(front, EntryHolds) \cap back = {}
    BY <1>1, <1>2, <1>4, <1>5 DEF NoneTwice
<1>8. back \cap Range(app.held) = {} /\ back \subseteq Drafts
    BY <1>1, <1>7, KeptTypes, Kinds
<1>9. NoneTwice(app') /\ Kept(app') = Kept(app) \ back /\ back \subseteq Kept(app)
    BY <1>1, <1>6, <1>7, <1>8 DEF NoneTwice, Kept
<1>10. Mirrored(app, chan)'
    BY <1>1, <1>6, StillMirrored DEF NothingLost, Accounted
<1>11. AllThere'
    BY <1>1, <1>3, <1>9 DEF NothingLost, Accounted, AllThere, Everything
<1>12. QED
    BY <1>6, <1>10, <1>11 DEF NothingLost, Accounted, OnlyRepliesSteered

\* A message the turn has not read comes back, and the turn never reads it.
LEMMA RecallSteeredAccounted ==
    ASSUME NothingLost, RecallSteered
    PROVE  Accounted'
<1> DEFINE m == Last(steerQ)
           front == Front(steerQ)
           one == <<m>>
<1>1. /\ app \in Apps /\ NoneTwice(app) /\ steerQ # <<>> /\ steerQ \in Seq(Msgs)
      /\ Mirrored(app, chan) /\ app.steered \in Seq(Msgs) /\ app.steered # <<>>
      /\ UNCHANGED <<chan, board, posted, dropped>>
    BY DEF NothingLost, Accounted, AllThere, TurnEnds, TypeOK, Apps, RecallSteered
<1>2. m \in Msgs /\ front \in Seq(Msgs) /\ steerQ = front \o one
    BY <1>1, SplitEnds
<1>3. /\ app' = [app EXCEPT !.steered = RemoveFirst(@, m)] /\ unsent' = unsent \cup {m}
      /\ steerQ' = front
    BY DEF RecallSteered, Recalled
<1> HIDE DEF m, front
<1>4. one \in Seq(Msgs) /\ Range(one) = {m}
    BY <1>2, UnitRange
<1> HIDE DEF one
<1>5. /\ Range(front \o one) = Range(front) \cup Range(one)
      /\ IsInjective(front \o one) <=> /\ IsInjective(front) /\ IsInjective(one)
                                       /\ Range(front) \cap Range(one) = {}
    BY <1>2, <1>4, JoinRange
<1>6. IsInjective(front) /\ Range(steerQ) = Range(front) \cup {m} /\ m \notin Range(front)
    BY <1>1, <1>2, <1>4, <1>5 DEF Mirrored
<1>7. m \in Range(app.steered) /\ m \notin Carried(chan, EventHolds)
    BY <1>1, <1>6 DEF Mirrored
<1>8. /\ app'.history = app.history /\ app'.queued = app.queued /\ app'.held = app.held
      /\ app'.steered = RemoveFirst(app.steered, m) /\ app'.mode = app.mode
    BY <1>1, <1>3 DEF Apps
<1>9. IsInjective(app'.steered) /\ Range(app'.steered) = Range(app.steered) \ {m}
    BY <1>1, <1>7, <1>8, TakenOut DEF NoneTwice
<1>10. m \notin Range(app.held)
    BY <1>1, <1>2, KeptTypes, Kinds
<1>11. NoneTwice(app') /\ Kept(app') = Kept(app) \ {m} /\ m \in Kept(app)
    BY <1>1, <1>7, <1>8, <1>9, <1>10 DEF NoneTwice, Kept
<1>12. Mirrored(app, chan)'
    BY <1>1, <1>3, <1>6, <1>7, <1>8, <1>9 DEF Mirrored
<1>13. AllThere'
    BY <1>1, <1>3, <1>11 DEF NothingLost, Accounted, AllThere, Everything
<1>14. OnlyRepliesSteered'
    BY <1>1, <1>8 DEF NothingLost, Accounted, OnlyRepliesSteered
<1>15. QED
    BY <1>12, <1>13, <1>14 DEF Accounted

\* A submission given back leaves the App and is with the user; the draft whose
\* place it takes in the composer is lost.
LEMMA RestoredThere ==
    ASSUME TypeOK, AllThere, NEW back, Restore(back), posted' = posted, NoneTwice(app'),
           Kept(app') = Kept(app) \ back, back \subseteq Kept(app)
    PROVE  AllThere'
<1>1. /\ composer \subseteq unsent
      /\ unsent' = (unsent \ composer) \cup back /\ dropped' = dropped \cup composer
    BY DEF TypeOK, Restore
<1>2. QED
    BY <1>1 DEF AllThere, Everything

\* A turn cut short: its submission back, or kept; what it was never told goes on.
LEMMA InterruptAccounted ==
    ASSUME NothingLost, Interrupt
    PROVE  Accounted'
<1> DEFINE a == SettleReasoning(app)
           back == {item[2] : item \in Range(Undone(a))}
<1>1. /\ app \in Apps /\ NoneTwice(app) /\ chan' = <<>> /\ UNCHANGED posted
    BY DEF NothingLost, Accounted, AllThere, TurnEnds, TypeOK, Interrupt, AbandonInflight
<1>2. a \in Apps /\ NoneTwice(a) /\ Kept(a) = Kept(app)
    BY <1>1, SettleReasoningType, SameReasoning, SameKept
<1>3. \/ Restore(back) /\ DispatchAfterTurn(Undo(a), board)
      \/ UNCHANGED <<unsent, dropped>> /\ DispatchAfterTurn(Keep(a), board)
    BY DEF Interrupt, NothingBack
<1> HIDE DEF a
<1>4. Mirrored(app, chan)' /\ OnlyRepliesSteered' /\ NoneTwice(app')
      /\ \/ Restore(back) /\ Kept(app') = Kept(app) \ back /\ back \subseteq Kept(app)
         \/ UNCHANGED <<unsent, dropped>> /\ Kept(app') = Kept(app)
  <2>1. CASE Restore(back) /\ DispatchAfterTurn(Undo(a), board)
    <3>1. NoneTwice(Undo(a)) /\ Kept(Undo(a)) = Kept(a) \ back /\ back \subseteq Kept(a)
        BY <1>2, UndoTakesBack
    <3>2. Undo(a) \in Apps
        BY <1>2, UndoType
    <3> HIDE DEF back
    <3>3. NoneTwice(app') /\ Kept(app') = Kept(Undo(a)) /\ app'.steered = <<>>
          /\ steerQ' = <<>> /\ board' = <<>>
        BY <2>1, <3>1, <3>2, DispatchKeeps
    <3>4. QED
        BY <1>1, <1>2, <2>1, <3>1, <3>3, NothingSent DEF OnlyRepliesSteered
  <2>2. CASE UNCHANGED <<unsent, dropped>> /\ DispatchAfterTurn(Keep(a), board)
    <3>1. Keep(a) \in Apps /\ NoneTwice(Keep(a)) /\ Kept(Keep(a)) = Kept(a)
        BY <1>2, KeepType, KeepKeeps
    <3>2. NoneTwice(app') /\ Kept(app') = Kept(Keep(a)) /\ app'.steered = <<>>
          /\ steerQ' = <<>> /\ board' = <<>>
        BY <2>2, <3>1, DispatchKeeps
    <3>3. QED
        BY <1>1, <1>2, <2>2, <3>1, <3>2, NothingSent DEF OnlyRepliesSteered
  <2>3. QED
    BY <1>3, <2>1, <2>2
<1> HIDE DEF back
<1>5. AllThere'
  <2>1. AllThere /\ TypeOK
    BY DEF NothingLost, Accounted, TurnEnds
  <2>2. CASE Restore(back) /\ Kept(app') = Kept(app) \ back /\ back \subseteq Kept(app)
    BY <1>1, <1>4, <2>1, <2>2, RestoredThere
  <2>3. CASE UNCHANGED <<unsent, dropped>> /\ Kept(app') = Kept(app)
    BY <1>1, <1>4, <2>1, <2>3 DEF AllThere, Everything
  <2>4. QED
    BY <1>4, <2>2, <2>3
<1>6. QED
    BY <1>4, <1>5 DEF Accounted

LEMMA CompactAccounted ==
    ASSUME NothingLost, StartCompactTurn
    PROVE  Accounted'
<1> DEFINE b == BeginCompact(app)
<1>1. /\ app \in Apps /\ NoneTwice(app) /\ TurnEnds /\ Idle
      /\ UNCHANGED <<chan, steerQ, board, unsent, posted, dropped>>
    BY DEF NothingLost, Accounted, AllThere, TurnEnds, TypeOK, StartCompactTurn
<1>2. app' = b
    BY DEF StartCompactTurn, Launch
<1>3. SameStock(b, app)
    BY <1>1, SameBegin
<1> HIDE DEF b
<1>4. NoneTwice(b) /\ Kept(b) = Kept(app) /\ b.steered = app.steered
    BY <1>1, <1>3, SameKept DEF SameStock
<1>5. Mirrored(app, chan)' /\ app.steered = <<>>
    BY <1>1, RestMirrored
<1>6. AllThere'
    BY <1>1, <1>2, <1>4 DEF NothingLost, Accounted, AllThere, Everything
<1>7. QED
    BY <1>2, <1>4, <1>5, <1>6 DEF Accounted, OnlyRepliesSteered

\* What a /clear wipes is what the App holds.
LEMMA HeldByIsKept ==
    ASSUME NEW a \in Apps
    PROVE  HeldBy(a) = Kept(a)
<1>1. a.history \in Seq(Items) /\ a.queued \in Seq(Entries)
    BY DEF Apps
<1>2. \A i \in DOMAIN a.history : a.history[i] \in Items
    BY <1>1, LenProperties, ElementOfSeq
<1>3. \A i \in DOMAIN a.queued : a.queued[i] \in Entries
    BY <1>1, LenProperties, ElementOfSeq
<1>4. \A i \in DOMAIN a.queued : EntryHolds[a.queued[i]] = Range(a.queued[i].texts)
    BY <1>3, HoldTypes
<1>5. QueuedDrafts(a) = Carried(a.queued, EntryHolds)
    BY <1>4 DEF QueuedDrafts, Carried
<1>6. \A i \in DOMAIN a.history :
          ItemHolds[a.history[i]] = IF IsDraft(a.history[i]) \/ IsNote(a.history[i])
                                    THEN {a.history[i][2]} ELSE {}
    BY <1>2 DEF ItemHolds
<1>7. Recorded(a, IsDraft) \cup Recorded(a, IsNote) = Carried(a.history, ItemHolds)
  <2>1. ASSUME NEW x \in Carried(a.history, ItemHolds)
        PROVE  x \in Recorded(a, IsDraft) \cup Recorded(a, IsNote)
    <3>1. PICK i \in DOMAIN a.history : x \in ItemHolds[a.history[i]]
        BY <2>1 DEF Carried
    <3>2. (IsDraft(a.history[i]) \/ IsNote(a.history[i])) /\ x = a.history[i][2]
      <4>1. IsDraft(a.history[i]) \/ IsNote(a.history[i])
        BY <1>6, <3>1 DEF IsDraft, IsNote
      <4>2. QED
        BY <1>6, <3>1, <4>1 DEF IsDraft, IsNote
    <3>3. QED
        BY <3>2 DEF Recorded
  <2>2. ASSUME NEW i \in DOMAIN a.history, IsDraft(a.history[i]) \/ IsNote(a.history[i])
        PROVE  a.history[i][2] \in Carried(a.history, ItemHolds)
    <3>1. ItemHolds[a.history[i]] = {a.history[i][2]}
        BY <1>6, <2>2
    <3>2. QED
        BY <3>1 DEF Carried
  <2>3. \A x \in Recorded(a, IsDraft) \cup Recorded(a, IsNote) :
            \E i \in DOMAIN a.history :
                (IsDraft(a.history[i]) \/ IsNote(a.history[i])) /\ x = a.history[i][2]
    BY DEF Recorded
  <2>4. QED
    BY <2>1, <2>2, <2>3
<1>8. QED
    BY <1>5, <1>7 DEF HeldBy, Kept

LEMMA ClearAccounted ==
    ASSUME NothingLost, ClearConversation
    PROVE  Accounted'
<1>1. /\ app \in Apps /\ dropped' = dropped \cup Kept(app) /\ chan' = <<>>
      /\ steerQ' = <<>> /\ board' = <<>> /\ UNCHANGED <<unsent, posted>>
  <2>1. app \in Apps
    BY DEF NothingLost, TurnEnds, TypeOK
  <2>2. QED
    BY <2>1, HeldByIsKept DEF ClearConversation, AbandonInflight
<1>2. app'.history = <<>> /\ app'.queued = <<>> /\ app'.steered = <<>> /\ app'.held = <<>>
    BY DEF ClearConversation, NewApp
<1>3. /\ Carried(<<>>, ItemHolds) = {} /\ Apart(<<>>, ItemHolds)
      /\ Range(<<>>) = {} /\ IsInjective(<<>>)
    BY UnitHolds, UnitRange
<1>4. NoneTwice(app') /\ Kept(app') = {}
    BY <1>2, <1>3, NoEntry DEF NoneTwice, Kept
<1>5. AllThere'
    BY <1>1, <1>4 DEF NothingLost, Accounted, AllThere, Everything
<1>6. Mirrored(app, chan)'
    BY <1>1, NothingSent
<1>7. QED
    BY <1>2, <1>5, <1>6 DEF Accounted, OnlyRepliesSteered

LEMMA EditAccounted ==
    ASSUME NothingLost, (\E d \in Drafts : Type(d)) \/ Erase
    PROVE  Accounted'
BY EditsFrame DEF NothingLost, Accounted, AllThere, Everything, Mirrored, OnlyRepliesSteered

LEMMA UserAccounted ==
    ASSUME NothingLost, UserStep
    PROVE  Accounted'
BY SubmitAccounted, EnterAccounted, FollowUpAccounted, RecallAccounted, RecallSteeredAccounted,
   InterruptAccounted, CompactAccounted, ClearAccounted, EditAccounted DEF UserStep

\* A notice is one nobody holds yet; its cell is held before anyone can read it.
LEMMA PostAccounted ==
    ASSUME NothingLost, NEW n \in Notices, PostNotice(n)
    PROVE  Accounted'
<1> DEFINE a == [app EXCEPT !.held = Append(@, n)]
<1>1. /\ app \in Apps /\ NoneTwice(app) /\ n \notin posted /\ posted' = posted \cup {n}
      /\ board \in Seq(Notices) /\ Mirrored(app, chan) /\ UNCHANGED <<unsent, chan, dropped>>
    BY DEF NothingLost, Accounted, AllThere, TurnEnds, TypeOK, PostNotice
<1>2. n \notin Kept(app) /\ n \notin unsent /\ n \notin dropped
  <2>1. n \notin Everything
    BY <1>1, Kinds DEF Everything
  <2>2. QED
    BY <2>1 DEF NothingLost, Accounted, AllThere
<1>3. app.held \in Seq(Notices)
    BY <1>1 DEF Apps
<1>4. a \in Apps
  <2>1. Append(app.held, n) \in Seq(Notices)
    BY <1>3, AppendFacts
  <2>2. QED
    BY <1>1, <2>1 DEF Apps
<1>5. /\ a.history = app.history /\ a.queued = app.queued /\ a.steered = app.steered
      /\ a.held = Append(app.held, n) /\ a.mode = app.mode
    BY <1>1 DEF Apps
<1>6. CASE Idle
  <2>1. DispatchAfterTurn(a, Append(board, n))
    BY <1>6 DEF PostNotice
  <2> HIDE DEF a
  <2>2. n \notin Range(app.held) /\ n \notin Carried(app.history, ItemHolds)
    BY <1>2 DEF Kept
  <2>3. Range(a.held) = Range(app.held) \cup {n} /\ IsInjective(a.held)
    BY <1>1, <1>3, <1>5, <2>2, AppendFacts DEF NoneTwice
  <2>4. NoneTwice(a) /\ Kept(a) = Kept(app) \cup {n}
    BY <1>1, <1>5, <2>2, <2>3 DEF NoneTwice, Kept
  <2>5. /\ NoneTwice(app') /\ Kept(app') = Kept(a) /\ app'.steered = <<>>
        /\ steerQ' = <<>> /\ board' = <<>>
    BY <1>4, <2>1, <2>4, DispatchKeeps
  <2>6. chan' = <<>>
    BY <1>1, <1>6 DEF NothingLost, TurnEnds, NothingWaitsAtRest
  <2>7. AllThere'
    BY <1>1, <1>2, <2>4, <2>5 DEF NothingLost, Accounted, AllThere, Everything
  <2>8. QED
    BY <2>5, <2>6, <2>7, NothingSent DEF Accounted, OnlyRepliesSteered
<1>7. CASE ~Idle
  <2>1. app' = a /\ board' = Append(board, n) /\ steerQ' = steerQ
    BY <1>7 DEF PostNotice
  <2> HIDE DEF a
  <2>2. n \notin Range(app.held) /\ n \notin Carried(app.history, ItemHolds)
        /\ n \notin Range(app.steered)
    BY <1>2 DEF Kept
  <2>3. Range(a.held) = Range(app.held) \cup {n} /\ IsInjective(a.held)
    BY <1>1, <1>3, <1>5, <2>2, AppendFacts DEF NoneTwice
  <2>4. NoneTwice(a) /\ Kept(a) = Kept(app) \cup {n}
    BY <1>1, <1>5, <2>2, <2>3 DEF NoneTwice, Kept
  <2>5. n \notin Range(board) /\ n \notin Range(steerQ) /\ n \notin Carried(chan, EventHolds)
    BY <1>1, <2>2 DEF Mirrored
  <2>6. Range(board') = Range(board) \cup {n} /\ IsInjective(board')
    BY <1>1, <2>1, <2>5, AppendFacts DEF Mirrored
  <2>7. Mirrored(app, chan)'
    BY <1>1, <1>5, <2>1, <2>3, <2>5, <2>6 DEF Mirrored
  <2>8. AllThere'
    BY <1>1, <1>2, <2>1, <2>4 DEF NothingLost, Accounted, AllThere, Everything
  <2>9. QED
    BY <1>5, <2>1, <2>7, <2>8 DEF NothingLost, Accounted, OnlyRepliesSteered
<1>8. QED
    BY <1>6, <1>7

\* The loop reads an event.
LEMMA ReplyAccounted ==
    ASSUME NothingLost, OnReplyEvent
    PROVE  Accounted'
<1> DEFINE e == Head(chan)
           back == IF e[1] = "PromptBlocked" THEN {item[2] : item \in Range(BlockedMsgs(app))} ELSE {}
<1>1. /\ app \in Apps /\ NoneTwice(app) /\ chan \in Seq(Events) /\ chan # <<>>
      /\ chan' = Tail(chan) /\ Mirrored(app, chan) /\ UNCHANGED posted
      /\ TypeOK /\ OnlyRepliesSteered /\ AllThere
    BY DEF NothingLost, Accounted, AllThere, TurnEnds, TypeOK, OnReplyEvent
<1>2. e \in Events /\ Len(chan) \in Nat /\ DOMAIN chan = 1 .. Len(chan) /\ 1 \in DOMAIN chan
      /\ chan[1] = e
    BY <1>1, LenProperties
<1>3. Restore(back) \/ (back = {} /\ UNCHANGED <<unsent, dropped>>)
  <2>1. CASE e[1] = "PromptBlocked" /\ BlockedMsgs(app) # <<>>
    BY <2>1 DEF OnReplyEvent
  <2>2. CASE e[1] = "PromptBlocked" /\ BlockedMsgs(app) = <<>>
    <3>1. Range(BlockedMsgs(app)) = {}
        BY <2>2, UnitRange
    <3>2. QED
        BY <2>2, <3>1 DEF OnReplyEvent, NothingBack
  <2>3. CASE e[1] # "PromptBlocked"
    BY <2>3 DEF OnReplyEvent, NothingBack
  <2>4. QED
    BY <2>1, <2>2, <2>3
<1>4. CASE e[1] \in Terminal
  <2>1. Len(chan) = 1
    BY <1>2, <1>4 DEF NothingLost, TurnEnds, NoTurnIsStranded
  <2>2. chan' = <<>>
    BY <1>1, <2>1
  <2>3. DispatchAfterTurn(Ended(app, e), board)
    BY <1>4 DEF OnReplyEvent
  <2> HIDE DEF e
  <2>4. /\ Ended(app, e) \in Apps /\ NoneTwice(Ended(app, e))
        /\ Kept(Ended(app, e)) = Kept(app) \ back /\ back \subseteq Kept(app)
    BY <1>1, <1>4, EndedKeeps
  <2> HIDE DEF back
  <2>5. /\ NoneTwice(app') /\ Kept(app') = Kept(Ended(app, e)) /\ app'.steered = <<>>
        /\ steerQ' = <<>> /\ board' = <<>>
    BY <2>3, <2>4, DispatchKeeps
  <2>6. AllThere'
    <3>1. CASE Restore(back)
        BY <1>1, <2>4, <2>5, <3>1, RestoredThere
    <3>2. CASE back = {} /\ UNCHANGED <<unsent, dropped>>
        BY <1>1, <2>4, <2>5, <3>2 DEF AllThere, Everything
    <3>3. QED
        BY <1>3, <3>1, <3>2
  <2>7. QED
    BY <2>2, <2>5, <2>6, NothingSent DEF Accounted, OnlyRepliesSteered
<1>5. CASE e[1] \notin Terminal
  <2>1. app' = OnStreamEvent(app, e) /\ UNCHANGED <<board, steerQ>>
    BY <1>5 DEF OnReplyEvent
  <2>2. UNCHANGED <<unsent, dropped>>
    BY <1>5 DEF Terminal, OnReplyEvent, NothingBack
  <2>3. e[1] = "Steered" => e[2] \in Range(app.steered)
    <3> SUFFICES ASSUME e[1] = "Steered" PROVE e[2] \in Range(app.steered)
        OBVIOUS
    <3>1. EventHolds[e] = {e[2]} /\ e[2] \in Msgs
        BY <1>2, EventTypes DEF EventHolds
    <3>2. EventHolds[chan[1]] \subseteq Carried(chan, EventHolds)
        BY <1>2 DEF Carried
    <3>3. e[2] \in Range(app.steered) \cup Range(app.held)
        BY <1>1, <1>2, <3>1, <3>2 DEF Mirrored
    <3>4. QED
        BY <1>1, <3>1, <3>3, KeptTypes, Kinds
  <2>4. Follows(app', app, e)
    BY <1>1, <1>2, <2>1, <2>3, EventFollows
  <2>5. app'.mode = app.mode
    BY <1>1, <1>2, <2>1, OnStreamEventFrame
  <2>6. Mirrored(app, chan)'
    BY <1>1, <2>1, <2>4, EventRead
  <2> HIDE DEF e
  <2>7. OnlyRepliesSteered'
    <3>1. SUFFICES ASSUME app.mode # "reply" PROVE app'.steered = <<>>
        BY <2>5 DEF OnlyRepliesSteered
    <3>2. app.steered = <<>> /\ Range(app.steered) = {}
        BY <1>1, <3>1, UnitRange DEF OnlyRepliesSteered
    <3>3. QED
        BY <2>3, <2>4, <3>2 DEF Follows
  <2>8. AllThere'
    BY <1>1, <2>2, <2>4 DEF AllThere, Everything, Follows
  <2>9. QED
    BY <2>6, <2>7, <2>8 DEF Accounted
<1>6. QED
    BY <1>4, <1>5

\* Where nothing of the App, the drafts or the notices moves.
LEMMA StillThere ==
    ASSUME NothingLost, UNCHANGED <<unsent, app, posted, dropped>>
    PROVE  AllThere' /\ OnlyRepliesSteered'
BY DEF NothingLost, Accounted, AllThere, Everything, OnlyRepliesSteered

LEMMA TakeBoardAccounted ==
    ASSUME NothingLost, TakeBoard
    PROVE  Accounted'
<1> DEFINE events == [i \in DOMAIN board |-> <<"NoticeDelivered", board[i]>>]
<1>1. /\ chan \in Seq(Events) /\ board \in Seq(Notices) /\ Mirrored(app, chan)
      /\ chan' = chan \o events /\ board' = <<>> /\ steerQ' = steerQ
      /\ UNCHANGED <<unsent, app, posted, dropped>>
    BY DEF NothingLost, Accounted, TurnEnds, TypeOK, TakeBoard, Send, WorkerOnly
<1>2. /\ events \in Seq(Events) /\ Carried(events, EventHolds) = Range(board)
      /\ Apart(events, EventHolds) <=> IsInjective(board)
    BY <1>1, Announcements
<1> HIDE DEF events
<1>3. Range(board') = {} /\ IsInjective(board')
    BY <1>1, UnitRange
<1>4. Range(board) \cap Range(steerQ) = {}
  <2>1. app \in Apps
    BY DEF NothingLost, TurnEnds, TypeOK
  <2>2. QED
    BY <1>1, <2>1, KeptTypes, Kinds DEF Mirrored
<1>5. Mirrored(app, chan)'
    BY <1>1, <1>2, <1>3, <1>4, EventsSent DEF Mirrored
<1>6. QED
    BY <1>1, <1>5, StillThere DEF Accounted

LEMMA TakeSteerAccounted ==
    ASSUME NothingLost, TakeSteer
    PROVE  Accounted'
<1> DEFINE events == [i \in DOMAIN steerQ |-> <<"Steered", steerQ[i]>>]
<1>1. /\ chan \in Seq(Events) /\ steerQ \in Seq(Msgs) /\ Mirrored(app, chan)
      /\ chan' = chan \o events /\ steerQ' = <<>> /\ board' = board
      /\ UNCHANGED <<unsent, app, posted, dropped>>
    BY DEF NothingLost, Accounted, TurnEnds, TypeOK, TakeSteer, Send, WorkerOnly
<1>2. /\ events \in Seq(Events) /\ Carried(events, EventHolds) = Range(steerQ)
      /\ Apart(events, EventHolds) <=> IsInjective(steerQ)
    BY <1>1, Announcements
<1> HIDE DEF events
<1>3. Range(steerQ') = {} /\ IsInjective(steerQ')
    BY <1>1, UnitRange
<1>4. Range(board) \cap Range(steerQ) = {}
  <2>1. app \in Apps
    BY DEF NothingLost, TurnEnds, TypeOK
  <2>2. QED
    BY <1>1, <2>1, KeptTypes, Kinds DEF Mirrored
<1>5. Mirrored(app, chan)'
    BY <1>1, <1>2, <1>3, <1>4, EventsSent DEF Mirrored
<1>6. QED
    BY <1>1, <1>5, StillThere DEF Accounted

\* The events that name no draft and no notice.
Mute == {e \in Events : EventHolds[e] = {}}

LEMMA MuteEvents ==
    /\ \A kind \in {"ThinkingStart", "ThinkingChunk", "ThinkingEnd", "ToolCallDelta",
                    "HookNote", "ToolEnd", "Retrying", "StreamDone", "Error", "PromptBlocked"} :
          Event(kind) \in Mute
    /\ \A k \in Nat : <<"Chunk", k>> \in Mute /\ <<"ToolBatch", k>> \in Mute
<1>1. \A kind \in {"ThinkingStart", "ThinkingChunk", "ThinkingEnd", "ToolCallDelta",
                   "HookNote", "ToolEnd", "Retrying", "StreamDone", "Error", "PromptBlocked"} :
          /\ Event(kind) \in Events /\ Event(kind)[1] \notin {"Steered", "NoticeDelivered"}
    BY DEF Events, Event
<1>2. \A k \in Nat :
          /\ <<"Chunk", k>> \in Events /\ <<"Chunk", k>>[1] \notin {"Steered", "NoticeDelivered"}
          /\ <<"ToolBatch", k>> \in Events /\ <<"ToolBatch", k>>[1] \notin {"Steered", "NoticeDelivered"}
    BY DEF Events
<1>3. \A e \in Events : e[1] \notin {"Steered", "NoticeDelivered"} => e \in Mute
    BY DEF Mute, EventHolds
<1>4. QED
    BY <1>1, <1>2, <1>3

LEMMA MuteRuns ==
    ASSUME NEW e \in Mute
    PROVE  /\ <<e>> \in Seq(Mute) /\ EndThinking \in Seq(Mute)
           /\ Append(EndThinking, e) \in Seq(Mute) /\ EndThinking \o <<e>> \in Seq(Mute)
           /\ Append(<<>>, e) \in Seq(Mute)
           /\ \A f \in Mute : <<e, f>> \in Seq(Mute)
<1>1. EndThinking \in Seq(Mute)
  <2>1. <<>> \in Seq(Mute) /\ <<Event("ThinkingEnd")>> \in Seq(Mute)
    BY MuteEvents
  <2>2. QED
    BY <2>1 DEF EndThinking
<1> DEFINE run == EndThinking
<1> HIDE DEF run
<1>2. run \in Seq(Mute)
    BY <1>1 DEF run
<1>3. Append(run, e) \in Seq(Mute) /\ run \o <<e>> \in Seq(Mute) /\ Append(<<>>, e) \in Seq(Mute)
      /\ <<e>> \in Seq(Mute) /\ \A f \in Mute : <<e, f>> \in Seq(Mute)
    BY <1>2
<1>4. QED
    BY <1>2, <1>3 DEF run

\* A thread's other steps say nothing of what waits.
LEMMA MuteStep ==
    ASSUME NothingLost, NEW events \in Seq(Mute), chan' = chan \o events,
           UNCHANGED <<unsent, app, posted, dropped, steerQ, board>>
    PROVE  Accounted'
<1>1. chan \in Seq(Events) /\ Mirrored(app, chan)
    BY DEF NothingLost, Accounted, TurnEnds, TypeOK
<1>2. \A i \in DOMAIN events : events[i] \in Mute
    BY LenProperties, ElementOfSeq
<1>3. Carried(events, EventHolds) = {} /\ Apart(events, EventHolds)
    BY <1>2, PlainHolds DEF Mute
<1>4. events \in Seq(Events)
  <2>1. Mute \subseteq Events
    BY DEF Mute
  <2>2. QED
    BY <2>1
<1>5. IsInjective(steerQ') /\ IsInjective(board')
    BY <1>1 DEF Mirrored
<1>6. Mirrored(app, chan)'
    BY <1>1, <1>3, <1>4, <1>5, EventsSent
<1>7. QED
    BY <1>6, StillThere DEF Accounted

LEMMA SpeakingAccounted ==
    ASSUME NothingLost,
           \/ Open \/ Think \/ Speak \/ DraftCall \/ Retry \/ RoundFailed
           \/ RoundComplete \/ RoundUnfinished \/ ToolCalls \/ ToolDone \/ ShellDone
    PROVE  Accounted'
<1>1. UNCHANGED <<unsent, app, posted, dropped, steerQ, board>>
    BY DEF Open, Think, Speak, DraftCall, Retry, RoundFailed, RoundComplete, RoundUnfinished,
           ToolCalls, ToolDone, ShellDone, Unsaid, Local, WorkerOnly
<1>2. worker.att \in Nat
    BY DEF NothingLost, TurnEnds, TypeOK, Workers
<1>3. ASSUME NEW events \in Seq(Mute), chan' = chan \o events PROVE Accounted'
    BY <1>1, <1>3, MuteStep
<1>4. CASE Open
  <2>1. PICK noted \in {<<>>, <<Hook>>}, blocked \in BOOLEAN :
            Send(IF blocked
                 THEN Append([i \in DOMAIN noted |-> Event("HookNote")], Event("PromptBlocked"))
                 ELSE [i \in DOMAIN noted |-> Event("HookNote")])
    BY <1>4 DEF Open
  <2> DEFINE h == Event("HookNote")
             notes == [i \in DOMAIN noted |-> h]
             end == Event("PromptBlocked")
  <2>2. h \in Mute /\ end \in Mute
    BY MuteEvents
  <2> HIDE DEF h, end
  <2>3. notes \in Seq(Mute)
    <3>1. <<>> \in Seq({Hook}) /\ <<Hook>> \in Seq({Hook})
        OBVIOUS
    <3>2. noted \in Seq({Hook})
        BY <3>1
    <3>3. QED
        BY <2>2, <3>2
  <2> HIDE DEF notes
  <2>4. Append(notes, end) \in Seq(Mute)
    BY <2>2, <2>3
  <2>5. chan' = chan \o Append(notes, end) \/ chan' = chan \o notes
    BY <2>1 DEF Send, notes, h, end
  <2>6. QED
    BY <1>3, <2>3, <2>4, <2>5
<1>5. CASE Think
  <2>1. <<Event("ThinkingStart"), Event("ThinkingChunk")>> \in Seq(Mute)
    BY MuteEvents, MuteRuns
  <2>2. QED
    BY <1>3, <1>5, <2>1 DEF Think, Send
<1>6. CASE Speak
    BY <1>2, <1>3, <1>6, MuteEvents, MuteRuns DEF Speak, Send
<1>7. CASE DraftCall
    BY <1>3, <1>7, MuteEvents, MuteRuns DEF DraftCall, Send
<1>8. CASE Retry
    BY <1>3, <1>8, MuteEvents, MuteRuns DEF Retry, Send
<1>9. CASE RoundFailed
  <2>1. PICK ended \in {<<>>, EndThinking} : chan' = chan \o Append(ended, Event("Error"))
    BY <1>9 DEF RoundFailed, Send
  <2>2. Event("Error") \in Mute
    BY MuteEvents
  <2>3. Append(ended, Event("Error")) \in Seq(Mute)
    BY <2>2, MuteRuns
  <2>4. QED
    BY <1>3, <2>1, <2>3
<1>10. CASE RoundComplete
    BY <1>3, <1>10, MuteEvents, MuteRuns DEF RoundComplete, Send
<1>11. CASE RoundUnfinished
    BY <1>3, <1>11, MuteEvents, MuteRuns DEF RoundUnfinished, Send
<1>12. CASE ToolCalls
    BY <1>2, <1>3, <1>12, MuteEvents, MuteRuns DEF ToolCalls, Send
<1>13. CASE ToolDone
  <2>1. <<Event("ToolEnd")>> \in Seq(Mute) /\ <<Event("ToolEnd"), Event("Error")>> \in Seq(Mute)
    BY MuteEvents, MuteRuns
  <2>2. QED
    BY <1>3, <1>13, <2>1 DEF ToolDone, Send
<1>14. CASE ShellDone
  <2>1. <<Event("ToolEnd"), Event("StreamDone")>> \in Seq(Mute)
    BY MuteEvents, MuteRuns
  <2>2. QED
    BY <1>3, <1>14, <2>1 DEF ShellDone, Send
<1>15. QED
    BY <1>4, <1>5, <1>6, <1>7, <1>8, <1>9, <1>10, <1>11, <1>12, <1>13, <1>14

\* An abandoned thread drains what its successor would have read: the rows stay.
LEMMA GhostAccounted ==
    ASSUME NothingLost, GhostStep
    PROVE  Accounted'
<1>1. UNCHANGED <<unsent, app, posted, dropped, chan>>
    BY DEF GhostStep, GhostTakesBoard, GhostTakesSteer
<1>2. steerQ' \in {steerQ, <<>>} /\ board' \in {board, <<>>}
    BY DEF GhostStep, GhostTakesBoard, GhostTakesSteer
<1>3. Range(<<>>) = {} /\ IsInjective(<<>>)
    BY UnitRange
<1>4. Mirrored(app, chan)
    BY DEF NothingLost, Accounted
<1>5. /\ Range(steerQ') \subseteq Range(steerQ) /\ IsInjective(steerQ')
      /\ Range(board') \subseteq Range(board) /\ IsInjective(board')
    BY <1>2, <1>3, <1>4 DEF Mirrored
<1>6. Mirrored(app, chan)'
    BY <1>1, <1>4, <1>5 DEF Mirrored
<1>7. QED
    BY <1>1, <1>6, StillThere DEF Accounted

-----------------------------------------------------------------------------
(* The invariant, and what it says of every draft and every notice.        *)

LEMMA InitAccounted == Init => Accounted
<1> SUFFICES ASSUME Init PROVE Accounted
    OBVIOUS
<1>1. /\ unsent = Drafts /\ posted = {} /\ dropped = {}
      /\ app.history = <<>> /\ app.queued = <<>> /\ app.steered = <<>> /\ app.held = <<>>
      /\ chan = <<>> /\ steerQ = <<>> /\ board = <<>>
    BY DEF Init, NewApp
<1>2. /\ Carried(<<>>, ItemHolds) = {} /\ Apart(<<>>, ItemHolds)
      /\ Carried(<<>>, EventHolds) = {} /\ Apart(<<>>, EventHolds)
      /\ Range(<<>>) = {} /\ IsInjective(<<>>)
    BY UnitHolds, UnitRange
<1>3. NoneTwice(app) /\ Kept(app) = {}
    BY <1>1, <1>2, NoEntry DEF NoneTwice, Kept
<1>4. AllThere
    BY <1>1, <1>3 DEF AllThere, Everything
<1>5. Mirrored(app, chan)
    BY <1>1, <1>2 DEF Mirrored
<1>6. QED
    BY <1>1, <1>4, <1>5 DEF Accounted, OnlyRepliesSteered

LEMMA NothingLostInvariant == Spec => []NothingLost
<1>1. Init => Accounted
    BY InitAccounted
<1>2. TurnEnds /\ Accounted /\ [Next]_vars => Accounted'
  <2> SUFFICES ASSUME NothingLost, [Next]_vars PROVE Accounted'
    BY DEF NothingLost
  <2>1. CASE WorkerStep
    BY <2>1, TakeBoardAccounted, TakeSteerAccounted, SpeakingAccounted DEF WorkerStep
  <2>2. CASE Next
    BY <2>1, <2>2, UserAccounted, PostAccounted, ReplyAccounted, GhostAccounted DEF Next
  <2>3. CASE UNCHANGED vars
    BY <2>3 DEF vars, NothingLost, Accounted, AllThere, Everything, Mirrored, OnlyRepliesSteered
  <2>4. QED
    BY <2>2, <2>3
<1>3. TurnEnds /\ Accounted => NothingLost
    BY DEF NothingLost
<1>4. QED
    BY <1>1, <1>2, <1>3, TurnEndsInvariant, PTL DEF Spec

\* What is held apart is found at one position, what is not held at none.
LEMMA HeldAt ==
    ASSUME NEW D, NEW s, Apart(s, D), NEW x, NEW found,
           found = {i \in DOMAIN s : x \in D[s[i]]}
    PROVE  IF x \in Carried(s, D) THEN \E i \in DOMAIN s : found = {i} ELSE found = {}
<1>1. CASE x \in Carried(s, D)
  <2>1. PICK i \in DOMAIN s : x \in D[s[i]]
    BY <1>1 DEF Carried
  <2>2. \A j \in DOMAIN s : x \in D[s[j]] => j = i
    BY <2>1 DEF Apart
  <2>3. found = {i}
    BY <2>1, <2>2
  <2>4. QED
    BY <1>1, <2>3
<1>2. CASE x \notin Carried(s, D)
    BY <1>2 DEF Carried
<1>3. QED
    BY <1>1, <1>2

LEMMA FoundAt ==
    ASSUME NEW s, IsInjective(s), NEW x
    PROVE  IF x \in Range(s) THEN \E i \in DOMAIN s : At(s, x) = {i} ELSE At(s, x) = {}
<1>1. CASE x \in Range(s)
  <2>1. PICK i \in DOMAIN s : s[i] = x
    BY <1>1 DEF Range
  <2>2. At(s, x) = {i}
    BY <2>1 DEF At, IsInjective
  <2>3. QED
    BY <1>1, <2>2
<1>2. CASE x \notin Range(s)
    BY <1>2 DEF At, Range
<1>3. QED
    BY <1>1, <1>2

\* A draft is on the record as a message or a command, a notice as a note.
LEMMA OnRecord ==
    ASSUME NEW s \in Seq(Items)
    PROVE  /\ \A d \in Drafts : At(s, User(d)) \cup At(s, Shell(d))
                                = {i \in DOMAIN s : d \in ItemHolds[s[i]]}
           /\ \A n \in Notices : At(s, Note(n)) = {i \in DOMAIN s : n \in ItemHolds[s[i]]}
<1>1. \A i \in DOMAIN s : s[i] \in Items
    BY LenProperties, ElementOfSeq
<1>2. ASSUME NEW item \in Items, NEW d \in Drafts
      PROVE  d \in ItemHolds[item] <=> item = User(d) \/ item = Shell(d)
  <2>1. CASE item \in {"user"} \X Msgs
    BY <2>1, ItemsHold DEF User, Shell
  <2>2. CASE item \in {"shell"} \X Shells
    BY <2>2, ItemsHold DEF User, Shell
  <2>3. CASE item \in {"note"} \X Notices
    BY <2>3, ItemsHold, Kinds DEF User, Shell, Note
  <2>4. CASE item \in ({"asst"} \X (Nat \ {0})) \cup ({"tool"} \X (Nat \cup Shells))
                      \cup {Hook, Reasoning, Error, Summary, Compaction}
    <3>1. item[1] \notin {"user", "shell", "note"}
        BY <2>4 DEF Hook, Reasoning, Error, Summary, Compaction
    <3>2. item # User(d) /\ item # Shell(d)
        BY <3>1 DEF User, Shell
    <3>3. ItemHolds[item] = {}
        BY <3>1 DEF ItemHolds, IsDraft, IsNote
    <3>4. QED
        BY <3>2, <3>3
  <2>5. QED
    BY <2>1, <2>2, <2>3, <2>4 DEF Items
<1>3. ASSUME NEW item \in Items, NEW n \in Notices
      PROVE  n \in ItemHolds[item] <=> item = Note(n)
  <2>1. CASE item \in {"user"} \X Msgs
    BY <2>1, ItemsHold, Kinds DEF User, Note
  <2>2. CASE item \in {"shell"} \X Shells
    BY <2>2, ItemsHold, Kinds DEF Shell, Note
  <2>3. CASE item \in {"note"} \X Notices
    BY <2>3, ItemsHold DEF Note
  <2>4. CASE item \in ({"asst"} \X (Nat \ {0})) \cup ({"tool"} \X (Nat \cup Shells))
                      \cup {Hook, Reasoning, Error, Summary, Compaction}
    <3>1. item[1] \notin {"user", "shell", "note"}
        BY <2>4 DEF Hook, Reasoning, Error, Summary, Compaction
    <3>2. item # Note(n)
        BY <3>1 DEF Note
    <3>3. ItemHolds[item] = {}
        BY <3>1 DEF ItemHolds, IsDraft, IsNote
    <3>4. QED
        BY <3>2, <3>3
  <2>5. QED
    BY <2>1, <2>2, <2>3, <2>4 DEF Items
<1>4. \A d \in Drafts : At(s, User(d)) \cup At(s, Shell(d))
                        = {i \in DOMAIN s : d \in ItemHolds[s[i]]}
    BY <1>1, <1>2 DEF At
<1>5. \A n \in Notices : At(s, Note(n)) = {i \in DOMAIN s : n \in ItemHolds[s[i]]}
    BY <1>1, <1>3 DEF At
<1>6. QED
    BY <1>4, <1>5

\* The queue's places: which entry, and where in it.
LEMMA InQueue ==
    ASSUME NEW q \in Seq(Entries), Tidy(q), NEW d
    PROVE  IF d \in Carried(q, EntryHolds) THEN \E p : QueuePlaces(q, d) = {p}
           ELSE QueuePlaces(q, d) = {}
<1> DEFINE places == QueuePlaces(q, d)
<1>1. \A i \in DOMAIN q : q[i] \in Entries /\ q[i] \in Range(q)
    BY LenProperties, ElementOfSeq DEF Range
<1>2. \A i \in DOMAIN q : EntryHolds[q[i]] = Range(q[i].texts) /\ IsInjective(q[i].texts)
    BY <1>1, HoldTypes DEF Tidy, OneEach
<1>3. \A i \in DOMAIN q : d \notin EntryHolds[q[i]] => At(q[i].texts, d) = {}
    BY <1>2, FoundAt
<1>4. CASE d \in Carried(q, EntryHolds)
  <2>1. PICK i \in DOMAIN q : d \in EntryHolds[q[i]]
    BY <1>4 DEF Carried
  <2>2. PICK k : At(q[i].texts, d) = {k}
    BY <1>2, <2>1, FoundAt
  <2>3. \A j \in DOMAIN q : j # i => At(q[j].texts, d) = {}
    BY <1>3, <2>1 DEF Tidy, Apart
  <2>4. places = {<<"queued", i, k>>}
    <3>1. <<"queued", i, k>> \in places
        BY <2>2 DEF QueuePlaces
    <3>2. ASSUME NEW p \in places PROVE p = <<"queued", i, k>>
      <4>1. PICK j \in DOMAIN q : p \in {<<"queued", j, l>> : l \in At(q[j].texts, d)}
        BY <3>2 DEF QueuePlaces
      <4>2. PICK l \in At(q[j].texts, d) : p = <<"queued", j, l>>
        BY <4>1
      <4>3. QED
        BY <2>2, <2>3, <4>2
    <3>3. QED
        BY <3>1, <3>2
  <2>5. QED
    BY <1>4, <2>4
<1>5. CASE d \notin Carried(q, EntryHolds)
  <2>1. \A i \in DOMAIN q : At(q[i].texts, d) = {}
    BY <1>3, <1>5 DEF Carried
  <2>2. QED
    BY <1>5, <2>1 DEF QueuePlaces
<1>6. QED
    BY <1>4, <1>5

LEMMA DraftPlaces ==
    ASSUME NothingLost, NEW d \in Drafts
    PROVE  \E p \in Places(d) : Places(d) = {p}
<1> DEFINE R == {"record"} \X (At(app.history, User(d)) \cup At(app.history, Shell(d)))
           Q == QueuePlaces(app.queued, d)
           S == {"steered"} \X At(app.steered, d)
           C == {<<"with the user", 0>> : x \in unsent \cap {d}}
           W == {<<"lost", 0>> : x \in dropped \cap {d}}
<1>1. Places(d) = R \cup Q \cup S \cup C \cup W
    BY DEF Places
<1>2. app \in Apps /\ NoneTwice(app) /\ AllThere
    BY DEF NothingLost, Accounted, AllThere, TurnEnds, TypeOK
<1>3. IF d \in Carried(app.history, ItemHolds) THEN \E p : R = {p} ELSE R = {}
  <2> DEFINE found == {i \in DOMAIN app.history : d \in ItemHolds[app.history[i]]}
  <2>1. app.history \in Seq(Items) /\ Apart(app.history, ItemHolds)
    BY <1>2 DEF Apps, NoneTwice
  <2>2. found = {i \in DOMAIN app.history : d \in ItemHolds[app.history[i]]}
    OBVIOUS
  <2>3. R = {"record"} \X found
    BY <2>1, OnRecord
  <2> HIDE DEF found, R
  <2>0. IF d \in Carried(app.history, ItemHolds) THEN \E i \in DOMAIN app.history : found = {i}
        ELSE found = {}
    BY <2>1, <2>2, HeldAt
  <2>4. CASE d \in Carried(app.history, ItemHolds)
    <3>1. PICK i : found = {i}
        BY <2>0, <2>4
    <3>2. R = {<<"record", i>>}
        BY <2>3, <3>1
    <3>3. QED
        BY <2>4, <3>2
  <2>5. CASE d \notin Carried(app.history, ItemHolds)
    BY <2>0, <2>3, <2>5
  <2>6. QED
    BY <2>4, <2>5
<1>4. IF d \in Carried(app.queued, EntryHolds) THEN \E p : Q = {p} ELSE Q = {}
  <2>1. app.queued \in Seq(Entries) /\ Tidy(app.queued)
    BY <1>2 DEF Apps, NoneTwice
  <2>2. QED
    BY <2>1, InQueue
<1>5. IF d \in Range(app.steered) THEN \E p : S = {p} ELSE S = {}
  <2>1. IF d \in Range(app.steered) THEN \E i \in DOMAIN app.steered : At(app.steered, d) = {i}
        ELSE At(app.steered, d) = {}
    BY <1>2, FoundAt DEF NoneTwice
  <2>2. CASE d \in Range(app.steered)
    <3>1. PICK i : At(app.steered, d) = {i}
        BY <2>1, <2>2
    <3>2. S = {<<"steered", i>>}
        BY <3>1
    <3>3. QED
        BY <2>2, <3>2
  <2>3. CASE d \notin Range(app.steered)
    BY <2>1, <2>3
  <2>4. QED
    BY <2>2, <2>3
<1>6. /\ IF d \in unsent THEN \E p : C = {p} ELSE C = {}
      /\ IF d \in dropped THEN \E p : W = {p} ELSE W = {}
  <2>1. d \in unsent => C = {<<"with the user", 0>>}
    OBVIOUS
  <2>2. d \notin unsent => C = {}
    OBVIOUS
  <2>3. d \in dropped => W = {<<"lost", 0>>}
    OBVIOUS
  <2>4. d \notin dropped => W = {}
    OBVIOUS
  <2>5. QED
    BY <2>1, <2>2, <2>3, <2>4
<1> HIDE DEF R, Q, S, C, W
<1>7. d \notin Range(app.held)
    BY <1>2, KeptTypes, Kinds
<1>8. d \in Everything
    BY DEF Everything
<1>9. /\ \/ d \in Carried(app.history, ItemHolds) \/ d \in Carried(app.queued, EntryHolds)
         \/ d \in Range(app.steered) \/ d \in unsent \/ d \in dropped
      /\ d \in Carried(app.history, ItemHolds)
            => d \notin Carried(app.queued, EntryHolds) /\ d \notin Range(app.steered)
      /\ d \in Carried(app.queued, EntryHolds) => d \notin Range(app.steered)
      /\ d \in Carried(app.history, ItemHolds) \/ d \in Carried(app.queued, EntryHolds)
         \/ d \in Range(app.steered) => d \notin unsent /\ d \notin dropped
      /\ d \in unsent => d \notin dropped
    BY <1>2, <1>7, <1>8 DEF AllThere, Kept, NoneTwice
<1>10. \E p : Places(d) = {p}
  <2>1. CASE d \in Carried(app.history, ItemHolds)
    BY <1>1, <1>3, <1>4, <1>5, <1>6, <1>9, <2>1
  <2>2. CASE d \in Carried(app.queued, EntryHolds)
    BY <1>1, <1>3, <1>4, <1>5, <1>6, <1>9, <2>2
  <2>3. CASE d \in Range(app.steered)
    BY <1>1, <1>3, <1>4, <1>5, <1>6, <1>9, <2>3
  <2>4. CASE d \in unsent
    BY <1>1, <1>3, <1>4, <1>5, <1>6, <1>9, <2>4
  <2>5. CASE d \in dropped
    BY <1>1, <1>3, <1>4, <1>5, <1>6, <1>9, <2>5
  <2>6. QED
    BY <1>9, <2>1, <2>2, <2>3, <2>4, <2>5
<1>11. QED
    BY <1>10

LEMMA NoticeIsPlaced ==
    ASSUME NothingLost, NEW n \in Notices
    PROVE  IF n \in posted THEN \E p \in NoticePlaces(n) : NoticePlaces(n) = {p}
           ELSE NoticePlaces(n) = {}
<1> DEFINE R == {"record"} \X At(app.history, Note(n))
           H == {"held"} \X At(app.held, n)
           W == {<<"lost", 0>> : x \in dropped \cap {n}}
<1>1. NoticePlaces(n) = R \cup H \cup W
    BY DEF NoticePlaces
<1>2. app \in Apps /\ NoneTwice(app) /\ AllThere /\ unsent \subseteq Drafts
    BY DEF NothingLost, Accounted, AllThere, TurnEnds, TypeOK
<1>3. IF n \in Carried(app.history, ItemHolds) THEN \E p : R = {p} ELSE R = {}
  <2> DEFINE found == {i \in DOMAIN app.history : n \in ItemHolds[app.history[i]]}
  <2>1. app.history \in Seq(Items) /\ Apart(app.history, ItemHolds)
    BY <1>2 DEF Apps, NoneTwice
  <2>2. found = {i \in DOMAIN app.history : n \in ItemHolds[app.history[i]]}
    OBVIOUS
  <2>3. R = {"record"} \X found
    BY <2>1, OnRecord
  <2> HIDE DEF found, R
  <2>4. IF n \in Carried(app.history, ItemHolds) THEN \E i \in DOMAIN app.history : found = {i}
        ELSE found = {}
    BY <2>1, <2>2, HeldAt
  <2>5. CASE n \in Carried(app.history, ItemHolds)
    <3>1. PICK i : found = {i}
        BY <2>4, <2>5
    <3>2. R = {<<"record", i>>}
        BY <2>3, <3>1
    <3>3. QED
        BY <2>5, <3>2
  <2>6. CASE n \notin Carried(app.history, ItemHolds)
    BY <2>3, <2>4, <2>6
  <2>7. QED
    BY <2>5, <2>6
<1>4. IF n \in Range(app.held) THEN \E p : H = {p} ELSE H = {}
  <2>1. IF n \in Range(app.held) THEN \E i \in DOMAIN app.held : At(app.held, n) = {i}
        ELSE At(app.held, n) = {}
    BY <1>2, FoundAt DEF NoneTwice
  <2>2. CASE n \in Range(app.held)
    <3>1. PICK i : At(app.held, n) = {i}
        BY <2>1, <2>2
    <3>2. H = {<<"held", i>>}
        BY <3>1
    <3>3. QED
        BY <2>2, <3>2
  <2>3. CASE n \notin Range(app.held)
    BY <2>1, <2>3
  <2>4. QED
    BY <2>2, <2>3
<1>5. IF n \in dropped THEN \E p : W = {p} ELSE W = {}
  <2>1. n \in dropped => W = {<<"lost", 0>>}
    OBVIOUS
  <2>2. n \notin dropped => W = {}
    OBVIOUS
  <2>3. QED
    BY <2>1, <2>2
<1> HIDE DEF R, H, W
<1>6. /\ n \notin Carried(app.queued, EntryHolds) /\ n \notin Range(app.steered)
      /\ n \notin unsent
    BY <1>2, KeptTypes, Kinds
<1>7. n \in Everything <=> n \in posted
    BY Kinds DEF Everything
<1>8. /\ n \in posted <=> \/ n \in Carried(app.history, ItemHolds)
                          \/ n \in Range(app.held) \/ n \in dropped
      /\ n \in Carried(app.history, ItemHolds) => n \notin Range(app.held)
      /\ n \in Carried(app.history, ItemHolds) \/ n \in Range(app.held) => n \notin dropped
    BY <1>2, <1>6, <1>7 DEF AllThere, Kept, NoneTwice
<1>9. CASE n \in Carried(app.history, ItemHolds)
    BY <1>1, <1>3, <1>4, <1>5, <1>8, <1>9
<1>10. CASE n \in Range(app.held)
    BY <1>1, <1>3, <1>4, <1>5, <1>8, <1>10
<1>11. CASE n \in dropped
    BY <1>1, <1>3, <1>4, <1>5, <1>8, <1>11
<1>12. CASE n \notin posted
    BY <1>1, <1>3, <1>4, <1>5, <1>8, <1>12
<1>13. QED
    BY <1>8, <1>9, <1>10, <1>11, <1>12

\* The steer queue, the board and the events in flight name rows still held.
LEMMA CopiesMirrored ==
    ASSUME NothingLost
    PROVE  SharedQueuesMirrored
<1>1. app \in Apps /\ chan \in Seq(Events) /\ Mirrored(app, chan) /\ OnlyRepliesSteered
    BY DEF NothingLost, Accounted, TurnEnds, TypeOK
<1>2. \A i \in DOMAIN chan : chan[i] \in Events
    BY <1>1, LenProperties, ElementOfSeq
<1>3. ASSUME NEW i \in DOMAIN chan, chan[i][1] \in {"Steered", "NoticeDelivered"}
      PROVE  chan[i][2] \in Range(app.steered) \cup Range(app.held)
  <2>1. EventHolds[chan[i]] = {chan[i][2]}
    BY <1>2, <1>3 DEF EventHolds
  <2>2. EventHolds[chan[i]] \subseteq Carried(chan, EventHolds)
    BY DEF Carried
  <2>3. QED
    BY <1>1, <2>1, <2>2 DEF Mirrored
<1>4. Announced("Steered") \subseteq Range(app.steered)
  <2>1. ASSUME NEW i \in DOMAIN chan, chan[i][1] = "Steered"
        PROVE  chan[i][2] \in Range(app.steered)
    <3>1. chan[i][2] \in Msgs
        BY <1>2, <2>1, EventTypes
    <3>2. QED
        BY <1>1, <1>3, <2>1, <3>1, KeptTypes, Kinds
  <2>2. QED
    BY <2>1 DEF Announced
<1>5. Announced("NoticeDelivered") \subseteq Range(app.held)
  <2>1. ASSUME NEW i \in DOMAIN chan, chan[i][1] = "NoticeDelivered"
        PROVE  chan[i][2] \in Range(app.held)
    <3>1. chan[i][2] \in Notices
        BY <1>2, <2>1, EventTypes
    <3>2. QED
        BY <1>1, <1>3, <2>1, <3>1, KeptTypes, Kinds
  <2>2. QED
    BY <2>1 DEF Announced
<1>6. QED
    BY <1>1, <1>4, <1>5 DEF SharedQueuesMirrored, Mirrored, OnlyRepliesSteered

\* Whatever the order of Enter, Tab, Alt+Up, Esc, /clear, the backend's reads of the
\* shared queue, an abandoned thread's, and the loop's reading of the channel, every
\* draft is in exactly one place: with the user, queued, handed to the turn, on the
\* record, or lost to a /clear or to a submission that came back over it in the
\* composer.  Nothing else the user typed is lost, and nothing is said twice.
THEOREM NoDraftLost == Spec => []EveryDraftInOnePlace
<1>1. NothingLost => EveryDraftInOnePlace
    BY DraftPlaces DEF EveryDraftInOnePlace
<1>2. QED
    BY <1>1, NothingLostInvariant, PTL

\* A notice of background work is held, on the record or wiped once it is posted,
\* never two of them and never twice, whether a turn reads it off the board, an
\* abandoned thread does, or the turn ends first.
THEOREM NoNoticeTwice == Spec => []EveryNoticeOnce
<1>1. NothingLost => EveryNoticeOnce
    BY NoticeIsPlaced DEF EveryNoticeOnce
<1>2. QED
    BY <1>1, NothingLostInvariant, PTL

\* What a backend thread may still read or has announced is a copy of rows the App
\* still shows as waiting: no draft is taken back that the turn could yet be told of,
\* and no announcement finds its row gone.
THEOREM CopiesAgree == Spec => []SharedQueuesMirrored
<1>1. NothingLost => SharedQueuesMirrored
    BY CopiesMirrored
<1>2. QED
    BY <1>1, NothingLostInvariant, PTL

-----------------------------------------------------------------------------
(***************************************************************************)
(* What a turn takes back.  Three steps cut the record: an undo, a blocked *)
(* prompt and a retried attempt.  Each cuts a suffix of items of one kind, *)
(* and stops at the line the turn before ended on, which is of no such     *)
(* kind; so the mark of an attempt, which survives a /clear, is never what *)
(* keeps an earlier turn on the record.                                    *)
(***************************************************************************)
Closed(item) == ~IsUser(item) /\ ~IsHook(item) /\ ~Attempted(item)
EndsOnALine(h) == h # <<>> => Closed(h[Len(h)])

\* How a step may change a record h past its first n items: whatever is not one
\* of the old ones in its place is of these kinds, and every draft stays put.
Reworks(h, g, n, kinds) ==
    /\ n <= Len(g)
    /\ \A i \in 1 .. Len(g) : \/ i <= Len(h) /\ g[i] = h[i]
                              \/ i > n /\ g[i][1] \in kinds
    /\ \A i \in 1 .. Len(h) : IsDraft(h[i]) => i <= Len(g) /\ g[i] = h[i]

LEMMA ReworkSame ==
    ASSUME NEW h \in Seq(Items), NEW n \in 0 .. Len(h), NEW kinds
    PROVE  Reworks(h, h, n, kinds)
BY DEF Reworks

LEMMA ReworkThen ==
    ASSUME NEW h \in Seq(Items), NEW g \in Seq(Items), NEW f \in Seq(Items), NEW n \in Nat,
           NEW kinds, Reworks(h, g, n, kinds), Reworks(g, f, n, kinds)
    PROVE  Reworks(h, f, n, kinds)
<1>1. ASSUME NEW i \in 1 .. Len(f)
      PROVE  \/ i <= Len(h) /\ f[i] = h[i]
             \/ i > n /\ f[i][1] \in kinds
  <2>1. CASE i <= Len(g) /\ f[i] = g[i]
    <3>1. i \in 1 .. Len(g)
        BY <2>1
    <3>2. QED
        BY <2>1, <3>1 DEF Reworks
  <2>2. QED
    BY <2>1 DEF Reworks
<1>2. ASSUME NEW i \in 1 .. Len(h), IsDraft(h[i]) PROVE i <= Len(f) /\ f[i] = h[i]
  <2>1. i \in 1 .. Len(g) /\ g[i] = h[i]
    BY <1>2 DEF Reworks
  <2>2. QED
    BY <1>2, <2>1 DEF Reworks
<1>3. QED
    BY <1>1, <1>2 DEF Reworks

LEMMA ReworkLess ==
    ASSUME NEW h \in Seq(Items), NEW g \in Seq(Items), NEW n \in Nat, NEW m \in 0 .. n,
           NEW kinds, NEW more, kinds \subseteq more, Reworks(h, g, n, kinds)
    PROVE  Reworks(h, g, m, more)
BY DEF Reworks

LEMMA ReworkJoin ==
    ASSUME NEW h \in Seq(Items), NEW t \in Seq(Items), NEW n \in 0 .. Len(h), NEW kinds,
           \A i \in 1 .. Len(t) : t[i][1] \in kinds
    PROVE  Reworks(h, h \o t, n, kinds)
<1>1. /\ h \o t \in Seq(Items) /\ Len(h \o t) = Len(h) + Len(t)
      /\ \A i \in 1 .. Len(h) + Len(t) :
            (h \o t)[i] = IF i <= Len(h) THEN h[i] ELSE t[i - Len(h)]
    BY ConcatProperties
<1>2. Len(h) \in Nat /\ Len(t) \in Nat
    OBVIOUS
<1>3. ASSUME NEW i \in 1 .. Len(h) + Len(t), i > Len(h)
      PROVE  i > n /\ (h \o t)[i][1] \in kinds
  <2>1. i - Len(h) \in 1 .. Len(t)
    BY <1>2, <1>3
  <2>2. QED
    BY <1>1, <1>2, <1>3, <2>1
<1>4. QED
    BY <1>1, <1>2, <1>3 DEF Reworks

LEMMA ReworkAppend ==
    ASSUME NEW h \in Seq(Items), NEW item \in Items, NEW n \in 0 .. Len(h), NEW kinds,
           item[1] \in kinds
    PROVE  Reworks(h, Append(h, item), n, kinds)
<1>1. /\ Len(Append(h, item)) = Len(h) + 1
      /\ \A i \in 1 .. Len(h) : Append(h, item)[i] = h[i]
      /\ Append(h, item)[Len(h) + 1] = item
    BY AppendProperties
<1>2. QED
    BY <1>1 DEF Reworks

LEMMA ReworkCut ==
    ASSUME NEW h \in Seq(Items), NEW k \in 0 .. Len(h), NEW n \in 0 .. k, NEW kinds,
           \A i \in k + 1 .. Len(h) : ~IsDraft(h[i])
    PROVE  Reworks(h, SubSeq(h, 1, k), n, kinds)
<1>1. Len(SubSeq(h, 1, k)) = k /\ \A i \in 1 .. k : SubSeq(h, 1, k)[i] = h[i]
    OBVIOUS
<1>2. QED
    BY <1>1 DEF Reworks

\* What reworks a record past n leaves its first n items.
LEMMA ReworkStands ==
    ASSUME NEW h \in Seq(Items), NEW g \in Seq(Items), NEW n \in 0 .. Len(h), NEW kinds,
           Reworks(h, g, n, kinds)
    PROVE  /\ \A i \in 1 .. n : i <= Len(g) /\ g[i] = h[i]
           /\ IsPrefix(SubSeq(h, 1, n), g)
<1>1. \A i \in 1 .. n : i \in 1 .. Len(g) /\ g[i] = h[i]
    BY DEF Reworks
<1>2. n <= Len(g)
    BY DEF Reworks
<1>3. Len(SubSeq(h, 1, n)) = n /\ \A i \in 1 .. n : SubSeq(h, 1, n)[i] = h[i]
    OBVIOUS
<1>4. SubSeq(SubSeq(h, 1, n), 1, n) = SubSeq(g, 1, n)
  <2>1. SubSeq(h, 1, n) \in Seq(Items)
    OBVIOUS
  <2>2. SubSeq(SubSeq(h, 1, n), 1, n) = [i \in 1 .. n |-> SubSeq(h, 1, n)[i]]
    BY <1>3, <2>1
  <2>3. SubSeq(g, 1, n) = [i \in 1 .. n |-> g[i]]
    BY <1>2
  <2>4. QED
    BY <1>1, <1>3, <2>2, <2>3
<1>5. QED
    BY <1>1, <1>2, <1>3, <1>4 DEF IsPrefix

-----------------------------------------------------------------------------
(* What the App's methods do to the record.                                *)

\* A method that only adds: an item, a flush, a phase, the failed calls, the held cells.
LEMMA ItemKinds ==
    /\ \A x : /\ User(x)[1] = "user" /\ Shell(x)[1] = "shell" /\ Tool(x)[1] = "tool"
              /\ Note(x)[1] = "note" /\ Asst(x)[1] = "asst"
    /\ Hook[1] = "hook" /\ Reasoning[1] = "reasoning" /\ Error[1] = "error"
    /\ Summary[1] = "summary" /\ Compaction[1] = "compaction"
BY DEF User, Shell, Tool, Note, Asst, Hook, Reasoning, Error, Summary, Compaction

LEMMA PushReworks ==
    ASSUME NEW a \in Apps, NEW item \in Items, NEW n \in 0 .. Len(a.history), NEW kinds,
           item[1] \in kinds
    PROVE  Reworks(a.history, Push(a, item).history, n, kinds)
<1>1. Push(a, item).history = Append(a.history, item) /\ a.history \in Seq(Items)
    BY DEF Push, Apps
<1>2. QED
    BY <1>1, ReworkAppend

LEMMA FlushReworks ==
    ASSUME NEW a \in Apps, NEW n \in 0 .. Len(a.history), NEW kinds, "asst" \in kinds
    PROVE  Reworks(a.history, FlushSegment(a).history, n, kinds)
<1>1. a.history \in Seq(Items) /\ a.text \in Nat
    BY DEF Apps
<1>2. CASE a.text = Nothing
    BY <1>1, <1>2, ReworkSame DEF FlushSegment
<1>3. CASE a.text # Nothing
  <2>1. Asst(a.text) \in Items
    BY <1>1, <1>3, ItemTypes
  <2>2. FlushSegment(a).history = Push(a, Asst(a.text)).history
    BY <1>3, <2>1, PushType DEF FlushSegment, Apps
  <2>3. QED
    BY <2>1, <2>2, PushReworks, ItemKinds
<1>4. QED
    BY <1>2, <1>3

LEMMA ReasoningReworks ==
    ASSUME NEW a \in Apps, NEW n \in 0 .. Len(a.history), NEW kinds,
           {"asst", "reasoning"} \subseteq kinds
    PROVE  Reworks(a.history, SettleReasoning(a).history, n, kinds)
<1>1. a.history \in Seq(Items) /\ n \in Nat
    BY DEF Apps
<1>2. CASE ~a.thought
    BY <1>1, <1>2, ReworkSame DEF SettleReasoning
<1>3. CASE a.thought
  <2> DEFINE b == FlushSegment(a)
  <2>1. b \in Apps /\ b.history \in Seq(Items) /\ Reworks(a.history, b.history, n, kinds)
    BY FlushSegmentType, FlushReworks DEF Apps
  <2> HIDE DEF b
  <2>2. n \in 0 .. Len(b.history)
    BY <1>1, <2>1 DEF Reworks
  <2>3. Push(b, Reasoning) \in Apps /\ Reworks(b.history, Push(b, Reasoning).history, n, kinds)
    BY <2>1, <2>2, ItemTypes, ItemKinds, PushType, PushReworks
  <2>4. SettleReasoning(a).history = Push(b, Reasoning).history
    BY <1>3, <2>3 DEF SettleReasoning, b, Apps
  <2>5. Push(b, Reasoning).history \in Seq(Items)
    BY <2>3 DEF Apps
  <2>6. QED
    BY <1>1, <2>1, <2>3, <2>4, <2>5, ReworkThen
<1>4. QED
    BY <1>2, <1>3

LEMMA FailLiveReworks ==
    ASSUME NEW a \in Apps, NEW n \in 0 .. Len(a.history), NEW kinds, "tool" \in kinds
    PROVE  Reworks(a.history, FailLive(a).history, n, kinds)
<1> DEFINE t == [i \in DOMAIN a.live |-> Tool(a.live[i])]
<1>1. a.history \in Seq(Items) /\ a.live \in Seq(Nat \cup Shells)
    BY DEF Apps
<1>2. t \in Seq(Items) /\ \A i \in 1 .. Len(t) : t[i][1] \in kinds
    BY <1>1, ToolItems, ItemKinds
<1>3. FailLive(a).history = a.history \o t
    BY DEF FailLive, Apps
<1> HIDE DEF t
<1>4. QED
    BY <1>1, <1>2, <1>3, ReworkJoin

LEMMA HeldReworks ==
    ASSUME NEW a \in Apps, NEW n \in 0 .. Len(a.history), NEW kinds, "note" \in kinds
    PROVE  Reworks(a.history, SettleHeld(a).history, n, kinds)
<1> DEFINE t == [i \in DOMAIN a.held |-> Note(a.held[i])]
<1>1. a.history \in Seq(Items) /\ a.held \in Seq(Notices)
    BY DEF Apps
<1>2. t \in Seq(Items) /\ \A i \in 1 .. Len(t) : t[i][1] \in kinds
    BY <1>1, NoteItems, ItemKinds
<1>3. SettleHeld(a).history = a.history \o t
    BY DEF SettleHeld, Apps
<1> HIDE DEF t
<1>4. QED
    BY <1>1, <1>2, <1>3, ReworkJoin

LEMMA DeliveredReworks ==
    ASSUME NEW a \in Apps, NEW m \in Notices, NEW n \in 0 .. Len(a.history), NEW kinds,
           "note" \in kinds
    PROVE  Reworks(a.history, SettleDelivered(a, m).history, n, kinds)
<1>1. a.history \in Seq(Items)
    BY DEF Apps
<1>2. Push(a, Note(m)) \in Apps /\ Reworks(a.history, Push(a, Note(m)).history, n, kinds)
    BY ItemTypes, ItemKinds, PushType, PushReworks
<1>3. \/ SettleDelivered(a, m) = a
      \/ SettleDelivered(a, m).history = Push(a, Note(m)).history
    BY <1>2 DEF SettleDelivered, Apps
<1>4. QED
    BY <1>1, <1>2, <1>3, ReworkSame

LEMMA SteeredReworks ==
    ASSUME NEW a \in Apps, NEW m \in Msgs, NEW n \in 0 .. Len(a.history), NEW kinds,
           {"asst", "user"} \subseteq kinds
    PROVE  Reworks(a.history, DeliverSteered(a, m).history, n, kinds)
<1> DEFINE b == FlushSegment(a)
<1>1. a.history \in Seq(Items) /\ n \in Nat
    BY DEF Apps
<1>2. b \in Apps /\ b.history \in Seq(Items) /\ Reworks(a.history, b.history, n, kinds)
    BY FlushSegmentType, FlushReworks DEF Apps
<1> HIDE DEF b
<1>3. n \in 0 .. Len(b.history)
    BY <1>1, <1>2 DEF Reworks
<1>4. Push(b, User(m)) \in Apps /\ Reworks(b.history, Push(b, User(m)).history, n, kinds)
    BY <1>2, <1>3, ItemTypes, ItemKinds, PushType, PushReworks
<1>5. DeliverSteered(a, m).history = Push(b, User(m)).history
    BY <1>4 DEF DeliverSteered, b, Apps
<1>6. Push(b, User(m)).history \in Seq(Items)
    BY <1>4 DEF Apps
<1>7. QED
    BY <1>1, <1>2, <1>4, <1>5, <1>6, ReworkThen

\* A retry cuts what the attempt put on the record, and stops at any other item.
LEMMA WithdrawReworks ==
    ASSUME NEW a \in Apps, NEW n \in 0 .. Len(a.history), NEW kinds,
           n = 0 \/ ~Attempted(a.history[n])
    PROVE  Reworks(a.history, WithdrawAttempt(a).history, n, kinds)
<1> DEFINE h == a.history
           t == TailStart(h, a.floor, Attempted)
<1>1. h \in Seq(Items) /\ a.floor \in Int
    BY DEF Apps, NoFloor
<1>2. CASE a.floor = NoFloor
  <2>1. WithdrawAttempt(a).history = h
    BY <1>2 DEF WithdrawAttempt, Apps
  <2>2. QED
    BY <1>1, <2>1, ReworkSame
<1>3. CASE a.floor # NoFloor
  <2>1. t \in 0 .. Len(h) /\ \A j \in (t + 1) .. Len(h) : Attempted(h[j])
    BY <1>1, AttemptTail
  <2>2. WithdrawAttempt(a).history = SubSeq(h, 1, t)
    BY <1>3 DEF WithdrawAttempt, Before, Apps
  <2> HIDE DEF t
  <2>3. n \in 0 .. t
    BY <1>1, <2>1
  <2>4. \A j \in (t + 1) .. Len(h) : ~IsDraft(h[j])
    BY <2>1 DEF Attempted, IsDraft
  <2> HIDE DEF h
  <2>5. QED
    BY <1>1, <2>1, <2>2, <2>3, <2>4, ReworkCut DEF h
<1>4. QED
    BY <1>2, <1>3

\* What a read event that does not end the turn puts on the record.
EventKinds(e) ==
    IF e[1] = "Steered" THEN {"asst", "user"}
    ELSE {"asst", "reasoning", "tool", "note", "hook"}

LEMMA TrackFrame ==
    ASSUME NEW a \in Apps, NEW e
    PROVE  /\ TrackAttempt(a, e).history = a.history /\ TrackAttempt(a, e).text = a.text
           /\ TrackAttempt(a, e).thought = a.thought /\ TrackAttempt(a, e).live = a.live
           /\ TrackAttempt(a, e).draft = a.draft /\ TrackAttempt(a, e).mode = a.mode
           /\ TrackAttempt(a, e).steeredThisTurn = a.steeredThisTurn
BY DEF TrackAttempt, Apps

LEMMA EventReworks ==
    ASSUME NEW a0 \in Apps, NEW e \in Events, NEW n \in 0 .. Len(a0.history),
           n = 0 \/ ~Attempted(a0.history[n])
    PROVE  Reworks(a0.history, OnStreamEvent(a0, e).history, n, EventKinds(e))
<1> DEFINE a == TrackAttempt(a0, e)
           h == a0.history
           K == EventKinds(e)
           f == FlushSegment(a)
<1>1. a \in Apps /\ a.history = h /\ h \in Seq(Items) /\ n \in Nat
  <2>1. a \in Apps /\ a.history = h
    BY TrackAttemptType, TrackFrame
  <2>2. h \in Seq(Items) /\ n \in Nat
    BY DEF Apps
  <2>3. QED
    BY <2>1, <2>2
<1>2. f \in Apps /\ f.history \in Seq(Items)
    BY <1>1, FlushSegmentType DEF Apps
<1>3. "asst" \in K /\ (e[1] # "Steered" => {"reasoning", "tool", "note", "hook"} \subseteq K)
      /\ (e[1] = "Steered" => "user" \in K)
    BY DEF EventKinds
<1> HIDE DEF a, h, K, f
<1>4. Reworks(h, h, n, K)
    BY <1>1, ReworkSame DEF h
<1>5. Reworks(h, f.history, n, K) /\ n \in 0 .. Len(f.history)
  <2>1. Reworks(h, f.history, n, K)
    BY <1>1, <1>3, FlushReworks DEF f, h
  <2>2. QED
    BY <1>1, <1>2, <2>1 DEF Reworks
<1>6. [a EXCEPT !.text = e[2]].history = h /\ [a EXCEPT !.thought = TRUE].history = h
    BY <1>1 DEF Apps
<1>7. e[1] # "Steered" => Reworks(h, SettleReasoning(a).history, n, K)
    BY <1>1, <1>3, ReasoningReworks DEF h
<1>8. Reworks(h, WithdrawAttempt(a).history, n, K)
    BY <1>1, WithdrawReworks DEF h
<1>9. e[1] # "Steered" => Reworks(h, Push(f, Hook).history, n, K)
  <2> SUFFICES ASSUME e[1] # "Steered" PROVE Reworks(h, Push(f, Hook).history, n, K)
    OBVIOUS
  <2>1. Push(f, Hook) \in Apps /\ Reworks(f.history, Push(f, Hook).history, n, K)
    BY <1>2, <1>3, <1>5, ItemTypes, ItemKinds, PushType, PushReworks
  <2>2. Push(f, Hook).history \in Seq(Items)
    BY <2>1 DEF Apps
  <2>3. QED
    BY <1>1, <1>2, <1>5, <2>1, <2>2, ReworkThen
<1>10. /\ [f EXCEPT !.draft = TRUE].history = f.history
       /\ [f EXCEPT !.live = <<e[2]>>].history = f.history
    BY <1>2 DEF Apps
<1>11. e[1] # "Steered" /\ a.live # <<>> =>
          Reworks(h, [Push(a, Tool(Head(a.live))) EXCEPT !.live = Tail(@), !.draft = FALSE].history,
                  n, K)
  <2> SUFFICES ASSUME e[1] # "Steered", a.live # <<>>
               PROVE  Reworks(h, [Push(a, Tool(Head(a.live))) EXCEPT !.live = Tail(@),
                                                                     !.draft = FALSE].history,
                              n, K)
    OBVIOUS
  <2> DEFINE item == Tool(Head(a.live))
  <2>1. a.live \in Seq(Nat \cup Shells)
    BY <1>1 DEF Apps
  <2>2. Head(a.live) \in Nat \cup Shells
    BY <2>1
  <2>3. item \in Items /\ item[1] \in K
    BY <1>3, <2>2, ItemTypes, ItemKinds
  <2> HIDE DEF item
  <2>4. Push(a, item) \in Apps /\ Reworks(h, Push(a, item).history, n, K)
    BY <1>1, <2>3, PushType, PushReworks DEF h
  <2>5. [Push(a, item) EXCEPT !.live = Tail(@), !.draft = FALSE].history = Push(a, item).history
    BY <2>4 DEF Apps
  <2>6. QED
    BY <2>4, <2>5 DEF item
<1>12. e[1] = "Steered" => Reworks(h, DeliverSteered(a, e[2]).history, n, K)
    BY <1>1, <1>3, EventTypes, SteeredReworks DEF h
<1>13. e[1] = "NoticeDelivered" => Reworks(h, SettleDelivered(f, e[2]).history, n, K)
  <2> SUFFICES ASSUME e[1] = "NoticeDelivered"
               PROVE  Reworks(h, SettleDelivered(f, e[2]).history, n, K)
    OBVIOUS
  <2>1. e[2] \in Notices /\ "note" \in K
    BY <1>3, EventTypes
  <2>2. SettleDelivered(f, e[2]) \in Apps
    BY <1>2, <2>1, SettleDeliveredType
  <2>3. Reworks(f.history, SettleDelivered(f, e[2]).history, n, K)
    BY <1>2, <1>5, <2>1, DeliveredReworks
  <2>4. SettleDelivered(f, e[2]).history \in Seq(Items)
    BY <2>2 DEF Apps
  <2>5. QED
    BY <1>1, <1>2, <1>5, <2>3, <2>4, ReworkThen
<1>14. Reworks(h, OnStreamEvent(a0, e).history, n, K)
    BY <1>1, <1>4, <1>5, <1>6, <1>7, <1>8, <1>9, <1>10, <1>11, <1>12, <1>13
    DEF OnStreamEvent, a, f
<1>15. QED
    BY <1>14 DEF h, K

\* Nothing but a steered message marks the turn steered.
LEMMA EventSteers ==
    ASSUME NEW a0 \in Apps, NEW e \in Events, e[1] # "Steered"
    PROVE  OnStreamEvent(a0, e).steeredThisTurn = a0.steeredThisTurn
<1> DEFINE a == TrackAttempt(a0, e)
           f == FlushSegment(a)
           x == a0.steeredThisTurn
<1>1. a \in Apps /\ a.steeredThisTurn = x
    BY TrackAttemptType, TrackFrame
<1> HIDE DEF a
<1>2. f \in Apps /\ f.steeredThisTurn = x
    BY <1>1, FlushSegmentType DEF FlushSegment, Push, Apps
<1> HIDE DEF f, x
<1>3. /\ [a EXCEPT !.text = e[2]].steeredThisTurn = x
      /\ [a EXCEPT !.thought = TRUE].steeredThisTurn = x
      /\ WithdrawAttempt(a).steeredThisTurn = x
      /\ [Push(a, Tool(Head(a.live))) EXCEPT !.live = Tail(@), !.draft = FALSE].steeredThisTurn = x
    BY <1>1 DEF WithdrawAttempt, Push, Apps
<1>4. SettleReasoning(a).steeredThisTurn = x
    BY <1>1, <1>2 DEF SettleReasoning, Push, f, Apps
<1>5. /\ Push(f, Hook).steeredThisTurn = x
      /\ [f EXCEPT !.draft = TRUE].steeredThisTurn = x
      /\ [f EXCEPT !.live = <<e[2]>>].steeredThisTurn = x
      /\ SettleDelivered(f, e[2]).steeredThisTurn = x
    BY <1>2 DEF SettleDelivered, Push, Apps
<1>6. OnStreamEvent(a0, e).steeredThisTurn = x
    BY <1>1, <1>3, <1>4, <1>5 DEF OnStreamEvent, a, f
<1>7. QED
    BY <1>6 DEF x

\* The events a command's thread sends, and the ones of a turn not begun yet.
LEMMA ToolEndOnly ==
    ASSUME NEW a0 \in Apps, NEW e \in Events, e[1] = "ToolEnd", NEW n \in 0 .. Len(a0.history)
    PROVE  /\ Reworks(a0.history, OnStreamEvent(a0, e).history, n, {"tool"})
           /\ OnStreamEvent(a0, e).text = a0.text /\ OnStreamEvent(a0, e).thought = a0.thought
<1> DEFINE a == TrackAttempt(a0, e)
           b == [Push(a, Tool(Head(a.live))) EXCEPT !.live = Tail(@), !.draft = FALSE]
<1>1. /\ a \in Apps /\ a.history = a0.history /\ a0.history \in Seq(Items)
      /\ a.text = a0.text /\ a.thought = a0.thought
    BY TrackAttemptType, TrackFrame DEF Apps
<1>2. OnStreamEvent(a0, e) = IF a.live # <<>> THEN b ELSE a
    BY DEF OnStreamEvent
<1> HIDE DEF a, b
<1>3. CASE a.live = <<>>
    BY <1>1, <1>2, <1>3, ReworkSame
<1>4. CASE a.live # <<>>
  <2> DEFINE item == Tool(Head(a.live))
  <2>1. a.live \in Seq(Nat \cup Shells)
    BY <1>1 DEF Apps
  <2>2. Head(a.live) \in Nat \cup Shells
    BY <1>4, <2>1
  <2>3. item \in Items /\ item[1] = "tool"
    BY <2>2, ItemTypes, ItemKinds
  <2> HIDE DEF item
  <2>4. /\ Push(a, item) \in Apps /\ Reworks(a0.history, Push(a, item).history, n, {"tool"})
        /\ Push(a, item).text = a.text /\ Push(a, item).thought = a.thought
    <3>1. Push(a, item) \in Apps /\ Reworks(a.history, Push(a, item).history, n, {"tool"})
        BY <1>1, <2>3, PushType, PushReworks
    <3>2. QED
        BY <1>1, <3>1 DEF Push, Apps
  <2>5. /\ b.history = Push(a, item).history /\ b.text = Push(a, item).text
        /\ b.thought = Push(a, item).thought
    BY <2>4 DEF b, item, Apps
  <2>6. QED
    BY <1>1, <1>2, <1>4, <2>4, <2>5
<1>5. QED
    BY <1>3, <1>4

LEMMA HookNoteOnly ==
    ASSUME NEW a0 \in Apps, NEW e \in Events, e[1] = "HookNote", a0.text = Nothing,
           NEW n \in 0 .. Len(a0.history)
    PROVE  /\ Reworks(a0.history, OnStreamEvent(a0, e).history, n, {"hook"})
           /\ OnStreamEvent(a0, e).text = Nothing
<1> DEFINE a == TrackAttempt(a0, e)
<1>1. a \in Apps /\ a.history = a0.history /\ a.text = Nothing /\ a0.history \in Seq(Items)
    BY TrackAttemptType, TrackFrame DEF Apps
<1>2. OnStreamEvent(a0, e) = IF a.mode # "compact" THEN Push(FlushSegment(a), Hook) ELSE a
    BY DEF OnStreamEvent
<1> HIDE DEF a
<1>3. FlushSegment(a) = a
    BY <1>1 DEF FlushSegment
<1>4. Reworks(a.history, a.history, n, {"hook"})
    BY <1>1, ReworkSame
<1>5. Reworks(a.history, Push(a, Hook).history, n, {"hook"}) /\ Push(a, Hook).text = a.text
  <2>1. Reworks(a.history, Push(a, Hook).history, n, {"hook"})
    BY <1>1, ItemTypes, ItemKinds, PushReworks
  <2>2. QED
    BY <1>1, <2>1 DEF Push, Apps
<1>6. QED
    BY <1>1, <1>2, <1>3, <1>4, <1>5

-----------------------------------------------------------------------------
(* The line a turn ends on.                                                *)

LEMMA ClosedItems ==
    \A item : item[1] \in {"tool", "note", "error", "shell", "summary", "compaction"}
                => Closed(item)
BY DEF Closed, IsUser, IsHook, Attempted

LEMMA LineAppend ==
    ASSUME NEW h \in Seq(Items), NEW item \in Items, Closed(item)
    PROVE  EndsOnALine(Append(h, item))
<1>1. Len(Append(h, item)) = Len(h) + 1 /\ Append(h, item)[Len(h) + 1] = item
    BY AppendProperties
<1>2. QED
    BY <1>1 DEF EndsOnALine

LEMMA LineJoin ==
    ASSUME NEW h \in Seq(Items), EndsOnALine(h), NEW t \in Seq(Items),
           \A i \in 1 .. Len(t) : Closed(t[i])
    PROVE  EndsOnALine(h \o t)
<1>1. /\ Len(h \o t) = Len(h) + Len(t)
      /\ \A i \in 1 .. Len(h) + Len(t) :
            (h \o t)[i] = IF i <= Len(h) THEN h[i] ELSE t[i - Len(h)]
    BY ConcatProperties
<1>2. CASE Len(t) = 0
  <2>1. t = <<>>
    BY <1>2, EmptySeq
  <2>2. h \o t = h
    BY <2>1
  <2>3. QED
    BY <2>2
<1>3. CASE Len(t) # 0
  <2>1. Len(t) \in 1 .. Len(t) /\ Len(h) + Len(t) \in 1 .. Len(h) + Len(t)
        /\ ~(Len(h) + Len(t) <= Len(h)) /\ (Len(h) + Len(t)) - Len(h) = Len(t)
    BY <1>3
  <2>2. (h \o t)[Len(h) + Len(t)] = t[Len(t)]
    BY <1>1, <2>1
  <2>3. QED
    BY <1>1, <2>1, <2>2 DEF EndsOnALine
<1>4. QED
    BY <1>2, <1>3

LEMMA HeldLine ==
    ASSUME NEW a \in Apps, EndsOnALine(a.history)
    PROVE  EndsOnALine(SettleHeld(a).history)
<1> DEFINE t == [i \in DOMAIN a.held |-> Note(a.held[i])]
<1>1. a.history \in Seq(Items) /\ a.held \in Seq(Notices)
    BY DEF Apps
<1>2. t \in Seq(Items) /\ \A i \in 1 .. Len(t) : Closed(t[i])
  <2>1. t \in Seq(Items) /\ \A i \in 1 .. Len(t) : t[i][1] = "note"
    BY <1>1, NoteItems, ItemKinds
  <2>2. QED
    BY <2>1, ClosedItems
<1>3. SettleHeld(a).history = a.history \o t
    BY DEF SettleHeld, Apps
<1> HIDE DEF t
<1>4. QED
    BY <1>1, <1>2, <1>3, LineJoin

LEMMA FailedLine ==
    ASSUME NEW a \in Apps, EndsOnALine(a.history)
    PROVE  EndsOnALine(FailLive(a).history)
<1> DEFINE t == [i \in DOMAIN a.live |-> Tool(a.live[i])]
<1>1. a.history \in Seq(Items) /\ a.live \in Seq(Nat \cup Shells)
    BY DEF Apps
<1>2. t \in Seq(Items) /\ \A i \in 1 .. Len(t) : Closed(t[i])
  <2>1. t \in Seq(Items) /\ \A i \in 1 .. Len(t) : t[i][1] = "tool"
    BY <1>1, ToolItems, ItemKinds
  <2>2. QED
    BY <2>1, ClosedItems
<1>3. FailLive(a).history = a.history \o t
    BY DEF FailLive, Apps
<1> HIDE DEF t
<1>4. QED
    BY <1>1, <1>2, <1>3, LineJoin

\* The kinds of item a turn's end, an interrupt and a dispatch may add.
AllKinds == {"user", "asst", "tool", "note", "hook", "reasoning", "error", "shell", "summary",
           "compaction"}

LEMMA KeepStands ==
    ASSUME NEW a \in Apps, NEW n \in 0 .. Len(a.history),
           a.mode = "shell" => a.text = Nothing /\ EndsOnALine(a.history)
    PROVE  /\ Reworks(a.history, Keep(a).history, n, AllKinds)
           /\ EndsOnALine(Keep(a).history)
<1> DEFINE f == FlushSegment(a)
           b == FailLive(f)
           c == IF a.mode = "shell" THEN b ELSE Push(b, Error)
           d == SettleHeld(c)
           e == IF a.mode = "reply" THEN Push(d, Summary) ELSE d
           h == a.history
<1>1. h \in Seq(Items) /\ n \in Nat
    BY DEF Apps
<1>2. f \in Apps /\ f.history \in Seq(Items) /\ Reworks(h, f.history, n, AllKinds)
    BY FlushSegmentType, FlushReworks DEF Apps, AllKinds
<1>3. a.mode = "shell" => EndsOnALine(f.history)
    BY DEF FlushSegment
<1> HIDE DEF f, h
<1>4. n \in 0 .. Len(f.history)
    BY <1>1, <1>2 DEF Reworks
<1>5. b \in Apps /\ b.history \in Seq(Items) /\ Reworks(f.history, b.history, n, AllKinds)
  <2>1. b \in Apps /\ Reworks(f.history, b.history, n, AllKinds)
    BY <1>2, <1>4, FailLiveType, FailLiveReworks DEF AllKinds
  <2>2. QED
    BY <2>1 DEF Apps
<1>6. a.mode = "shell" => EndsOnALine(b.history)
    BY <1>2, <1>3, FailedLine
<1>7. Reworks(h, b.history, n, AllKinds)
    BY <1>1, <1>2, <1>5, ReworkThen
<1> HIDE DEF b
<1>8. n \in 0 .. Len(b.history)
    BY <1>1, <1>7 DEF Reworks
<1>9. /\ Push(b, Error) \in Apps /\ Push(b, Error).history \in Seq(Items)
      /\ Reworks(b.history, Push(b, Error).history, n, AllKinds)
      /\ EndsOnALine(Push(b, Error).history)
  <2>1. Push(b, Error) \in Apps /\ Reworks(b.history, Push(b, Error).history, n, AllKinds)
    BY <1>5, <1>8, ItemTypes, ItemKinds, PushType, PushReworks DEF AllKinds
  <2>2. Push(b, Error).history = Append(b.history, Error) /\ Error \in Items /\ Closed(Error)
    BY <1>5, ItemTypes, ItemKinds, ClosedItems DEF Push, Apps
  <2>3. EndsOnALine(Push(b, Error).history)
    BY <1>5, <2>2, LineAppend
  <2>4. QED
    BY <2>1, <2>3 DEF Apps
<1>10. /\ c \in Apps /\ c.history \in Seq(Items) /\ EndsOnALine(c.history)
       /\ Reworks(h, c.history, n, AllKinds)
  <2>1. Reworks(h, Push(b, Error).history, n, AllKinds)
    BY <1>1, <1>5, <1>7, <1>9, ReworkThen
  <2>2. QED
    BY <1>5, <1>6, <1>7, <1>9, <2>1
<1> HIDE DEF c
<1>11. n \in 0 .. Len(c.history)
    BY <1>1, <1>10 DEF Reworks
<1>12. /\ d \in Apps /\ d.history \in Seq(Items) /\ EndsOnALine(d.history)
       /\ Reworks(h, d.history, n, AllKinds)
  <2>1. d \in Apps /\ EndsOnALine(d.history) /\ Reworks(c.history, d.history, n, AllKinds)
    BY <1>10, <1>11, SettleHeldType, HeldLine, HeldReworks DEF AllKinds
  <2> HIDE DEF d
  <2>2. d.history \in Seq(Items)
    BY <2>1 DEF Apps
  <2>3. QED
    BY <1>1, <1>10, <2>1, <2>2, ReworkThen
<1> HIDE DEF d
<1>13. n \in 0 .. Len(d.history)
    BY <1>1, <1>12 DEF Reworks
<1>14. /\ Push(d, Summary) \in Apps /\ EndsOnALine(Push(d, Summary).history)
       /\ Reworks(h, Push(d, Summary).history, n, AllKinds)
  <2>1. Push(d, Summary) \in Apps /\ Reworks(d.history, Push(d, Summary).history, n, AllKinds)
    BY <1>12, <1>13, ItemTypes, ItemKinds, PushType, PushReworks DEF AllKinds
  <2>2. Push(d, Summary).history = Append(d.history, Summary) /\ Summary \in Items
        /\ Closed(Summary)
    BY <1>12, ItemTypes, ItemKinds, ClosedItems DEF Push, Apps
  <2>3. EndsOnALine(Push(d, Summary).history)
    BY <1>12, <2>2, LineAppend
  <2>4. Push(d, Summary).history \in Seq(Items)
    BY <2>1 DEF Apps
  <2>5. QED
    BY <1>1, <1>12, <2>1, <2>3, <2>4, ReworkThen
<1>15. e \in Apps /\ EndsOnALine(e.history) /\ Reworks(h, e.history, n, AllKinds)
    BY <1>12, <1>14
<1>16. Keep(a) = [e EXCEPT !.mode = "idle", !.draft = FALSE]
    BY DEF Keep, d, c, b, f
<1> HIDE DEF e
<1>17. Keep(a).history = e.history
    BY <1>15, <1>16 DEF Apps
<1>18. QED
    BY <1>15, <1>17 DEF h

LEMMA DoneStands ==
    ASSUME NEW a \in Apps, NEW n \in 0 .. Len(a.history),
           a.mode = "shell" => a.text = Nothing /\ EndsOnALine(a.history)
    PROVE  /\ Reworks(a.history, OnStreamDone(a).history, n, AllKinds)
           /\ EndsOnALine(OnStreamDone(a).history)
<1> DEFINE h == a.history
           p == Push(a, Compaction)
           p2 == [p EXCEPT !.mode = "idle", !.draft = FALSE]
           u == [a EXCEPT !.draft = FALSE]
           f == FlushSegment(u)
           b == SettleHeld(f)
           c == IF a.mode = "shell" THEN b ELSE Push(b, Summary)
<1>1. h \in Seq(Items) /\ n \in Nat
    BY DEF Apps
<1>2. CASE a.mode = "compact"
  <2>1. /\ p \in Apps /\ p.history = Append(h, Compaction)
        /\ Compaction \in Items /\ Closed(Compaction)
        /\ Reworks(h, p.history, n, AllKinds)
    <3>1. Compaction \in Items /\ Compaction[1] \in AllKinds /\ Closed(Compaction)
        BY ItemTypes, ItemKinds, ClosedItems DEF AllKinds
    <3>2. p \in Apps /\ Reworks(h, p.history, n, AllKinds)
        BY <3>1, PushType, PushReworks
    <3>3. p.history = Append(h, Compaction)
        BY DEF Push, Apps
    <3>4. QED
        BY <3>1, <3>2, <3>3
  <2>2. EndsOnALine(p.history)
    BY <1>1, <2>1, LineAppend
  <2> HIDE DEF p, h
  <2>3. p2 \in Apps /\ p2.history = p.history /\ p.history \in Seq(Items)
    BY <2>1 DEF Apps, Modes
  <2> HIDE DEF p2
  <2>4. n \in 0 .. Len(p2.history)
    BY <1>1, <2>1, <2>3 DEF Reworks
  <2>5. /\ SettleHeld(p2) \in Apps /\ EndsOnALine(SettleHeld(p2).history)
        /\ Reworks(p2.history, SettleHeld(p2).history, n, AllKinds)
    BY <2>2, <2>3, <2>4, SettleHeldType, HeldLine, HeldReworks DEF AllKinds
  <2>6. SettleHeld(p2).history \in Seq(Items)
    BY <2>5 DEF Apps
  <2>7. Reworks(h, SettleHeld(p2).history, n, AllKinds)
    BY <1>1, <2>1, <2>3, <2>5, <2>6, ReworkThen
  <2>8. OnStreamDone(a) = SettleHeld(p2)
    BY <1>2 DEF OnStreamDone, p2, p
  <2>9. QED
    BY <2>5, <2>7, <2>8 DEF h
<1>3. CASE a.mode # "compact"
  <2>1. /\ u \in Apps /\ u.history = h /\ u.text = a.text
    BY DEF Apps
  <2> HIDE DEF u
  <2>2. f \in Apps /\ f.history \in Seq(Items) /\ Reworks(h, f.history, n, AllKinds)
    <3>1. f \in Apps
        BY <2>1, FlushSegmentType
    <3>2. n \in 0 .. Len(u.history)
        BY <2>1
    <3>3. Reworks(u.history, f.history, n, AllKinds)
        BY <2>1, <3>2, FlushReworks DEF AllKinds
    <3> HIDE DEF f
    <3>4. f.history \in Seq(Items)
        BY <3>1 DEF Apps
    <3>5. QED
        BY <2>1, <3>1, <3>3, <3>4
  <2>3. a.mode = "shell" => EndsOnALine(f.history)
    BY <2>1 DEF FlushSegment
  <2> HIDE DEF f, h
  <2>4. n \in 0 .. Len(f.history)
    BY <1>1, <2>2 DEF Reworks
  <2>5. /\ b \in Apps /\ Reworks(f.history, b.history, n, AllKinds)
        /\ (a.mode = "shell" => EndsOnALine(b.history))
    BY <2>2, <2>3, <2>4, SettleHeldType, HeldLine, HeldReworks DEF AllKinds
  <2> HIDE DEF b
  <2>6. b.history \in Seq(Items)
    BY <2>5 DEF Apps
  <2>7. Reworks(h, b.history, n, AllKinds)
    BY <1>1, <2>2, <2>5, <2>6, ReworkThen
  <2>8. n \in 0 .. Len(b.history)
    BY <1>1, <2>7 DEF Reworks
  <2>9. /\ Push(b, Summary) \in Apps /\ EndsOnALine(Push(b, Summary).history)
        /\ Reworks(h, Push(b, Summary).history, n, AllKinds)
    <3>1. Push(b, Summary) \in Apps /\ Reworks(b.history, Push(b, Summary).history, n, AllKinds)
        BY <2>5, <2>8, ItemTypes, ItemKinds, PushType, PushReworks DEF AllKinds
    <3>2. Push(b, Summary).history = Append(b.history, Summary) /\ Summary \in Items
          /\ Closed(Summary)
        BY <2>5, ItemTypes, ItemKinds, ClosedItems DEF Push, Apps
    <3>3. EndsOnALine(Push(b, Summary).history)
        BY <2>6, <3>2, LineAppend
    <3>4. Push(b, Summary).history \in Seq(Items)
        BY <3>1 DEF Apps
    <3>5. QED
        BY <1>1, <2>6, <2>7, <3>1, <3>3, <3>4, ReworkThen
  <2>10. c \in Apps /\ EndsOnALine(c.history) /\ Reworks(h, c.history, n, AllKinds)
    BY <2>5, <2>7, <2>9
  <2>11. OnStreamDone(a) = [c EXCEPT !.mode = "idle"]
    BY <1>3 DEF OnStreamDone, b, f, u
  <2> HIDE DEF c
  <2>12. OnStreamDone(a).history = c.history
    BY <2>10, <2>11 DEF Apps
  <2>13. QED
    BY <2>10, <2>12 DEF h
<1>4. QED
    BY <1>2, <1>3

LEMMA FailStands ==
    ASSUME NEW a \in Apps, NEW n \in 0 .. Len(a.history)
    PROVE  /\ Reworks(a.history, FailStream(a).history, n, AllKinds)
           /\ EndsOnALine(FailStream(a).history)
<1> DEFINE h == a.history
           r == SettleReasoning(a)
           f == FlushSegment(r)
           b == FailLive(f)
           p == Push(b, Error)
<1>1. h \in Seq(Items) /\ n \in Nat
    BY DEF Apps
<1>2. r \in Apps /\ Reworks(h, r.history, n, AllKinds)
    BY SettleReasoningType, ReasoningReworks DEF AllKinds
<1> HIDE DEF h, r
<1>3. r.history \in Seq(Items) /\ n \in 0 .. Len(r.history)
    BY <1>1, <1>2 DEF Reworks, Apps
<1>4. f \in Apps /\ Reworks(r.history, f.history, n, AllKinds)
    BY <1>2, <1>3, FlushSegmentType, FlushReworks DEF AllKinds
<1> HIDE DEF f
<1>5. f.history \in Seq(Items) /\ n \in 0 .. Len(f.history)
    BY <1>1, <1>4 DEF Reworks, Apps
<1>6. b \in Apps /\ Reworks(f.history, b.history, n, AllKinds)
    BY <1>4, <1>5, FailLiveType, FailLiveReworks DEF AllKinds
<1> HIDE DEF b
<1>7. b.history \in Seq(Items) /\ n \in 0 .. Len(b.history)
    BY <1>1, <1>6 DEF Reworks, Apps
<1>8. p \in Apps /\ Reworks(b.history, p.history, n, AllKinds)
    BY <1>6, <1>7, ItemTypes, ItemKinds, PushType, PushReworks DEF AllKinds
<1>9. p.history = Append(b.history, Error) /\ Error \in Items /\ Closed(Error)
    BY <1>6, ItemTypes, ItemKinds, ClosedItems DEF Push, Apps
<1> HIDE DEF p
<1>10. EndsOnALine(p.history) /\ p.history \in Seq(Items)
    BY <1>7, <1>8, <1>9, LineAppend DEF Apps
<1>11. Reworks(h, p.history, n, AllKinds)
  <2>1. Reworks(h, f.history, n, AllKinds)
    BY <1>1, <1>2, <1>3, <1>4, <1>5, ReworkThen
  <2>2. Reworks(h, b.history, n, AllKinds)
    BY <1>1, <1>5, <1>6, <1>7, <2>1, ReworkThen
  <2>3. QED
    BY <1>1, <1>7, <1>8, <1>10, <2>2, ReworkThen
<1>12. FailStream(a).history = p.history
    BY <1>8 DEF FailStream, p, b, f, r, Apps
<1>13. QED
    BY <1>10, <1>11, <1>12 DEF h

-----------------------------------------------------------------------------
(* The invariant.                                                          *)

\* Where the running turn's own items begin: its submission, then what it did.
Since == worker.base + Len(worker.batch)

\* The turn began on a record that ended on a line.
Grounded ==
    /\ worker.base <= Len(app.history)
    /\ worker.base = 0 \/ Closed(app.history[worker.base])

\* A reply's submission heads its turn, and is all the user said in it until a
\* steered message is read.
Submitted ==
    app.mode = "reply" =>
        /\ Since <= Len(app.history)
        /\ \A k \in 1 .. Len(worker.batch) :
              app.history[worker.base + k] = User(worker.batch[k])
        /\ ~app.steeredThisTurn =>
              \A i \in Since + 1 .. Len(app.history) : ~IsUser(app.history[i])

\* A command's turn puts nothing on the record that could be taken back.
CommandOnly ==
    app.mode = "shell" =>
        /\ worker.base < Len(app.history)
        /\ \A i \in worker.base + 1 .. Len(app.history) : Closed(app.history[i])
        /\ app.text = Nothing /\ ~app.thought
        /\ worker.pc \in {"running", "gone"}
        /\ \A i \in DOMAIN chan : chan[i][1] \in {"ToolEnd", "StreamDone"}

\* Until its hooks have let it go on, a turn has only their notes to show.
Unopened == worker.pc = "opening" \/ \E i \in DOMAIN chan : chan[i][1] = "PromptBlocked"
NotesAlone ==
    /\ worker.pc = "opening" => chan = <<>>
    /\ Unopened =>
        /\ app.mode = "reply" /\ app.text = Nothing /\ ~app.steeredThisTurn
        /\ \A i \in DOMAIN chan : chan[i][1] \in {"HookNote", "PromptBlocked"}
        /\ \A i \in Since + 1 .. Len(app.history) : IsHook(app.history[i])

TurnStands ==
    /\ Idle => EndsOnALine(app.history)
    /\ ~Idle => Grounded /\ Submitted /\ CommandOnly /\ NotesAlone

-----------------------------------------------------------------------------
(* What the two steps that hand a submission back leave.                   *)

\* The tail of user messages, of hook notes, is what lies past m.
LEMMA UserTailStart ==
    ASSUME NEW s \in Seq(Items), NEW m \in 0 .. Len(s), m = 0 \/ ~IsUser(s[m]),
           \A j \in m + 1 .. Len(s) : IsUser(s[j])
    PROVE  /\ Before(s, 0, IsUser) = SubSeq(s, 1, m)
           /\ After(s, 0, IsUser) = SubSeq(s, m + 1, Len(s))
<1> DEFINE t == TailStart(s, 0, IsUser)
<1>1. /\ t \in 0 .. Len(s) /\ \A j \in (t + 1) .. Len(s) : IsUser(s[j])
      /\ t = 0 \/ ~IsUser(s[t])
    BY UserTail
<1>2. /\ Before(s, 0, IsUser) = SubSeq(s, 1, t)
      /\ After(s, 0, IsUser) = SubSeq(s, t + 1, Len(s))
    BY DEF Before, After
<1> HIDE DEF t
<1>3. t = m
  <2>1. ASSUME t < m PROVE FALSE
    <3>1. m \in (t + 1) .. Len(s) /\ m # 0
        BY <1>1, <2>1
    <3>2. QED
        BY <1>1, <3>1
  <2>2. ASSUME m < t PROVE FALSE
    <3>1. t \in (m + 1) .. Len(s) /\ t # 0
        BY <1>1, <2>2
    <3>2. QED
        BY <1>1, <3>1
  <2>3. QED
    BY <1>1, <2>1, <2>2
<1>4. QED
    BY <1>2, <1>3

LEMMA HookTailStart ==
    ASSUME NEW s \in Seq(Items), NEW m \in 0 .. Len(s), m = 0 \/ ~IsHook(s[m]),
           \A j \in m + 1 .. Len(s) : IsHook(s[j])
    PROVE  /\ Before(s, 0, IsHook) = SubSeq(s, 1, m)
           /\ After(s, 0, IsHook) = SubSeq(s, m + 1, Len(s))
<1> DEFINE t == TailStart(s, 0, IsHook)
<1>1. /\ t \in 0 .. Len(s) /\ \A j \in (t + 1) .. Len(s) : IsHook(s[j])
      /\ t = 0 \/ ~IsHook(s[t])
    BY HookTail
<1>2. /\ Before(s, 0, IsHook) = SubSeq(s, 1, t)
      /\ After(s, 0, IsHook) = SubSeq(s, t + 1, Len(s))
    BY DEF Before, After
<1> HIDE DEF t
<1>3. t = m
  <2>1. ASSUME t < m PROVE FALSE
    <3>1. m \in (t + 1) .. Len(s) /\ m # 0
        BY <1>1, <2>1
    <3>2. QED
        BY <1>1, <3>1
  <2>2. ASSUME m < t PROVE FALSE
    <3>1. t \in (m + 1) .. Len(s) /\ t # 0
        BY <1>1, <2>2
    <3>2. QED
        BY <1>1, <3>1
  <2>3. QED
    BY <1>1, <2>1, <2>2
<1>4. QED
    BY <1>2, <1>3

\* What both say of the state they act on and the record they leave: the record
\* is the one the turn began on and what was put on it since, the submission goes
\* back to the user, and only hook notes came after it.
TakesBack(left, back) ==
    /\ worker.base \in 0 .. Len(app.history)
    /\ EndsOnALine(left)
    /\ worker.base <= Len(left)
    /\ \A i \in 1 .. worker.base : left[i] = app.history[i]
    /\ \A i \in worker.base + 1 .. Len(app.history) :
          \/ IsHook(app.history[i])
          \/ \E k \in 1 .. Len(worker.batch) : app.history[i] = User(worker.batch[k])
    /\ \A k \in 1 .. Len(worker.batch) :
          /\ worker.base + k \in 1 .. Len(app.history)
          /\ app.history[worker.base + k] = User(worker.batch[k])
          /\ worker.batch[k] \in back

\* An undo: nothing but the submission has been recorded.
LEMMA UndoStands ==
    ASSUME TypeOK, TurnStands, ~Idle, Undoable(app)
    PROVE  TakesBack(Undo(app).history, {item[2] : item \in Range(Undone(app))})
<1> DEFINE h == app.history
           n == worker.base
           l == Len(worker.batch)
<1>1. /\ app \in Apps /\ h \in Seq(Items) /\ n \in Nat /\ l \in Nat
      /\ worker.batch \in Seq(Msgs) /\ Len(h) \in Nat
    BY DEF TypeOK, Apps, Workers
<1>2. /\ h # <<>> /\ IsUser(h[Len(h)]) /\ ~app.steeredThisTurn /\ app.mode # "compact"
    BY DEF Undoable, Last
<1>3. Len(h) # 0 /\ Len(h) \in 1 .. Len(h)
    BY <1>1, <1>2
<1>4. n <= Len(h) /\ (n = 0 \/ Closed(h[n]))
    BY DEF TurnStands, Grounded
<1>5. app.mode = "reply"
  <2>1. app.mode # "shell"
    <3> SUFFICES ASSUME app.mode = "shell" PROVE FALSE
        OBVIOUS
    <3>1. Len(h) \in n + 1 .. Len(h) /\ \A i \in n + 1 .. Len(h) : Closed(h[i])
        BY <1>1, <1>3 DEF TurnStands, CommandOnly
    <3>2. QED
        BY <1>2, <3>1 DEF Closed
  <2>2. app.mode \in Modes
    BY <1>1 DEF Apps
  <2>3. QED
    BY <1>2, <2>1, <2>2 DEF Modes, Idle
<1>6. /\ n + l <= Len(h) /\ \A k \in 1 .. l : h[n + k] = User(worker.batch[k])
      /\ \A i \in n + l + 1 .. Len(h) : ~IsUser(h[i])
    BY <1>2, <1>5 DEF TurnStands, Submitted, Since
<1> HIDE DEF h, n, l
<1>7. Len(h) = n + l
    BY <1>1, <1>2, <1>3, <1>6
<1>8. \A i \in n + 1 .. Len(h) : \E k \in 1 .. l : i = n + k /\ h[i] = User(worker.batch[k])
  <2>1. ASSUME NEW i \in n + 1 .. Len(h)
        PROVE  \E k \in 1 .. l : i = n + k /\ h[i] = User(worker.batch[k])
    <3>1. i - n \in 1 .. l /\ n + (i - n) = i
        BY <1>1, <1>7
    <3>2. QED
        BY <1>6, <3>1
  <2>2. QED
    BY <2>1
<1>9. \A i \in n + 1 .. Len(h) : IsUser(h[i])
    BY <1>8 DEF IsUser, User
<1>10. n \in 0 .. Len(h) /\ (n = 0 \/ ~IsUser(h[n]))
    BY <1>1, <1>4 DEF Closed
<1>11. Before(h, 0, IsUser) = SubSeq(h, 1, n) /\ After(h, 0, IsUser) = SubSeq(h, n + 1, Len(h))
    BY <1>1, <1>9, <1>10, UserTailStart
<1>12. Undo(app).history = SubSeq(h, 1, n) /\ Undone(app) = SubSeq(h, n + 1, Len(h))
    BY <1>1, <1>11 DEF Undo, Undone, h, Apps
<1>13. Len(SubSeq(h, 1, n)) = n /\ \A i \in 1 .. n : SubSeq(h, 1, n)[i] = h[i]
    BY <1>1, <1>10
<1>14. EndsOnALine(SubSeq(h, 1, n))
  <2>1. n = 0 => SubSeq(h, 1, n) = <<>>
    BY <1>1
  <2>2. n # 0 => n \in 1 .. n
    BY <1>1
  <2>3. QED
    BY <1>4, <1>13, <2>1, <2>2 DEF EndsOnALine
<1>15. ASSUME NEW k \in 1 .. l
       PROVE  /\ n + k \in 1 .. Len(h) /\ h[n + k] = User(worker.batch[k])
              /\ worker.batch[k] \in {item[2] : item \in Range(Undone(app))}
  <2>1. n + k \in 1 .. Len(h) /\ h[n + k] = User(worker.batch[k])
    BY <1>1, <1>6, <1>7
  <2>2. k \in DOMAIN SubSeq(h, n + 1, Len(h)) /\ SubSeq(h, n + 1, Len(h))[k] = h[n + k]
    BY <1>1, <1>7, <1>10
  <2>3. User(worker.batch[k]) \in Range(Undone(app))
    BY <1>12, <2>1, <2>2 DEF Range
  <2>4. User(worker.batch[k])[2] = worker.batch[k]
    BY DEF User
  <2>5. QED
    BY <2>1, <2>3, <2>4
<1>16. \A i \in n + 1 .. Len(h) : \E k \in 1 .. l : h[i] = User(worker.batch[k])
    BY <1>8
<1> DEFINE left == Undo(app).history
           back == {item[2] : item \in Range(Undone(app))}
<1>17. Len(left) = n /\ EndsOnALine(left) /\ \A i \in 1 .. n : left[i] = h[i]
    BY <1>12, <1>13, <1>14
<1>18. \A k \in 1 .. l : n + k \in 1 .. Len(h) /\ h[n + k] = User(worker.batch[k])
                         /\ worker.batch[k] \in back
    BY <1>15
<1> HIDE DEF left, back
<1>19. TakesBack(left, back)
    BY <1>1, <1>10, <1>16, <1>17, <1>18 DEF TakesBack, h, n, l
<1>20. QED
    BY <1>19 DEF left, back

\* A blocked prompt: nothing but hook notes has been recorded after it.
LEMMA BlockStands ==
    ASSUME TypeOK, TurnStands, ~Idle, Unopened, NEW a \in Apps, a.history = app.history
    PROVE  TakesBack(BlockPrompt(a).history, {item[2] : item \in Range(BlockedMsgs(app))})
<1> DEFINE h == app.history
           n == worker.base
           l == Len(worker.batch)
           m == n + l
           under == Before(h, 0, IsHook)
           notes == After(h, 0, IsHook)
           g == SubSeq(h, 1, n)
           left == g \o notes \o <<Error>>
           back == {item[2] : item \in Range(BlockedMsgs(app))}
<1>1. /\ app \in Apps /\ h \in Seq(Items) /\ n \in Nat /\ l \in Nat
      /\ worker.batch \in Seq(Msgs) /\ Len(h) \in Nat
  <2>1. app \in Apps /\ worker \in Workers
    BY DEF TypeOK
  <2>2. h \in Seq(Items)
    BY <2>1 DEF Apps
  <2>3. n \in Nat /\ worker.batch \in Seq(Msgs)
    BY <2>1 DEF Workers
  <2>4. l \in Nat /\ Len(h) \in Nat
    BY <2>2, <2>3
  <2>5. QED
    BY <2>1, <2>2, <2>3, <2>4
<1>2. n <= Len(h) /\ (n = 0 \/ Closed(h[n]))
    BY DEF TurnStands, Grounded
<1>3. /\ m <= Len(h) /\ \A k \in 1 .. l : h[n + k] = User(worker.batch[k])
      /\ \A i \in m + 1 .. Len(h) : IsHook(h[i])
  <2>1. app.mode = "reply" /\ \A i \in m + 1 .. Len(h) : IsHook(h[i])
    BY DEF TurnStands, NotesAlone, Since
  <2>2. QED
    BY <2>1 DEF TurnStands, Submitted, Since
<1>4. BlockPrompt(a).history = Before(under, 0, IsUser) \o notes \o <<Error>>
    BY DEF BlockPrompt, Apps
<1>5. BlockedMsgs(app) = After(under, 0, IsUser)
    BY DEF BlockedMsgs
<1> HIDE DEF h, n, l, under, notes, g, left, back
<1>6. \A i \in n + 1 .. m : \E k \in 1 .. l : i = n + k /\ h[i] = User(worker.batch[k])
  <2>1. ASSUME NEW i \in n + 1 .. m
        PROVE  \E k \in 1 .. l : i = n + k /\ h[i] = User(worker.batch[k])
    <3>1. i - n \in 1 .. l /\ n + (i - n) = i
        BY <1>1
    <3>2. QED
        BY <1>3, <3>1
  <2>2. QED
    BY <2>1
<1>7. \A i \in n + 1 .. m : IsUser(h[i]) /\ ~IsHook(h[i])
    BY <1>6 DEF IsUser, IsHook, User
<1>8. m \in 0 .. Len(h) /\ (m = 0 \/ ~IsHook(h[m])) /\ n \in 0 .. m /\ m \in Nat
  <2>1. l = 0 => m = n
    BY <1>1
  <2>2. l # 0 => m \in n + 1 .. m
    BY <1>1
  <2>3. m \in 0 .. Len(h) /\ n \in 0 .. m
    BY <1>1, <1>3
  <2>4. QED
    BY <1>2, <1>7, <2>1, <2>2, <2>3 DEF Closed
<1> HIDE DEF m
<1>9. under = SubSeq(h, 1, m) /\ notes = SubSeq(h, m + 1, Len(h))
    BY <1>1, <1>3, <1>8, HookTailStart DEF under, notes
<1>10. /\ under \in Seq(Items) /\ Len(under) = m /\ \A i \in 1 .. m : under[i] = h[i]
       /\ notes \in Seq(Items)
    BY <1>1, <1>8, <1>9
<1>11. /\ Before(under, 0, IsUser) = SubSeq(under, 1, n)
       /\ After(under, 0, IsUser) = SubSeq(under, n + 1, m)
  <2>1. n = 0 \/ ~IsUser(under[n])
    BY <1>1, <1>2, <1>8, <1>10 DEF Closed
  <2>2. \A j \in n + 1 .. Len(under) : IsUser(under[j])
    BY <1>1, <1>7, <1>8, <1>10
  <2>3. n \in 0 .. Len(under)
    BY <1>8, <1>10
  <2>4. QED
    BY <1>10, <2>1, <2>2, <2>3, UserTailStart
<1>12. /\ SubSeq(under, 1, n) \in Seq(Items) /\ Len(SubSeq(under, 1, n)) = n
       /\ \A i \in 1 .. n : SubSeq(under, 1, n)[i] = h[i]
    BY <1>1, <1>8, <1>10
<1> DEFINE p == SubSeq(under, 1, n)
           r == p \o notes
<1>13. BlockPrompt(a).history = Append(r, Error) /\ r \in Seq(Items)
  <2>1. p \in Seq(Items)
    BY <1>12
  <2> HIDE DEF p
  <2>2. r \in Seq(Items)
    BY <1>10, <2>1
  <2>3. BlockPrompt(a).history = r \o <<Error>>
    BY <1>4, <1>11 DEF p
  <2> HIDE DEF r
  <2>4. r \o <<Error>> = Append(r, Error)
    BY <2>2, ItemTypes
  <2>5. QED
    BY <2>2, <2>3, <2>4
<1>14. /\ Len(r) = n + Len(notes) /\ \A i \in 1 .. n : r[i] = h[i]
  <2> HIDE DEF p
  <2>1. /\ p \in Seq(Items) /\ Len(p) = n /\ \A i \in 1 .. n : p[i] = h[i]
    BY <1>12 DEF p
  <2>2. /\ Len(p \o notes) = Len(p) + Len(notes)
        /\ \A i \in 1 .. Len(p) + Len(notes) :
              (p \o notes)[i] = IF i <= Len(p) THEN p[i] ELSE notes[i - Len(p)]
    BY <1>10, <2>1, ConcatProperties
  <2>3. Len(notes) \in Nat
    BY <1>10
  <2>4. QED
    BY <1>1, <2>1, <2>2, <2>3
<1> HIDE DEF p, r
<1>15. /\ Len(Append(r, Error)) = Len(r) + 1
       /\ \A i \in 1 .. Len(r) : Append(r, Error)[i] = r[i]
    BY <1>13, ItemTypes, AppendProperties
<1>16. EndsOnALine(Append(r, Error))
    BY <1>13, ItemTypes, ItemKinds, ClosedItems, LineAppend
<1>17. ASSUME NEW k \in 1 .. l
       PROVE  /\ n + k \in 1 .. Len(h) /\ h[n + k] = User(worker.batch[k])
              /\ worker.batch[k] \in back
  <2>1. n + k \in 1 .. Len(h) /\ n + k \in n + 1 .. m
    BY <1>1, <1>3, <1>8 DEF m
  <2>2. k \in DOMAIN SubSeq(under, n + 1, m) /\ SubSeq(under, n + 1, m)[k] = h[n + k]
    BY <1>1, <1>8, <1>10, <2>1 DEF m
  <2>3. h[n + k] = User(worker.batch[k])
    BY <1>3
  <2>4. User(worker.batch[k]) \in Range(BlockedMsgs(app))
    BY <1>5, <1>11, <2>2, <2>3 DEF Range
  <2>5. User(worker.batch[k])[2] = worker.batch[k]
    BY DEF User
  <2>6. QED
    BY <2>1, <2>3, <2>4, <2>5 DEF back
<1>18. ASSUME NEW i \in n + 1 .. Len(h)
       PROVE  IsHook(h[i]) \/ \E k \in 1 .. l : h[i] = User(worker.batch[k])
  <2>1. i \in n + 1 .. m \/ i \in m + 1 .. Len(h)
    BY <1>1, <1>8
  <2>2. QED
    BY <1>3, <1>6, <2>1
<1>19. /\ n <= Len(BlockPrompt(a).history)
       /\ \A i \in 1 .. n : BlockPrompt(a).history[i] = h[i]
  <2>1. Len(r) \in Nat /\ Len(notes) \in Nat
    BY <1>10, <1>13
  <2>2. \A i \in 1 .. n : i \in 1 .. Len(r)
    BY <1>1, <1>14, <2>1
  <2>3. QED
    BY <1>1, <1>13, <1>14, <1>15, <2>1, <2>2
<1>20. n \in 0 .. Len(h)
    BY <1>1, <1>2
<1>21. TakesBack(BlockPrompt(a).history, back)
    BY <1>13, <1>16, <1>17, <1>18, <1>19, <1>20 DEF TakesBack, h, n, l
<1>22. QED
    BY <1>21 DEF back

-----------------------------------------------------------------------------
(* What a turn starts from.                                                *)

LEMMA ReplyStands ==
    ASSUME NEW b \in Apps, EndsOnALine(b.history), NEW batch \in Seq(Msgs),
           app'.mode = "reply", app'.text = Nothing, app'.steeredThisTurn = FALSE,
           app'.history = b.history \o [i \in DOMAIN batch |-> User(batch[i])],
           worker' = ReplyWorker(app'.history, batch), chan' = <<>>
    PROVE  TurnStands' /\ Reworks(b.history, app'.history, Len(b.history), AllKinds)
<1> DEFINE us == [i \in DOMAIN batch |-> User(batch[i])]
           h == b.history
           n == Len(h)
           l == Len(batch)
<1>1. /\ h \in Seq(Items) /\ n \in Nat /\ l \in Nat /\ us \in Seq(Items) /\ Len(us) = l
      /\ \A k \in 1 .. l : us[k] = User(batch[k])
    BY UserItems DEF Apps
<1>2. app'.history = h \o us
    OBVIOUS
<1>3. n = 0 \/ Closed(h[n])
    BY <1>1 DEF EndsOnALine
<1> HIDE DEF us, h, n
<1>4. /\ app'.history \in Seq(Items) /\ Len(app'.history) = Len(h) + l
      /\ \A i \in 1 .. Len(h) + Len(us) :
            app'.history[i] = IF i <= Len(h) THEN h[i] ELSE us[i - Len(h)]
  <2>1. /\ h \o us \in Seq(Items) /\ Len(h \o us) = Len(h) + Len(us)
        /\ \A i \in 1 .. Len(h) + Len(us) :
              (h \o us)[i] = IF i <= Len(h) THEN h[i] ELSE us[i - Len(h)]
    <3>1. h \in Seq(Items) /\ us \in Seq(Items)
        BY <1>1
    <3>2. QED
        BY ONLY <3>1, ConcatProperties
  <2>2. QED
    BY <1>1, <1>2, <2>1
<1>5. worker'.base = n /\ worker'.batch = batch /\ worker'.pc = "opening"
  <2>1. Len(app'.history) - Len(batch) = n
    BY <1>1, <1>4 DEF n, l
  <2>2. QED
    BY <2>1 DEF ReplyWorker, NoWorker
<1>6. n <= Len(app'.history) /\ (n = 0 \/ Closed(app'.history[n]))
  <2>1. n # 0 => n \in 1 .. Len(h) + Len(us) /\ n <= Len(h)
    BY <1>1 DEF n
  <2>2. QED
    BY <1>1, <1>3, <1>4, <2>1 DEF n
<1>7. ASSUME NEW k \in 1 .. l PROVE app'.history[n + k] = User(batch[k])
  <2>1. n + k \in 1 .. Len(h) + Len(us) /\ ~(n + k <= Len(h)) /\ (n + k) - Len(h) = k
    BY <1>1 DEF n
  <2>2. QED
    BY <1>1, <1>4, <2>1
<1>8. n + l <= Len(app'.history) /\ \A i \in n + l + 1 .. Len(app'.history) : FALSE
    BY <1>1, <1>4 DEF n
<1>9. \A i \in DOMAIN chan' : FALSE
    OBVIOUS
<1> HIDE DEF l
<1>10. Grounded'
    BY <1>5, <1>6 DEF Grounded
<1>11. Submitted'
    BY <1>5, <1>7, <1>8 DEF Submitted, Since, l
<1>12. CommandOnly'
    BY DEF CommandOnly
<1>13. NotesAlone'
    BY <1>5, <1>8, <1>9 DEF NotesAlone, Since, l
<1>14. ~Idle'
    BY DEF Idle
<1>15. Reworks(h, h \o us, n, AllKinds)
  <2>1. n \in 0 .. Len(h)
    BY <1>1 DEF n
  <2>2. \A i \in 1 .. Len(us) : us[i][1] \in AllKinds
    BY <1>1, ItemKinds DEF AllKinds
  <2>3. QED
    BY <1>1, <2>1, <2>2, ReworkJoin
<1>16. QED
    BY <1>2, <1>10, <1>11, <1>12, <1>13, <1>14, <1>15 DEF TurnStands, h, n

LEMMA BatchStands ==
    ASSUME NEW b \in Apps, EndsOnALine(b.history), NEW batch \in Seq(Msgs),
           app' = StartTurn(b, batch).app, worker' = StartTurn(b, batch).worker, chan' = <<>>
    PROVE  TurnStands' /\ Reworks(b.history, app'.history, Len(b.history), AllKinds)
<1> DEFINE r == RecordBatch(b, batch)
<1>1. r \in Apps /\ r.history = b.history \o [i \in DOMAIN batch |-> User(batch[i])]
  <2>1. r \in Apps
    BY RecordBatchType
  <2>2. QED
    BY <2>1 DEF RecordBatch, Apps
<1>2. app' = BeginStream(r) /\ worker' = ReplyWorker(BeginStream(r).history, batch)
    BY DEF StartTurn
<1> HIDE DEF r
<1>3. /\ BeginStream(r).mode = "reply" /\ BeginStream(r).text = Nothing
      /\ BeginStream(r).steeredThisTurn = FALSE /\ BeginStream(r).history = r.history
    BY <1>1 DEF BeginStream, Apps
<1>4. QED
    BY <1>1, <1>2, <1>3, ReplyStands

LEMMA BackgroundStands ==
    ASSUME NEW b \in Apps, EndsOnALine(b.history),
           app' = StartBackgroundTurn(b).app, worker' = StartBackgroundTurn(b).worker,
           chan' = <<>>
    PROVE  TurnStands' /\ Reworks(b.history, app'.history, Len(b.history), AllKinds)
<1> DEFINE batch == <<>>
           us == [i \in DOMAIN batch |-> User(batch[i])]
<1>1. batch \in Seq(Msgs) /\ us \in Seq(Items) /\ Len(us) = 0
  <2>1. batch \in Seq(Msgs) /\ Len(batch) = 0
    OBVIOUS
  <2> HIDE DEF batch
  <2>2. us \in Seq(Items) /\ Len(us) = Len(batch)
    BY <2>1, UserItems
  <2>3. QED
    BY <2>1, <2>2
<1> HIDE DEF us
<1>2. us = <<>>
    BY <1>1, EmptySeq
<1>3. b.history \in Seq(Items)
    BY DEF Apps
<1>4. b.history \o us = b.history
    BY <1>2, <1>3
<1>5. app' = BeginStream(b) /\ worker' = ReplyWorker(b.history, batch)
    BY DEF StartBackgroundTurn
<1>6. /\ BeginStream(b).mode = "reply" /\ BeginStream(b).text = Nothing
      /\ BeginStream(b).steeredThisTurn = FALSE /\ BeginStream(b).history = b.history
    BY DEF BeginStream, Apps
<1> HIDE DEF batch
<1>7. app'.history = b.history \o [i \in DOMAIN batch |-> User(batch[i])]
    BY <1>4, <1>5, <1>6 DEF us
<1>8. QED
    BY <1>1, <1>5, <1>6, <1>7, ReplyStands

LEMMA CommandStands ==
    ASSUME NEW b \in Apps, EndsOnALine(b.history), NEW cmd \in Shells,
           app' = RunShell(b, cmd).app, worker' = RunShell(b, cmd).worker, chan' = <<>>
    PROVE  TurnStands' /\ Reworks(b.history, app'.history, Len(b.history), AllKinds)
<1> DEFINE h == b.history
           n == Len(h)
           p == Push(b, Shell(cmd))
<1>1. h \in Seq(Items) /\ n \in Nat
    BY DEF Apps
<1>2. /\ p \in Apps /\ p.history = Append(h, Shell(cmd)) /\ Shell(cmd) \in Items
      /\ Closed(Shell(cmd)) /\ Reworks(h, p.history, n, AllKinds)
  <2>1. Shell(cmd) \in Items /\ Closed(Shell(cmd)) /\ Shell(cmd)[1] \in AllKinds
    BY ItemTypes, ItemKinds, ClosedItems DEF AllKinds
  <2>2. n \in 0 .. Len(b.history)
    BY <1>1
  <2>3. p \in Apps /\ Reworks(h, p.history, n, AllKinds)
    BY <2>1, <2>2, PushType, PushReworks
  <2>4. p.history = Append(h, Shell(cmd))
    BY DEF Push, Apps
  <2>5. QED
    BY <2>1, <2>3, <2>4
<1>3. n = 0 \/ Closed(h[n])
    BY <1>1 DEF EndsOnALine
<1>4. /\ app' = BeginShell(b, cmd) /\ worker' = ShellWorker(BeginShell(b, cmd).history)
    BY DEF RunShell
<1> HIDE DEF h, n, p
<1>5. /\ BeginShell(b, cmd).mode = "shell" /\ BeginShell(b, cmd).text = Nothing
      /\ BeginShell(b, cmd).thought = FALSE /\ BeginShell(b, cmd).history = p.history
    BY <1>2 DEF BeginShell, p, Apps
<1>6. /\ Len(p.history) = n + 1 /\ \A i \in 1 .. n : p.history[i] = h[i]
      /\ p.history[n + 1] = Shell(cmd)
  <2>1. /\ Len(Append(h, Shell(cmd))) = Len(h) + 1
        /\ \A i \in 1 .. Len(h) : Append(h, Shell(cmd))[i] = h[i]
        /\ Append(h, Shell(cmd))[Len(h) + 1] = Shell(cmd)
    BY <1>1, <1>2, AppendProperties
  <2>2. QED
    BY <1>2, <2>1 DEF n
<1>7. worker'.base = n /\ worker'.pc = "running"
  <2>1. Len(p.history) - 1 = n
    BY <1>1, <1>6
  <2>2. QED
    BY <1>4, <1>5, <2>1 DEF ShellWorker, NoWorker
<1>8. \A i \in DOMAIN chan' : FALSE
    OBVIOUS
<1>9. Grounded'
  <2>1. n = 0 \/ n \in 1 .. n
    BY <1>1
  <2>2. QED
    BY <1>1, <1>3, <1>4, <1>5, <1>6, <1>7, <2>1 DEF Grounded
<1>10. CommandOnly'
  <2>1. \A i \in n + 1 .. n + 1 : p.history[i] = Shell(cmd)
    BY <1>1, <1>6
  <2>2. n < n + 1
    BY <1>1
  <2>3. QED
    BY <1>2, <1>4, <1>5, <1>6, <1>7, <1>8, <2>1, <2>2 DEF CommandOnly
<1>11. Submitted' /\ NotesAlone' /\ ~Idle'
    BY <1>4, <1>5, <1>7, <1>8 DEF Submitted, NotesAlone, Unopened, Idle
<1>12. QED
    BY <1>2, <1>4, <1>5, <1>9, <1>10, <1>11 DEF TurnStands, h, n

\* Whatever a turn that ended on a line dispatches begins on that record.
LEMMA DispatchStands ==
    ASSUME NEW a \in Apps, a.mode = "idle", EndsOnALine(a.history), NEW unheard,
           DispatchAfterTurn(a, unheard), chan' = <<>>, NEW n \in 0 .. Len(a.history)
    PROVE  TurnStands' /\ Reworks(a.history, app'.history, n, AllKinds)
<1> DEFINE s == SettleHeld(a)
           b == ReclaimSteered(s)
           c == [b EXCEPT !.queued = Tail(@)]
           next == Head(b.queued)
           h == a.history
<1>1. /\ s \in Apps /\ EndsOnALine(s.history) /\ Reworks(h, s.history, n, AllKinds)
      /\ s.mode = "idle"
    BY SettleHeldType, HeldLine, HeldReworks, ModeFrame DEF AllKinds
<1>2. h \in Seq(Items) /\ n \in Nat
    BY DEF Apps
<1> HIDE DEF s, h
<1>3. b \in Apps /\ b.history = s.history /\ b.mode = "idle"
  <2>1. b \in Apps
    BY <1>1, ReclaimSteeredType
  <2>2. QED
    BY <1>1, <2>1 DEF ReclaimSteered, Apps
<1>4. app' = NextTurn(unheard, b).app /\ worker' = NextTurn(unheard, b).worker
    BY DEF DispatchAfterTurn, Launch, AfterTurn, b, s
<1> HIDE DEF b
<1>5. b.history \in Seq(Items) /\ n \in 0 .. Len(b.history)
    BY <1>1, <1>2, <1>3 DEF Reworks, Apps
<1>6. ASSUME TurnStands', Reworks(b.history, app'.history, Len(b.history), AllKinds),
             app'.history \in Seq(Items)
      PROVE  TurnStands' /\ Reworks(h, app'.history, n, AllKinds)
  <2>1. Reworks(b.history, app'.history, n, AllKinds)
    BY <1>5, <1>6, ReworkLess
  <2>2. QED
    BY <1>1, <1>2, <1>3, <1>5, <1>6, <2>1, ReworkThen
<1>7. app'.history \in Seq(Items)
    BY DispatchType DEF Apps
<1>8. CASE b.queued # <<>>
  <2>1. next \in Entries /\ Tail(b.queued) \in Seq(Entries)
    BY <1>3, <1>8 DEF Apps
  <2>2. c \in Apps /\ c.history = b.history
    BY <1>3, <2>1 DEF Apps
  <2> HIDE DEF c
  <2>3. CASE next.shell
    <3>1. next.texts \in Seq(Shells) /\ next.texts # <<>>
        BY <2>1, <2>3 DEF Entries
    <3>2. next.texts[1] \in Shells
        BY <3>1
    <3>3. NextTurn(unheard, b) = RunShell(c, next.texts[1])
        BY <1>8, <2>3 DEF NextTurn, c
    <3>4. QED
        BY <1>1, <1>3, <1>4, <1>6, <1>7, <2>2, <3>2, <3>3, CommandStands DEF h
  <2>4. CASE ~next.shell
    <3>1. next.texts \in Seq(Msgs)
        BY <2>1, <2>4 DEF Entries
    <3>2. NextTurn(unheard, b) = StartTurn(c, next.texts)
        BY <1>8, <2>4 DEF NextTurn, c
    <3>3. QED
        BY <1>1, <1>3, <1>4, <1>6, <1>7, <2>2, <3>1, <3>2, BatchStands DEF h
  <2>5. QED
    BY <2>3, <2>4
<1>9. CASE b.queued = <<>>
  <2>1. CASE NextTurn(unheard, b) = StartBackgroundTurn(b)
    BY <1>1, <1>3, <1>4, <1>6, <1>7, <2>1, BackgroundStands DEF h
  <2>2. CASE NextTurn(unheard, b) = Rest(b)
    <3>1. app' = b
        BY <1>4, <2>2 DEF Rest
    <3>2. TurnStands'
        BY <1>1, <1>3, <3>1 DEF TurnStands, Idle
    <3>3. QED
        BY <1>1, <1>3, <3>1, <3>2 DEF h
  <2>3. QED
    BY <1>9, <2>1, <2>2 DEF NextTurn
<1>10. QED
    BY <1>8, <1>9

-----------------------------------------------------------------------------
(* Step by step.                                                           *)

\* A step adds to what stands, or hands the submission back to the user.
AddsOn == Reworks(app.history, app'.history, Standing, AllKinds)
HandsBack(left, back) ==
    /\ left \in Seq(Items) /\ TakesBack(left, back)
    /\ Reworks(left, app'.history, worker.base, AllKinds)
    /\ back \subseteq Recorded(app, IsDraft)
    /\ back # {} => Restore(back)
Proceeds == ~Idle /\ \E left, back : HandsBack(left, back)

LEMMA StandingFits ==
    ASSUME TypeOK, TurnStands
    PROVE  /\ app.history \in Seq(Items) /\ Standing \in 0 .. Len(app.history)
           /\ (~Idle => worker.base \in 0 .. Len(app.history))
<1>1. app \in Apps /\ worker \in Workers
    BY DEF TypeOK
<1>2. app.history \in Seq(Items) /\ worker.base \in Nat
    BY <1>1 DEF Apps, Workers
<1>3. QED
    BY <1>2 DEF Standing, TurnStands, Grounded

\* The record, the turn and its channel as they were.
LEMMA NothingMoved ==
    ASSUME TypeOK, TurnStands, UNCHANGED <<worker, chan>>,
           app'.history = app.history, app'.mode = app.mode, app'.text = app.text,
           app'.thought = app.thought, app'.steeredThisTurn = app.steeredThisTurn
    PROVE  TurnStands' /\ AddsOn
<1>1. TurnStands'
    BY DEF TurnStands, Idle, Grounded, Submitted, CommandOnly, NotesAlone, Unopened, Since
<1>2. AddsOn
    BY StandingFits, ReworkSame DEF AddsOn
<1>3. QED
    BY <1>1, <1>2

LEMMA QueueDraftStill ==
    ASSUME NEW a \in Apps, NEW d, NEW newBatch
    PROVE  LET b == QueueDraft(a, d, newBatch)
           IN  /\ b.history = a.history /\ b.mode = a.mode /\ b.text = a.text
               /\ b.thought = a.thought /\ b.steeredThisTurn = a.steeredThisTurn
BY DEF QueueDraft, Apps

LEMMA WaitingStands ==
    ASSUME TypeOK, TurnStands,
           \/ \E d \in Drafts : Enter(d) \/ QueueFollowUp(d)
           \/ RecallLastQueued
           \/ RecallSteered
    PROVE  TurnStands' /\ AddsOn
<1>1. app \in Apps
    BY DEF TypeOK
<1>2. CASE \E d \in Drafts : Enter(d)
  <2>1. PICK d \in Drafts : Enter(d)
    BY <1>2
  <2>2. UNCHANGED <<worker, chan>>
    BY <2>1 DEF Enter
  <2>3. CASE app' = [app EXCEPT !.steered = Append(@, d)]
    <3>1. /\ app'.history = app.history /\ app'.mode = app.mode /\ app'.text = app.text
          /\ app'.thought = app.thought /\ app'.steeredThisTurn = app.steeredThisTurn
        BY <1>1, <2>3 DEF Apps
    <3>2. QED
        BY <2>2, <3>1, NothingMoved
  <2>4. CASE app' = QueueDraft(app, d, FALSE)
    <3>1. /\ app'.history = app.history /\ app'.mode = app.mode /\ app'.text = app.text
          /\ app'.thought = app.thought /\ app'.steeredThisTurn = app.steeredThisTurn
      <4> DEFINE q == QueueDraft(app, d, FALSE)
      <4>1. /\ q.history = app.history /\ q.mode = app.mode /\ q.text = app.text
            /\ q.thought = app.thought /\ q.steeredThisTurn = app.steeredThisTurn
        BY <1>1, QueueDraftStill
      <4> HIDE DEF q
      <4>2. QED
        BY <2>4, <4>1 DEF q
    <3>2. QED
        BY <2>2, <3>1, NothingMoved
  <2>5. QED
    BY <2>1, <2>3, <2>4 DEF Enter
<1>3. CASE \E d \in Drafts : QueueFollowUp(d)
  <2>1. PICK d \in Drafts : QueueFollowUp(d)
    BY <1>3
  <2>2. UNCHANGED <<worker, chan>> /\ app' = QueueDraft(app, d, TRUE)
    BY <2>1 DEF QueueFollowUp
  <2>3. /\ app'.history = app.history /\ app'.mode = app.mode /\ app'.text = app.text
        /\ app'.thought = app.thought /\ app'.steeredThisTurn = app.steeredThisTurn
    BY <1>1, <2>2, QueueDraftStill
  <2>4. QED
    BY <2>2, <2>3, NothingMoved
<1>4. CASE RecallLastQueued
  <2>1. UNCHANGED <<worker, chan>>
    BY <1>4 DEF RecallLastQueued
  <2>2. /\ app'.history = app.history /\ app'.mode = app.mode /\ app'.text = app.text
        /\ app'.thought = app.thought /\ app'.steeredThisTurn = app.steeredThisTurn
    BY <1>1, <1>4 DEF RecallLastQueued, Apps
  <2>3. QED
    BY <2>1, <2>2, NothingMoved
<1>5. CASE RecallSteered
  <2>1. UNCHANGED <<worker, chan>>
    BY <1>5 DEF RecallSteered
  <2>2. /\ app'.history = app.history /\ app'.mode = app.mode /\ app'.text = app.text
        /\ app'.thought = app.thought /\ app'.steeredThisTurn = app.steeredThisTurn
    BY <1>1, <1>5 DEF RecallSteered, Apps
  <2>3. QED
    BY <2>1, <2>2, NothingMoved
<1>6. QED
    BY <1>2, <1>3, <1>4, <1>5

LEMMA SubmitStands ==
    ASSUME TurnEnds, TurnStands, NEW d \in Drafts, Submit(d)
    PROVE  TurnStands' /\ AddsOn
<1>1. /\ app \in Apps /\ chan' = <<>> /\ EndsOnALine(app.history) /\ Idle
    BY DEF TurnEnds, TypeOK, NothingWaitsAtRest, Submit, TurnStands
<1>2. Standing = Len(app.history)
    BY <1>1 DEF Standing
<1>3. CASE d \in Msgs
  <2>1. app' = StartTurn(app, <<d>>).app /\ worker' = StartTurn(app, <<d>>).worker
    BY <1>3 DEF Submit, Launch
  <2>2. <<d>> \in Seq(Msgs)
    BY <1>3
  <2>3. QED
    BY <1>1, <1>2, <2>1, <2>2, BatchStands DEF AddsOn
<1>4. CASE d \notin Msgs
  <2>1. app' = RunShell(app, d).app /\ worker' = RunShell(app, d).worker /\ d \in Shells
    BY <1>4 DEF Submit, Launch, Drafts
  <2>2. QED
    BY <1>1, <1>2, <2>1, CommandStands DEF AddsOn
<1>5. QED
    BY <1>3, <1>4

LEMMA CompactStands ==
    ASSUME TurnEnds, TurnStands, StartCompactTurn
    PROVE  TurnStands' /\ AddsOn
<1>1. /\ app \in Apps /\ chan' = <<>> /\ EndsOnALine(app.history) /\ Idle
    BY DEF TurnEnds, TypeOK, NothingWaitsAtRest, StartCompactTurn, TurnStands
<1>2. app' = BeginCompact(app) /\ worker' = CompactWorker(app.history)
    BY DEF StartCompactTurn, Launch
<1>3. /\ app'.mode = "compact" /\ app'.history = app.history
      /\ worker'.base = Len(app.history) /\ worker'.pc = "round"
    BY <1>1, <1>2 DEF BeginCompact, CompactWorker, NoWorker, Apps
<1>4. \A i \in DOMAIN chan' : FALSE
    BY <1>1
<1>5. app.history \in Seq(Items)
    BY <1>1 DEF Apps
<1>6. Grounded'
    BY <1>1, <1>3, <1>5 DEF Grounded, EndsOnALine
<1>7. Submitted' /\ CommandOnly' /\ NotesAlone' /\ ~Idle'
    BY <1>3, <1>4 DEF Submitted, CommandOnly, NotesAlone, Unopened, Idle
<1>8. AddsOn
    BY <1>1, <1>3, <1>5, ReworkSame DEF AddsOn, Standing
<1>9. QED
    BY <1>6, <1>7, <1>8 DEF TurnStands

LEMMA ClearStands ==
    ASSUME TypeOK, ClearConversation
    PROVE  TurnStands' /\ clears' # clears
<1>1. app'.mode = "idle" /\ app'.history = <<>>
    BY DEF ClearConversation, NewApp
<1>2. clears' # clears
    BY DEF TypeOK, ClearConversation
<1>3. QED
    BY <1>1, <1>2 DEF TurnStands, Idle, EndsOnALine

LEMMA PostStands ==
    ASSUME TurnEnds, TurnStands, NEW m \in Notices, PostNotice(m)
    PROVE  TurnStands' /\ AddsOn
<1> DEFINE a == [app EXCEPT !.held = Append(@, m)]
<1>1. TypeOK /\ app \in Apps /\ app.held \in Seq(Notices) /\ app.history \in Seq(Items)
    BY DEF TurnEnds, TypeOK, Apps
<1>2. Append(app.held, m) \in Seq(Notices)
    BY <1>1
<1>3. /\ a \in Apps /\ a.history = app.history /\ a.mode = app.mode /\ a.text = app.text
      /\ a.thought = app.thought /\ a.steeredThisTurn = app.steeredThisTurn
    BY <1>1, <1>2 DEF Apps
<1> HIDE DEF a
<1>4. CASE Idle
  <2>1. chan' = <<>> /\ EndsOnALine(app.history) /\ Standing = Len(app.history)
    BY <1>4 DEF TurnEnds, NothingWaitsAtRest, PostNotice, TurnStands, Standing
  <2>2. DispatchAfterTurn(a, Append(board, m))
    BY <1>4 DEF PostNotice, a
  <2>3. Standing \in 0 .. Len(a.history) /\ a.mode = "idle" /\ EndsOnALine(a.history)
    BY <1>1, <1>3, <1>4, <2>1 DEF Idle
  <2>4. TurnStands' /\ Reworks(a.history, app'.history, Standing, AllKinds)
    BY <1>3, <2>1, <2>2, <2>3, DispatchStands
  <2>5. QED
    BY <1>3, <2>4 DEF AddsOn
<1>5. CASE ~Idle
  <2>1. app' = a /\ UNCHANGED <<worker, chan>>
    BY <1>5 DEF PostNotice, a
  <2>2. QED
    BY <1>1, <1>3, <2>1, NothingMoved
<1>6. QED
    BY <1>4, <1>5

\* Whatever is handed back, the dispatch that follows begins on what is left.
LEMMA HandedBack ==
    ASSUME TypeOK, NEW a \in Apps, a.mode = "idle", NEW back, TakesBack(a.history, back),
           back \subseteq Recorded(app, IsDraft), back # {} => Restore(back),
           DispatchAfterTurn(a, board), chan' = <<>>, ~Idle
    PROVE  TurnStands' /\ Proceeds
<1>1. a.history \in Seq(Items) /\ EndsOnALine(a.history)
      /\ worker.base \in Nat /\ worker.base <= Len(a.history)
    BY DEF TakesBack, Apps
<1>2. worker.base \in 0 .. Len(a.history)
    BY <1>1
<1>3. TurnStands' /\ Reworks(a.history, app'.history, worker.base, AllKinds)
    BY <1>1, <1>2, DispatchStands
<1>4. HandsBack(a.history, back)
    BY <1>1, <1>3 DEF HandsBack
<1>5. QED
    BY <1>3, <1>4 DEF Proceeds

\* Where a turn ended on a line without cutting what stood before it.
LEMMA EndedOnALine ==
    ASSUME TypeOK, TurnStands, ~Idle, NEW a \in Apps, a.mode = "idle", EndsOnALine(a.history),
           Reworks(app.history, a.history, Standing, AllKinds),
           DispatchAfterTurn(a, board), chan' = <<>>
    PROVE  TurnStands' /\ AddsOn
<1>1. /\ app.history \in Seq(Items) /\ Standing \in 0 .. Len(app.history)
      /\ a.history \in Seq(Items)
    BY StandingFits DEF Apps
<1>2. Standing \in 0 .. Len(a.history)
    BY <1>1 DEF Reworks
<1>3. TurnStands' /\ Reworks(a.history, app'.history, Standing, AllKinds)
    BY <1>2, DispatchStands
<1>4. app'.history \in Seq(Items)
    BY DispatchType DEF Apps
<1>5. QED
    BY <1>1, <1>2, <1>3, <1>4, ReworkThen DEF AddsOn

\* A command's turn ends on a line.
LEMMA CommandLine ==
    ASSUME TypeOK, TurnStands, app.mode = "shell"
    PROVE  EndsOnALine(app.history) /\ app.text = Nothing /\ ~app.thought
<1>1. app.history \in Seq(Items) /\ worker.base \in 0 .. Len(app.history)
    BY StandingFits DEF Idle
<1>2. CommandOnly
    BY DEF TurnStands, Idle
<1>3. Len(app.history) \in worker.base + 1 .. Len(app.history)
    BY <1>1, <1>2 DEF CommandOnly
<1>4. QED
    BY <1>2, <1>3 DEF CommandOnly, EndsOnALine

\* The user messages a history ends with are on it.
LEMMA TailItems ==
    ASSUME NEW s \in Seq(Items)
    PROVE  /\ \A x \in Range(After(s, 0, IsUser)) : \E i \in 1 .. Len(s) : x = s[i] /\ IsUser(x)
           /\ s # <<>> /\ IsUser(s[Len(s)]) => After(s, 0, IsUser) # <<>>
<1> DEFINE t == TailStart(s, 0, IsUser)
<1>1. /\ t \in 0 .. Len(s) /\ \A j \in (t + 1) .. Len(s) : IsUser(s[j])
      /\ t = 0 \/ ~IsUser(s[t])
    BY UserTail
<1>2. After(s, 0, IsUser) = SubSeq(s, t + 1, Len(s)) /\ Len(s) \in Nat
    BY DEF After
<1> HIDE DEF t
<1>3. /\ DOMAIN SubSeq(s, t + 1, Len(s)) = 1 .. Len(s) - t
      /\ \A i \in 1 .. Len(s) - t : /\ SubSeq(s, t + 1, Len(s))[i] = s[t + i]
                                    /\ t + i \in (t + 1) .. Len(s) /\ t + i \in 1 .. Len(s)
    BY <1>1, <1>2
<1>4. ASSUME NEW x \in Range(After(s, 0, IsUser))
      PROVE  \E i \in 1 .. Len(s) : x = s[i] /\ IsUser(x)
  <2>1. PICK i \in 1 .. Len(s) - t : x = SubSeq(s, t + 1, Len(s))[i]
    BY <1>2, <1>3, <1>4 DEF Range
  <2>2. x = s[t + i] /\ t + i \in 1 .. Len(s) /\ IsUser(s[t + i])
    BY <1>1, <1>3, <2>1
  <2>3. QED
    BY <2>2
<1>5. ASSUME s # <<>>, IsUser(s[Len(s)]) PROVE After(s, 0, IsUser) # <<>>
  <2>1. Len(s) # 0
    BY <1>5
  <2>2. t # Len(s)
    BY <1>1, <1>5, <2>1
  <2>3. 1 \in 1 .. Len(s) - t
    BY <1>1, <1>2, <2>2
  <2>4. DOMAIN SubSeq(s, t + 1, Len(s)) # {}
    BY <1>3, <2>3
  <2>5. DOMAIN <<>> = {}
    OBVIOUS
  <2>6. QED
    BY <1>2, <2>4, <2>5
<1>6. QED
    BY <1>4, <1>5

\* What a step hands back is on the record; there is something to undo, and something
\* to hand back of a blocked prompt that left messages.
LEMMA BackIsRecorded ==
    ASSUME NEW a \in Apps
    PROVE  LET undone == {item[2] : item \in Range(Undone(a))}
               blocked == {item[2] : item \in Range(BlockedMsgs(a))}
           IN  /\ undone \subseteq Recorded(a, IsDraft)
               /\ blocked \subseteq Recorded(a, IsDraft)
               /\ Undoable(a) => undone # {}
               /\ BlockedMsgs(a) # <<>> => blocked # {}
<1> DEFINE h == a.history
           under == Before(h, 0, IsHook)
           notes == After(h, 0, IsHook)
<1>1. h \in Seq(Items) /\ DOMAIN h = 1 .. Len(h)
    BY DEF Apps
<1>2. under \in Seq(Items) /\ Len(under) \in 0 .. Len(h)
      /\ \A i \in 1 .. Len(under) : under[i] = h[i]
  <2> DEFINE t == TailStart(h, 0, IsHook)
  <2>1. t \in 0 .. Len(h)
    BY <1>1, HookTail
  <2>2. under = SubSeq(h, 1, t)
    BY DEF Before
  <2> HIDE DEF t, h
  <2>3. QED
    BY <1>1, <2>1, <2>2
<1>3. Undone(a) = After(h, 0, IsUser) /\ BlockedMsgs(a) = After(under, 0, IsUser)
    BY DEF Undone, BlockedMsgs
<1>4. \A i \in 1 .. Len(h) : IsUser(h[i]) => h[i][2] \in Recorded(a, IsDraft)
    BY <1>1 DEF Recorded, IsUser, IsDraft
<1> HIDE DEF under
<1>5. ASSUME NEW item \in Range(Undone(a)) PROVE item[2] \in Recorded(a, IsDraft)
  <2>1. PICK i \in 1 .. Len(h) : item = h[i] /\ IsUser(item)
    BY <1>1, <1>3, <1>5, TailItems
  <2>2. QED
    BY <1>4, <2>1
<1>6. ASSUME NEW item \in Range(BlockedMsgs(a)) PROVE item[2] \in Recorded(a, IsDraft)
  <2>1. PICK i \in 1 .. Len(under) : item = under[i] /\ IsUser(item)
    BY <1>2, <1>3, <1>6, TailItems
  <2>2. i \in 1 .. Len(h) /\ item = h[i]
    BY <1>1, <1>2, <2>1
  <2>3. QED
    BY <1>4, <2>1, <2>2
<1>7. ASSUME NEW q \in Seq(Items), q # <<>> PROVE {item[2] : item \in Range(q)} # {}
  <2>1. Len(q) # 0 /\ DOMAIN q = 1 .. Len(q) /\ Len(q) \in Nat
    BY <1>7
  <2>2. 1 \in DOMAIN q
    BY <2>1
  <2>3. q[1] \in Range(q)
    BY <2>2 DEF Range
  <2>4. q[1][2] \in {item[2] : item \in Range(q)}
    BY <2>3
  <2>5. QED
    BY <2>4
<1>8. ASSUME Undoable(a) PROVE {item[2] : item \in Range(Undone(a))} # {}
  <2>1. h # <<>> /\ IsUser(h[Len(h)])
    BY <1>8 DEF Undoable, Last
  <2>2. Undone(a) # <<>> /\ Undone(a) \in Seq(Items)
    BY <1>1, <1>3, <2>1, TailItems, UserTail
  <2>3. QED
    BY <1>7, <2>2
<1>9. ASSUME BlockedMsgs(a) # <<>> PROVE {item[2] : item \in Range(BlockedMsgs(a))} # {}
  <2>1. BlockedMsgs(a) \in Seq(Items)
    BY <1>2, <1>3, UserTail
  <2>2. QED
    BY <1>7, <1>9, <2>1
<1>10. QED
    BY <1>5, <1>6, <1>8, <1>9

\* A turn that can be undone has no thinking phase to settle first.
LEMMA UndoableAsItIs ==
    ASSUME app \in Apps, Undoable(SettleReasoning(app))
    PROVE  SettleReasoning(app) = app
<1> DEFINE a == SettleReasoning(app)
<1>1. app \in Apps
    OBVIOUS
<1>7. app.thought => a.history # <<>> /\ ~IsUser(Last(a.history))
  <2> SUFFICES ASSUME app.thought PROVE a.history # <<>> /\ ~IsUser(Last(a.history))
    OBVIOUS
  <2> DEFINE f == FlushSegment(app)
  <2>1. f \in Apps /\ f.history \in Seq(Items)
    BY <1>1, FlushSegmentType DEF Apps
  <2>2. a.history = Append(f.history, Reasoning)
    BY <2>1 DEF SettleReasoning, Push, Apps
  <2> HIDE DEF f, a
  <2>3. Len(a.history) = Len(f.history) + 1 /\ a.history[Len(f.history) + 1] = Reasoning
    BY <2>1, <2>2, AppendProperties, ItemTypes
  <2>4. Len(a.history) # 0
    BY <2>1, <2>3
  <2>5. QED
    BY <2>3, <2>4 DEF Last, IsUser, Reasoning
<1>8. ~app.thought
    BY <1>7 DEF Undoable
<1>9. QED
    BY <1>8 DEF SettleReasoning

LEMMA InterruptStands ==
    ASSUME TypeOK, TurnStands, Interrupt
    PROVE  TurnStands' /\ (AddsOn \/ Proceeds)
<1> DEFINE a == SettleReasoning(app)
<1>1. app \in Apps /\ ~Idle /\ chan' = <<>>
    BY DEF TypeOK, Interrupt, AbandonInflight
<1>2. a \in Apps /\ a.mode = app.mode
    BY <1>1, SettleReasoningType, SettleReasoningFrame
<1>3. /\ app.history \in Seq(Items) /\ Standing \in 0 .. Len(app.history)
      /\ Standing = worker.base
    BY <1>1, StandingFits DEF Standing
<1>4. Reworks(app.history, a.history, Standing, AllKinds)
    BY <1>1, <1>3, ReasoningReworks DEF AllKinds
<1>5. \/ /\ Undoable(a) /\ Restore({item[2] : item \in Range(Undone(a))})
         /\ DispatchAfterTurn(Undo(a), board)
      \/ DispatchAfterTurn(Keep(a), board)
    BY DEF Interrupt
<1>6. app.mode = "shell" => a = app
    BY CommandLine DEF SettleReasoning
<1>8. CASE Undoable(a) /\ Restore({item[2] : item \in Range(Undone(a))})
           /\ DispatchAfterTurn(Undo(a), board)
  <2>2. a = app
    BY <1>1, <1>8, UndoableAsItIs
  <2>3. Undo(app) \in Apps /\ Undo(app).mode = "idle"
    BY <1>1, UndoType, InterruptedIsIdle
  <2> DEFINE back == {item[2] : item \in Range(Undone(app))}
  <2>4. TakesBack(Undo(app).history, back)
    BY <1>1, <1>8, <2>2, UndoStands
  <2>5. Restore(back) /\ DispatchAfterTurn(Undo(app), board)
    BY <1>8, <2>2
  <2>6. back \subseteq Recorded(app, IsDraft)
    BY <1>1, BackIsRecorded
  <2> HIDE DEF back, a
  <2>7. QED
    BY <1>1, <2>3, <2>4, <2>5, <2>6, HandedBack
<1>9. CASE DispatchAfterTurn(Keep(a), board)
  <2> HIDE DEF a
  <2>1. a.mode = "shell" => a.text = Nothing /\ EndsOnALine(a.history)
    BY <1>2, <1>6, CommandLine
  <2>2. a.history \in Seq(Items) /\ Standing \in 0 .. Len(a.history)
    BY <1>2, <1>3, <1>4 DEF Reworks, Apps
  <2>3. /\ Reworks(a.history, Keep(a).history, Standing, AllKinds)
        /\ EndsOnALine(Keep(a).history)
    BY <1>2, <2>1, <2>2, KeepStands
  <2>4. Keep(a) \in Apps /\ Keep(a).mode = "idle"
    BY <1>2, KeepType, InterruptedIsIdle
  <2>5. Keep(a).history \in Seq(Items)
    BY <2>4 DEF Apps
  <2>6. Reworks(app.history, Keep(a).history, Standing, AllKinds)
    BY <1>3, <1>4, <2>2, <2>3, <2>5, ReworkThen
  <2>7. TurnStands' /\ AddsOn
    BY <1>1, <1>9, <2>3, <2>4, <2>6, EndedOnALine
  <2>8. QED
    BY <2>7
<1>10. QED
    BY <1>5, <1>8, <1>9

\* The loop reads the turn's end.
LEMMA EndStands ==
    ASSUME TurnEnds, TurnStands, OnReplyEvent, Head(chan)[1] \in Terminal
    PROVE  TurnStands' /\ (AddsOn \/ Proceeds)
<1> DEFINE e == Head(chan)
           a == TrackAttempt(app, e)
           back == {item[2] : item \in Range(BlockedMsgs(app))}
<1>1. TypeOK /\ app \in Apps /\ chan \in Seq(Events) /\ chan # <<>> /\ chan' = Tail(chan)
    BY DEF TurnEnds, TypeOK, OnReplyEvent
<1>2. ~Idle
    BY <1>1 DEF TurnEnds, NothingWaitsAtRest
<1>3. chan' = <<>> /\ 1 \in DOMAIN chan /\ chan[1] = e
  <2>1. 1 \in DOMAIN chan /\ chan[1] = e /\ Len(chan) \in Nat
    BY <1>1
  <2>2. Len(chan) = 1
    BY <2>1 DEF TurnEnds, NoTurnIsStranded
  <2>3. QED
    BY <1>1, <2>1, <2>2
<1>4. /\ DispatchAfterTurn(Ended(app, e), board)
      /\ e[1] = "PromptBlocked" => (back # {} => Restore(back))
  <2>1. BlockedMsgs(app) = <<>> => back = {}
    BY UnitRange
  <2>2. QED
    BY <2>1 DEF OnReplyEvent
<1>5. /\ a \in Apps /\ a.history = app.history /\ a.text = app.text /\ a.mode = app.mode
    BY <1>1, TrackAttemptType, TrackFrame
<1>6. Ended(app, e) \in Apps /\ Ended(app, e).mode = "idle"
    BY <1>1, EndedType, EndedIsIdle
<1>7. e[1] \in Terminal
    OBVIOUS
<1>8. app.history \in Seq(Items) /\ Standing \in 0 .. Len(app.history)
    BY <1>1, StandingFits
<1> HIDE DEF e, back
<1>9. CASE e[1] = "PromptBlocked"
  <2>1. Ended(app, e) = BlockPrompt(a)
    BY <1>9 DEF Ended
  <2> HIDE DEF a
  <2>2. Unopened
    BY <1>3, <1>9 DEF Unopened
  <2>3. TakesBack(BlockPrompt(a).history, back)
    BY <1>1, <1>2, <1>5, <2>2, BlockStands DEF back
  <2>4. back \subseteq Recorded(app, IsDraft)
    BY <1>1, BackIsRecorded DEF back
  <2>5. QED
    BY <1>1, <1>2, <1>3, <1>4, <1>6, <1>9, <2>1, <2>3, <2>4, HandedBack
<1>10. CASE e[1] = "StreamDone"
  <2>1. Ended(app, e) = OnStreamDone(a)
    BY <1>10 DEF Ended
  <2> HIDE DEF a
  <2>2. a.mode = "shell" => a.text = Nothing /\ EndsOnALine(a.history)
    BY <1>1, <1>5, CommandLine
  <2>3. /\ Reworks(a.history, OnStreamDone(a).history, Standing, AllKinds)
        /\ EndsOnALine(OnStreamDone(a).history)
    BY <1>5, <1>8, <2>2, DoneStands
  <2>4. QED
    BY <1>1, <1>2, <1>3, <1>4, <1>5, <1>6, <2>1, <2>3, EndedOnALine
<1>11. CASE e[1] = "Error"
  <2>1. Ended(app, e) = FailStream(a)
    BY <1>11 DEF Ended
  <2> HIDE DEF a
  <2>2. /\ Reworks(a.history, FailStream(a).history, Standing, AllKinds)
        /\ EndsOnALine(FailStream(a).history)
    BY <1>5, <1>8, FailStands
  <2>3. QED
    BY <1>1, <1>2, <1>3, <1>4, <1>5, <1>6, <2>1, <2>2, EndedOnALine
<1>12. QED
    BY <1>7, <1>9, <1>10, <1>11 DEF Terminal

\* The loop reads any other event.
LEMMA SteeredMarks ==
    ASSUME NEW a0 \in Apps, NEW e \in Events, e[1] = "Steered"
    PROVE  OnStreamEvent(a0, e).steeredThisTurn = TRUE
<1> DEFINE a == TrackAttempt(a0, e)
<1>1. a \in Apps
    BY TrackAttemptType
<1>2. OnStreamEvent(a0, e) = DeliverSteered(a, e[2])
    BY DEF OnStreamEvent
<1> HIDE DEF a
<1>3. FlushSegment(a) \in Apps
    BY <1>1, FlushSegmentType
<1>4. DeliverSteered(a, e[2]).steeredThisTurn = TRUE
    BY <1>3 DEF DeliverSteered, Push, Apps
<1>5. QED
    BY <1>2, <1>4

LEMMA EventStands ==
    ASSUME TurnEnds, TurnStands, OnReplyEvent, Head(chan)[1] \notin Terminal
    PROVE  TurnStands' /\ AddsOn
<1> DEFINE e == Head(chan)
           h == app.history
           g == app'.history
           n == worker.base
           l == Len(worker.batch)
<1>1. TypeOK /\ app \in Apps /\ chan \in Seq(Events) /\ chan # <<>> /\ chan' = Tail(chan)
    BY DEF TurnEnds, TypeOK, OnReplyEvent
<1>2. ~Idle
    BY <1>1 DEF TurnEnds, NothingWaitsAtRest
<1>3. /\ e = chan[1] /\ e \in Events /\ 1 \in DOMAIN chan
      /\ \A i \in DOMAIN chan' : \E j \in DOMAIN chan : chan'[i] = chan[j]
  <2>1. Len(chan) \in Nat /\ Len(chan) >= 1 /\ DOMAIN chan = 1 .. Len(chan)
    BY <1>1
  <2>2. /\ Len(chan') = Len(chan) - 1 /\ DOMAIN chan' = 1 .. Len(chan) - 1
        /\ \A i \in 1 .. Len(chan) - 1 : chan'[i] = chan[i + 1]
    BY <1>1
  <2>3. \A i \in DOMAIN chan' : i + 1 \in DOMAIN chan /\ chan'[i] = chan[i + 1]
    BY <2>1, <2>2
  <2>4. e = chan[1] /\ 1 \in DOMAIN chan /\ chan[1] \in Events
    BY <1>1, <2>1
  <2>5. QED
    BY <2>3, <2>4
<1>4. app' = OnStreamEvent(app, e) /\ worker' = worker
    BY DEF OnReplyEvent
<1>5. e[1] \notin Terminal
    OBVIOUS
<1> HIDE DEF e
<1>6. app' \in Apps /\ app'.mode = app.mode
    BY <1>1, <1>3, <1>4, OnStreamEventType, OnStreamEventFrame
<1>7. /\ h \in Seq(Items) /\ n \in 0 .. Len(h) /\ n \in Nat /\ Len(h) \in Nat
      /\ g \in Seq(Items) /\ Len(g) \in Nat
    BY <1>1, <1>2, <1>6, StandingFits DEF Apps
<1>8. l \in Nat
    BY <1>1 DEF TypeOK, Workers
<1>9. n = 0 \/ Closed(h[n])
    BY <1>2 DEF TurnStands, Grounded
<1>10. Reworks(h, g, n, EventKinds(e))
    BY <1>1, <1>3, <1>4, <1>7, <1>9, EventReworks DEF Closed
<1> HIDE DEF h, g, n, l
<1>11. AddsOn
  <2>1. EventKinds(e) \subseteq AllKinds
    BY DEF EventKinds, AllKinds
  <2>2. Reworks(h, g, n, AllKinds)
    BY <1>10, <2>1 DEF Reworks
  <2>3. Standing = n
    BY <1>2 DEF Standing, n
  <2>4. QED
    BY <2>2, <2>3 DEF AddsOn, h, g
<1>12. n <= Len(g) /\ (n = 0 \/ Closed(g[n]))
  <2>1. n # 0 => n \in 1 .. n
    BY <1>7
  <2>2. \A i \in 1 .. n : g[i] = h[i]
    BY <1>7, <1>10, ReworkStands
  <2>3. QED
    BY <1>9, <1>10, <2>1, <2>2 DEF Reworks
<1>13. Grounded'
    BY <1>4, <1>12 DEF Grounded, g, n
<1>14. Submitted'
  <2> SUFFICES ASSUME app.mode = "reply"
               PROVE  /\ n + l <= Len(g)
                      /\ \A k \in 1 .. l : g[n + k] = User(worker.batch[k])
                      /\ ~app'.steeredThisTurn => \A i \in n + l + 1 .. Len(g) : ~IsUser(g[i])
    BY <1>4, <1>6 DEF Submitted, Since, n, l, g
  <2>1. /\ n + l <= Len(h)
        /\ \A k \in 1 .. l : h[n + k] = User(worker.batch[k])
        /\ ~app.steeredThisTurn => \A i \in n + l + 1 .. Len(h) : ~IsUser(h[i])
    BY <1>2 DEF TurnStands, Submitted, Since, n, l, h
  <2>2. ASSUME NEW k \in 1 .. l PROVE n + k <= Len(g) /\ g[n + k] = User(worker.batch[k])
    <3>1. n + k \in 1 .. Len(h) /\ h[n + k] = User(worker.batch[k])
        BY <1>7, <1>8, <2>1
    <3>2. IsDraft(h[n + k])
        BY <3>1 DEF IsDraft, User
    <3>3. QED
        BY <1>10, <3>1, <3>2 DEF Reworks
  <2>3. n + l <= Len(g)
    <3>1. l = 0 \/ l \in 1 .. l
        BY <1>8
    <3>2. l = 0 => n + l = n
        BY <1>7
    <3>3. QED
        BY <1>12, <2>2, <3>1, <3>2
  <2>4. ASSUME ~app'.steeredThisTurn, NEW i \in n + l + 1 .. Len(g), IsUser(g[i]) PROVE FALSE
    <3>1. e[1] # "Steered"
        BY <1>1, <1>3, <1>4, <2>4, SteeredMarks
    <3>2. ~app.steeredThisTurn
        BY <1>1, <1>3, <1>4, <2>4, <3>1, EventSteers
    <3>3. g[i][1] \notin EventKinds(e) /\ i \in 1 .. Len(g)
        BY <1>7, <1>8, <2>4, <3>1 DEF EventKinds, IsUser
    <3>4. i <= Len(h) /\ g[i] = h[i]
        BY <1>10, <3>3 DEF Reworks
    <3>5. i \in n + l + 1 .. Len(h)
        BY <1>7, <1>8, <2>4, <3>4
    <3>6. QED
        BY <2>1, <2>4, <3>2, <3>4, <3>5
  <2>5. QED
    BY <2>2, <2>3, <2>4
<1>15. CommandOnly'
  <2> SUFFICES ASSUME app.mode = "shell" PROVE CommandOnly'
    BY <1>6 DEF CommandOnly
  <2>1. CommandOnly
    BY <1>2 DEF TurnStands
  <2>2. e[1] = "ToolEnd"
    BY <1>3, <1>5, <2>1 DEF CommandOnly, Terminal
  <2>3. Len(h) \in 0 .. Len(app.history)
    BY <1>7 DEF h
  <2>4. /\ Reworks(h, g, Len(h), {"tool"}) /\ app'.text = app.text /\ app'.thought = app.thought
    BY <1>1, <1>3, <1>4, <2>2, <2>3, ToolEndOnly DEF h, g
  <2>5. n < Len(h) /\ \A i \in n + 1 .. Len(h) : Closed(h[i])
    BY <2>1 DEF CommandOnly, n, h
  <2>6. n < Len(g)
    BY <1>7, <2>4, <2>5 DEF Reworks
  <2>7. ASSUME NEW i \in n + 1 .. Len(g) PROVE Closed(g[i])
    <3>1. i \in 1 .. Len(g)
        BY <1>7
    <3>2. CASE i <= Len(h) /\ g[i] = h[i]
      <4>1. i \in n + 1 .. Len(h)
        BY <1>7, <3>2
      <4>2. QED
        BY <2>5, <3>2, <4>1
    <3>3. CASE g[i][1] \in {"tool"}
        BY <3>3, ClosedItems
    <3>4. QED
        BY <2>4, <3>1, <3>2, <3>3 DEF Reworks
  <2>8. \A i \in DOMAIN chan' : chan'[i][1] \in {"ToolEnd", "StreamDone"}
    BY <1>3, <2>1 DEF CommandOnly
  <2>9. QED
    BY <1>4, <2>1, <2>4, <2>6, <2>7, <2>8 DEF CommandOnly, n, g
<1>16. NotesAlone'
  <2>1. NotesAlone
    BY <1>2 DEF TurnStands
  <2>2. worker.pc # "opening"
    BY <1>1, <2>1 DEF NotesAlone
  <2> SUFFICES ASSUME Unopened'
               PROVE  /\ app'.mode = "reply" /\ app'.text = Nothing /\ ~app'.steeredThisTurn
                      /\ \A i \in DOMAIN chan' : chan'[i][1] \in {"HookNote", "PromptBlocked"}
                      /\ \A i \in n + l + 1 .. Len(g) : IsHook(g[i])
    BY <1>4, <2>2 DEF NotesAlone, Since, n, l, g
  <2>3. Unopened
    BY <1>3, <1>4, <2>2 DEF Unopened
  <2>4. /\ app.mode = "reply" /\ app.text = Nothing /\ ~app.steeredThisTurn
        /\ \A i \in DOMAIN chan : chan[i][1] \in {"HookNote", "PromptBlocked"}
        /\ \A i \in n + l + 1 .. Len(h) : IsHook(h[i])
    BY <2>1, <2>3 DEF NotesAlone, Since, n, l, h
  <2>5. e[1] = "HookNote"
    BY <1>3, <1>5, <2>4 DEF Terminal
  <2>6. n \in 0 .. Len(app.history)
    BY <1>7 DEF h
  <2>7. Reworks(h, g, n, {"hook"}) /\ app'.text = Nothing
    BY <1>1, <1>3, <1>4, <2>4, <2>5, <2>6, HookNoteOnly DEF h, g
  <2>8. app'.steeredThisTurn = app.steeredThisTurn
    BY <1>1, <1>3, <1>4, <2>5, EventSteers
  <2>9. ASSUME NEW i \in n + l + 1 .. Len(g) PROVE IsHook(g[i])
    <3>1. i \in 1 .. Len(g)
        BY <1>7, <1>8
    <3>2. CASE i <= Len(h) /\ g[i] = h[i]
      <4>1. i \in n + l + 1 .. Len(h)
        BY <1>7, <1>8, <3>2
      <4>2. QED
        BY <2>4, <3>2, <4>1
    <3>3. CASE g[i][1] \in {"hook"}
        BY <3>3 DEF IsHook
    <3>4. QED
        BY <2>7, <3>1, <3>2, <3>3 DEF Reworks
  <2>10. \A i \in DOMAIN chan' : chan'[i][1] \in {"HookNote", "PromptBlocked"}
    BY <1>3, <2>4
  <2>11. QED
    BY <1>6, <2>4, <2>7, <2>8, <2>9, <2>10
<1>17. ~Idle'
    BY <1>2, <1>6 DEF Idle
<1>18. QED
    BY <1>11, <1>13, <1>14, <1>15, <1>16, <1>17 DEF TurnStands

-----------------------------------------------------------------------------
(* The backend thread's own steps: they write to the channel alone.        *)

\* What a thread can say once its hooks have let its prompt pass.
Onward == {e \in Events : e[1] # "PromptBlocked"}

LEMMA OnwardEvents ==
    /\ \A kind \in {"ThinkingStart", "ThinkingChunk", "ThinkingEnd", "ToolCallDelta",
                    "HookNote", "ToolEnd", "Retrying", "StreamDone", "Error"} :
          Event(kind) \in Onward
    /\ \A k \in Nat : <<"Chunk", k>> \in Onward /\ <<"ToolBatch", k>> \in Onward
    /\ \A m \in Msgs : <<"Steered", m>> \in Onward
    /\ \A n \in Notices : <<"NoticeDelivered", n>> \in Onward
BY DEF Onward, Events, Event

LEMMA OnwardRuns ==
    ASSUME NEW e \in Onward
    PROVE  /\ <<e>> \in Seq(Onward) /\ EndThinking \in Seq(Onward)
           /\ Append(EndThinking, e) \in Seq(Onward) /\ EndThinking \o <<e>> \in Seq(Onward)
           /\ Append(<<>>, e) \in Seq(Onward)
           /\ \A f \in Onward : <<e, f>> \in Seq(Onward)
<1>1. EndThinking \in Seq(Onward)
  <2>1. <<>> \in Seq(Onward) /\ <<Event("ThinkingEnd")>> \in Seq(Onward)
    BY OnwardEvents
  <2>2. QED
    BY <2>1 DEF EndThinking
<1> DEFINE run == EndThinking
<1> HIDE DEF run
<1>2. run \in Seq(Onward)
    BY <1>1 DEF run
<1>3. Append(run, e) \in Seq(Onward) /\ run \o <<e>> \in Seq(Onward)
      /\ Append(<<>>, e) \in Seq(Onward) /\ <<e>> \in Seq(Onward)
      /\ \A f \in Onward : <<e, f>> \in Seq(Onward)
    BY <1>2
<1>4. QED
    BY <1>2, <1>3 DEF run

\* The thread writes on, past its hooks.
LEMMA OnwardStep ==
    ASSUME TurnEnds, TurnStands, worker.pc \notin {"opening", "running", "gone"},
           NEW events \in Seq(Onward), chan' = chan \o events, app' = app,
           worker'.base = worker.base, worker'.batch = worker.batch, worker'.pc # "opening"
    PROVE  TurnStands'
<1>1. ~Idle /\ Quiet(chan) /\ chan \in Seq(Events)
    BY AtWork DEF TurnEnds, TypeOK
<1>2. Grounded /\ Submitted /\ CommandOnly /\ NotesAlone
    BY <1>1 DEF TurnStands
<1>3. \A i \in DOMAIN chan' : chan'[i][1] # "PromptBlocked"
  <2>1. \A i \in 1 .. Len(events) : events[i][1] # "PromptBlocked"
    BY DEF Onward
  <2>2. events \in Seq(Events)
    BY DEF Onward
  <2>3. /\ DOMAIN chan' = 1 .. Len(chan) + Len(events)
        /\ \A i \in 1 .. Len(chan) + Len(events) :
              chan'[i] = IF i <= Len(chan) THEN chan[i] ELSE events[i - Len(chan)]
    BY <1>1, <2>2, ConcatProperties
  <2>4. \A i \in 1 .. Len(chan) : chan[i][1] # "PromptBlocked"
    BY <1>1 DEF Quiet, Terminal
  <2>5. QED
    BY <1>1, <2>1, <2>2, <2>3, <2>4
<1>4. app.mode # "shell"
    BY <1>2 DEF CommandOnly
<1>5. Grounded' /\ Submitted'
    BY <1>2 DEF Grounded, Submitted, Since
<1>6. CommandOnly' /\ NotesAlone'
    BY <1>3, <1>4 DEF CommandOnly, NotesAlone, Unopened
<1>7. QED
    BY <1>1, <1>5, <1>6 DEF TurnStands, Idle

LEMMA OnwardStands ==
    ASSUME TurnEnds, TurnStands,
           \/ TakeBoard \/ TakeSteer \/ Think \/ Speak \/ DraftCall \/ Retry \/ RoundFailed
           \/ RoundComplete \/ RoundUnfinished \/ ToolCalls \/ ToolDone
    PROVE  TurnStands'
<1>1. worker \in Workers /\ steerQ \in Seq(Msgs) /\ board \in Seq(Notices)
    BY DEF TurnEnds, TypeOK
<1>2. worker.att \in Nat
    BY <1>1 DEF Workers
<1>3. /\ worker.pc \in {"board", "steer", "round", "tools"} /\ app' = app
      /\ worker'.base = worker.base /\ worker'.batch = worker.batch
      /\ worker'.pc # "opening"
    BY <1>1 DEF TakeBoard, TakeSteer, Think, Speak, DraftCall, Retry, RoundFailed, RoundComplete,
           RoundUnfinished, ToolCalls, ToolDone, Streaming, NextAttempt, GoOn, Unsaid, Local,
           WorkerOnly, Workers
<1>4. ASSUME NEW events \in Seq(Onward), chan' = chan \o events PROVE TurnStands'
    BY <1>3, <1>4, OnwardStep
<1>5. CASE TakeBoard
  <2>1. [i \in DOMAIN board |-> <<"NoticeDelivered", board[i]>>] \in Seq(Onward)
    BY <1>1, OnwardEvents
  <2>2. QED
    BY <1>4, <1>5, <2>1 DEF TakeBoard, Send
<1>6. CASE TakeSteer
  <2>1. [i \in DOMAIN steerQ |-> <<"Steered", steerQ[i]>>] \in Seq(Onward)
    BY <1>1, OnwardEvents
  <2>2. QED
    BY <1>4, <1>6, <2>1 DEF TakeSteer, Send
<1>7. CASE Think
  <2>1. <<Event("ThinkingStart"), Event("ThinkingChunk")>> \in Seq(Onward)
    BY OnwardEvents, OnwardRuns
  <2>2. QED
    BY <1>4, <1>7, <2>1 DEF Think, Send
<1>8. CASE Speak
    BY <1>2, <1>4, <1>8, OnwardEvents, OnwardRuns DEF Speak, Send
<1>9. CASE DraftCall
    BY <1>4, <1>9, OnwardEvents, OnwardRuns DEF DraftCall, Send
<1>10. CASE Retry
    BY <1>4, <1>10, OnwardEvents, OnwardRuns DEF Retry, Send
<1>11. CASE RoundFailed
  <2>1. PICK ended \in {<<>>, EndThinking} : chan' = chan \o Append(ended, Event("Error"))
    BY <1>11 DEF RoundFailed, Send
  <2>2. Event("Error") \in Onward
    BY OnwardEvents
  <2>3. Append(ended, Event("Error")) \in Seq(Onward)
    BY <2>2, OnwardRuns
  <2>4. QED
    BY <1>4, <2>1, <2>3
<1>12. CASE RoundComplete
    BY <1>4, <1>12, OnwardEvents, OnwardRuns DEF RoundComplete, Send
<1>13. CASE RoundUnfinished
    BY <1>4, <1>13, OnwardEvents, OnwardRuns DEF RoundUnfinished, Send
<1>14. CASE ToolCalls
    BY <1>2, <1>4, <1>14, OnwardEvents, OnwardRuns DEF ToolCalls, Send
<1>15. CASE ToolDone
  <2>1. <<Event("ToolEnd")>> \in Seq(Onward) /\ <<Event("ToolEnd"), Event("Error")>> \in Seq(Onward)
    BY OnwardEvents, OnwardRuns
  <2>2. QED
    BY <1>4, <1>15, <2>1 DEF ToolDone, Send
<1>16. QED
    BY <1>5, <1>6, <1>7, <1>8, <1>9, <1>10, <1>11, <1>12, <1>13, <1>14, <1>15

\* The hooks have their say, on an empty channel and a record they find as it was.
LEMMA OpenStands ==
    ASSUME TurnEnds, TurnStands, Open
    PROVE  TurnStands'
<1>1. ~Idle /\ worker.pc = "opening"
    BY AtWork DEF Open
<1>2. Grounded /\ Submitted /\ CommandOnly /\ NotesAlone /\ chan = <<>>
    BY <1>1 DEF TurnStands, NotesAlone
<1>3. worker \in Workers /\ app' = app
    BY DEF TurnEnds, TypeOK, Open, Local, WorkerOnly
<1>4. /\ app.mode = "reply" /\ app.text = Nothing /\ ~app.steeredThisTurn
      /\ \A i \in Since + 1 .. Len(app.history) : IsHook(app.history[i])
    BY <1>1, <1>2 DEF NotesAlone, Unopened
<1>5. PICK noted \in {<<>>, <<Hook>>}, blocked \in BOOLEAN :
        /\ worker' = [worker EXCEPT !.pc = IF blocked THEN "gone" ELSE "board"]
        /\ Send(IF blocked
                THEN Append([i \in DOMAIN noted |-> Event("HookNote")], Event("PromptBlocked"))
                ELSE [i \in DOMAIN noted |-> Event("HookNote")])
    BY DEF Open
<1>6. worker'.base = worker.base /\ worker'.batch = worker.batch /\ worker'.pc # "opening"
    BY <1>3, <1>5 DEF Workers
<1>7. \A i \in DOMAIN chan' : chan'[i][1] \in {"HookNote", "PromptBlocked"}
  <2> DEFINE told == {Event("HookNote"), Event("PromptBlocked")}
             h == Event("HookNote")
             notes == [i \in DOMAIN noted |-> h]
  <2>1. notes \in Seq(told)
    <3>1. <<>> \in Seq({Hook}) /\ <<Hook>> \in Seq({Hook})
        OBVIOUS
    <3>2. noted \in Seq({Hook})
        BY <3>1
    <3>3. h \in told
        OBVIOUS
    <3> HIDE DEF h, told
    <3>4. QED
        BY <3>2, <3>3
  <2>2. chan' = <<>> \o Append(notes, Event("PromptBlocked")) \/ chan' = <<>> \o notes
    BY <1>2, <1>5 DEF Send
  <2> HIDE DEF notes, h
  <2>3. Event("PromptBlocked") \in told
    OBVIOUS
  <2>4. \A e \in told : e[1] \in {"HookNote", "PromptBlocked"}
    BY DEF Event
  <2> HIDE DEF told
  <2>5. chan' \in Seq(told)
    BY <2>1, <2>2, <2>3
  <2>6. QED
    BY <2>4, <2>5
<1>8. Grounded' /\ Submitted'
    BY <1>2, <1>3, <1>6 DEF Grounded, Submitted, Since
<1>9. CommandOnly' /\ NotesAlone'
    BY <1>3, <1>4, <1>6, <1>7 DEF CommandOnly, NotesAlone, Since
<1>10. QED
    BY <1>1, <1>3, <1>8, <1>9 DEF TurnStands, Idle

\* The command's thread ends.
LEMMA ShellDoneStands ==
    ASSUME TurnEnds, TurnStands, ShellDone
    PROVE  TurnStands'
<1>1. ~Idle /\ worker.pc = "running" /\ Quiet(chan) /\ chan \in Seq(Events)
    BY AtWork DEF ShellDone, TurnEnds, TypeOK
<1>2. Grounded /\ Submitted /\ CommandOnly /\ NotesAlone
    BY <1>1 DEF TurnStands
<1>3. worker \in Workers /\ app' = app
    BY DEF TurnEnds, TypeOK, ShellDone, Unsaid, Local, WorkerOnly
<1>4. worker'.base = worker.base /\ worker'.batch = worker.batch /\ worker'.pc = "gone"
    BY <1>3 DEF ShellDone, Workers
<1> DEFINE told == <<Event("ToolEnd"), Event("StreamDone")>>
<1>5. told \in Seq(Events) /\ \A i \in 1 .. Len(told) : told[i][1] \in {"ToolEnd", "StreamDone"}
    BY DEF Event, Events
<1>6. chan' = chan \o told
    BY DEF ShellDone, Send
<1> HIDE DEF told
<1>7. \A i \in DOMAIN chan' : (\E j \in DOMAIN chan : chan'[i] = chan[j])
                              \/ chan'[i][1] \in {"ToolEnd", "StreamDone"}
  <2>1. /\ DOMAIN chan' = 1 .. Len(chan) + Len(told)
        /\ \A i \in 1 .. Len(chan) + Len(told) :
              chan'[i] = IF i <= Len(chan) THEN chan[i] ELSE told[i - Len(chan)]
    BY <1>1, <1>5, <1>6, ConcatProperties
  <2>2. ASSUME NEW i \in 1 .. Len(chan) + Len(told), i > Len(chan)
        PROVE  i - Len(chan) \in 1 .. Len(told)
    BY <1>1, <1>5, <2>2
  <2>3. QED
    BY <1>1, <1>5, <2>1, <2>2
<1>8. Grounded' /\ Submitted'
    BY <1>2, <1>3, <1>4 DEF Grounded, Submitted, Since
<1>9. CommandOnly'
    BY <1>2, <1>3, <1>4, <1>7 DEF CommandOnly
<1>10. NotesAlone'
  <2>1. \A i \in DOMAIN chan : chan[i][1] # "PromptBlocked"
    BY <1>1 DEF Quiet, Terminal
  <2>2. ~Unopened'
    BY <1>4, <1>7, <2>1 DEF Unopened
  <2>3. QED
    BY <1>4, <2>2 DEF NotesAlone
<1>11. QED
    BY <1>1, <1>3, <1>8, <1>9, <1>10 DEF TurnStands, Idle

-----------------------------------------------------------------------------
(* The invariant, and what it says of every step.                          *)

LEMMA WorkerStands ==
    ASSUME TurnEnds, TurnStands, WorkerStep
    PROVE  TurnStands' /\ AddsOn
<1>1. app' = app
    BY DEF WorkerStep, Open, TakeBoard, TakeSteer, Think, Speak, DraftCall, Retry, RoundFailed,
           RoundComplete, RoundUnfinished, ToolCalls, ToolDone, ShellDone, Unsaid, Local,
           WorkerOnly
<1>2. AddsOn
    BY <1>1, StandingFits, ReworkSame DEF AddsOn, TurnEnds
<1>3. QED
    BY <1>2, OnwardStands, OpenStands, ShellDoneStands DEF WorkerStep

LEMMA StepStands ==
    ASSUME TurnEnds, TurnStands, [Next]_vars
    PROVE  TurnStands' /\ (clears' = clears => AddsOn \/ Proceeds)
<1>1. TypeOK
    BY DEF TurnEnds
<1>2. CASE UserStep
  <2>1. CASE \E d \in Drafts : Submit(d)
    BY <2>1, SubmitStands
  <2>2. CASE (\E d \in Drafts : Enter(d) \/ QueueFollowUp(d)) \/ RecallLastQueued \/ RecallSteered
    BY <1>1, <2>2, WaitingStands
  <2>3. CASE Interrupt
    BY <1>1, <2>3, InterruptStands
  <2>4. CASE StartCompactTurn
    BY <2>4, CompactStands
  <2>5. CASE ClearConversation
    BY <1>1, <2>5, ClearStands
  <2>6. CASE (\E d \in Drafts : Type(d)) \/ Erase
    BY <1>1, <2>6, EditsFrame, NothingMoved
  <2>7. QED
    BY <1>2, <2>1, <2>2, <2>3, <2>4, <2>5, <2>6 DEF UserStep
<1>3. CASE \E m \in Notices : PostNotice(m)
    BY <1>3, PostStands
<1>4. CASE OnReplyEvent
    BY <1>4, EndStands, EventStands
<1>5. CASE WorkerStep
    BY <1>5, WorkerStands
<1>6. CASE GhostStep \/ UNCHANGED vars
  <2>1. UNCHANGED <<app, worker, chan>>
    BY <1>6 DEF GhostStep, GhostTakesBoard, GhostTakesSteer, vars
  <2>2. QED
    BY <1>1, <2>1, NothingMoved
<1>7. QED
    BY <1>2, <1>3, <1>4, <1>5, <1>6 DEF Next

LEMMA TurnStandsInvariant == Spec => []TurnStands
<1>1. Init => TurnStands
    BY DEF Init, NewApp, TurnStands, Idle, EndsOnALine
<1>2. TurnEnds /\ TurnStands /\ [Next]_vars => TurnStands'
    BY StepStands
<1>3. QED
    BY <1>1, <1>2, TurnEndsInvariant, PTL DEF Spec

\* What a submission handed back leaves of the record before its turn.
LEMMA ProceedingStands ==
    ASSUME TypeOK, TypeOK', TurnStands, Proceeds
    PROVE  IsPrefix(SubSeq(app.history, 1, Standing), app'.history)
<1>1. PICK left, back : HandsBack(left, back)
    BY DEF Proceeds
<1> DEFINE h == app.history
           g == app'.history
           n == worker.base
<1>2. app \in Apps /\ app' \in Apps
    BY DEF TypeOK
<1>3. h \in Seq(Items) /\ g \in Seq(Items) /\ n \in 0 .. Len(h) /\ Standing = n
    BY <1>2, StandingFits DEF Proceeds, Standing, Apps
<1>4. /\ left \in Seq(Items) /\ n <= Len(left) /\ \A i \in 1 .. n : left[i] = h[i]
      /\ Reworks(left, g, n, AllKinds)
    BY <1>1 DEF HandsBack, TakesBack
<1> HIDE DEF h, g, n
<1>5. n \in 0 .. Len(left)
    BY <1>3, <1>4
<1>6. IsPrefix(SubSeq(left, 1, n), g)
    BY <1>3, <1>4, <1>5, ReworkStands
<1>7. SubSeq(left, 1, n) = SubSeq(h, 1, n)
  <2>1. SubSeq(left, 1, n) = [i \in 1 .. n |-> left[i]]
    BY <1>4, <1>5
  <2>2. SubSeq(h, 1, n) = [i \in 1 .. n |-> h[i]]
    BY <1>3
  <2>3. QED
    BY <1>4, <2>1, <2>2
<1>8. QED
    BY <1>3, <1>6, <1>7 DEF h, g

LEMMA AddingStands ==
    ASSUME TypeOK, TypeOK', TurnStands, AddsOn
    PROVE  IsPrefix(SubSeq(app.history, 1, Standing), app'.history)
<1>1. app' \in Apps
    BY DEF TypeOK
<1>2. app'.history \in Seq(Items)
    BY <1>1 DEF Apps
<1>3. QED
    BY <1>2, StandingFits, ReworkStands DEF AddsOn

LEMMA RecordedDrafts ==
    ASSUME NEW a \in Apps
    PROVE  /\ \A i \in 1 .. Len(a.history) :
                 IsDraft(a.history[i]) => a.history[i][2] \in Recorded(a, IsDraft)
           /\ \A x \in Recorded(a, IsDraft) :
                 \E i \in 1 .. Len(a.history) : IsDraft(a.history[i]) /\ x = a.history[i][2]
           /\ Recorded(a, IsDraft) \subseteq Kept(a)
<1>1. DOMAIN a.history = 1 .. Len(a.history)
    BY DEF Apps
<1>2. Recorded(a, IsDraft) \subseteq Kept(a)
    BY HeldByIsKept DEF HeldBy
<1>3. QED
    BY <1>1, <1>2 DEF Recorded

\* A step that only adds takes no draft back.
LEMMA AddingKeepsDrafts ==
    ASSUME TypeOK, TypeOK', AddsOn
    PROVE  Recorded(app, IsDraft) \subseteq Recorded(app', IsDraft)
<1>1. app \in Apps /\ app' \in Apps
    BY DEF TypeOK
<1>2. ASSUME NEW x \in Recorded(app, IsDraft) PROVE x \in Recorded(app', IsDraft)
  <2>1. PICK i \in 1 .. Len(app.history) : IsDraft(app.history[i]) /\ x = app.history[i][2]
    BY <1>1, RecordedDrafts
  <2>2. i \in 1 .. Len(app'.history) /\ app'.history[i] = app.history[i]
    BY <2>1 DEF AddsOn, Reworks
  <2>3. QED
    BY <1>1, <2>1, <2>2, RecordedDrafts
<1>3. QED
    BY <1>2

\* A submission handed back comes off the record whole, and alone but for hook notes.
LEMMA SubmissionTakenBack ==
    ASSUME TypeOK, TypeOK', AllThere', Proceeds,
           Recorded(app, IsDraft) \ Recorded(app', IsDraft) # {}
    PROVE  LET back == Recorded(app, IsDraft) \ Recorded(app', IsDraft)
           IN  /\ back = Range(worker.batch)
               /\ composer' = back /\ dropped' = dropped \cup composer
               /\ \A i \in worker.base + 1 .. Len(app.history) :
                     IsUser(app.history[i]) \/ IsHook(app.history[i])
<1>1. PICK left, back : HandsBack(left, back)
    BY DEF Proceeds
<1> DEFINE h == app.history
           g == app'.history
           n == worker.base
           batch == worker.batch
<1>2. app \in Apps /\ app' \in Apps /\ worker \in Workers
    BY DEF TypeOK
<1>3. /\ h \in Seq(Items) /\ g \in Seq(Items) /\ batch \in Seq(Msgs) /\ n \in Nat
      /\ Range(batch) = {batch[k] : k \in 1 .. Len(batch)}
  <2>1. h \in Seq(Items) /\ g \in Seq(Items)
    BY <1>2 DEF Apps
  <2>2. batch \in Seq(Msgs) /\ n \in Nat
    BY <1>2 DEF Workers
  <2>3. DOMAIN batch = 1 .. Len(batch)
    BY <2>2
  <2>4. QED
    BY <2>1, <2>2, <2>3 DEF Range
<1>4. /\ left \in Seq(Items) /\ n <= Len(left) /\ \A i \in 1 .. n : left[i] = h[i]
      /\ \A i \in n + 1 .. Len(h) : \/ IsHook(h[i])
                                    \/ \E k \in 1 .. Len(batch) : h[i] = User(batch[k])
      /\ \A k \in 1 .. Len(batch) : /\ n + k \in 1 .. Len(h) /\ h[n + k] = User(batch[k])
                                    /\ batch[k] \in back
      /\ Reworks(left, g, n, AllKinds)
      /\ back \subseteq Recorded(app, IsDraft) /\ (back # {} => Restore(back))
    BY <1>1 DEF HandsBack, TakesBack
<1>5. Kept(app') \cap unsent' = {}
    BY DEF AllThere
<1>6. /\ \A i \in 1 .. Len(h) : IsDraft(h[i]) => h[i][2] \in Recorded(app, IsDraft)
      /\ \A x \in Recorded(app, IsDraft) : \E i \in 1 .. Len(h) : IsDraft(h[i]) /\ x = h[i][2]
      /\ \A i \in 1 .. Len(g) : IsDraft(g[i]) => g[i][2] \in Recorded(app', IsDraft)
      /\ Recorded(app', IsDraft) \subseteq Kept(app')
    BY <1>2, RecordedDrafts
<1> DEFINE was == Recorded(app, IsDraft)
           is == Recorded(app', IsDraft)
<1> HIDE DEF h, g, n, batch, was, is
<1>7. ASSUME NEW x \in was \ is PROVE x \in Range(batch)
  <2>1. PICK i \in 1 .. Len(h) : IsDraft(h[i]) /\ x = h[i][2]
    BY <1>6 DEF was
  <2>2. i > n
    <3> SUFFICES ASSUME i <= n PROVE FALSE
        BY <1>3
    <3>1. i \in 1 .. n /\ i \in 1 .. Len(left)
        BY <1>3, <1>4
    <3>2. left[i] = h[i]
        BY <1>4, <3>1
    <3>3. i \in 1 .. Len(g) /\ g[i] = h[i]
        BY <1>3, <1>4, <2>1, <3>1, <3>2 DEF Reworks
    <3>4. x \in is
        BY <1>6, <2>1, <3>3 DEF is
    <3>5. QED
        BY <3>4
  <2>3. i \in n + 1 .. Len(h)
    BY <1>3, <2>2
  <2>4. ~IsHook(h[i])
    BY <2>1 DEF IsHook, IsDraft
  <2>5. PICK k \in 1 .. Len(batch) : h[i] = User(batch[k])
    BY <1>4, <2>3, <2>4
  <2>6. x = batch[k]
    BY <2>1, <2>5 DEF User
  <2>7. QED
    BY <1>3, <2>6
<1>8. ASSUME NEW x \in Range(batch) PROVE x \in was \ is /\ x \in back
  <2>1. PICK k \in 1 .. Len(batch) : x = batch[k]
    BY <1>3
  <2>2. n + k \in 1 .. Len(h) /\ h[n + k] = User(x) /\ x \in back
    BY <1>4, <2>1
  <2>7. x \in unsent'
    BY <1>4, <2>2 DEF Restore
  <2>3. IsDraft(User(x)) /\ User(x)[2] = x
    BY DEF IsDraft, User
  <2>4. x \in was
    BY <1>6, <2>2, <2>3 DEF was
  <2>5. x \notin is
    BY <1>5, <1>6, <2>7 DEF is
  <2>6. QED
    BY <2>2, <2>4, <2>5
<1>9. was \ is = Range(batch) /\ was \ is # {}
    BY <1>7, <1>8 DEF was, is
<1>12. Restore(back)
    BY <1>4, <1>8, <1>9
<1>13. back \subseteq was \ is
  <2>1. back \subseteq was /\ back \subseteq unsent'
    BY <1>4, <1>12 DEF Restore, was
  <2>2. is \subseteq Kept(app')
    BY <1>6 DEF is
  <2>3. QED
    BY <1>5, <2>1, <2>2
<1>14. was \ is = back
    BY <1>8, <1>9, <1>13
<1>15. composer' = was \ is /\ dropped' = dropped \cup composer
    BY <1>12, <1>14 DEF Restore
<1>10. \A i \in n + 1 .. Len(h) : IsUser(h[i]) \/ IsHook(h[i])
    BY <1>4 DEF IsUser, User
<1>11. QED
    BY <1>9, <1>10, <1>15 DEF h, n, batch, was, is

\* Nothing is lost but to a submission given back.
LEMMA LostToARestore ==
    ASSUME TypeOK, [Next]_vars, clears' = clears
    PROVE  \/ dropped' = dropped
           \/ \E back : back # {} /\ back \subseteq Recorded(app, IsDraft) /\ Restore(back)
<1>1. app \in Apps
    BY DEF TypeOK
<1>2. CASE Interrupt
  <2>1. CASE Undoable(SettleReasoning(app))
    <3>1. SettleReasoning(app) = app
        BY <1>1, <2>1, UndoableAsItIs
    <3>2. Undoable(app) /\ Restore({item[2] : item \in Range(Undone(app))})
        BY <1>2, <2>1, <3>1 DEF Interrupt
    <3>3. QED
        BY <1>1, <3>2, BackIsRecorded
  <2>2. CASE ~Undoable(SettleReasoning(app))
    BY <1>2, <2>2 DEF Interrupt, NothingBack
  <2>3. QED
    BY <2>1, <2>2
<1>3. CASE OnReplyEvent
  <2>1. \/ BlockedMsgs(app) # <<>> /\ Restore({item[2] : item \in Range(BlockedMsgs(app))})
        \/ dropped' = dropped
    BY <1>3 DEF OnReplyEvent, NothingBack
  <2>2. QED
    BY <1>1, <2>1, BackIsRecorded
<1>4. CASE ClearConversation
    BY <1>4 DEF ClearConversation, TypeOK
<1>5. CASE UserStep
  <2>1. CASE (\E d \in Drafts : Type(d)) \/ Erase
    BY <2>1, EditsFrame
  <2>2. QED
    BY <1>2, <1>4, <1>5, <2>1 DEF UserStep, Submit, Enter, QueueFollowUp, RecallLastQueued,
       RecallSteered, StartCompactTurn
<1>6. CASE WorkerStep
    BY <1>6 DEF WorkerStep, Open, TakeBoard, TakeSteer, Think, Speak, DraftCall, Retry,
       RoundFailed, RoundComplete, RoundUnfinished, ToolCalls, ToolDone, ShellDone, Unsaid,
       Local, WorkerOnly
<1>7. CASE (\E n \in Notices : PostNotice(n)) \/ GhostStep \/ UNCHANGED vars
    BY <1>7 DEF PostNotice, GhostStep, GhostTakesBoard, GhostTakesSteer, vars
<1>8. QED
    BY <1>3, <1>5, <1>6, <1>7 DEF Next

\* Whatever was on the record when the running turn began, and everything on it at
\* rest, stays there word for word through an undo, a blocked prompt, a retried
\* attempt and whatever else a step may do: only a /clear takes it away.
THEOREM EarlierTurnsKept == Spec => EarlierTurnsStand
<1>1. TypeOK /\ TypeOK' /\ TurnEnds /\ TurnStands /\ [Next]_vars =>
        [clears' = clears => IsPrefix(SubSeq(app.history, 1, Standing), app'.history)]_vars
    BY StepStands, AddingStands, ProceedingStands
<1>2. QED
    BY <1>1, TypeCorrect, TurnEndsInvariant, TurnStandsInvariant, PTL
    DEF Spec, EarlierTurnsStand

\* A message or command that leaves the record without a /clear is the submission
\* of the turn that ends there: all of it goes, it is the composer's text from then
\* on, the turn had put nothing else on the record but hook notes, and the one draft
\* lost is what the composer held.  Without a /clear nothing else is ever lost.
THEOREM SubmissionsComeBackWhole == Spec => UndoTakesTheSubmission
<1>1. TypeOK /\ TypeOK' /\ NothingLost /\ NothingLost' /\ TurnEnds /\ TurnStands /\ [Next]_vars =>
        [LET back == Recorded(app, IsDraft) \ Recorded(app', IsDraft)
             lost == dropped' \ dropped
         IN  clears' = clears =>
             IF back = {} THEN lost = {}
             ELSE /\ back = Range(worker.batch)
                  /\ composer' = back /\ lost = composer
                  /\ \A i \in worker.base + 1 .. Len(app.history) :
                        IsUser(app.history[i]) \/ IsHook(app.history[i])]_vars
  <2> DEFINE taken == Recorded(app, IsDraft) \ Recorded(app', IsDraft)
  <2> SUFFICES ASSUME TypeOK, TypeOK', NothingLost, NothingLost', TurnEnds, TurnStands, [Next]_vars,
                      clears' = clears
               PROVE  IF taken = {} THEN dropped' \ dropped = {}
                      ELSE /\ taken = Range(worker.batch)
                           /\ composer' = taken /\ dropped' \ dropped = composer
                           /\ \A i \in worker.base + 1 .. Len(app.history) :
                                 IsUser(app.history[i]) \/ IsHook(app.history[i])
    OBVIOUS
  <2>1. AllThere'
    BY DEF NothingLost, Accounted
  <2>2. CASE taken = {}
    <3>1. ASSUME NEW back, back # {}, back \subseteq Recorded(app, IsDraft), Restore(back)
          PROVE  FALSE
      <4>1. back \subseteq unsent'
        BY <3>1 DEF Restore
      <4>2. Recorded(app', IsDraft) \subseteq Kept(app') /\ Kept(app') \cap unsent' = {}
        BY <2>1, RecordedDrafts DEF TypeOK, AllThere
      <4>3. QED
        BY <2>2, <3>1, <4>1, <4>2
    <3>2. dropped' = dropped
        BY <3>1, LostToARestore
    <3>3. QED
        BY <2>2, <3>2
  <2>3. CASE taken # {}
    <3>1. ~AddsOn
        BY <2>3, AddingKeepsDrafts
    <3>2. Proceeds
        BY <3>1, StepStands
    <3>3. /\ taken = Range(worker.batch)
          /\ composer' = taken /\ dropped' = dropped \cup composer
          /\ \A i \in worker.base + 1 .. Len(app.history) :
                IsUser(app.history[i]) \/ IsHook(app.history[i])
        BY <2>1, <2>3, <3>2, SubmissionTakenBack
    <3>4. composer \cap dropped = {}
        BY DEF TypeOK, NothingLost, Accounted, AllThere
    <3>5. QED
        BY <2>3, <3>3, <3>4
  <2>4. QED
    BY <2>2, <2>3
<1>2. QED
    BY <1>1, TypeCorrect, TurnEndsInvariant, NothingLostInvariant, TurnStandsInvariant, PTL
    DEF Spec, UndoTakesTheSubmission

-----------------------------------------------------------------------------
(***************************************************************************)
(* What is in hand: a thinking phase, a call.  One is open if the App has  *)
(* it open, or an unread event will open it, and no later event closes it; *)
(* only a thread that is itself in the phase, or at the call, leaves one   *)
(* open, or an error behind it, which closes them all.                     *)
(***************************************************************************)
StillOpen(now, opens, closes, s) ==
    \/ now /\ \A j \in DOMAIN s : s[j][1] \notin closes
    \/ \E i \in DOMAIN s : /\ s[i][1] \in opens
                           /\ \A j \in DOMAIN s : j > i => s[j][1] \notin closes

ThoughtOpens == {"ThinkingChunk"}
ThoughtCloses == {"ThinkingEnd", "Retrying"}
CallOpens == {"ToolBatch"}
CallCloses == {"ToolEnd"}

ThoughtOpen == StillOpen(app.thought, ThoughtOpens, ThoughtCloses, chan)
CallOpen == StillOpen(app.live # <<>>, CallOpens, CallCloses, chan)
Failing(s) == s # <<>> /\ s[Len(s)][1] = "Error"

InHand ==
    /\ NothingLiveAtRest
    /\ ~Idle => /\ ThoughtOpen => (worker.pc = "round" /\ worker.thinking) \/ Failing(chan)
                /\ CallOpen => worker.pc \in {"tools", "running"}
                /\ Len(app.live) <= 1
                /\ app.mode = "compact" => app.text = Nothing

\* Nothing opens by the head of the channel being read.
LEMMA OpenRead ==
    ASSUME NEW s \in Seq(Events), s # <<>>, NEW now, NEW after, NEW opens, NEW closes,
           after => (now /\ s[1][1] \notin closes) \/ s[1][1] \in opens,
           StillOpen(after, opens, closes, Tail(s))
    PROVE  StillOpen(now, opens, closes, s)
<1>1. /\ Len(s) \in Nat /\ Len(s) >= 1 /\ DOMAIN s = 1 .. Len(s)
      /\ DOMAIN Tail(s) = 1 .. Len(s) - 1
      /\ \A i \in 1 .. Len(s) - 1 : Tail(s)[i] = s[i + 1]
    OBVIOUS
<1>2. \A j \in 1 .. Len(s) : j > 1 => j - 1 \in 1 .. Len(s) - 1 /\ Tail(s)[j - 1] = s[j]
    BY <1>1
<1>3. CASE after /\ \A j \in DOMAIN Tail(s) : Tail(s)[j][1] \notin closes
  <2>1. \A j \in 1 .. Len(s) : j > 1 => s[j][1] \notin closes
    BY <1>1, <1>2, <1>3
  <2>2. CASE now /\ s[1][1] \notin closes
    <3>1. \A j \in 1 .. Len(s) : s[j][1] \notin closes
        BY <2>1, <2>2
    <3>2. QED
        BY <1>1, <2>2, <3>1 DEF StillOpen
  <2>3. CASE s[1][1] \in opens
    BY <1>1, <2>1, <2>3 DEF StillOpen
  <2>4. QED
    BY <1>3, <2>2, <2>3
<1>4. ASSUME NEW i \in DOMAIN Tail(s), Tail(s)[i][1] \in opens,
             \A j \in DOMAIN Tail(s) : j > i => Tail(s)[j][1] \notin closes
      PROVE  StillOpen(now, opens, closes, s)
  <2>1. i + 1 \in 1 .. Len(s) /\ s[i + 1][1] \in opens
    BY <1>1, <1>4
  <2>2. ASSUME NEW j \in 1 .. Len(s), j > i + 1 PROVE s[j][1] \notin closes
    <3>1. j > 1 /\ j - 1 > i
        BY <1>1, <1>4, <2>2
    <3>2. QED
        BY <1>1, <1>2, <1>4, <3>1
  <2>3. QED
    BY <1>1, <2>1, <2>2 DEF StillOpen
<1>5. QED
    BY <1>3, <1>4 DEF StillOpen

\* Behind what is sent: it opened before and the run does not close it, or the run
\* opens it.
LEMMA OpenSent ==
    ASSUME NEW s \in Seq(Events), NEW t \in Seq(Events), NEW now, NEW opens, NEW closes,
           StillOpen(now, opens, closes, s \o t)
    PROVE  \/ /\ StillOpen(now, opens, closes, s)
              /\ \A j \in 1 .. Len(t) : t[j][1] \notin closes
           \/ \E j \in 1 .. Len(t) : t[j][1] \in opens
<1> DEFINE st == s \o t
<1>1. /\ DOMAIN st = 1 .. Len(s) + Len(t)
      /\ \A i \in 1 .. Len(s) + Len(t) : st[i] = IF i <= Len(s) THEN s[i] ELSE t[i - Len(s)]
    BY ConcatProperties
<1>2. Len(s) \in Nat /\ Len(t) \in Nat /\ DOMAIN s = 1 .. Len(s)
    OBVIOUS
<1>3. /\ \A i \in 1 .. Len(s) : i \in DOMAIN st /\ st[i] = s[i]
      /\ \A j \in 1 .. Len(t) : /\ Len(s) + j \in DOMAIN st /\ st[Len(s) + j] = t[j]
                                /\ Len(s) + j > Len(s)
    BY <1>1, <1>2
<1>4. StillOpen(now, opens, closes, st)
    OBVIOUS
<1> HIDE DEF st
<1>5. CASE now /\ \A j \in DOMAIN st : st[j][1] \notin closes
  <2>1. \A i \in 1 .. Len(s) : s[i][1] \notin closes
    BY <1>3, <1>5
  <2>2. \A j \in 1 .. Len(t) : t[j][1] \notin closes
    BY <1>3, <1>5
  <2>3. QED
    BY <1>2, <1>5, <2>1, <2>2 DEF StillOpen
<1>6. ASSUME NEW i \in DOMAIN st, st[i][1] \in opens,
             \A j \in DOMAIN st : j > i => st[j][1] \notin closes
      PROVE  \/ /\ StillOpen(now, opens, closes, s)
                /\ \A j \in 1 .. Len(t) : t[j][1] \notin closes
             \/ \E j \in 1 .. Len(t) : t[j][1] \in opens
  <2>1. CASE i > Len(s)
    <3>1. i - Len(s) \in 1 .. Len(t) /\ st[i] = t[i - Len(s)]
        BY <1>1, <1>2, <2>1
    <3>2. QED
        BY <1>6, <3>1
  <2>2. CASE i <= Len(s)
    <3>1. i \in 1 .. Len(s) /\ st[i] = s[i]
        BY <1>1, <1>2, <1>3, <2>2
    <3>2. \A j \in 1 .. Len(s) : j > i => s[j][1] \notin closes
        BY <1>3, <1>6
    <3>3. \A j \in 1 .. Len(t) : t[j][1] \notin closes
      <4>1. \A j \in 1 .. Len(t) : Len(s) + j > i
        BY <1>2, <3>1
      <4>2. QED
        BY <1>3, <1>6, <4>1
    <3>4. QED
        BY <1>2, <1>6, <3>1, <3>2, <3>3 DEF StillOpen
  <2>3. QED
    BY <1>1, <1>2, <2>1, <2>2
<1>7. QED
    BY <1>4, <1>5, <1>6 DEF StillOpen

-----------------------------------------------------------------------------
(* What the App's methods leave in hand.                                   *)

LEMMA PushHands ==
    ASSUME NEW a \in Apps, NEW item \in Items
    PROVE  /\ Push(a, item) \in Apps
           /\ Push(a, item).thought = a.thought /\ Push(a, item).live = a.live
           /\ Push(a, item).text = a.text /\ Push(a, item).draft = a.draft
<1>1. Push(a, item) \in Apps
    BY PushType
<1>2. QED
    BY <1>1 DEF Push, Apps

LEMMA HandFrame ==
    ASSUME NEW a \in Apps
    PROVE  /\ FlushSegment(a).thought = a.thought /\ FlushSegment(a).live = a.live
           /\ FlushSegment(a).text = Nothing /\ FlushSegment(a).draft = a.draft
           /\ SettleHeld(a).thought = a.thought /\ SettleHeld(a).live = a.live
           /\ SettleHeld(a).text = a.text /\ SettleHeld(a).draft = a.draft
           /\ ReclaimSteered(a).thought = a.thought /\ ReclaimSteered(a).live = a.live
           /\ ReclaimSteered(a).text = a.text /\ ReclaimSteered(a).draft = a.draft
           /\ FailLive(a).thought = a.thought /\ FailLive(a).live = <<>>
           /\ FailLive(a).text = a.text
           /\ WithdrawAttempt(a).thought = FALSE /\ WithdrawAttempt(a).live = a.live
           /\ WithdrawAttempt(a).text = Nothing
BY DEF Push, FlushSegment, SettleHeld, ReclaimSteered, FailLive, WithdrawAttempt, Apps

LEMMA ThoughtSettled ==
    ASSUME NEW a \in Apps
    PROVE  /\ SettleReasoning(a).thought = FALSE /\ SettleReasoning(a).live = a.live
           /\ a.text = Nothing => SettleReasoning(a).text = Nothing
<1> DEFINE f == FlushSegment(a)
           p == Push(f, Reasoning)
<1>1. f \in Apps /\ f.live = a.live /\ f.text = Nothing /\ Reasoning \in Items
    BY FlushSegmentType, HandFrame, ItemTypes
<1> HIDE DEF f
<1>2. p \in Apps /\ p.live = a.live /\ p.text = Nothing
    BY <1>1, PushHands
<1> HIDE DEF p
<1>3. [p EXCEPT !.thought = FALSE].thought = FALSE /\ [p EXCEPT !.thought = FALSE].live = a.live
      /\ [p EXCEPT !.thought = FALSE].text = Nothing
    BY <1>2 DEF Apps
<1>4. a.thought \in BOOLEAN
    BY DEF Apps
<1>5. QED
    BY <1>3, <1>4 DEF SettleReasoning, p, f

\* Nothing is half done on screen.
Clean(a) == a.text = Nothing /\ a.live = <<>> /\ ~a.thought /\ ~a.draft

LEMMA KeepCleans ==
    ASSUME NEW a \in Apps, ~a.thought
    PROVE  Clean(Keep(a))
<1> DEFINE f == FlushSegment(a)
           b == FailLive(f)
           c == IF a.mode = "shell" THEN b ELSE Push(b, Error)
           d == SettleHeld(c)
           e == IF a.mode = "reply" THEN Push(d, Summary) ELSE d
<1>1. f \in Apps /\ f.text = Nothing /\ ~f.thought
    BY FlushSegmentType, HandFrame
<1> HIDE DEF f
<1>2. b \in Apps /\ b.text = Nothing /\ ~b.thought /\ b.live = <<>>
    BY <1>1, FailLiveType, HandFrame
<1> HIDE DEF b
<1>3. c \in Apps /\ c.text = Nothing /\ ~c.thought /\ c.live = <<>>
    BY <1>2, ItemTypes, PushHands
<1> HIDE DEF c
<1>4. d \in Apps /\ d.text = Nothing /\ ~d.thought /\ d.live = <<>>
    BY <1>3, SettleHeldType, HandFrame
<1> HIDE DEF d
<1>5. e \in Apps /\ e.text = Nothing /\ ~e.thought /\ e.live = <<>>
    BY <1>4, ItemTypes, PushHands
<1>6. Keep(a) = [e EXCEPT !.mode = "idle", !.draft = FALSE]
    BY DEF Keep, f, b, c, d
<1> HIDE DEF e
<1>7. QED
    BY <1>5, <1>6 DEF Clean, Apps

LEMMA UndoCleans ==
    ASSUME NEW a \in Apps, ~a.thought, Undoable(a)
    PROVE  Clean(Undo(a))
BY DEF Undo, Undoable, Clean, Apps

LEMMA FailCleans ==
    ASSUME NEW a \in Apps
    PROVE  Clean(FailStream(a))
<1> DEFINE r == SettleReasoning(a)
           f == FlushSegment(r)
           b == FailLive(f)
           p == Push(b, Error)
<1>1. r \in Apps /\ ~r.thought
    BY SettleReasoningType, ThoughtSettled
<1> HIDE DEF r
<1>2. f \in Apps /\ f.text = Nothing /\ ~f.thought
    BY <1>1, FlushSegmentType, HandFrame
<1> HIDE DEF f
<1>3. b \in Apps /\ b.text = Nothing /\ ~b.thought /\ b.live = <<>>
    BY <1>2, FailLiveType, HandFrame
<1> HIDE DEF b
<1>4. p \in Apps /\ p.text = Nothing /\ ~p.thought /\ p.live = <<>>
    BY <1>3, ItemTypes, PushHands
<1>5. FailStream(a) = [p EXCEPT !.mode = "idle", !.draft = FALSE]
    BY DEF FailStream, r, f, b
<1> HIDE DEF p
<1>6. QED
    BY <1>4, <1>5 DEF Clean, Apps

LEMMA DoneCleans ==
    ASSUME NEW a \in Apps, ~a.thought, a.live = <<>>, a.mode = "compact" => a.text = Nothing
    PROVE  Clean(OnStreamDone(a))
<1>1. CASE a.mode = "compact"
  <2> DEFINE p == Push(a, Compaction)
             q == [p EXCEPT !.mode = "idle", !.draft = FALSE]
  <2>1. p \in Apps /\ p.text = Nothing /\ ~p.thought /\ p.live = <<>>
    BY <1>1, ItemTypes, PushHands
  <2> HIDE DEF p
  <2>2. q \in Apps /\ Clean(q)
    BY <2>1 DEF Clean, Apps, Modes
  <2>3. OnStreamDone(a) = SettleHeld(q)
    BY <1>1 DEF OnStreamDone, q, p
  <2> HIDE DEF q
  <2>4. /\ SettleHeld(q).text = q.text /\ SettleHeld(q).live = q.live
        /\ SettleHeld(q).thought = q.thought /\ SettleHeld(q).draft = q.draft
    BY <2>2, HandFrame
  <2>5. QED
    BY <2>2, <2>3, <2>4 DEF Clean
<1>2. CASE a.mode # "compact"
  <2> DEFINE o == [a EXCEPT !.draft = FALSE]
             f == FlushSegment(o)
             b == SettleHeld(f)
             c == IF a.mode = "shell" THEN b ELSE Push(b, Summary)
  <2>1. o \in Apps /\ ~o.thought /\ o.live = <<>> /\ ~o.draft
    BY DEF Apps
  <2> HIDE DEF o
  <2>2. f \in Apps /\ Clean(f)
    BY <2>1, FlushSegmentType, HandFrame DEF Clean
  <2> HIDE DEF f
  <2>3. b \in Apps /\ Clean(b)
    BY <2>2, SettleHeldType, HandFrame DEF Clean
  <2> HIDE DEF b
  <2>4. c \in Apps /\ Clean(c)
    BY <2>3, ItemTypes, PushHands DEF Clean
  <2>5. OnStreamDone(a) = [c EXCEPT !.mode = "idle"]
    BY <1>2 DEF OnStreamDone, o, f, b
  <2> HIDE DEF c
  <2>6. QED
    BY <2>4, <2>5 DEF Clean, Apps
<1>3. QED
    BY <1>1, <1>2

LEMMA BlockCleans ==
    ASSUME NEW a \in Apps, ~a.thought, a.live = <<>>, a.text = Nothing
    PROVE  Clean(BlockPrompt(a))
BY DEF BlockPrompt, Clean, Apps

\* What an event leaves in hand: a phase or a call it opened, or did not close.
Carries(a, b, e) ==
    /\ b.thought => (a.thought /\ e[1] \notin ThoughtCloses) \/ e[1] \in ThoughtOpens
    /\ b.live # <<>> => (a.live # <<>> /\ e[1] \notin CallCloses) \/ e[1] \in CallOpens
    /\ Len(b.live) <= 1
    /\ a.mode = "compact" => b.text = Nothing

LEMMA ShortTail ==
    ASSUME NEW S, NEW s \in Seq(S), s # <<>>, Len(s) <= 1
    PROVE  Tail(s) = <<>>
<1>1. Len(s) \in Nat /\ Len(s) # 0
    OBVIOUS
<1>2. Tail(s) \in Seq(S) /\ Len(Tail(s)) = 0
    BY <1>1
<1>3. QED
    BY <1>2

LEMMA EventCarries ==
    ASSUME NEW a0 \in Apps, NEW e \in Events, Len(a0.live) <= 1,
           a0.mode = "compact" => a0.text = Nothing
    PROVE  Carries(a0, OnStreamEvent(a0, e), e)
<1> DEFINE a == TrackAttempt(a0, e)
           f == FlushSegment(a)
           b == OnStreamEvent(a0, e)
           kind == e[1]
<1>1. /\ a \in Apps /\ a.thought = a0.thought /\ a.live = a0.live /\ a.text = a0.text
      /\ a.mode = a0.mode
    BY TrackAttemptType, TrackFrame
<1>2. /\ f \in Apps /\ f.thought = a0.thought /\ f.live = a0.live /\ f.text = Nothing
  <2> HIDE DEF a
  <2>1. QED
    BY <1>1, FlushSegmentType, HandFrame
<1>3. /\ kind = "Chunk" /\ a.mode # "compact" => b = [a EXCEPT !.text = e[2]]
      /\ kind = "ThinkingChunk" => b = [a EXCEPT !.thought = TRUE]
      /\ kind = "ThinkingEnd" => b = SettleReasoning(a)
      /\ kind = "Retrying" => b = WithdrawAttempt(a)
      /\ kind = "HookNote" /\ a.mode # "compact" => b = Push(f, Hook)
      /\ kind = "ToolCallDelta" => b = [f EXCEPT !.draft = TRUE]
      /\ kind = "ToolBatch" => b = [f EXCEPT !.live = <<e[2]>>]
      /\ kind = "ToolEnd" /\ a.live # <<>> =>
            b = [Push(a, Tool(Head(a.live))) EXCEPT !.live = Tail(@), !.draft = FALSE]
      /\ kind = "Steered" => b = DeliverSteered(a, e[2])
      /\ kind = "NoticeDelivered" /\ a.mode # "compact" => b = SettleDelivered(f, e[2])
      /\ \/ kind \in {"Chunk", "HookNote", "NoticeDelivered"} /\ a.mode = "compact"
         \/ kind = "ToolEnd" /\ a.live = <<>>
         \/ kind \in {"ThinkingStart", "StreamDone", "Error", "PromptBlocked"}
         => b = a
    BY DEF OnStreamEvent
<1>4. kind \in {"Chunk", "ThinkingStart", "ThinkingChunk", "ThinkingEnd", "ToolCallDelta",
                "HookNote", "ToolBatch", "ToolEnd", "Retrying", "StreamDone", "Error",
                "PromptBlocked", "Steered", "NoticeDelivered"}
    BY DEF Events
<1> SUFFICES Carries(a0, b, e)
    OBVIOUS
<1> HIDE DEF b, kind, a, f
<1>5. ASSUME b.thought = a0.thought, b.live = a0.live, kind \notin ThoughtCloses,
             kind \notin CallCloses \/ a0.live = <<>>,
             b.text = Nothing \/ b.text = a0.text \/ a0.mode # "compact"
      PROVE  Carries(a0, b, e)
    BY <1>5 DEF Carries, kind
<1>6. CASE kind = "Chunk" /\ a.mode # "compact"
    BY <1>1, <1>3, <1>5, <1>6 DEF ThoughtCloses, CallCloses, Apps
<1>7. CASE kind = "ThinkingChunk"
  <2>1. b.live = a0.live /\ b.text = a0.text
    BY <1>1, <1>3, <1>7 DEF Apps
  <2>2. QED
    BY <1>7, <2>1 DEF Carries, ThoughtOpens, CallCloses, kind
<1>8. CASE kind \in {"ThinkingEnd", "Retrying"}
  <2>1. /\ SettleReasoning(a).thought = FALSE /\ SettleReasoning(a).live = a0.live
        /\ a0.text = Nothing => SettleReasoning(a).text = Nothing
    BY <1>1, ThoughtSettled
  <2>2. /\ WithdrawAttempt(a).thought = FALSE /\ WithdrawAttempt(a).live = a0.live
        /\ WithdrawAttempt(a).text = Nothing
    BY <1>1, HandFrame
  <2>3. b = SettleReasoning(a) \/ b = WithdrawAttempt(a)
    BY <1>3, <1>8
  <2>4. QED
    BY <1>8, <2>1, <2>2, <2>3 DEF Carries, CallCloses, kind
<1>9. CASE kind = "HookNote" /\ a.mode # "compact"
  <2>1. /\ Push(f, Hook).thought = a0.thought /\ Push(f, Hook).live = a0.live
        /\ Push(f, Hook).text = Nothing
    BY <1>2, ItemTypes, PushHands
  <2>2. QED
    BY <1>3, <1>5, <1>9, <2>1 DEF ThoughtCloses, CallCloses
<1>10. CASE kind = "ToolCallDelta"
    BY <1>2, <1>3, <1>5, <1>10 DEF ThoughtCloses, CallCloses, Apps
<1>11. CASE kind = "ToolBatch"
  <2>1. b.thought = a0.thought /\ b.live = <<e[2]>> /\ b.text = Nothing
    BY <1>2, <1>3, <1>11 DEF Apps
  <2>2. QED
    BY <1>11, <2>1 DEF Carries, CallOpens, ThoughtCloses, kind
<1>12. CASE kind = "ToolEnd" /\ a.live # <<>>
  <2> DEFINE p == Push(a, Tool(Head(a.live)))
  <2>1. p.thought = a0.thought /\ p.live = a0.live /\ p.text = a0.text /\ DOMAIN p = DOMAIN a
    BY <1>1 DEF Push, Apps
  <2>2. b = [p EXCEPT !.live = Tail(@), !.draft = FALSE]
    BY <1>3, <1>12
  <2>3. DOMAIN a = {"history", "mode", "text", "thought", "draft", "live", "floor", "queued",
                    "steered", "steeredThisTurn", "held"}
    BY <1>1 DEF Apps
  <2> HIDE DEF p
  <2>4. b.thought = a0.thought /\ b.live = Tail(a0.live) /\ b.text = a0.text
    BY <2>1, <2>2, <2>3
  <2>5. Tail(a0.live) = <<>>
    <3>1. a0.live \in Seq(Nat \cup Shells) /\ a0.live # <<>>
        BY <1>1, <1>12 DEF Apps
    <3>2. QED
        BY <3>1, ShortTail
  <2>6. QED
    BY <1>12, <2>4, <2>5 DEF Carries, ThoughtCloses, kind
<1>13. CASE kind = "Steered"
  <2>1. /\ DeliverSteered(a, e[2]).thought = a0.thought /\ DeliverSteered(a, e[2]).live = a0.live
        /\ DeliverSteered(a, e[2]).text = Nothing
    BY <1>2 DEF DeliverSteered, Push, Apps, f
  <2>2. QED
    BY <1>3, <1>5, <1>13, <2>1 DEF ThoughtCloses, CallCloses
<1>14. CASE kind = "NoticeDelivered" /\ a.mode # "compact"
  <2>1. b.thought = a0.thought /\ b.live = a0.live /\ b.text = Nothing
    BY <1>2, <1>3, <1>14 DEF SettleDelivered, Push, Apps
  <2>2. QED
    BY <1>5, <1>14, <2>1 DEF ThoughtCloses, CallCloses
<1>15. CASE b = a /\ kind \notin ThoughtCloses /\ (kind \in CallCloses => a.live = <<>>)
    BY <1>1, <1>5, <1>15
<1>16. QED
  <2>1. \/ kind \in {"Chunk", "HookNote", "NoticeDelivered"} /\ a.mode = "compact"
        \/ kind = "ToolEnd" /\ a.live = <<>>
        \/ kind \in {"ThinkingStart", "StreamDone", "Error", "PromptBlocked"}
        => b = a /\ kind \notin ThoughtCloses /\ (kind \in CallCloses => a.live = <<>>)
    BY <1>3 DEF ThoughtCloses, CallCloses
  <2>2. QED
    BY <1>4, <1>6, <1>7, <1>8, <1>9, <1>10, <1>11, <1>12, <1>13, <1>14, <1>15, <2>1

-----------------------------------------------------------------------------
(* What the loop starts has nothing in hand but a command.                 *)

\* A turn that has just begun, or rest.
Begun(a, w) ==
    /\ a.mode = "idle" => Clean(a)
    /\ ~a.thought /\ Len(a.live) <= 1 /\ a.text = Nothing
    /\ a.live # <<>> => w.pc = "running"

LEMMA TurnsBegin ==
    ASSUME NEW a \in Apps, Clean(a)
    PROVE  /\ \A batch \in Seq(Msgs) : Begun(StartTurn(a, batch).app, StartTurn(a, batch).worker)
           /\ \A cmd \in Shells : Begun(RunShell(a, cmd).app, RunShell(a, cmd).worker)
           /\ Begun(StartBackgroundTurn(a).app, StartBackgroundTurn(a).worker)
<1>1. ASSUME NEW b \in Apps, b.live = <<>>
      PROVE  /\ BeginStream(b).mode = "reply" /\ BeginStream(b).live = <<>>
             /\ ~BeginStream(b).thought /\ BeginStream(b).text = Nothing
    BY <1>1 DEF BeginStream, Apps
<1>2. ASSUME NEW batch \in Seq(Msgs)
      PROVE  Begun(StartTurn(a, batch).app, StartTurn(a, batch).worker)
  <2>1. RecordBatch(a, batch) \in Apps /\ RecordBatch(a, batch).live = <<>>
    BY RecordBatchType DEF RecordBatch, Clean, Apps
  <2>2. StartTurn(a, batch).app = BeginStream(RecordBatch(a, batch))
    BY DEF StartTurn
  <2>3. QED
    BY <1>1, <2>1, <2>2 DEF Begun
<1>3. ASSUME NEW cmd \in Shells
      PROVE  Begun(RunShell(a, cmd).app, RunShell(a, cmd).worker)
  <2> DEFINE p == Push(a, Shell(cmd))
             b == BeginShell(a, cmd)
  <2>1. p \in Apps
    BY ItemTypes, PushHands
  <2>2. b = [p EXCEPT !.mode = "shell", !.text = Nothing, !.thought = FALSE, !.draft = FALSE,
                      !.live = <<cmd>>]
    BY DEF BeginShell
  <2> HIDE DEF p
  <2>3. b.mode = "shell" /\ b.text = Nothing /\ ~b.thought /\ b.live = <<cmd>>
    <3> HIDE DEF b
    <3>1. QED
        BY <2>1, <2>2 DEF Apps
  <2>4. RunShell(a, cmd).app = b /\ RunShell(a, cmd).worker.pc = "running"
    BY DEF RunShell, ShellWorker, NoWorker
  <2> HIDE DEF b
  <2>5. Len(b.live) <= 1
    BY <2>3
  <2> DEFINE w == RunShell(a, cmd).worker
  <2>6. w.pc = "running"
    BY <2>4
  <2> HIDE DEF w
  <2>7. Begun(b, w)
    BY <2>3, <2>5, <2>6 DEF Begun
  <2>8. QED
    BY <2>4, <2>7 DEF w
<1>4. Begun(StartBackgroundTurn(a).app, StartBackgroundTurn(a).worker)
    BY <1>1 DEF StartBackgroundTurn, Begun, Clean
<1>5. QED
    BY <1>2, <1>3, <1>4

\* Begun on an empty channel.
LEMMA BegunInHand ==
    ASSUME Begun(app', worker'), chan' = <<>>
    PROVE  InHand'
<1>1. DOMAIN chan' = {}
    OBVIOUS
<1>2. ThoughtOpen' => app'.thought
    BY <1>1 DEF ThoughtOpen, StillOpen
<1>3. CallOpen' => app'.live # <<>>
    BY <1>1 DEF CallOpen, StillOpen
<1>4. QED
    BY <1>2, <1>3 DEF InHand, NothingLiveAtRest, Begun, Clean, Idle

LEMMA DispatchInHand ==
    ASSUME NEW a \in Apps, Clean(a), NEW unheard, DispatchAfterTurn(a, unheard), chan' = <<>>
    PROVE  InHand'
<1> DEFINE s == SettleHeld(a)
           b == ReclaimSteered(s)
           c == [b EXCEPT !.queued = Tail(@)]
           next == Head(b.queued)
<1>1. s \in Apps /\ Clean(s)
    BY SettleHeldType, HandFrame DEF Clean
<1> HIDE DEF s
<1>2. b \in Apps /\ Clean(b)
    BY <1>1, ReclaimSteeredType, HandFrame DEF Clean
<1>3. app' = NextTurn(unheard, b).app /\ worker' = NextTurn(unheard, b).worker
    BY DEF DispatchAfterTurn, Launch, AfterTurn, b, s
<1> HIDE DEF b
<1>4. CASE b.queued # <<>>
  <2>1. next \in Entries /\ Tail(b.queued) \in Seq(Entries)
    BY <1>2, <1>4 DEF Apps
  <2>2. c \in Apps /\ Clean(c)
    BY <1>2, <2>1 DEF Apps, Clean
  <2> HIDE DEF c
  <2>3. CASE next.shell
    <3>1. next.texts \in Seq(Shells) /\ next.texts # <<>>
        BY <2>1, <2>3 DEF Entries
    <3>2. next.texts[1] \in Shells
        BY <3>1
    <3>3. NextTurn(unheard, b) = RunShell(c, next.texts[1])
        BY <1>4, <2>3 DEF NextTurn, c
    <3>4. QED
        BY <1>3, <2>2, <3>2, <3>3, TurnsBegin, BegunInHand
  <2>4. CASE ~next.shell
    <3>1. next.texts \in Seq(Msgs)
        BY <2>1, <2>4 DEF Entries
    <3>2. NextTurn(unheard, b) = StartTurn(c, next.texts)
        BY <1>4, <2>4 DEF NextTurn, c
    <3>3. QED
        BY <1>3, <2>2, <3>1, <3>2, TurnsBegin, BegunInHand
  <2>5. QED
    BY <2>3, <2>4
<1>5. CASE b.queued = <<>>
  <2>1. CASE NextTurn(unheard, b) = StartBackgroundTurn(b)
    BY <1>2, <1>3, <2>1, TurnsBegin, BegunInHand
  <2>2. CASE NextTurn(unheard, b) = Rest(b)
    <3>1. app' = b
        BY <1>3, <2>2 DEF Rest
    <3>2. Begun(app', worker')
        BY <1>2, <3>1 DEF Begun, Clean
    <3>3. QED
        BY <3>2, BegunInHand
  <2>3. QED
    BY <1>5, <2>1, <2>2 DEF NextTurn
<1>6. QED
    BY <1>4, <1>5

-----------------------------------------------------------------------------
(* Step by step.                                                           *)

LEMMA HandKept ==
    ASSUME InHand, UNCHANGED <<worker, chan>>, app'.mode = app.mode, app'.text = app.text,
           app'.thought = app.thought, app'.live = app.live, app'.draft = app.draft
    PROVE  InHand'
BY DEF InHand, NothingLiveAtRest, Idle, ThoughtOpen, CallOpen

LEMMA QueueDraftHand ==
    ASSUME NEW a \in Apps, NEW d, NEW newBatch
    PROVE  LET b == QueueDraft(a, d, newBatch)
           IN  /\ b.mode = a.mode /\ b.text = a.text /\ b.thought = a.thought
               /\ b.live = a.live /\ b.draft = a.draft
BY DEF QueueDraft, Apps

LEMMA WaitingInHand ==
    ASSUME TypeOK, InHand,
           \/ \E d \in Drafts : Enter(d) \/ QueueFollowUp(d)
           \/ RecallLastQueued
           \/ RecallSteered
    PROVE  InHand'
<1>1. app \in Apps
    BY DEF TypeOK
<1>2. ASSUME NEW d, NEW newBatch, app' = QueueDraft(app, d, newBatch), UNCHANGED <<worker, chan>>
      PROVE  InHand'
  <2> DEFINE b == QueueDraft(app, d, newBatch)
  <2>1. /\ b.mode = app.mode /\ b.text = app.text /\ b.thought = app.thought
        /\ b.live = app.live /\ b.draft = app.draft
    BY <1>1, QueueDraftHand
  <2> HIDE DEF b
  <2>2. app' = b
    BY <1>2 DEF b
  <2>3. QED
    BY <1>2, <2>1, <2>2, HandKept
<1>3. ASSUME NEW d \in Drafts, Enter(d) PROVE InHand'
  <2>1. CASE app' = [app EXCEPT !.steered = Append(@, d)]
    <3>1. /\ app'.mode = app.mode /\ app'.text = app.text /\ app'.thought = app.thought
          /\ app'.live = app.live /\ app'.draft = app.draft
        BY <1>1, <2>1 DEF Apps
    <3>2. QED
        BY <1>3, <3>1, HandKept DEF Enter
  <2>2. CASE app' = QueueDraft(app, d, FALSE)
    BY <1>2, <1>3, <2>2 DEF Enter
  <2>3. QED
    BY <1>3, <2>1, <2>2 DEF Enter
<1>4. ASSUME NEW d \in Drafts, QueueFollowUp(d) PROVE InHand'
    BY <1>2, <1>4 DEF QueueFollowUp
<1>5. CASE RecallLastQueued \/ RecallSteered
  <2>1. /\ app'.mode = app.mode /\ app'.text = app.text /\ app'.thought = app.thought
        /\ app'.live = app.live /\ app'.draft = app.draft
    BY <1>1, <1>5 DEF RecallLastQueued, RecallSteered, Apps
  <2>2. QED
    BY <1>5, <2>1, HandKept DEF RecallLastQueued, RecallSteered
<1>6. QED
    BY <1>3, <1>4, <1>5

LEMMA UserInHand ==
    ASSUME TurnEnds, InHand, UserStep
    PROVE  InHand'
<1>1. app \in Apps /\ TypeOK
    BY DEF TurnEnds, TypeOK
<1>2. Idle => chan = <<>> /\ Clean(app)
    BY DEF TurnEnds, NothingWaitsAtRest, InHand, NothingLiveAtRest, Clean
<1>3. ASSUME NEW d \in Drafts, Submit(d) PROVE InHand'
  <2>1. Clean(app) /\ chan' = <<>>
    BY <1>2, <1>3 DEF Submit
  <2>2. CASE d \in Msgs
    <3>1. app' = StartTurn(app, <<d>>).app /\ worker' = StartTurn(app, <<d>>).worker
        BY <1>3, <2>2 DEF Submit, Launch
    <3>2. <<d>> \in Seq(Msgs)
        BY <2>2
    <3>3. QED
        BY <1>1, <2>1, <3>1, <3>2, TurnsBegin, BegunInHand
  <2>3. CASE d \notin Msgs
    <3>1. app' = RunShell(app, d).app /\ worker' = RunShell(app, d).worker /\ d \in Shells
        BY <1>3, <2>3 DEF Submit, Launch, Drafts
    <3>2. QED
        BY <1>1, <2>1, <3>1, TurnsBegin, BegunInHand
  <2>4. QED
    BY <2>2, <2>3
<1>4. CASE Interrupt
  <2> DEFINE a == SettleReasoning(app)
  <2>1. chan' = <<>>
    BY <1>4 DEF Interrupt, AbandonInflight
  <2>2. a \in Apps /\ ~a.thought
    BY <1>1, SettleReasoningType, ThoughtSettled
  <2>3. \/ Undoable(a) /\ DispatchAfterTurn(Undo(a), board)
        \/ DispatchAfterTurn(Keep(a), board)
    BY <1>4 DEF Interrupt
  <2> HIDE DEF a
  <2>4. Undo(a) \in Apps /\ Keep(a) \in Apps
    BY <2>2, UndoType, KeepType
  <2>5. QED
    BY <2>1, <2>2, <2>3, <2>4, UndoCleans, KeepCleans, DispatchInHand
<1>5. CASE StartCompactTurn
  <2>1. Clean(app) /\ chan' = <<>>
    BY <1>2, <1>5 DEF StartCompactTurn
  <2>2. app' = BeginCompact(app) /\ worker' = CompactWorker(app.history)
    BY <1>5 DEF StartCompactTurn, Launch
  <2>3. app'.mode = "compact" /\ app'.live = <<>> /\ ~app'.thought /\ app'.text = Nothing
    BY <1>1, <2>1, <2>2 DEF BeginCompact, Clean, Apps
  <2>4. Begun(app', worker')
    BY <2>3 DEF Begun
  <2>5. QED
    BY <2>1, <2>4, BegunInHand
<1>6. CASE ClearConversation
  <2>1. app'.live = <<>> /\ ~app'.thought /\ app'.text = Nothing /\ ~app'.draft /\ chan' = <<>>
    BY <1>6 DEF ClearConversation, NewApp, AbandonInflight
  <2>2. Begun(app', worker')
    BY <2>1 DEF Begun, Clean
  <2>3. QED
    BY <2>1, <2>2, BegunInHand
<1>7. CASE (\E d \in Drafts : Type(d)) \/ Erase
    BY <1>7, EditsFrame, HandKept
<1>8. QED
    BY <1>1, <1>3, <1>4, <1>5, <1>6, <1>7, WaitingInHand DEF UserStep

LEMMA PostInHand ==
    ASSUME TurnEnds, InHand, NEW m \in Notices, PostNotice(m)
    PROVE  InHand'
<1> DEFINE a == [app EXCEPT !.held = Append(@, m)]
<1>1. app \in Apps /\ app.held \in Seq(Notices)
    BY DEF TurnEnds, TypeOK, Apps
<1>2. Append(app.held, m) \in Seq(Notices)
    BY <1>1
<1>3. /\ a \in Apps /\ a.mode = app.mode /\ a.text = app.text /\ a.thought = app.thought
      /\ a.live = app.live /\ a.draft = app.draft
    BY <1>1, <1>2 DEF Apps
<1> HIDE DEF a
<1>4. CASE Idle
  <2>1. chan' = <<>> /\ Clean(a)
    BY <1>3, <1>4
    DEF TurnEnds, NothingWaitsAtRest, PostNotice, InHand, NothingLiveAtRest, Clean
  <2>2. DispatchAfterTurn(a, Append(board, m))
    BY <1>4 DEF PostNotice, a
  <2>3. QED
    BY <1>3, <2>1, <2>2, DispatchInHand
<1>5. CASE ~Idle
  <2>1. app' = a /\ UNCHANGED <<worker, chan>>
    BY <1>5 DEF PostNotice, a
  <2>2. QED
    BY <1>3, <2>1, HandKept
<1>6. QED
    BY <1>4, <1>5

\* The turn's end is read last, and by then nothing but what an error settles is open.
LEMMA EndInHand ==
    ASSUME TurnEnds, TurnStands, InHand, OnReplyEvent, Head(chan)[1] \in Terminal
    PROVE  InHand'
<1> DEFINE e == Head(chan)
           a == TrackAttempt(app, e)
<1>1. app \in Apps /\ chan \in Seq(Events) /\ chan # <<>> /\ chan' = Tail(chan)
    BY DEF TurnEnds, TypeOK, OnReplyEvent
<1>2. ~Idle
    BY <1>1 DEF TurnEnds, NothingWaitsAtRest
<1>3. chan' = <<>> /\ DOMAIN chan = {1} /\ chan[1] = e /\ Len(chan) = 1 /\ worker.pc = "gone"
  <2>1. 1 \in DOMAIN chan /\ chan[1] = e /\ Len(chan) \in Nat /\ DOMAIN chan = 1 .. Len(chan)
    BY <1>1
  <2>2. Len(chan) = 1 /\ worker.pc = "gone"
    BY <2>1 DEF TurnEnds, NoTurnIsStranded
  <2>3. QED
    BY <1>1, <2>1, <2>2
<1>4. DispatchAfterTurn(Ended(app, e), board)
    BY DEF OnReplyEvent
<1>5. /\ a \in Apps /\ a.text = app.text /\ a.mode = app.mode /\ a.thought = app.thought
      /\ a.live = app.live
    BY <1>1, TrackAttemptType, TrackFrame
<1>6. Ended(app, e) \in Apps
    BY <1>1, EndedType
<1>7. e[1] \in Terminal
    OBVIOUS
<1> HIDE DEF e
<1>8. e[1] # "Error" => ~app.thought /\ app.live = <<>>
  <2> SUFFICES ASSUME e[1] # "Error" PROVE ~app.thought /\ app.live = <<>>
    OBVIOUS
  <2>1. ~Failing(chan)
    BY <1>3 DEF Failing
  <2>2. ~ThoughtOpen /\ ~CallOpen
    BY <1>2, <1>3, <2>1 DEF InHand
  <2>3. \A j \in DOMAIN chan : chan[j][1] \notin ThoughtCloses /\ chan[j][1] \notin CallCloses
    BY <1>3, <1>7 DEF Terminal, ThoughtCloses, CallCloses
  <2>4. QED
    BY <2>2, <2>3 DEF ThoughtOpen, CallOpen, StillOpen
<1>9. CASE e[1] = "StreamDone"
  <2>1. a.mode = "compact" => a.text = Nothing
    BY <1>2, <1>5 DEF InHand
  <2>2. Ended(app, e) = OnStreamDone(a)
    BY <1>9 DEF Ended
  <2> HIDE DEF a
  <2>3. Clean(Ended(app, e))
    BY <1>5, <1>8, <1>9, <2>1, <2>2, DoneCleans
  <2>4. QED
    BY <1>3, <1>4, <1>6, <2>3, DispatchInHand
<1>10. CASE e[1] = "Error"
  <2>1. Ended(app, e) = FailStream(a)
    BY <1>10 DEF Ended
  <2> HIDE DEF a
  <2>2. Clean(Ended(app, e))
    BY <1>5, <2>1, FailCleans
  <2>3. QED
    BY <1>3, <1>4, <1>6, <2>2, DispatchInHand
<1>11. CASE e[1] = "PromptBlocked"
  <2>1. app.text = Nothing
    BY <1>2, <1>3, <1>11 DEF TurnStands, NotesAlone, Unopened
  <2>2. Ended(app, e) = BlockPrompt(a)
    BY <1>11 DEF Ended
  <2> HIDE DEF a
  <2>3. Clean(Ended(app, e))
    BY <1>5, <1>8, <1>11, <2>1, <2>2, BlockCleans
  <2>4. QED
    BY <1>3, <1>4, <1>6, <2>3, DispatchInHand
<1>12. QED
    BY <1>7, <1>9, <1>10, <1>11 DEF Terminal

LEMMA EventInHand ==
    ASSUME TurnEnds, InHand, OnReplyEvent, Head(chan)[1] \notin Terminal
    PROVE  InHand'
<1> DEFINE e == Head(chan)
<1>1. app \in Apps /\ chan \in Seq(Events) /\ chan # <<>> /\ chan' = Tail(chan)
    BY DEF TurnEnds, TypeOK, OnReplyEvent
<1>2. ~Idle
    BY <1>1 DEF TurnEnds, NothingWaitsAtRest
<1>3. e = chan[1] /\ e \in Events /\ app' = OnStreamEvent(app, e) /\ worker' = worker
    BY <1>1 DEF OnReplyEvent
<1> HIDE DEF e
<1>4. Len(app.live) <= 1 /\ (app.mode = "compact" => app.text = Nothing)
    BY <1>2 DEF InHand
<1>5. Carries(app, app', e) /\ app'.mode = app.mode
    BY <1>1, <1>3, <1>4, EventCarries, OnStreamEventFrame
<1>6. ThoughtOpen' => ThoughtOpen
    BY <1>1, <1>3, <1>5, OpenRead DEF Carries, ThoughtOpen
<1>7. CallOpen' => CallOpen
    BY <1>1, <1>3, <1>5, OpenRead DEF Carries, CallOpen
<1>8. Failing(chan) => Failing(chan')
  <2> SUFFICES ASSUME Failing(chan) PROVE Failing(chan')
    OBVIOUS
  <2>1. /\ Len(chan) \in Nat /\ Len(chan) >= 1 /\ Len(chan') = Len(chan) - 1
        /\ \A i \in 1 .. Len(chan) - 1 : chan'[i] = chan[i + 1]
        /\ chan' \in Seq(Events)
    BY <1>1
  <2>2. Len(chan) # 1
    BY <1>3 DEF Failing, Terminal, e
  <2>3. chan' # <<>> /\ chan'[Len(chan')] = chan[Len(chan)]
    BY <2>1, <2>2
  <2>4. QED
    BY <2>3 DEF Failing
<1>9. ~Idle'
    BY <1>2, <1>5 DEF Idle
<1>10. InHand
    OBVIOUS
<1>11. /\ ThoughtOpen' => (worker'.pc = "round" /\ worker'.thinking) \/ Failing(chan')
       /\ CallOpen' => worker'.pc \in {"tools", "running"}
    BY <1>2, <1>3, <1>6, <1>7, <1>8, <1>10 DEF InHand
<1>12. Len(app'.live) <= 1 /\ (app'.mode = "compact" => app'.text = Nothing)
    BY <1>5 DEF Carries
<1>13. QED
    BY <1>9, <1>11, <1>12 DEF InHand, NothingLiveAtRest

\* A thread writes on: what it opens it is at, and what it was at it closes.
LEMMA SentInHand ==
    ASSUME TurnEnds, InHand, worker.pc # "gone", app' = app,
           NEW events \in Seq(Events), chan' = chan \o events,
           \/ worker'.pc = "round" /\ worker'.thinking
           \/ Failing(events)
           \/ /\ \A j \in 1 .. Len(events) : events[j][1] \notin ThoughtOpens
              /\ worker.pc = "round" /\ worker.thinking =>
                    \E j \in 1 .. Len(events) : events[j][1] \in ThoughtCloses,
           \/ worker'.pc \in {"tools", "running"}
           \/ /\ \A j \in 1 .. Len(events) : events[j][1] \notin CallOpens
              /\ worker.pc \in {"tools", "running"} =>
                    \E j \in 1 .. Len(events) : events[j][1] \in CallCloses
    PROVE  InHand'
<1>1. ~Idle /\ Quiet(chan) /\ chan \in Seq(Events)
    BY AtWork DEF TurnEnds, TypeOK
<1>2. ~Failing(chan)
  <2>1. chan # <<>> => Len(chan) \in DOMAIN chan
    BY <1>1
  <2>2. QED
    BY <1>1, <2>1 DEF Failing, Quiet, Terminal
<1>3. /\ ThoughtOpen => worker.pc = "round" /\ worker.thinking
      /\ CallOpen => worker.pc \in {"tools", "running"}
      /\ Len(app.live) <= 1 /\ (app.mode = "compact" => app.text = Nothing)
    BY <1>1, <1>2 DEF InHand
<1>4. Failing(events) => Failing(chan')
  <2> SUFFICES ASSUME Failing(events) PROVE Failing(chan')
    OBVIOUS
  <2>1. /\ chan' \in Seq(Events) /\ Len(chan') = Len(chan) + Len(events)
        /\ \A i \in 1 .. Len(chan) + Len(events) :
              chan'[i] = IF i <= Len(chan) THEN chan[i] ELSE events[i - Len(chan)]
    BY <1>1, ConcatProperties
  <2>2. Len(events) \in Nat /\ Len(events) # 0 /\ Len(chan) \in Nat
    BY <1>1 DEF Failing
  <2>3. Len(chan) + Len(events) \in 1 .. Len(chan) + Len(events)
        /\ Len(chan) + Len(events) > Len(chan)
        /\ (Len(chan) + Len(events)) - Len(chan) = Len(events)
    BY <2>2
  <2>4. chan'[Len(chan')] = events[Len(events)] /\ Len(chan') # 0
    BY <2>1, <2>2, <2>3
  <2>5. QED
    BY <2>1, <2>4 DEF Failing
<1>5. ThoughtOpen' => (worker'.pc = "round" /\ worker'.thinking) \/ Failing(chan')
  <2> SUFFICES ASSUME ThoughtOpen',
                      \A j \in 1 .. Len(events) : events[j][1] \notin ThoughtOpens,
                      worker.pc = "round" /\ worker.thinking =>
                          \E j \in 1 .. Len(events) : events[j][1] \in ThoughtCloses
               PROVE  FALSE
    BY <1>4
  <2>1. StillOpen(app.thought, ThoughtOpens, ThoughtCloses, chan \o events)
    BY DEF ThoughtOpen
  <2>2. /\ StillOpen(app.thought, ThoughtOpens, ThoughtCloses, chan)
        /\ \A j \in 1 .. Len(events) : events[j][1] \notin ThoughtCloses
    BY <1>1, <2>1, OpenSent
  <2>3. QED
    BY <1>3, <2>2 DEF ThoughtOpen
<1>6. CallOpen' => worker'.pc \in {"tools", "running"}
  <2> SUFFICES ASSUME CallOpen',
                      \A j \in 1 .. Len(events) : events[j][1] \notin CallOpens,
                      worker.pc \in {"tools", "running"} =>
                          \E j \in 1 .. Len(events) : events[j][1] \in CallCloses
               PROVE  FALSE
    OBVIOUS
  <2>1. StillOpen(app.live # <<>>, CallOpens, CallCloses, chan \o events)
    BY DEF CallOpen
  <2>2. /\ StillOpen(app.live # <<>>, CallOpens, CallCloses, chan)
        /\ \A j \in 1 .. Len(events) : events[j][1] \notin CallCloses
    BY <1>1, <2>1, OpenSent
  <2>3. QED
    BY <1>3, <2>2 DEF CallOpen
<1>7. QED
    BY <1>1, <1>3, <1>5, <1>6 DEF InHand, NothingLiveAtRest, Idle

\* The end of a phase, if one is open, and one more event.
EndsPhase(run, e) == run = Append(EndThinking, e) \/ run = EndThinking \o <<e>>
LEMMA RunEnds ==
    ASSUME NEW e \in Events, NEW run, EndsPhase(run, e)
    PROVE  /\ run \in Seq(Events) /\ Len(run) >= 1 /\ run[Len(run)] = e
           /\ \A j \in 1 .. Len(run) : run[j] = Event("ThinkingEnd") \/ run[j] = e
           /\ worker.thinking => \E j \in 1 .. Len(run) : run[j] = Event("ThinkingEnd")
<1> DEFINE t == EndThinking
           x == Event("ThinkingEnd")
<1>1. x \in Events
    BY QuietEvents
<1>2. /\ t \in Seq({x}) /\ Len(t) \in Nat
      /\ worker.thinking => 1 \in 1 .. Len(t)
  <2>1. <<x>> \in Seq({x}) /\ <<>> \in Seq({x}) /\ Len(<<x>>) = 1
    OBVIOUS
  <2>2. /\ worker.thinking => t = <<x>>
        /\ ~worker.thinking => t = <<>>
    BY DEF EndThinking
  <2> HIDE DEF x, t
  <2>3. CASE worker.thinking
    <3>1. t \in Seq({x}) /\ Len(t) = 1
        BY <2>1, <2>2, <2>3
    <3>2. QED
        BY <3>1
  <2>4. CASE ~worker.thinking
    <3>1. t \in Seq({x})
        BY <2>1, <2>2, <2>4
    <3>2. QED
        BY <2>4, <3>1
  <2>5. QED
    BY <2>3, <2>4
<1>3. t \in Seq(Events) /\ \A j \in 1 .. Len(t) : t[j] = x
  <2> HIDE DEF x, t
  <2>1. QED
    BY <1>1, <1>2
<1> HIDE DEF x, t
<1>4. /\ run \in Seq(Events) /\ Len(run) = Len(t) + 1 /\ run[Len(t) + 1] = e
      /\ \A j \in 1 .. Len(t) : run[j] = t[j]
  <2>1. CASE run = Append(t, e)
    BY <1>3, <2>1, AppendProperties
  <2>2. CASE run = t \o <<e>>
    <3>1. <<e>> \in Seq(Events) /\ Len(<<e>>) = 1 /\ <<e>>[1] = e
        OBVIOUS
    <3>2. /\ t \o <<e>> \in Seq(Events) /\ Len(t \o <<e>>) = Len(t) + 1
          /\ \A i \in 1 .. Len(t) + 1 :
                (t \o <<e>>)[i] = IF i <= Len(t) THEN t[i] ELSE <<e>>[i - Len(t)]
        BY <1>3, <3>1, ConcatProperties
    <3>3. QED
        BY <1>2, <2>2, <3>1, <3>2
  <2>3. QED
    BY <2>1, <2>2 DEF EndsPhase, t
<1>5. \A j \in 1 .. Len(run) : j \in 1 .. Len(t) \/ j = Len(t) + 1
    BY <1>2, <1>4
<1>6. worker.thinking => 1 \in 1 .. Len(run) /\ run[1] = x
    BY <1>2, <1>3, <1>4
<1>7. QED
    BY <1>2, <1>3, <1>4, <1>5, <1>6 DEF x

\* The steps of a thread that is in no phase and at no call.
LEMMA BetweenInHand ==
    ASSUME TurnEnds, InHand, Open \/ TakeBoard \/ TakeSteer
    PROVE  InHand'
<1>1. /\ worker.pc \in {"opening", "board", "steer"} /\ app' = app
      /\ steerQ \in Seq(Msgs) /\ board \in Seq(Notices)
    BY DEF Open, TakeBoard, TakeSteer, Local, WorkerOnly, TurnEnds, TypeOK
<1> DEFINE plain == {e \in Events : e[1] \notin ThoughtOpens /\ e[1] \notin CallOpens}
<1>2. ASSUME NEW events \in Seq(plain), chan' = chan \o events PROVE InHand'
  <2>1. /\ events \in Seq(Events)
        /\ \A j \in 1 .. Len(events) : /\ events[j][1] \notin ThoughtOpens
                                       /\ events[j][1] \notin CallOpens
    OBVIOUS
  <2>2. QED
    BY <1>1, <1>2, <2>1, SentInHand
<1>3. /\ Event("HookNote") \in plain /\ Event("PromptBlocked") \in plain
      /\ \A m \in Msgs : <<"Steered", m>> \in plain
      /\ \A n \in Notices : <<"NoticeDelivered", n>> \in plain
    BY DEF Event, Events, ThoughtOpens, CallOpens
<1> HIDE DEF plain
<1>4. CASE Open
  <2>1. PICK noted \in {<<>>, <<Hook>>}, blocked \in BOOLEAN :
            Send(IF blocked
                 THEN Append([i \in DOMAIN noted |-> Event("HookNote")], Event("PromptBlocked"))
                 ELSE [i \in DOMAIN noted |-> Event("HookNote")])
    BY <1>4 DEF Open
  <2> DEFINE h == Event("HookNote")
             notes == [i \in DOMAIN noted |-> h]
             end == Event("PromptBlocked")
  <2>2. h \in plain /\ end \in plain
    BY <1>3
  <2> HIDE DEF h, end
  <2>3. notes \in Seq(plain)
    <3>1. <<>> \in Seq({Hook}) /\ <<Hook>> \in Seq({Hook})
        OBVIOUS
    <3>2. noted \in Seq({Hook})
        BY <3>1
    <3>3. QED
        BY <2>2, <3>2
  <2> HIDE DEF notes
  <2>4. Append(notes, end) \in Seq(plain)
    BY <2>2, <2>3
  <2>5. chan' = chan \o Append(notes, end) \/ chan' = chan \o notes
    BY <2>1 DEF Send, notes, h, end
  <2>6. QED
    BY <1>2, <2>3, <2>4, <2>5
<1>5. CASE TakeBoard
  <2>1. [i \in DOMAIN board |-> <<"NoticeDelivered", board[i]>>] \in Seq(plain)
    BY <1>1, <1>3
  <2>2. QED
    BY <1>2, <1>5, <2>1 DEF TakeBoard, Send
<1>6. CASE TakeSteer
  <2>1. [i \in DOMAIN steerQ |-> <<"Steered", steerQ[i]>>] \in Seq(plain)
    BY <1>1, <1>3
  <2>2. QED
    BY <1>2, <1>6, <2>1 DEF TakeSteer, Send
<1>7. QED
    BY <1>4, <1>5, <1>6

\* A round: what streams, and what came of it.
LEMMA RoundInHand ==
    ASSUME TurnEnds, InHand,
           \/ Think \/ Speak \/ DraftCall \/ Retry \/ RoundFailed
           \/ RoundComplete \/ RoundUnfinished \/ ToolCalls
    PROVE  InHand'
<1>1. worker \in Workers /\ worker.pc = "round" /\ app' = app
    BY DEF Think, Speak, DraftCall, Retry, RoundFailed, RoundComplete, RoundUnfinished,
           ToolCalls, Streaming, Unsaid, Local, WorkerOnly, TurnEnds, TypeOK
<1>2. worker.att \in Nat
    BY <1>1 DEF Workers
<1>3. ASSUME NEW e \in Events, NEW run, chan' = chan \o run,
             EndsPhase(run, e),
             e[1] \notin ThoughtOpens, e[1] \notin CallOpens \/ worker'.pc = "tools"
      PROVE  InHand'
  <2>1. /\ run \in Seq(Events)
        /\ \A j \in 1 .. Len(run) : run[j] = Event("ThinkingEnd") \/ run[j] = e
        /\ worker.thinking => \E j \in 1 .. Len(run) : run[j] = Event("ThinkingEnd")
    BY <1>3, RunEnds
  <2>2. /\ Event("ThinkingEnd")[1] \notin ThoughtOpens /\ Event("ThinkingEnd")[1] \notin CallOpens
        /\ Event("ThinkingEnd")[1] \in ThoughtCloses
    BY DEF Event, ThoughtOpens, CallOpens, ThoughtCloses
  <2>3. /\ \A j \in 1 .. Len(run) : run[j][1] \notin ThoughtOpens
        /\ worker.thinking => \E j \in 1 .. Len(run) : run[j][1] \in ThoughtCloses
        /\ worker'.pc = "tools" \/ \A j \in 1 .. Len(run) : run[j][1] \notin CallOpens
    BY <1>3, <2>1, <2>2
  <2>4. QED
    BY <1>1, <1>3, <2>1, <2>3, SentInHand
<1>4. /\ \A kind \in {"ToolCallDelta", "StreamDone", "HookNote", "Error"} :
            /\ Event(kind) \in Events /\ Event(kind)[1] \notin ThoughtOpens
            /\ Event(kind)[1] \notin CallOpens
      /\ \A k \in Nat : /\ <<"Chunk", k>> \in Events /\ <<"Chunk", k>>[1] \notin ThoughtOpens
                        /\ <<"Chunk", k>>[1] \notin CallOpens
                        /\ <<"ToolBatch", k>> \in Events
                        /\ <<"ToolBatch", k>>[1] \notin ThoughtOpens
    BY DEF Event, Events, ThoughtOpens, CallOpens
<1>5. CASE Think
  <2> DEFINE run == <<Event("ThinkingStart"), Event("ThinkingChunk")>>
  <2>1. run \in Seq(Events) /\ \A j \in 1 .. Len(run) : run[j][1] \notin CallOpens
    BY DEF Event, Events, CallOpens
  <2>2. chan' = chan \o run
    BY <1>5 DEF Think, Send
  <2>3. worker'.pc = "round" /\ worker'.thinking
    BY <1>1, <1>5 DEF Think, Workers
  <2> HIDE DEF run
  <2>4. QED
    BY <1>1, <2>1, <2>2, <2>3, SentInHand
<1>6. CASE Speak
    BY <1>2, <1>3, <1>4, <1>6 DEF Speak, Send, EndsPhase
<1>7. CASE DraftCall
    BY <1>3, <1>4, <1>7 DEF DraftCall, Send, EndsPhase
<1>8. CASE Retry
  <2> DEFINE run == <<Event("Retrying")>>
  <2>1. /\ run \in Seq(Events) /\ Len(run) = 1 /\ run[1][1] = "Retrying"
    BY DEF Event, Events
  <2>2. chan' = chan \o run
    BY <1>8 DEF Retry, Send
  <2> HIDE DEF run
  <2>3. /\ \A j \in 1 .. Len(run) : run[j][1] \notin ThoughtOpens /\ run[j][1] \notin CallOpens
        /\ \E j \in 1 .. Len(run) : run[j][1] \in ThoughtCloses
    BY <2>1 DEF ThoughtOpens, CallOpens, ThoughtCloses
  <2>4. QED
    BY <1>1, <2>1, <2>2, <2>3, SentInHand
<1>9. CASE RoundFailed
  <2> DEFINE x == Event("Error")
  <2>1. x \in Events /\ x[1] = "Error" /\ x[1] \notin CallOpens
    BY DEF Event, Events, CallOpens
  <2>2. PICK ended \in {<<>>, EndThinking} : chan' = chan \o Append(ended, x)
    BY <1>9 DEF RoundFailed, Send
  <2> HIDE DEF x
  <2>3. CASE ended = EndThinking
    BY <1>3, <1>4, <2>2, <2>3 DEF x, EndsPhase
  <2>4. CASE ended = <<>>
    <3> DEFINE run == Append(<<>>, x)
    <3>1. run \in Seq(Events) /\ Len(run) = 1 /\ run[1] = x
        BY <2>1
    <3> HIDE DEF run
    <3>2. Failing(run) /\ \A j \in 1 .. Len(run) : run[j][1] \notin CallOpens
        BY <2>1, <3>1 DEF Failing
    <3>3. chan' = chan \o run
        BY <2>2, <2>4 DEF run
    <3>4. QED
        BY <1>1, <3>1, <3>2, <3>3, SentInHand
  <2>5. QED
    BY <2>3, <2>4
<1>10. CASE RoundComplete
    BY <1>3, <1>4, <1>10 DEF RoundComplete, Send, EndsPhase
<1>11. CASE RoundUnfinished
    BY <1>3, <1>4, <1>11 DEF RoundUnfinished, Send, EndsPhase
<1>12. CASE ToolCalls
  <2>1. worker'.pc = "tools"
    BY <1>1, <1>12 DEF ToolCalls, Workers
  <2>2. chan' = chan \o (EndThinking \o <<<<"ToolBatch", worker.att>>>>)
    BY <1>12 DEF ToolCalls, Send
  <2>3. QED
    BY <1>2, <1>3, <1>4, <2>1, <2>2 DEF EndsPhase
<1>13. QED
    BY <1>5, <1>6, <1>7, <1>8, <1>9, <1>10, <1>11, <1>12

\* A call ends, and the turn goes on, ends on an error, or was that call.
LEMMA CallInHand ==
    ASSUME TurnEnds, InHand, ToolDone \/ ShellDone
    PROVE  InHand'
<1>1. worker.pc \in {"tools", "running"} /\ app' = app
    BY DEF ToolDone, ShellDone, Unsaid, Local, WorkerOnly
<1> DEFINE x == Event("ToolEnd")
           y == Event("Error")
           z == Event("StreamDone")
<1>2. PICK run \in {<<x>>, <<x, y>>, <<x, z>>} : chan' = chan \o run
    BY DEF ToolDone, ShellDone, Send
<1>3. /\ x \in Events /\ y \in Events /\ z \in Events
      /\ \A e \in {x, y, z} : e[1] \notin ThoughtOpens /\ e[1] \notin CallOpens
      /\ x[1] \in CallCloses
    BY DEF Event, Events, ThoughtOpens, CallOpens, CallCloses
<1> HIDE DEF x, y, z
<1>4. /\ run \in Seq(Events) /\ 1 \in 1 .. Len(run) /\ run[1] = x
      /\ \A j \in 1 .. Len(run) : run[j] \in {x, y, z}
  <2>1. CASE run = <<x>>
    BY <1>3, <2>1
  <2>2. CASE run = <<x, y>>
    BY <1>3, <2>2
  <2>3. CASE run = <<x, z>>
    BY <1>3, <2>3
  <2>4. QED
    BY <1>2, <2>1, <2>2, <2>3
<1>5. QED
    BY <1>1, <1>2, <1>3, <1>4, SentInHand

-----------------------------------------------------------------------------
(* The invariant.                                                          *)

LEMMA InHandInvariant == Spec => []InHand
<1>1. Init => InHand
    BY DEF Init, NewApp, InHand, NothingLiveAtRest, Idle
<1>2. TurnEnds /\ TurnStands /\ InHand /\ [Next]_vars => InHand'
  <2> SUFFICES ASSUME TurnEnds, TurnStands, InHand, [Next]_vars PROVE InHand'
    OBVIOUS
  <2>1. CASE WorkerStep
    BY <2>1, BetweenInHand, RoundInHand, CallInHand DEF WorkerStep
  <2>2. CASE OnReplyEvent
    BY <2>2, EndInHand, EventInHand
  <2>3. CASE GhostStep \/ UNCHANGED vars
    <3>1. UNCHANGED <<app, worker, chan>>
        BY <2>3 DEF GhostStep, GhostTakesBoard, GhostTakesSteer, vars
    <3>2. QED
        BY <3>1, HandKept
  <2>4. QED
    BY <2>1, <2>2, <2>3, UserInHand, PostInHand DEF Next
<1>3. QED
    BY <1>1, <1>2, TurnEndsInvariant, TurnStandsInvariant, PTL DEF Spec

\* However a turn ends - done, failed, blocked, interrupted or wiped - nothing of it
\* is left half done on the screen: no text that is not on the record, no call still
\* running, no open thinking phase, no call being drafted.
THEOREM RestIsSettled == Spec => []NothingLiveAtRest
<1>1. InHand => NothingLiveAtRest
    BY DEF InHand
<1>2. QED
    BY <1>1, InHandInvariant, PTL
=============================================================================
