------------------------- MODULE SessionRecordProofs -------------------------
(***************************************************************************)
(* The recorder, proved: for every number of items, files, crashes and     *)
(* changes of model, the types hold, the file and the checkpoints are the  *)
(* session's, a rewind restores the tree that went with it, and the        *)
(* recorder implements Journal.                                            *)
(***************************************************************************)
EXTENDS SessionRecord, QueuesProofs

-----------------------------------------------------------------------------
(* The inductive invariant.  n is the number of items recorded so far: what *)
(* is on record was numbered before, what comes is numbered after.          *)

ItemsTo(n) == [id : 1 .. n, kind : Kinds]
CheckpointsTo(n) == [after : 0 .. MaxItems, of : Seq(ItemsTo(n)), tree : SUBSET (1 .. n)]

\* The lines there can be.
LinesTo(n) ==
    {MetaLine, Junk, Cut} \cup {ModelLine(model) : model \in Models}
    \cup {ItemLine(item) : item \in ItemsTo(n)}
    \cup {CheckpointLine(cp) : cp \in CheckpointsTo(n)}
FilesTo(n) == [lines : Seq(LinesTo(n)), torn : BOOLEAN]

\* Items are in the order they were recorded.
Increasing(items) == \A i, j \in DOMAIN items : i < j => items[i].id < items[j].id

\* A checkpoint fits a conversation if it was taken in it, before all that follows.
Fit(cp, items) ==
    /\ cp.after <= Len(items)
    /\ cp.of = SubSeq(items, 1, cp.after)
    /\ \A k \in DOMAIN items : k > cp.after => items[k].id \notin cp.tree

\* The checkpoints of a file fit its items; so they do in each of its first parts, which
\* are what a crash may leave.
Consistent(lines) ==
    \A j \in DOMAIN ParsedCheckpoints(lines) :
        Fit(ParsedCheckpoints(lines)[j], ParsedItems(lines))
FileFits(lines) ==
    /\ Increasing(ParsedItems(lines))
    /\ \A m \in 0 .. Len(lines) : Consistent(SubSeq(lines, 1, m))

FilesOK(fs, n) ==
    /\ fs \in Seq(FilesTo(n)) /\ Len(fs) <= MaxFiles
    /\ \A f \in DOMAIN fs : FileFits(fs[f].lines)

\* What an undo takes back is the turn's: nothing of the user's is last before the turn,
\* nor at rest, above the floor.
AppOK(a, n) ==
    /\ a \in [history : Seq(ItemsTo(n)), floor : Nat, turn : Nat \cup {NoTurn}, moved : BOOLEAN]
    /\ Increasing(a.history)
    /\ a.floor <= Len(a.history) /\ a.turn <= Len(a.history)
    /\ LET start == IF a.turn = NoTurn THEN Len(a.history) ELSE a.turn IN
        /\ a.floor <= start
        /\ start > a.floor => a.history[start].kind # "user"

RecorderOK(r, n) ==
    /\ r \in [active : Nat, recorded : Nat, repair : BOOLEAN, cps : Seq(CheckpointsTo(n)),
              flushed : Nat, model : Models, written : Models \cup {"none"},
              keep : BOOLEAN, safe : Nat]
    /\ r.flushed <= Len(r.cps)
    /\ r.keep => r.written # "none"

\* The checkpoints fit the history, save those a rewind leaves behind until the next
\* sync; a turn's checkpoint comes at its end.
CheckpointsOK(r, a) ==
    \A i \in DOMAIN r.cps :
        /\ r.cps[i].after <= Len(a.history) \/ ~a.moved \/ r.active = None
            => Fit(r.cps[i], a.history)
        /\ a.turn # NoTurn => r.cps[i].after <= a.turn

\* The file as the recorder knows it: what of the session it holds.
MirrorOK(r, fs, a) ==
    r.active # None =>
        /\ r.active \in DOMAIN fs /\ Loads(fs[r.active].lines)
        /\ fs[r.active].torn => r.repair
        /\ r.safe <= Len(fs[r.active].lines)
        /\ ParsedCheckpoints(fs[r.active].lines) = SubSeq(r.cps, 1, r.flushed)
        /\ ParsedModel(fs[r.active].lines) = r.written
        /\ ~a.moved =>
            /\ r.recorded <= Len(a.history)
            /\ ParsedItems(fs[r.active].lines) = SubSeq(a.history, 1, r.recorded)

\* Before the first item there is no file, but room for one.
UnsavedOK(r, fs, a) ==
    r.active = None =>
        /\ r.recorded = 0 /\ r.flushed = 0 /\ r.written = "none"
        /\ a.history # <<>> => ~a.moved /\ Len(fs) < MaxFiles

Ready(a, r, fs, n) ==
    /\ AppOK(a, n) /\ RecorderOK(r, n) /\ FilesOK(fs, n)
    /\ CheckpointsOK(r, a) /\ MirrorOK(r, fs, a) /\ UnsavedOK(r, fs, a)

\* Nothing is left to write.
Settled(a, r) ==
    /\ ~a.moved
    /\ r.active = None => a.history = <<>>
    /\ r.active # None =>
        /\ r.recorded = Len(a.history) /\ r.flushed = Len(r.cps)
        /\ RecordedModel(r) = r.written

RecordInv ==
    /\ Ready(app, recorder, files, recordedIds)
    /\ phase = "top" => Settled(app, recorder)
    /\ phase = "down" => app = NewApp /\ recorder = Fresh(recorder.model)
    /\ tree \subseteq 1 .. recordedIds /\ recordedIds \in 0 .. MaxItems
    /\ phase \in {"down", "top", "bottom"}
    /\ crashes \in 0 .. MaxCrashes /\ picks \in 0 .. MaxPicks

-----------------------------------------------------------------------------
(* Reading a file.                                                         *)

LEMMA ItemsMore ==
    ASSUME NEW n \in Nat, NEW m \in Nat, n <= m
    PROVE  /\ ItemsTo(n) \subseteq ItemsTo(m) /\ Seq(ItemsTo(n)) \subseteq Seq(ItemsTo(m))
           /\ CheckpointsTo(n) \subseteq CheckpointsTo(m)
           /\ Seq(CheckpointsTo(n)) \subseteq Seq(CheckpointsTo(m))
           /\ LinesTo(n) \subseteq LinesTo(m) /\ Seq(LinesTo(n)) \subseteq Seq(LinesTo(m))
           /\ FilesTo(n) \subseteq FilesTo(m) /\ Seq(FilesTo(n)) \subseteq Seq(FilesTo(m))
<1>1. ItemsTo(n) \subseteq ItemsTo(m)
    BY DEF ItemsTo
<1>2. Seq(ItemsTo(n)) \subseteq Seq(ItemsTo(m))
    BY <1>1, SeqMonotonic
<1>3. CheckpointsTo(n) \subseteq CheckpointsTo(m)
  <2>1. 1 .. n \subseteq 1 .. m
    OBVIOUS
  <2>2. QED
    BY <1>2, <2>1 DEF CheckpointsTo
<1>4. LinesTo(n) \subseteq LinesTo(m)
    BY <1>1, <1>3 DEF LinesTo
<1>5. Seq(LinesTo(n)) \subseteq Seq(LinesTo(m))
    BY <1>4, SeqMonotonic
<1>6. FilesTo(n) \subseteq FilesTo(m)
    BY <1>5 DEF FilesTo
<1>7. QED
    BY <1>1, <1>2, <1>3, <1>4, <1>5, <1>6, SeqMonotonic

\* What a line carries.
LEMMA LineFacts ==
    ASSUME NEW n \in Nat, NEW line \in LinesTo(n)
    PROVE  /\ line.type \in LineTypes
           /\ line.type = "model" => line.holds \in Models
           /\ line.type = "item" => line.holds \in ItemsTo(n)
           /\ line.type = "checkpoint" => line.holds \in CheckpointsTo(n)
<1>1. CASE line \in {MetaLine, Junk, Cut}
    BY <1>1 DEF MetaLine, Junk, Cut, LineTypes
<1>2. ASSUME NEW model \in Models, line = ModelLine(model)
      PROVE  line.type = "model" /\ line.holds \in Models
    BY <1>2 DEF ModelLine
<1>3. ASSUME NEW item \in ItemsTo(n), line = ItemLine(item)
      PROVE  line.type = "item" /\ line.holds \in ItemsTo(n)
    BY <1>3 DEF ItemLine
<1>4. ASSUME NEW cp \in CheckpointsTo(n), line = CheckpointLine(cp)
      PROVE  line.type = "checkpoint" /\ line.holds \in CheckpointsTo(n)
    BY <1>4 DEF CheckpointLine
<1>5. QED
    BY <1>1, <1>2, <1>3, <1>4 DEF LinesTo, LineTypes

\* Each maker of lines.
LEMMA LinesMade ==
    ASSUME NEW n \in Nat
    PROVE  /\ MetaLine \in LinesTo(n) /\ MetaLine.type = "meta"
           /\ Junk \in LinesTo(n) /\ Junk.type = "junk"
           /\ Cut \in LinesTo(n) /\ Cut.type = "cut"
           /\ \A model \in Models :
                /\ ModelLine(model) \in LinesTo(n)
                /\ ModelLine(model).type = "model" /\ ModelLine(model).holds = model
           /\ \A item \in ItemsTo(n) :
                /\ ItemLine(item) \in LinesTo(n)
                /\ ItemLine(item).type = "item" /\ ItemLine(item).holds = item
           /\ \A cp \in CheckpointsTo(n) :
                /\ CheckpointLine(cp) \in LinesTo(n)
                /\ CheckpointLine(cp).type = "checkpoint" /\ CheckpointLine(cp).holds = cp
<1>1. /\ MetaLine.type = "meta" /\ Junk.type = "junk" /\ Cut.type = "cut"
      /\ \A x : ModelLine(x).type = "model" /\ ModelLine(x).holds = x
      /\ \A x : ItemLine(x).type = "item" /\ ItemLine(x).holds = x
      /\ \A x : CheckpointLine(x).type = "checkpoint" /\ CheckpointLine(x).holds = x
    BY DEF MetaLine, Junk, Cut, ModelLine, ItemLine, CheckpointLine
<1>2. /\ MetaLine \in LinesTo(n) /\ Junk \in LinesTo(n) /\ Cut \in LinesTo(n)
      /\ \A model \in Models : ModelLine(model) \in LinesTo(n)
      /\ \A item \in ItemsTo(n) : ItemLine(item) \in LinesTo(n)
      /\ \A cp \in CheckpointsTo(n) : CheckpointLine(cp) \in LinesTo(n)
    BY DEF LinesTo
<1>3. QED
    BY <1>1, <1>2

\* What the lines of a type hold is picked at their positions.
LEMMA HeldIsPicked ==
    ASSUME NEW T, NEW lines \in Seq(T), NEW type
    PROVE  Held(lines, type) = Picked([i \in DOMAIN lines |-> lines[i].holds],
                                      {i \in DOMAIN lines : lines[i].type = type})
<1> DEFINE P == {i \in DOMAIN lines : lines[i].type = type}
           all == [i \in DOMAIN lines |-> lines[i].holds]
           Read(f) == [n \in 0 .. Len(lines) |->
                            IF n = 0 THEN <<>>
                            ELSE IF lines[n].type = type THEN Append(f[n - 1], lines[n].holds)
                            ELSE f[n - 1]]
           held == CHOOSE f : f = Read(f)
<1>1. Len(lines) \in Nat /\ DOMAIN lines = 1 .. Len(lines) /\ Len(all) = Len(lines)
    BY LenProperties
<1>2. \A f : Picks(all, P, Len(lines), f) <=> f = Read(f)
  <2>1. \A n \in 0 .. Len(lines) :
            n # 0 => (n \in P <=> lines[n].type = type) /\ all[n] = lines[n].holds
    BY <1>1
  <2> HIDE DEF P, all
  <2>2. QED
    BY <2>1 DEF Picks, PickedOf
<1>3. Held(lines, type) = held[Len(lines)]
    BY DEF Held
<1> HIDE DEF P, all, Read
<1>4. \E f : f = Read(f)
    BY <1>1, <1>2, PickedExists
<1>5. Picks(all, P, Len(lines), held)
    BY <1>2, <1>4
<1> HIDE DEF held
<1>6. PICK picked : Picks(all, P, Len(lines), picked) /\ Picked(all, P) = picked[Len(lines)]
    BY <1>1, PickedUnfolds
<1>7. held[Len(lines)] = picked[Len(lines)]
    BY <1>1, <1>5, <1>6, PicksUnique
<1>8. QED
    BY <1>3, <1>6, <1>7 DEF P, all

\* Reading line by line.
LEMMA HeldAppend ==
    ASSUME NEW T, NEW lines \in Seq(T), NEW x \in T, NEW type
    PROVE  /\ Held(<<>>, type) = <<>>
           /\ Held(Append(lines, x), type) =
                IF x.type = type THEN Append(Held(lines, type), x.holds) ELSE Held(lines, type)
<1> DEFINE P(s) == {i \in DOMAIN s : s[i].type = type}
           All(s) == [i \in DOMAIN s |-> s[i].holds]
           A == {line.holds : line \in T}
<1>1. Held(<<>>, type) = <<>>
  <2>1. <<>> \in Seq(T) /\ All(<<>>) = <<>>
    BY EmptySeq
  <2>2. \A s \in Seq(T) : Held(s, type) = Picked(All(s), P(s))
    BY HeldIsPicked
  <2> HIDE DEF P, All
  <2>3. QED
    BY <2>1, <2>2, PickedEmpty
<1>2. /\ Append(lines, x) \in Seq(T)
      /\ DOMAIN Append(lines, x) = 1 .. Len(lines) + 1 /\ Append(lines, x)[Len(lines) + 1] = x
      /\ \A i \in 1 .. Len(lines) : Append(lines, x)[i] = lines[i] /\ lines[i] \in T
      /\ Len(lines) \in Nat /\ DOMAIN lines = 1 .. Len(lines)
    BY AppendProperties, LenProperties, ElementOfSeq
<1>3. All(lines) \in Seq(A) /\ Len(All(lines)) = Len(lines)
    BY <1>2
<1>4. All(Append(lines, x)) = Append(All(lines), x.holds)
  <2> DEFINE p == All(Append(lines, x))
             q == Append(All(lines), x.holds)
  <2>1. x.holds \in A
    OBVIOUS
  <2>2. \A k \in 1 .. Len(lines) + 1 : k \in 1 .. Len(lines) \/ k = Len(lines) + 1
    BY <1>2
  <2>3. \A k \in 1 .. Len(lines) : All(lines)[k] = lines[k].holds
    BY <1>2
  <2>4. /\ q \in Seq(A) /\ Len(q) = Len(lines) + 1 /\ q[Len(lines) + 1] = x.holds
        /\ \A k \in 1 .. Len(lines) : q[k] = lines[k].holds
    BY <1>2, <1>3, <2>1, <2>3, AppendProperties, LenProperties
  <2>5. p = [k \in 1 .. Len(lines) + 1 |-> Append(lines, x)[k].holds]
    BY <1>2
  <2>6. \A k \in 1 .. Len(lines) + 1 : p[k] = q[k]
    BY <1>2, <2>2, <2>4, <2>5
  <2>7. p \in Seq(A) /\ Len(p) = Len(lines) + 1
    <3>1. \A k \in 1 .. Len(lines) + 1 : Append(lines, x)[k] \in T
        BY <1>2, <2>2
    <3>2. QED
        BY <1>2, <2>5, <3>1
  <2>8. QED
    BY <1>2, <2>4, <2>6, <2>7, SeqEqual
<1>5. \A i \in 1 .. Len(lines) : i \in P(Append(lines, x)) <=> i \in P(lines)
    BY <1>2
<1>6. Len(lines) + 1 \in P(Append(lines, x)) <=> x.type = type
    BY <1>2
<1>7. /\ Held(lines, type) = Picked(All(lines), P(lines))
      /\ Held(Append(lines, x), type) = Picked(All(Append(lines, x)), P(Append(lines, x)))
    BY <1>2, HeldIsPicked
<1>8. x.holds \in A
    OBVIOUS
<1>9. Picked(Append(All(lines), x.holds), P(Append(lines, x))) =
        IF Len(lines) + 1 \in P(Append(lines, x)) THEN Append(Picked(All(lines), P(lines)), x.holds)
        ELSE Picked(All(lines), P(lines))
  <2>1. \A i \in 1 .. Len(All(lines)) : i \in P(Append(lines, x)) <=> i \in P(lines)
    BY <1>3, <1>5
  <2> DEFINE h == x.holds
             s == All(lines)
             new == P(Append(lines, x))
             old == P(lines)
  <2>2. /\ s \in Seq(A) /\ h \in A /\ Len(s) = Len(lines)
        /\ \A i \in 1 .. Len(s) : i \in new <=> i \in old
    BY <1>3, <1>8, <2>1
  <2> HIDE DEF h, s, new, old, A
  <2>3. \A t \in Seq(A), e \in A : \A p, q :
            (\A i \in 1 .. Len(t) : i \in p <=> i \in q)
            => Picked(Append(t, e), p) =
                    IF Len(t) + 1 \in p THEN Append(Picked(t, q), e) ELSE Picked(t, q)
    BY PickedAppend
  <2>4. Picked(Append(s, h), new) =
            IF Len(s) + 1 \in new THEN Append(Picked(s, old), h) ELSE Picked(s, old)
    BY <2>2, <2>3
  <2>5. QED
    BY <2>2, <2>4 DEF h, s, new, old
<1>10. QED
  <2> HIDE DEF P, All
  <2>1. QED
    BY <1>1, <1>4, <1>6, <1>7, <1>9

LEMMA HeldType ==
    ASSUME NEW T, NEW lines \in Seq(T), NEW type, NEW H,
           \A line \in T : line.type = type => line.holds \in H
    PROVE  Held(lines, type) \in Seq(H)
<1> DEFINE P == {i \in DOMAIN lines : lines[i].type = type}
           all == [i \in DOMAIN lines |-> lines[i].holds]
           A == {line.holds : line \in T}
<1>1. /\ \A i \in 1 .. Len(lines) : lines[i] \in T
      /\ Len(lines) \in Nat /\ DOMAIN lines = 1 .. Len(lines)
    BY LenProperties, ElementOfSeq
<1>2. all \in Seq(A) /\ Len(all) = Len(lines)
    BY <1>1
<1>3. Held(lines, type) = Picked(all, P)
    BY HeldIsPicked
<1>4. \A i \in 1 .. Len(lines) : i \in P => all[i] \in H
    BY <1>1
<1> HIDE DEF P, all, A
<1>5. /\ Picked(all, P) \in Seq(A)
      /\ \A k \in DOMAIN Picked(all, P) :
            \E i \in 1 .. Len(all) : i \in P /\ Picked(all, P)[k] = all[i]
    BY <1>2, PickedFacts
<1>6. \A k \in DOMAIN Held(lines, type) : Held(lines, type)[k] \in H
    BY <1>2, <1>3, <1>4, <1>5
<1>7. QED
    BY <1>3, <1>5, <1>6, LenProperties

LEMMA ItemsAppend ==
    ASSUME NEW n \in Nat, NEW lines \in Seq(LinesTo(n)), NEW x \in LinesTo(n)
    PROVE  /\ ParsedItems(<<>>) = <<>>
           /\ ParsedItems(lines) \in Seq(ItemsTo(n))
           /\ ParsedItems(Append(lines, x)) =
                IF x.type = "item" THEN Append(ParsedItems(lines), x.holds) ELSE ParsedItems(lines)
<1>1. \A line \in LinesTo(n) : line.type = "item" => line.holds \in ItemsTo(n)
    BY LineFacts
<1>2. Held(lines, "item") \in Seq(ItemsTo(n))
    BY <1>1, HeldType
<1>3. /\ Held(<<>>, "item") = <<>>
      /\ Held(Append(lines, x), "item") =
            IF x.type = "item" THEN Append(Held(lines, "item"), x.holds) ELSE Held(lines, "item")
    BY HeldAppend
<1>4. QED
    BY <1>2, <1>3 DEF ParsedItems

LEMMA CheckpointsAppend ==
    ASSUME NEW n \in Nat, NEW lines \in Seq(LinesTo(n)), NEW x \in LinesTo(n)
    PROVE  /\ ParsedCheckpoints(<<>>) = <<>>
           /\ ParsedCheckpoints(lines) \in Seq(CheckpointsTo(n))
           /\ ParsedCheckpoints(Append(lines, x)) =
                IF x.type = "checkpoint" THEN Append(ParsedCheckpoints(lines), x.holds)
                ELSE ParsedCheckpoints(lines)
<1>1. \A line \in LinesTo(n) : line.type = "checkpoint" => line.holds \in CheckpointsTo(n)
    BY LineFacts
<1>2. Held(lines, "checkpoint") \in Seq(CheckpointsTo(n))
    BY <1>1, HeldType
<1>3. /\ Held(<<>>, "checkpoint") = <<>>
      /\ Held(Append(lines, x), "checkpoint") =
            IF x.type = "checkpoint" THEN Append(Held(lines, "checkpoint"), x.holds) ELSE Held(lines, "checkpoint")
    BY HeldAppend
<1>4. QED
    BY <1>2, <1>3 DEF ParsedCheckpoints

LEMMA ModelAppend ==
    ASSUME NEW n \in Nat, NEW lines \in Seq(LinesTo(n)), NEW x \in LinesTo(n)
    PROVE  /\ ParsedModel(<<>>) = "none"
           /\ ParsedModel(lines) \in Models \cup {"none"}
           /\ ParsedModel(Append(lines, x)) = IF x.type = "model" THEN x.holds ELSE ParsedModel(lines)
<1>1. \A line \in LinesTo(n) : line.type = "model" => line.holds \in Models
    BY LineFacts
<1>2. /\ Held(<<>>, "model") = <<>> /\ Held(lines, "model") \in Seq(Models)
      /\ Held(Append(lines, x), "model") =
            IF x.type = "model" THEN Append(Held(lines, "model"), x.holds) ELSE Held(lines, "model")
  <2>1. Held(lines, "model") \in Seq(Models)
      BY <1>1, HeldType
  <2>2. QED
      BY <2>1, HeldAppend
<1> DEFINE f == Held(lines, "model")
           g == Held(Append(lines, x), "model")
<1>3. ParsedModel(lines) = (IF f = <<>> THEN "none" ELSE Last(f))
      /\ ParsedModel(Append(lines, x)) = (IF g = <<>> THEN "none" ELSE Last(g))
    BY DEF ParsedModel
<1>4. ParsedModel(<<>>) = "none"
    BY <1>2 DEF ParsedModel
<1>5. f \in Seq(Models) /\ g = IF x.type = "model" THEN Append(f, x.holds) ELSE f
    BY <1>2
<1> HIDE DEF f, g
<1>6. ASSUME f # <<>> PROVE Last(f) \in Models
  <2>1. Len(f) \in DOMAIN f
    BY <1>5, <1>6, EmptySeq, LenProperties
  <2>2. QED
    BY <1>5, <2>1, LenProperties, ElementOfSeq DEF Last
<1>7. ASSUME x.type = "model" PROVE g # <<>> /\ Last(g) = x.holds
  <2>1. g = Append(f, x.holds) /\ x.holds \in Models
    BY <1>1, <1>5, <1>7
  <2>2. g # <<>> /\ g[Len(f) + 1] = x.holds /\ Len(g) = Len(f) + 1
    BY <1>5, <2>1, AppendProperties
  <2>3. QED
    BY <2>2 DEF Last
<1>8. QED
    BY <1>5, <1>3, <1>4, <1>6, <1>7

LEMMA LoadsAppend ==
    ASSUME NEW n \in Nat, NEW lines \in Seq(LinesTo(n)), NEW x \in LinesTo(n), Loads(lines),
           x.type # "cut"
    PROVE  Loads(Append(lines, x))
<1>1. /\ DOMAIN Append(lines, x) = 1 .. Len(lines) + 1 /\ Append(lines, x)[Len(lines) + 1] = x
      /\ \A i \in 1 .. Len(lines) : Append(lines, x)[i] = lines[i]
      /\ Len(lines) \in Nat /\ DOMAIN lines = 1 .. Len(lines)
    BY AppendProperties, LenProperties
<1>2. \A k \in 1 .. Len(lines) + 1 : k \in 1 .. Len(lines) \/ k = Len(lines) + 1
    BY <1>1
<1>3. 1 .. Len(lines) \subseteq 1 .. Len(lines) + 1
    BY <1>1
<1>4. QED
    BY <1>1, <1>2, <1>3 DEF Loads

-----------------------------------------------------------------------------
(* What fits.                                                              *)

LEMMA FrontFacts ==
    ASSUME NEW T, NEW s \in Seq(T), NEW k \in 0 .. Len(s)
    PROVE  /\ SubSeq(s, 1, k) \in Seq(T) /\ Len(SubSeq(s, 1, k)) = k
           /\ \A i \in 1 .. k : SubSeq(s, 1, k)[i] = s[i]
           /\ \A m \in 0 .. k : SubSeq(SubSeq(s, 1, k), 1, m) = SubSeq(s, 1, m)
<1>1. Len(s) \in Nat /\ \A i \in 1 .. Len(s) : s[i] \in T
    BY LenProperties, ElementOfSeq
<1>2. \A m \in 0 .. Len(s) : /\ SubSeq(s, 1, m) \in Seq(T) /\ Len(SubSeq(s, 1, m)) = m
                             /\ \A i \in 1 .. m : SubSeq(s, 1, m)[i] = s[i]
  <2> SUFFICES ASSUME NEW m \in 0 .. Len(s)
               PROVE  /\ SubSeq(s, 1, m) \in Seq(T) /\ Len(SubSeq(s, 1, m)) = m
                      /\ \A i \in 1 .. m : SubSeq(s, 1, m)[i] = s[i]
    OBVIOUS
  <2>1. \A i \in 1 .. m : s[i] \in T
    BY <1>1
  <2>2. QED
    BY <1>1, <2>1, SubSeqProperties
<1> DEFINE t == SubSeq(s, 1, k)
<1>3. t \in Seq(T) /\ Len(t) = k /\ \A i \in 1 .. k : t[i] = s[i] /\ t[i] \in T
    BY <1>1, <1>2
<1> HIDE DEF t
<1>4. ASSUME NEW m \in 0 .. k PROVE SubSeq(t, 1, m) = SubSeq(s, 1, m)
  <2>1. \A i \in 1 .. m : t[i] \in T
    BY <1>1, <1>3
  <2>2. SubSeq(t, 1, m) \in Seq(T) /\ Len(SubSeq(t, 1, m)) = m
        /\ \A i \in 1 .. m : SubSeq(t, 1, m)[i] = t[i]
    BY <1>1, <2>1, SubSeqProperties
  <2>3. SubSeq(s, 1, m) \in Seq(T) /\ Len(SubSeq(s, 1, m)) = m
        /\ \A i \in 1 .. m : SubSeq(s, 1, m)[i] = s[i]
    BY <1>1, <1>2
  <2>4. \A i \in 1 .. m : SubSeq(t, 1, m)[i] = SubSeq(s, 1, m)[i]
    BY <1>1, <1>3, <2>2, <2>3
  <2>5. QED
    BY <2>2, <2>3, <2>4, SeqEqual
<1>5. QED
    BY <1>2, <1>3, <1>4 DEF t

\* The first k elements of a queue with one more are those of the queue.
LEMMA FrontOfAppend ==
    ASSUME NEW T, NEW s \in Seq(T), NEW e \in T, NEW k \in 0 .. Len(s)
    PROVE  SubSeq(Append(s, e), 1, k) = SubSeq(s, 1, k)
<1>1. /\ Append(s, e) \in Seq(T) /\ Len(Append(s, e)) = Len(s) + 1 /\ Len(s) \in Nat
      /\ \A i \in 1 .. Len(s) : Append(s, e)[i] = s[i]
    BY AppendProperties, LenProperties
<1>2. k \in 0 .. Len(Append(s, e))
    BY <1>1
<1>3. \A i \in 1 .. k : SubSeq(Append(s, e), 1, k)[i] = SubSeq(s, 1, k)[i]
    BY <1>1, <1>2, FrontFacts
<1>4. QED
    BY <1>1, <1>2, <1>3, FrontFacts, SeqEqual

\* A checkpoint that fits a conversation fits any that shares its first part, if what
\* comes after is not of its work.
LEMMA FitPrefix ==
    ASSUME NEW T, NEW items \in Seq(T), NEW to \in Seq(T), NEW cp, cp.after \in Nat,
           Fit(cp, items), cp.after <= Len(to),
           \A k \in 1 .. cp.after : to[k] = items[k],
           \A k \in 1 .. Len(to) : k > cp.after => to[k].id \notin cp.tree
    PROVE  Fit(cp, to)
<1>1. Len(to) \in Nat /\ DOMAIN to = 1 .. Len(to) /\ Len(items) \in Nat
    BY LenProperties
<1>2. cp.after \in 0 .. Len(items) /\ cp.after \in 0 .. Len(to)
    BY <1>1 DEF Fit
<1>3. SubSeq(to, 1, cp.after) = SubSeq(items, 1, cp.after)
  <2>1. \A i \in 1 .. cp.after : SubSeq(to, 1, cp.after)[i] = SubSeq(items, 1, cp.after)[i]
    BY <1>2, FrontFacts
  <2>2. QED
    BY <1>2, <2>1, FrontFacts, SeqEqual
<1>4. QED
    BY <1>1, <1>3 DEF Fit

LEMMA ConcatAppend ==
    ASSUME NEW T, NEW s \in Seq(T), NEW t \in Seq(T), NEW e \in T
    PROVE  s \o Append(t, e) = Append(s \o t, e)
<1>1. Append(t, e) = t \o <<e>> /\ <<e>> \in Seq(T)
    BY AppendIsConcat
<1>2. s \o t \in Seq(T) /\ Append(s \o t, e) = (s \o t) \o <<e>>
    BY ConcatProperties, AppendIsConcat
<1>3. QED
    BY <1>1, <1>2, ConcatAssociative

LEMMA ItemLinesFacts ==
    ASSUME NEW n \in Nat, NEW h \in Seq(ItemsTo(n)), NEW e \in ItemsTo(n)
    PROVE  /\ ItemLines(<<>>) = <<>>
           /\ ItemLines(h) \in Seq(LinesTo(n)) /\ Len(ItemLines(h)) = Len(h)
           /\ ItemLines(Append(h, e)) = Append(ItemLines(h), ItemLine(e))
<1>1. \A g \in Seq(ItemsTo(n)) : /\ ItemLines(g) = [i \in 1 .. Len(g) |-> ItemLine(g[i])]
                                 /\ Len(g) \in Nat
                                 /\ \A i \in 1 .. Len(g) : g[i] \in ItemsTo(n)
    BY LenProperties, ElementOfSeq DEF ItemLines
<1>2. \A i \in ItemsTo(n) : ItemLine(i) \in LinesTo(n)
    BY LinesMade
<1>3. \A g \in Seq(ItemsTo(n)) :
            ItemLines(g) \in Seq(LinesTo(n)) /\ Len(ItemLines(g)) = Len(g)
  <2> SUFFICES ASSUME NEW g \in Seq(ItemsTo(n))
               PROVE  ItemLines(g) \in Seq(LinesTo(n)) /\ Len(ItemLines(g)) = Len(g)
    OBVIOUS
  <2>1. ItemLines(g) = [i \in 1 .. Len(g) |-> ItemLine(g[i])]
    BY <1>1
  <2>2. \A i \in 1 .. Len(g) : ItemLine(g[i]) \in LinesTo(n)
    BY <1>1, <1>2
  <2>3. Len(g) \in Nat
    BY <1>1
  <2>4. QED
    BY <2>1, <2>2, <2>3
<1>4. ItemLines(<<>>) = <<>>
    BY DEF ItemLines
<1> DEFINE p == ItemLines(Append(h, e))
           q == Append(ItemLines(h), ItemLine(e))
<1>5. /\ Append(h, e) \in Seq(ItemsTo(n)) /\ Len(Append(h, e)) = Len(h) + 1
      /\ Append(h, e)[Len(h) + 1] = e /\ \A i \in 1 .. Len(h) : Append(h, e)[i] = h[i]
    BY AppendProperties
<1>6. /\ q \in Seq(LinesTo(n)) /\ Len(q) = Len(h) + 1 /\ q[Len(h) + 1] = ItemLine(e)
      /\ \A i \in 1 .. Len(h) : q[i] = ItemLine(h[i])
  <2>1. ItemLine(e) \in LinesTo(n)
    BY <1>2
  <2>2. ItemLines(h) \in Seq(LinesTo(n)) /\ Len(ItemLines(h)) = Len(h)
    BY <1>3
  <2>3. \A i \in 1 .. Len(h) : ItemLines(h)[i] = ItemLine(h[i])
    <3>1. ItemLines(h) = [i \in 1 .. Len(h) |-> ItemLine(h[i])]
        BY <1>1
    <3>2. QED
        BY <3>1
  <2>4. QED
    BY <2>1, <2>2, <2>3, AppendProperties
<1>7. \A i \in 1 .. Len(h) + 1 : p[i] = q[i]
  <2>1. \A i \in 1 .. Len(h) + 1 : p[i] = ItemLine(Append(h, e)[i])
    BY <1>1, <1>5
  <2>2. \A i \in 1 .. Len(h) + 1 : i \in 1 .. Len(h) \/ i = Len(h) + 1
    BY <1>1
  <2>3. QED
    BY <1>5, <1>6, <2>1, <2>2
<1>8. p \in Seq(LinesTo(n)) /\ Len(p) = Len(h) + 1
    BY <1>3, <1>5
<1>9. p = q
    BY <1>6, <1>7, <1>8, SeqEqual
<1>10. QED
    BY <1>3, <1>4, <1>9

LEMMA CheckpointLinesFacts ==
    ASSUME NEW n \in Nat, NEW h \in Seq(CheckpointsTo(n)), NEW e \in CheckpointsTo(n)
    PROVE  /\ CheckpointLines(<<>>) = <<>>
           /\ CheckpointLines(h) \in Seq(LinesTo(n)) /\ Len(CheckpointLines(h)) = Len(h)
           /\ CheckpointLines(Append(h, e)) = Append(CheckpointLines(h), CheckpointLine(e))
<1>1. \A g \in Seq(CheckpointsTo(n)) : /\ CheckpointLines(g) = [i \in 1 .. Len(g) |-> CheckpointLine(g[i])]
                                 /\ Len(g) \in Nat
                                 /\ \A i \in 1 .. Len(g) : g[i] \in CheckpointsTo(n)
    BY LenProperties, ElementOfSeq DEF CheckpointLines
<1>2. \A i \in CheckpointsTo(n) : CheckpointLine(i) \in LinesTo(n)
    BY LinesMade
<1>3. \A g \in Seq(CheckpointsTo(n)) :
            CheckpointLines(g) \in Seq(LinesTo(n)) /\ Len(CheckpointLines(g)) = Len(g)
  <2> SUFFICES ASSUME NEW g \in Seq(CheckpointsTo(n))
               PROVE  CheckpointLines(g) \in Seq(LinesTo(n)) /\ Len(CheckpointLines(g)) = Len(g)
    OBVIOUS
  <2>1. CheckpointLines(g) = [i \in 1 .. Len(g) |-> CheckpointLine(g[i])]
    BY <1>1
  <2>2. \A i \in 1 .. Len(g) : CheckpointLine(g[i]) \in LinesTo(n)
    BY <1>1, <1>2
  <2>3. Len(g) \in Nat
    BY <1>1
  <2>4. QED
    BY <2>1, <2>2, <2>3
<1>4. CheckpointLines(<<>>) = <<>>
    BY DEF CheckpointLines
<1> DEFINE p == CheckpointLines(Append(h, e))
           q == Append(CheckpointLines(h), CheckpointLine(e))
<1>5. /\ Append(h, e) \in Seq(CheckpointsTo(n)) /\ Len(Append(h, e)) = Len(h) + 1
      /\ Append(h, e)[Len(h) + 1] = e /\ \A i \in 1 .. Len(h) : Append(h, e)[i] = h[i]
    BY AppendProperties
<1>6. /\ q \in Seq(LinesTo(n)) /\ Len(q) = Len(h) + 1 /\ q[Len(h) + 1] = CheckpointLine(e)
      /\ \A i \in 1 .. Len(h) : q[i] = CheckpointLine(h[i])
  <2>1. CheckpointLine(e) \in LinesTo(n)
    BY <1>2
  <2>2. CheckpointLines(h) \in Seq(LinesTo(n)) /\ Len(CheckpointLines(h)) = Len(h)
    BY <1>3
  <2>3. \A i \in 1 .. Len(h) : CheckpointLines(h)[i] = CheckpointLine(h[i])
    <3>1. CheckpointLines(h) = [i \in 1 .. Len(h) |-> CheckpointLine(h[i])]
        BY <1>1
    <3>2. QED
        BY <3>1
  <2>4. QED
    BY <2>1, <2>2, <2>3, AppendProperties
<1>7. \A i \in 1 .. Len(h) + 1 : p[i] = q[i]
  <2>1. \A i \in 1 .. Len(h) + 1 : p[i] = CheckpointLine(Append(h, e)[i])
    BY <1>1, <1>5
  <2>2. \A i \in 1 .. Len(h) + 1 : i \in 1 .. Len(h) \/ i = Len(h) + 1
    BY <1>1
  <2>3. QED
    BY <1>5, <1>6, <2>1, <2>2
<1>8. p \in Seq(LinesTo(n)) /\ Len(p) = Len(h) + 1
    BY <1>3, <1>5
<1>9. p = q
    BY <1>6, <1>7, <1>8, SeqEqual
<1>10. QED
    BY <1>3, <1>4, <1>9

-----------------------------------------------------------------------------
(* Writing a file.                                                         *)

LEMMA FileFitsNow ==
    ASSUME NEW n \in Nat, NEW lines \in Seq(LinesTo(n)), FileFits(lines)
    PROVE  Consistent(lines)
<1>1. SubSeq(lines, 1, Len(lines)) = lines /\ Len(lines) \in 0 .. Len(lines)
    BY SubSeqFull, LenProperties
<1>2. QED
    BY <1>1 DEF FileFits

LEMMA FileFitsAppend ==
    ASSUME NEW n \in Nat, NEW lines \in Seq(LinesTo(n)), NEW x \in LinesTo(n),
           FileFits(lines), Increasing(ParsedItems(Append(lines, x))),
           Consistent(Append(lines, x))
    PROVE  FileFits(Append(lines, x))
<1> DEFINE more == Append(lines, x)
<1>1. more \in Seq(LinesTo(n)) /\ Len(more) = Len(lines) + 1 /\ Len(lines) \in Nat
    BY AppendProperties, LenProperties
<1>2. \A m \in 0 .. Len(lines) : SubSeq(more, 1, m) = SubSeq(lines, 1, m)
    BY FrontOfAppend
<1>3. SubSeq(more, 1, Len(more)) = more
    BY <1>1, SubSeqFull
<1>4. \A m \in 0 .. Len(more) : m \in 0 .. Len(lines) \/ m = Len(more)
    BY <1>1
<1>5. \A m \in 0 .. Len(lines) : Consistent(SubSeq(lines, 1, m))
    BY DEF FileFits
<1> HIDE DEF more
<1>6. \A m \in 0 .. Len(more) : Consistent(SubSeq(more, 1, m))
    BY <1>2, <1>3, <1>4, <1>5 DEF more
<1>7. QED
    BY <1>6 DEF FileFits, more

\* A line that is neither an item nor a checkpoint changes nothing of either.
LEMMA AddOther ==
    ASSUME NEW n \in Nat, NEW lines \in Seq(LinesTo(n)), NEW x \in LinesTo(n),
           x.type \notin {"item", "checkpoint"}
    PROVE  /\ Append(lines, x) \in Seq(LinesTo(n)) /\ Len(Append(lines, x)) = Len(lines) + 1
           /\ ParsedItems(Append(lines, x)) = ParsedItems(lines)
           /\ ParsedCheckpoints(Append(lines, x)) = ParsedCheckpoints(lines)
           /\ FileFits(lines) => FileFits(Append(lines, x))
<1>1. /\ Append(lines, x) \in Seq(LinesTo(n)) /\ Len(Append(lines, x)) = Len(lines) + 1
      /\ ParsedItems(Append(lines, x)) = ParsedItems(lines)
      /\ ParsedCheckpoints(Append(lines, x)) = ParsedCheckpoints(lines)
    BY AppendProperties, ItemsAppend, CheckpointsAppend
<1>2. ASSUME FileFits(lines) PROVE FileFits(Append(lines, x))
  <2>1. Consistent(Append(lines, x))
    BY <1>1, <1>2, FileFitsNow DEF Consistent
  <2>2. Increasing(ParsedItems(Append(lines, x)))
    BY <1>1, <1>2 DEF FileFits
  <2>3. QED
    BY <1>2, <2>1, <2>2, FileFitsAppend
<1>3. QED
    BY <1>1, <1>2

\* Items appended to a file whose checkpoints fit the conversation they make.
ItemsAdded(a, h, n, b) ==
    /\ b \in Seq(LinesTo(n)) /\ Len(b) >= Len(a)
    /\ ParsedItems(b) = ParsedItems(a) \o h
    /\ ParsedCheckpoints(b) = ParsedCheckpoints(a) /\ ParsedModel(b) = ParsedModel(a)
    /\ Loads(a) => Loads(b)
    /\ FileFits(b)
MayAdd(a, h) ==
    /\ Increasing(ParsedItems(a) \o h)
    /\ \A j \in DOMAIN ParsedCheckpoints(a) : Fit(ParsedCheckpoints(a)[j], ParsedItems(a) \o h)

LEMMA AddItems ==
    ASSUME NEW n \in Nat, NEW a \in Seq(LinesTo(n)), FileFits(a),
           NEW h \in Seq(ItemsTo(n)), MayAdd(a, h)
    PROVE  ItemsAdded(a, h, n, a \o ItemLines(h))
<1> DEFINE K == {g \in Seq(ItemsTo(n)) :
                    MayAdd(a, g) => ItemsAdded(a, g, n, a \o ItemLines(g))}
<1>0. ParsedItems(a) \in Seq(ItemsTo(n)) /\ Len(a) \in Nat
    BY ItemsAppend, LinesMade, LenProperties
<1>1. <<>> \in K
  <2>1. /\ a \o ItemLines(<<>>) = a /\ ParsedItems(a) \o <<>> = ParsedItems(a)
        /\ <<>> \in Seq(ItemsTo(n))
    <3>1. ItemLines(<<>>) = <<>>
        BY DEF ItemLines
    <3>2. QED
        BY <1>0, <3>1, ConcatEmptySeq, EmptySeq
  <2>2. ItemsAdded(a, <<>>, n, a)
    BY <1>0, <2>1 DEF ItemsAdded
  <2>3. QED
    BY <2>1, <2>2
<1>2. ASSUME NEW g \in Seq(ItemsTo(n)), NEW e \in ItemsTo(n), g \in K PROVE Append(g, e) \in K
  <2> DEFINE b == a \o ItemLines(g)
             items == ParsedItems(a) \o g
  <2>1. Append(g, e) \in Seq(ItemsTo(n)) /\ ItemLine(e) \in LinesTo(n)
        /\ ItemLine(e).type = "item" /\ ItemLine(e).holds = e
    BY AppendProperties, LinesMade
  <2>2. a \o ItemLines(Append(g, e)) = Append(b, ItemLine(e))
    <3>1. /\ ItemLines(g) \in Seq(LinesTo(n))
          /\ ItemLines(Append(g, e)) = Append(ItemLines(g), ItemLine(e))
        BY ItemLinesFacts
    <3>2. QED
        BY <2>1, <3>1, ConcatAppend
  <2>3. ParsedItems(a) \o Append(g, e) = Append(items, e)
    BY <1>0, ConcatAppend
  <2>4. items \in Seq(ItemsTo(n)) /\ Len(items) = Len(ParsedItems(a)) + Len(g)
        /\ Len(g) \in Nat /\ Len(ParsedItems(a)) \in Nat
    BY <1>0, ConcatProperties, LenProperties
  <2> HIDE DEF b, items
  <2>5. /\ Append(items, e) \in Seq(ItemsTo(n)) /\ DOMAIN items = 1 .. Len(items)
        /\ DOMAIN Append(items, e) = 1 .. Len(items) + 1
        /\ \A i \in 1 .. Len(items) : Append(items, e)[i] = items[i]
        /\ Len(Append(items, e)) = Len(items) + 1 /\ Len(items) \in Nat
    BY <2>4, AppendProperties, LenProperties
  <2> SUFFICES ASSUME MayAdd(a, Append(g, e))
               PROVE  ItemsAdded(a, Append(g, e), n, Append(b, ItemLine(e)))
    BY <2>1, <2>2
  <2>6. MayAdd(a, g)
    <3>1. Increasing(items)
        <4>1. Increasing(Append(items, e))
            BY <2>3 DEF MayAdd
        <4>2. \A i \in 1 .. Len(items) : i \in 1 .. Len(items) + 1
            BY <2>5
        <4>3. QED
            BY <2>5, <4>1, <4>2 DEF Increasing
    <3>2. ASSUME NEW j \in DOMAIN ParsedCheckpoints(a) PROVE Fit(ParsedCheckpoints(a)[j], items)
        <4> DEFINE cp == ParsedCheckpoints(a)[j]
        <4>1. Fit(cp, ParsedItems(a)) /\ Fit(cp, Append(items, e))
            BY <2>3, FileFitsNow DEF MayAdd, Consistent
        <4>2. cp.after \in Nat
            <5>1. cp \in CheckpointsTo(n)
                BY <2>1, CheckpointsAppend, LenProperties, ElementOfSeq
            <5>2. QED
                BY <5>1 DEF CheckpointsTo
        <4> HIDE DEF cp
        <4>3. cp.after <= Len(items)
            BY <2>4, <4>1, <4>2 DEF Fit
        <4>4. \A k \in 1 .. Len(items) : k > cp.after => items[k].id \notin cp.tree
            BY <2>5, <4>1 DEF Fit
        <4>5. \A k \in 1 .. cp.after : items[k] = Append(items, e)[k]
            BY <2>5, <4>2, <4>3
        <4>6. Fit(cp, items)
            BY <2>4, <2>5, <4>1, <4>2, <4>3, <4>4, <4>5, FitPrefix
        <4>7. QED
            BY <4>6 DEF cp
    <3>3. QED
        BY <3>1, <3>2 DEF MayAdd, items
  <2>7. ItemsAdded(a, g, n, b)
    BY <1>2, <2>6 DEF b
  <2>8. /\ b \in Seq(LinesTo(n)) /\ Len(b) >= Len(a) /\ Len(b) \in Nat /\ FileFits(b)
        /\ ParsedItems(b) = items /\ ParsedCheckpoints(b) = ParsedCheckpoints(a)
        /\ ParsedModel(b) = ParsedModel(a)
        /\ Loads(a) => Loads(b)
    BY <2>7, LenProperties DEF ItemsAdded, items
  <2> DEFINE c == Append(b, ItemLine(e))
  <2>9. /\ c \in Seq(LinesTo(n)) /\ Len(c) = Len(b) + 1
        /\ ParsedItems(c) = Append(items, e) /\ ParsedCheckpoints(c) = ParsedCheckpoints(a)
        /\ ParsedModel(c) = ParsedModel(a)
    <3>1. c \in Seq(LinesTo(n)) /\ Len(c) = Len(b) + 1
        BY <2>1, <2>8, AppendProperties
    <3>2. ParsedItems(c) = Append(ParsedItems(b), e)
        BY <2>1, <2>8, ItemsAppend
    <3>3. ParsedCheckpoints(c) = ParsedCheckpoints(b)
        BY <2>1, <2>8, CheckpointsAppend
    <3>4. ParsedModel(c) = ParsedModel(b)
        BY <2>1, <2>8, ModelAppend
    <3>5. QED
        BY <2>8, <3>1, <3>2, <3>3, <3>4
  <2>10. ASSUME Loads(a) PROVE Loads(c)
    <3>1. Loads(b) /\ ItemLine(e).type # "cut"
        BY <2>1, <2>8, <2>10
    <3>2. QED
        BY <2>1, <2>8, <3>1, LoadsAppend
  <2>11. Consistent(c) /\ Increasing(ParsedItems(c))
    BY <2>3, <2>9 DEF Consistent, MayAdd
  <2>12. FileFits(c)
    BY <2>1, <2>8, <2>11, FileFitsAppend
  <2>13. QED
    BY <1>0, <2>3, <2>8, <2>9, <2>10, <2>12 DEF ItemsAdded
<1> HIDE DEF K
<1>3. Seq(ItemsTo(n)) \subseteq K
    BY <1>1, <1>2, QueueInduction
<1>4. QED
    BY <1>3 DEF K

\* Checkpoints appended to a file whose items they fit.
CheckpointsAdded(a, cs, n, b) ==
    /\ b \in Seq(LinesTo(n)) /\ Len(b) >= Len(a)
    /\ ParsedCheckpoints(b) = ParsedCheckpoints(a) \o cs
    /\ ParsedItems(b) = ParsedItems(a) /\ ParsedModel(b) = ParsedModel(a)
    /\ Loads(a) => Loads(b)
    /\ FileFits(b)

LEMMA AddCheckpoints ==
    ASSUME NEW n \in Nat, NEW a \in Seq(LinesTo(n)), FileFits(a),
           NEW cs \in Seq(CheckpointsTo(n)),
           \A j \in DOMAIN cs : Fit(cs[j], ParsedItems(a))
    PROVE  CheckpointsAdded(a, cs, n, a \o CheckpointLines(cs))
<1> DEFINE May(g) == \A j \in DOMAIN g : Fit(g[j], ParsedItems(a))
           K == {g \in Seq(CheckpointsTo(n)) :
                    May(g) => CheckpointsAdded(a, g, n, a \o CheckpointLines(g))}
<1>0. ParsedCheckpoints(a) \in Seq(CheckpointsTo(n)) /\ Len(a) \in Nat
    BY CheckpointsAppend, LinesMade, LenProperties
<1>1. <<>> \in K
  <2>1. /\ a \o CheckpointLines(<<>>) = a /\ ParsedCheckpoints(a) \o <<>> = ParsedCheckpoints(a)
        /\ <<>> \in Seq(CheckpointsTo(n))
    <3>1. CheckpointLines(<<>>) = <<>>
        BY DEF CheckpointLines
    <3>2. QED
        BY <1>0, <3>1, ConcatEmptySeq, EmptySeq
  <2>2. CheckpointsAdded(a, <<>>, n, a)
    BY <1>0, <2>1 DEF CheckpointsAdded
  <2>3. QED
    BY <2>1, <2>2
<1>2. ASSUME NEW g \in Seq(CheckpointsTo(n)), NEW e \in CheckpointsTo(n), g \in K
      PROVE  Append(g, e) \in K
  <2> DEFINE b == a \o CheckpointLines(g)
             c == Append(b, CheckpointLine(e))
  <2>1. Append(g, e) \in Seq(CheckpointsTo(n)) /\ CheckpointLine(e) \in LinesTo(n)
        /\ CheckpointLine(e).type = "checkpoint" /\ CheckpointLine(e).holds = e
    BY AppendProperties, LinesMade
  <2>2. a \o CheckpointLines(Append(g, e)) = c
    <3>1. /\ CheckpointLines(g) \in Seq(LinesTo(n))
          /\ CheckpointLines(Append(g, e)) = Append(CheckpointLines(g), CheckpointLine(e))
        BY CheckpointLinesFacts
    <3>2. QED
        BY <2>1, <3>1, ConcatAppend
  <2>3. ParsedCheckpoints(a) \o Append(g, e) = Append(ParsedCheckpoints(a) \o g, e)
    BY <1>0, ConcatAppend
  <2> SUFFICES ASSUME May(Append(g, e))
               PROVE  CheckpointsAdded(a, Append(g, e), n, c)
    BY <2>1, <2>2
  <2> HIDE DEF b
  <2>4. May(g) /\ Fit(e, ParsedItems(a))
    <3>1. /\ DOMAIN g = 1 .. Len(g) /\ DOMAIN Append(g, e) = 1 .. Len(g) + 1 /\ Len(g) \in Nat
          /\ \A j \in 1 .. Len(g) : Append(g, e)[j] = g[j]
          /\ Append(g, e)[Len(g) + 1] = e
        BY AppendProperties, LenProperties
    <3>2. Len(g) + 1 \in DOMAIN Append(g, e) /\ \A j \in DOMAIN g : j \in DOMAIN Append(g, e)
        BY <3>1
    <3>3. Fit(Append(g, e)[Len(g) + 1], ParsedItems(a))
        BY <3>2
    <3>4. \A j \in DOMAIN g : Fit(Append(g, e)[j], ParsedItems(a))
        BY <3>2
    <3>5. QED
        BY <3>1, <3>3, <3>4
  <2>5. CheckpointsAdded(a, g, n, b)
    BY <1>2, <2>4 DEF b
  <2>6. /\ b \in Seq(LinesTo(n)) /\ Len(b) >= Len(a) /\ Len(b) \in Nat /\ FileFits(b)
        /\ ParsedCheckpoints(b) = ParsedCheckpoints(a) \o g
        /\ ParsedItems(b) = ParsedItems(a) /\ ParsedModel(b) = ParsedModel(a)
        /\ Loads(a) => Loads(b)
    BY <2>5, LenProperties DEF CheckpointsAdded
  <2>7. c \in Seq(LinesTo(n)) /\ Len(c) = Len(b) + 1
    BY <2>1, <2>6, AppendProperties
  <2>8. ParsedItems(c) = ParsedItems(b)
    BY <2>1, <2>6, ItemsAppend
  <2>9. ParsedCheckpoints(c) = Append(ParsedCheckpoints(b), e)
    BY <2>1, <2>6, CheckpointsAppend
  <2>10. ParsedModel(c) = ParsedModel(b)
    BY <2>1, <2>6, ModelAppend
  <2>11. ASSUME Loads(a) PROVE Loads(c)
    <3>1. Loads(b) /\ CheckpointLine(e).type # "cut"
        BY <2>1, <2>6, <2>11
    <3>2. QED
        BY <2>1, <2>6, <3>1, LoadsAppend
  <2>12. Consistent(c)
    <3> DEFINE p == ParsedCheckpoints(b)
    <3>1. p \in Seq(CheckpointsTo(n))
        BY <2>1, <2>6, CheckpointsAppend
    <3> HIDE DEF p
    <3>2. /\ DOMAIN p = 1 .. Len(p) /\ DOMAIN Append(p, e) = 1 .. Len(p) + 1 /\ Len(p) \in Nat
          /\ \A j \in 1 .. Len(p) : Append(p, e)[j] = p[j]
          /\ Append(p, e)[Len(p) + 1] = e
        BY <3>1, AppendProperties, LenProperties
    <3>3. \A j \in 1 .. Len(p) + 1 : j \in 1 .. Len(p) \/ j = Len(p) + 1
        BY <3>2
    <3>4. \A j \in DOMAIN p : Fit(p[j], ParsedItems(b))
        BY <2>6, FileFitsNow DEF Consistent, p
    <3>5. \A j \in DOMAIN Append(p, e) : Fit(Append(p, e)[j], ParsedItems(b))
        BY <2>4, <2>6, <3>2, <3>3, <3>4
    <3>6. QED
        BY <2>8, <2>9, <3>5 DEF Consistent, p
  <2>13. Increasing(ParsedItems(c))
    BY <2>6, <2>8 DEF FileFits
  <2>14. FileFits(c)
    BY <2>1, <2>6, <2>12, <2>13, FileFitsAppend
  <2> HIDE DEF c
  <2>15. QED
    BY <1>0, <2>3, <2>6, <2>7, <2>8, <2>9, <2>10, <2>11, <2>14 DEF CheckpointsAdded
<1> HIDE DEF K
<1>3. Seq(CheckpointsTo(n)) \subseteq K
    BY <1>1, <1>2, QueueInduction
<1>4. CheckpointsAdded(a, cs, n, a \o CheckpointLines(cs))
  <2>1. cs \in K
    BY <1>3
  <2>2. May(cs)
    OBVIOUS
  <2>3. QED
    BY <2>1, <2>2 DEF K
<1>5. QED
    BY <1>4

-----------------------------------------------------------------------------
(* Losing the end of a file.                                               *)

\* t begins with s.
Begins(s, t) == Len(s) <= Len(t) /\ \A i \in 1 .. Len(s) : s[i] = t[i]

LEMMA BeginsIsPrefix ==
    ASSUME NEW T, NEW s \in Seq(T), NEW t \in Seq(T), Begins(s, t)
    PROVE  IsPrefix(s, t)
<1>1. Len(s) \in Nat /\ Len(t) \in Nat /\ Len(s) \in 0 .. Len(t) /\ Len(s) \in 0 .. Len(s)
    BY LenProperties DEF Begins
<1>2. \A i \in 1 .. Len(s) : SubSeq(s, 1, Len(s))[i] = SubSeq(t, 1, Len(s))[i]
    BY <1>1, FrontFacts DEF Begins
<1>3. SubSeq(s, 1, Len(s)) = SubSeq(t, 1, Len(s))
    BY <1>1, <1>2, FrontFacts, SeqEqual
<1>4. QED
    BY <1>3 DEF IsPrefix, Begins

LEMMA ItemsOfFront ==
    ASSUME NEW n \in Nat, NEW lines \in Seq(LinesTo(n)), NEW m \in 0 .. Len(lines)
    PROVE  Begins(ParsedItems(SubSeq(lines, 1, m)), ParsedItems(lines))
<1> DEFINE K == {l \in Seq(LinesTo(n)) :
                    \A k \in 0 .. Len(l) : Begins(ParsedItems(SubSeq(l, 1, k)), ParsedItems(l))}
<1>1. <<>> \in K
  <2>1. ParsedItems(<<>>) = <<>> /\ Len(<<>>) = 0 /\ <<>> \in Seq(LinesTo(n))
    BY ItemsAppend, LinesMade, EmptySeq
  <2>2. \A k \in 0 .. 0 : SubSeq(<<>>, 1, k) = <<>>
    BY SubSeqEmpty
  <2>3. Begins(<<>>, <<>>)
    BY <2>1 DEF Begins
  <2>4. ASSUME NEW k \in 0 .. Len(<<>>)
        PROVE  Begins(ParsedItems(SubSeq(<<>>, 1, k)), ParsedItems(<<>>))
    BY <2>1, <2>2, <2>3
  <2>5. QED
    BY <2>1, <2>4
<1>2. ASSUME NEW l \in Seq(LinesTo(n)), NEW x \in LinesTo(n), l \in K PROVE Append(l, x) \in K
  <2> DEFINE c == Append(l, x)
  <2>1. c \in Seq(LinesTo(n)) /\ Len(c) = Len(l) + 1 /\ Len(l) \in Nat
    BY AppendProperties, LenProperties
  <2>2. ParsedItems(l) \in Seq(ItemsTo(n)) /\ Begins(ParsedItems(l), ParsedItems(c))
    <3>1. /\ ParsedItems(l) \in Seq(ItemsTo(n))
          /\ ParsedItems(c) =
                IF x.type = "item" THEN Append(ParsedItems(l), x.holds) ELSE ParsedItems(l)
        BY ItemsAppend
    <3>2. x.type = "item" => x.holds \in ItemsTo(n)
        BY LineFacts
    <3> HIDE DEF c
    <3>3. Len(ParsedItems(l)) \in Nat
        BY <3>1, LenProperties
    <3>4. CASE x.type = "item"
        <4> DEFINE p == ParsedItems(l)
        <4>1. p \in Seq(ItemsTo(n)) /\ x.holds \in ItemsTo(n) /\ ParsedItems(c) = Append(p, x.holds)
            BY <3>1, <3>2, <3>4
        <4> HIDE DEF p
        <4>2. Len(Append(p, x.holds)) = Len(p) + 1 /\ \A i \in 1 .. Len(p) : Append(p, x.holds)[i] = p[i]
            BY <4>1, AppendProperties
        <4>3. Begins(p, ParsedItems(c))
            BY <4>1, <4>2, LenProperties DEF Begins
        <4>4. QED
            BY <3>1, <4>3 DEF p
    <3>5. CASE x.type # "item"
        BY <3>1, <3>3, <3>5 DEF Begins
    <3>6. QED
        BY <3>4, <3>5
  <2> SUFFICES ASSUME NEW k \in 0 .. Len(c)
               PROVE  Begins(ParsedItems(SubSeq(c, 1, k)), ParsedItems(c))
    BY <2>1
  <2>3. CASE k = Len(c)
    <3>1. SubSeq(c, 1, k) = c
        BY <2>1, <2>3, SubSeqFull
    <3>2. ParsedItems(c) \in Seq(ItemsTo(n))
        BY <2>1, LinesMade, ItemsAppend
    <3> DEFINE r == ParsedItems(c)
    <3>3. Len(r) \in Nat
        BY <3>2, LenProperties
    <3> HIDE DEF r
    <3>4. Begins(r, r)
        BY <3>3 DEF Begins
    <3>5. QED
        BY <3>1, <3>4 DEF r
  <2>4. CASE k # Len(c)
    <3>1. k \in 0 .. Len(l)
        BY <2>1, <2>4
    <3>2. SubSeq(c, 1, k) = SubSeq(l, 1, k)
        BY <3>1, FrontOfAppend
    <3>3. Begins(ParsedItems(SubSeq(l, 1, k)), ParsedItems(l))
        BY <1>2, <3>1
    <3>4. ParsedItems(SubSeq(l, 1, k)) \in Seq(ItemsTo(n)) /\ ParsedItems(c) \in Seq(ItemsTo(n))
        BY <2>1, <3>1, FrontFacts, LinesMade, ItemsAppend
    <3> DEFINE p == ParsedItems(SubSeq(l, 1, k))
               q == ParsedItems(l)
               r == ParsedItems(c)
    <3>5. Len(p) \in Nat /\ Len(q) \in Nat /\ Len(r) \in Nat
        BY <2>2, <3>4, LenProperties
    <3> HIDE DEF p, q, r
    <3>6. Begins(p, q) /\ Begins(q, r)
        BY <2>2, <3>3 DEF p, q, r
    <3>7. Begins(p, r)
        BY <3>5, <3>6 DEF Begins
    <3>8. QED
        BY <3>2, <3>7 DEF p, r
  <2>5. QED
    BY <2>3, <2>4
<1> HIDE DEF K
<1>3. Seq(LinesTo(n)) \subseteq K
    BY <1>1, <1>2, QueueInduction
<1>4. QED
    BY <1>3 DEF K

LEMMA FrontOfFile ==
    ASSUME NEW n \in Nat, NEW lines \in Seq(LinesTo(n)), FileFits(lines), NEW m \in 0 .. Len(lines)
    PROVE  FileFits(SubSeq(lines, 1, m))
<1> DEFINE front == SubSeq(lines, 1, m)
           p == ParsedItems(front)
           q == ParsedItems(lines)
<1>1. front \in Seq(LinesTo(n)) /\ Len(front) = m /\ Len(lines) \in Nat
      /\ \A k \in 0 .. m : SubSeq(front, 1, k) = SubSeq(lines, 1, k)
    BY FrontFacts, LenProperties
<1>2. \A k \in 0 .. Len(front) : Consistent(SubSeq(front, 1, k))
  <2>1. \A k \in 0 .. m : k \in 0 .. Len(lines)
    BY <1>1
  <2>2. QED
    BY <1>1, <2>1 DEF FileFits
<1>3. Increasing(p)
  <2>1. p \in Seq(ItemsTo(n)) /\ q \in Seq(ItemsTo(n))
    BY <1>1, LinesMade, ItemsAppend
  <2>2. Begins(p, q) /\ Increasing(q)
    BY ItemsOfFront DEF FileFits
  <2> HIDE DEF p, q
  <2>3. /\ DOMAIN p = 1 .. Len(p) /\ DOMAIN q = 1 .. Len(q) /\ Len(p) \in Nat /\ Len(q) \in Nat
    BY <2>1, LenProperties
  <2>4. QED
    BY <2>2, <2>3 DEF Begins, Increasing
<1>4. QED
    BY <1>2, <1>3 DEF FileFits

-----------------------------------------------------------------------------
(* The checkpoints a cut or a rewind takes.                                *)

LEMMA SurvivingFacts ==
    ASSUME NEW T, NEW cps \in Seq(T), NEW len
    PROVE  /\ RetainSurviving(cps, len) \in Seq(T)
           /\ \A k \in DOMAIN RetainSurviving(cps, len) :
                \E i \in DOMAIN cps : /\ RetainSurviving(cps, len)[k] = cps[i]
                                      /\ cps[i].after <= len
<1> DEFINE P == {i \in DOMAIN cps : cps[i].after <= len}
<1>1. RetainSurviving(cps, len) = Picked(cps, P)
    BY DEF RetainSurviving
<1>2. \A i \in P : i \in DOMAIN cps /\ cps[i].after <= len
    OBVIOUS
<1> HIDE DEF P
<1>3. QED
    BY <1>1, <1>2, PickedFacts

LEMMA GreatestExists ==
    ASSUME NEW n \in Nat, NEW S, S \subseteq 0 .. n, S # {}
    PROVE  \E i \in S : \A j \in S : j <= i
<1> DEFINE K == {k \in Nat : \A R : R \subseteq 0 .. k /\ R # {} => \E i \in R : \A j \in R : j <= i}
<1>1. 0 \in K
  <2> SUFFICES ASSUME NEW R, R \subseteq 0 .. 0, R # {} PROVE \E i \in R : \A j \in R : j <= i
    OBVIOUS
  <2>1. PICK i \in R : TRUE
    OBVIOUS
  <2>2. \A j \in R : j <= i
    BY <2>1
  <2>3. QED
    BY <2>2
<1>2. ASSUME NEW k \in Nat, k \in K PROVE k + 1 \in K
  <2> SUFFICES ASSUME NEW R, R \subseteq 0 .. k + 1, R # {} PROVE \E i \in R : \A j \in R : j <= i
    OBVIOUS
  <2>1. CASE k + 1 \in R
    <3>1. \A j \in R : j <= k + 1
        OBVIOUS
    <3>2. QED
        BY <2>1, <3>1
  <2>2. CASE k + 1 \notin R
    <3>1. R \subseteq 0 .. k
        BY <2>2
    <3>2. QED
        BY <1>2, <3>1
  <2>3. QED
    BY <2>1, <2>2
<1> HIDE DEF K
<1>3. Nat \subseteq K
    BY <1>1, <1>2, SetInduction
<1>4. QED
    BY <1>3 DEF K

\* What a rewind picks is a checkpoint of what it leaves.
LEMMA TargetFacts ==
    ASSUME NEW n \in Nat, NEW cps \in Seq(CheckpointsTo(n)), NEW len \in Nat,
           RestoreTarget(cps, len) # None
    PROVE  /\ RestoreTarget(cps, len) \in DOMAIN cps
           /\ cps[RestoreTarget(cps, len)].after <= len
<1> DEFINE fit == {i \in DOMAIN cps : cps[i].after <= len}
           latest == {i \in fit : \A j \in fit : cps[j].after <= cps[i].after}
           afters == {cps[i].after : i \in fit}
<1>1. RestoreTarget(cps, len) = IF fit = {} THEN None ELSE Newest(latest)
    BY DEF RestoreTarget
<1>2. fit # {}
    BY <1>1
<1>3. DOMAIN cps = 1 .. Len(cps) /\ Len(cps) \in Nat
      /\ \A i \in DOMAIN cps : cps[i] \in CheckpointsTo(n)
    BY LenProperties, ElementOfSeq
<1>4. \A i \in DOMAIN cps : cps[i].after \in Nat
    BY <1>3 DEF CheckpointsTo
<1>5. afters \subseteq 0 .. len /\ afters # {}
    BY <1>2, <1>4
<1>6. PICK a \in afters : \A b \in afters : b <= a
  <2> HIDE DEF afters
  <2>1. QED
    BY <1>5, GreatestExists
<1>7. PICK i \in fit : cps[i].after = a
    OBVIOUS
<1>8. i \in latest
    BY <1>6, <1>7
<1>9. latest \subseteq 0 .. Len(cps)
    BY <1>3
<1>10. \E k \in latest : \A j \in latest : j <= k
  <2> HIDE DEF latest
  <2>1. QED
    BY <1>3, <1>8, <1>9, GreatestExists
<1>11. Newest(latest) \in latest
  <2> HIDE DEF latest
  <2>1. QED
    BY <1>10 DEF Newest
<1>12. QED
    BY <1>1, <1>2, <1>11

LEMMA RestoredFacts ==
    ASSUME NEW n \in Nat, NEW cps \in Seq(CheckpointsTo(n)), NEW len \in Nat,
           tree \subseteq 1 .. n
    PROVE  /\ Restored(cps, len) \subseteq 1 .. n
           /\ RestoreTarget(cps, len) # None =>
                Restored(cps, len) = cps[RestoreTarget(cps, len)].tree
<1>1. CASE RestoreTarget(cps, len) = None
    BY <1>1 DEF Restored
<1>2. CASE RestoreTarget(cps, len) # None
  <2>1. RestoreTarget(cps, len) \in DOMAIN cps
    BY <1>2, TargetFacts
  <2>2. cps[RestoreTarget(cps, len)] \in CheckpointsTo(n)
    BY <2>1, LenProperties, ElementOfSeq
  <2>3. QED
    BY <1>2, <2>2 DEF Restored, CheckpointsTo
<1>3. QED
    BY <1>1, <1>2

-----------------------------------------------------------------------------
(* What the conversation becomes.                                          *)

\* to is some first part of h, and items numbered after n.
Grew(h, to, n) ==
    \E k \in 0 .. Len(h) :
        /\ k <= Len(to) /\ \A i \in 1 .. k : to[i] = h[i]
        /\ \A i \in 1 .. Len(to) : i > k => to[i].id > n

-----------------------------------------------------------------------------
(* A sync.                                                                 *)

LEMMA LinesAreLines ==
    ASSUME NEW n \in Nat, NEW h \in Seq(ItemsTo(n)), NEW cs \in Seq(CheckpointsTo(n))
    PROVE  ItemLines(h) \in Seq(LinesTo(n)) /\ CheckpointLines(cs) \in Seq(LinesTo(n))
<1>1. ItemLines(h) = [i \in 1 .. Len(h) |-> ItemLine(h[i])] /\ Len(h) \in Nat
    BY LenProperties DEF ItemLines
<1>2. \A i \in 1 .. Len(h) : ItemLine(h[i]) \in LinesTo(n)
    BY ElementOfSeq, LinesMade
<1>3. CheckpointLines(cs) = [i \in 1 .. Len(cs) |-> CheckpointLine(cs[i])] /\ Len(cs) \in Nat
    BY LenProperties DEF CheckpointLines
<1>4. \A i \in 1 .. Len(cs) : CheckpointLine(cs[i]) \in LinesTo(n)
    BY ElementOfSeq, LinesMade
<1>5. ItemLines(h) \in Seq(LinesTo(n))
    BY <1>1, <1>2
<1>6. CheckpointLines(cs) \in Seq(LinesTo(n))
    BY <1>3, <1>4
<1>7. QED
    BY <1>5, <1>6

\* The line of the model, if there is one to write.
Headings == {<<>>} \cup {<<ModelLine(model)>> : model \in Models}
HeadingOf(m, model) == IF m = <<>> THEN model ELSE m[1].holds

LEMMA HeadingAdded ==
    ASSUME NEW n \in Nat, NEW a \in Seq(LinesTo(n)), FileFits(a), Loads(a), NEW m \in Headings
    PROVE  /\ m \in Seq(LinesTo(n)) /\ a \o m \in Seq(LinesTo(n)) /\ Len(a \o m) >= Len(a)
           /\ ParsedItems(a \o m) = ParsedItems(a)
           /\ ParsedCheckpoints(a \o m) = ParsedCheckpoints(a)
           /\ ParsedModel(a \o m) = HeadingOf(m, ParsedModel(a))
           /\ Loads(a \o m) /\ FileFits(a \o m)
<1>0. Len(a) \in Nat
    BY LenProperties
<1>1. CASE m = <<>>
  <2>1. a \o m = a /\ m \in Seq(LinesTo(n))
    BY <1>1, ConcatEmptySeq, EmptySeq
  <2>2. QED
    BY <1>0, <1>1, <2>1 DEF HeadingOf
<1>2. CASE m # <<>>
  <2>1. PICK model \in Models : m = <<ModelLine(model)>>
    BY <1>2 DEF Headings
  <2> DEFINE x == ModelLine(model)
  <2>2. x \in LinesTo(n) /\ x.type = "model" /\ x.holds = model
    BY LinesMade
  <2>3. a \o m = Append(a, x) /\ m \in Seq(LinesTo(n))
    BY <2>1, <2>2, AppendIsConcat
  <2>4. HeadingOf(m, ParsedModel(a)) = model
    BY <1>2, <2>1, <2>2 DEF HeadingOf
  <2> HIDE DEF x
  <2>5. /\ Append(a, x) \in Seq(LinesTo(n)) /\ Len(Append(a, x)) = Len(a) + 1
        /\ ParsedItems(Append(a, x)) = ParsedItems(a)
        /\ ParsedCheckpoints(Append(a, x)) = ParsedCheckpoints(a)
        /\ FileFits(Append(a, x))
    BY <2>2, AddOther
  <2>6. ParsedModel(Append(a, x)) = model
    BY <2>2, ModelAppend
  <2>7. Loads(Append(a, x))
    BY <2>2, LoadsAppend
  <2>8. QED
    BY <1>0, <2>3, <2>4, <2>5, <2>6, <2>7
<1>3. QED
    BY <1>1, <1>2

\* What is written after a: a heading, items, checkpoints that fit them.
Written(a, m, h, cs, n, b) ==
    /\ b \in Seq(LinesTo(n)) /\ Len(b) >= Len(a) /\ Loads(b) /\ FileFits(b)
    /\ ParsedItems(b) = ParsedItems(a) \o h
    /\ ParsedCheckpoints(b) = ParsedCheckpoints(a) \o cs
    /\ ParsedModel(b) = HeadingOf(m, ParsedModel(a))

LEMMA WriteOn ==
    ASSUME NEW n \in Nat, NEW a \in Seq(LinesTo(n)), FileFits(a), Loads(a), NEW m \in Headings,
           NEW h \in Seq(ItemsTo(n)), MayAdd(a, h), NEW cs \in Seq(CheckpointsTo(n)),
           \A j \in DOMAIN cs : Fit(cs[j], ParsedItems(a) \o h)
    PROVE  /\ Written(a, m, h, cs, n, a \o (m \o ItemLines(h) \o CheckpointLines(cs)))
           /\ Written(a, m, h, cs, n, a \o m \o ItemLines(h) \o CheckpointLines(cs))
<1> DEFINE b == a \o m
           c == b \o ItemLines(h)
           d == c \o CheckpointLines(cs)
<1>1. /\ m \in Seq(LinesTo(n)) /\ b \in Seq(LinesTo(n)) /\ Len(b) >= Len(a)
      /\ ParsedItems(b) = ParsedItems(a)
      /\ ParsedCheckpoints(b) = ParsedCheckpoints(a)
      /\ ParsedModel(b) = HeadingOf(m, ParsedModel(a))
      /\ Loads(b) /\ FileFits(b)
    BY HeadingAdded
<1> HIDE DEF b
<1>2. MayAdd(b, h)
    BY <1>1 DEF MayAdd
<1>3. ItemsAdded(b, h, n, c)
    BY <1>1, <1>2, AddItems
<1> HIDE DEF c
<1>4. /\ c \in Seq(LinesTo(n)) /\ Len(c) >= Len(b) /\ FileFits(c) /\ Loads(c)
      /\ ParsedItems(c) = ParsedItems(a) \o h
      /\ ParsedCheckpoints(c) = ParsedCheckpoints(a) /\ ParsedModel(c) = ParsedModel(b)
    BY <1>1, <1>3 DEF ItemsAdded
<1>5. CheckpointsAdded(c, cs, n, d)
    BY <1>4, AddCheckpoints
<1> HIDE DEF d
<1>6. /\ d \in Seq(LinesTo(n)) /\ Len(d) >= Len(c) /\ FileFits(d) /\ Loads(d)
      /\ ParsedItems(d) = ParsedItems(c)
      /\ ParsedCheckpoints(d) = ParsedCheckpoints(c) \o cs /\ ParsedModel(d) = ParsedModel(c)
    BY <1>4, <1>5 DEF CheckpointsAdded
<1>7. Len(a) \in Nat /\ Len(b) \in Nat /\ Len(c) \in Nat /\ Len(d) \in Nat
    BY <1>1, <1>4, <1>6, LenProperties
<1>8. Written(a, m, h, cs, n, d)
    BY <1>1, <1>4, <1>6, <1>7 DEF Written
<1>9. a \o (m \o ItemLines(h) \o CheckpointLines(cs)) = d
  <2>1. ItemLines(h) \in Seq(LinesTo(n)) /\ CheckpointLines(cs) \in Seq(LinesTo(n))
    BY LinesAreLines
  <2> DEFINE i == ItemLines(h)
             k == CheckpointLines(cs)
             L == LinesTo(n)
  <2> HIDE DEF i, k, L
  <2>2. a \in Seq(L) /\ m \in Seq(L) /\ i \in Seq(L) /\ k \in Seq(L)
    BY <1>1, <2>1 DEF i, k, L
  <2>3. a \o (m \o i \o k) = a \o m \o i \o k
    <3> DEFINE p == m \o i
    <3>1. p \in Seq(L)
        BY <2>2, ConcatProperties
    <3>2. (a \o m) \o i = a \o p
        BY ONLY <2>2, ConcatAssociative
    <3> HIDE DEF p
    <3>3. (a \o p) \o k = a \o (p \o k)
        BY ONLY <2>2, <3>1, ConcatAssociative, SMTT(60)
    <3>4. QED
        BY <3>2, <3>3 DEF p
  <2>4. QED
    BY <2>3 DEF b, c, d, i, k
<1>10. QED
    BY <1>8, <1>9 DEF b, c, d

\* A new file: its meta line, and the model's.
LEMMA NewFile ==
    ASSUME NEW n \in Nat
    PROVE  /\ <<MetaLine>> \in Seq(LinesTo(n)) /\ Loads(<<MetaLine>>) /\ FileFits(<<MetaLine>>)
           /\ ParsedItems(<<MetaLine>>) = <<>> /\ ParsedCheckpoints(<<MetaLine>>) = <<>>
           /\ ParsedModel(<<MetaLine>>) = "none"
<1> DEFINE a == Append(<<>>, MetaLine)
<1>1. MetaLine \in LinesTo(n) /\ MetaLine.type = "meta" /\ <<>> \in Seq(LinesTo(n))
    BY LinesMade, EmptySeq
<1>2. a = <<MetaLine>>
    OBVIOUS
<1>3. ParsedItems(a) = <<>> /\ ParsedCheckpoints(a) = <<>> /\ ParsedModel(a) = "none"
  <2>1. ParsedItems(a) = <<>>
    BY <1>1, ItemsAppend
  <2>2. ParsedCheckpoints(a) = <<>>
    BY <1>1, CheckpointsAppend
  <2>3. ParsedModel(a) = "none"
    BY <1>1, ModelAppend
  <2>4. QED
    BY <2>1, <2>2, <2>3
<1>4. ParsedItems(<<>>) = <<>> /\ ParsedCheckpoints(<<>>) = <<>>
    BY <1>1, ItemsAppend, CheckpointsAppend
<1>5. \A k \in 0 .. 0 : SubSeq(<<>>, 1, k) = <<>>
    BY SubSeqEmpty
<1>6. FileFits(<<>>)
  <2>1. Len(<<>>) = 0
    BY EmptySeq
  <2>2. Consistent(<<>>) /\ Increasing(<<>>)
    BY <1>4 DEF Consistent, Increasing
  <2>3. QED
    BY <1>4, <1>5, <2>1, <2>2 DEF FileFits
<1>7. FileFits(a) /\ a \in Seq(LinesTo(n))
    BY <1>1, <1>6, AddOther
<1>8. Loads(<<MetaLine>>)
    BY <1>1 DEF Loads
<1>9. QED
    BY <1>2, <1>3, <1>7, <1>8

LEMMA ModelFacts ==
    ASSUME NEW n \in Nat, NEW r, RecorderOK(r, n)
    PROVE  /\ RecordedModel(r) \in Models /\ RecordedModel(r) # "none"
           /\ NewModelLine(r) = <<ModelLine(RecordedModel(r))>> /\ NewModelLine(r) \in Headings
           /\ NewModelLine(r) # <<>> /\ NewModelLine(r)[1].holds = RecordedModel(r)
<1>1. RecordedModel(r) \in Models /\ RecordedModel(r) # "none"
    BY ModelsAssumption DEF RecordedModel, RecorderOK
<1>2. NewModelLine(r) = <<ModelLine(RecordedModel(r))>>
    BY <1>1 DEF NewModelLine
<1>3. NewModelLine(r)[1].holds = RecordedModel(r)
    BY <1>2 DEF ModelLine
<1>4. QED
    BY <1>1, <1>2, <1>3 DEF Headings

LEMMA Unmoved ==
    ASSUME NEW n \in Nat, NEW a, AppOK(a, n)
    PROVE  LET still == [a EXCEPT !.moved = FALSE] IN
           /\ AppOK(still, n) /\ still.history = a.history /\ still.turn = a.turn
           /\ ~still.moved /\ still.floor = a.floor
<1> DEFINE still == [a EXCEPT !.moved = FALSE]
<1>1. /\ a \in [history : Seq(ItemsTo(n)), floor : Nat, turn : Nat \cup {NoTurn}, moved : BOOLEAN]
    BY DEF AppOK
<1>2. /\ still.history = a.history /\ still.turn = a.turn /\ still.moved = FALSE
      /\ still.floor = a.floor
      /\ still \in [history : Seq(ItemsTo(n)), floor : Nat, turn : Nat \cup {NoTurn}, moved : BOOLEAN]
    BY <1>1
<1> HIDE DEF still
<1>3. AppOK(still, n)
    BY <1>2 DEF AppOK
<1>4. QED
    BY <1>2, <1>3 DEF still

\* A file that holds the whole session.
LEMMA Mirrored ==
    ASSUME NEW n \in Nat, NEW a, AppOK(a, n), ~a.moved,
           NEW r, RecorderOK(r, n), CheckpointsOK(r, a),
           NEW fs, FilesOK(fs, n), r.active \in DOMAIN fs, r.active # None,
           NEW b \in Seq(LinesTo(n)), FileFits(b), Loads(b),
           ParsedItems(b) = a.history, ParsedCheckpoints(b) = r.cps, ParsedModel(b) = r.written,
           r.recorded = Len(a.history), r.flushed = Len(r.cps), r.safe <= Len(b),
           RecordedModel(r) = r.written
    PROVE  /\ Ready(a, r, [fs EXCEPT ![r.active] = [lines |-> b, torn |-> FALSE]], n)
           /\ Settled(a, r)
<1> DEFINE file == [lines |-> b, torn |-> FALSE]
           over == [fs EXCEPT ![r.active] = file]
<1>1. fs \in Seq(FilesTo(n)) /\ Len(fs) <= MaxFiles /\ \A f \in DOMAIN fs : FileFits(fs[f].lines)
    BY DEF FilesOK
<1>2. file \in FilesTo(n) /\ file.lines = b /\ file.torn = FALSE
    BY DEF FilesTo
<1>3. DOMAIN fs = 1 .. Len(fs) /\ Len(fs) \in Nat
    BY <1>1, LenProperties
<1> HIDE DEF file
<1>4. over \in Seq(FilesTo(n)) /\ Len(over) = Len(fs) /\ DOMAIN over = DOMAIN fs
      /\ over[r.active] = file /\ \A f \in DOMAIN fs : f # r.active => over[f] = fs[f]
    BY <1>1, <1>2, <1>3, ExceptSeq
<1> HIDE DEF over
<1>5. FilesOK(over, n)
    BY <1>1, <1>2, <1>4 DEF FilesOK
<1>6. /\ a.history \in Seq(ItemsTo(n)) /\ r.cps \in Seq(CheckpointsTo(n))
      /\ SubSeq(a.history, 1, Len(a.history)) = a.history
      /\ SubSeq(r.cps, 1, Len(r.cps)) = r.cps /\ Len(a.history) \in Nat
    BY SubSeqFull, LenProperties DEF AppOK, RecorderOK
<1>7. MirrorOK(r, over, a)
    BY <1>2, <1>4, <1>6 DEF MirrorOK
<1>8. UnsavedOK(r, over, a) /\ Settled(a, r)
    BY DEF UnsavedOK, Settled
<1>9. QED
    BY <1>5, <1>7, <1>8 DEF Ready, over, file

\* What a sync leaves: everything saved, in the session's own file or a new one.
SavedBy(a, r, done) ==
    \/ done.recorder.active = None /\ r.active = None /\ done.files = files /\ a.history = <<>>
    \/ /\ done.recorder.active # None
       /\ done.recorder.active = r.active \/ (r.active = None /\ done.recorder.active = Len(files) + 1)
       /\ DOMAIN done.files = DOMAIN files \cup {done.recorder.active}
       /\ \A f \in DOMAIN files : f # done.recorder.active => done.files[f] = files[f]
       /\ Loads(done.files[done.recorder.active].lines)
       /\ ParsedItems(done.files[done.recorder.active].lines) = a.history
Kept(a, r, done, n) ==
    /\ Ready([a EXCEPT !.moved = FALSE], done.recorder, done.files, n)
    /\ Settled([a EXCEPT !.moved = FALSE], done.recorder)
    /\ SavedBy(a, r, done)

LEMMA RewriteKeeps ==
    ASSUME NEW n \in Nat, NEW a, NEW r, Ready(a, r, files, n), r.active # None,
           a.moved \/ Len(a.history) < r.recorded
    PROVE  Kept(a, r, Rewrite(r, a.history), n)
<1> DEFINE h == a.history
           cps == RetainSurviving(r.cps, Len(h))
           m == NewModelLine(r)
           b == <<MetaLine>> \o m \o ItemLines(h) \o CheckpointLines(cps)
           still == [a EXCEPT !.moved = FALSE]
           t == [r EXCEPT !.recorded = Len(h), !.repair = FALSE, !.cps = cps,
                      !.flushed = Len(cps), !.written = RecordedModel(r), !.safe = 0]
           fs == [files EXCEPT ![r.active] = [lines |-> b, torn |-> FALSE]]
<1>1. Rewrite(r, h) = Outcome(t, fs)
    BY DEF Rewrite
<1>2. /\ AppOK(a, n) /\ RecorderOK(r, n) /\ FilesOK(files, n) /\ CheckpointsOK(r, a)
      /\ MirrorOK(r, files, a)
    BY DEF Ready
<1>3. /\ AppOK(still, n) /\ still.history = h /\ still.turn = a.turn /\ ~still.moved
    BY <1>2, Unmoved
<1>4. /\ h \in Seq(ItemsTo(n)) /\ Len(h) \in Nat /\ Increasing(h)
      /\ r.cps \in Seq(CheckpointsTo(n)) /\ r.recorded \in Nat
    BY <1>2, LenProperties DEF AppOK, RecorderOK
<1>5. a.moved
    BY <1>2, <1>4 DEF MirrorOK
<1>6. /\ cps \in Seq(CheckpointsTo(n)) /\ Len(cps) \in Nat
      /\ \A k \in DOMAIN cps : \E i \in DOMAIN r.cps : cps[k] = r.cps[i] /\ r.cps[i].after <= Len(h)
    BY <1>4, SurvivingFacts, LenProperties
<1>7. \A k \in DOMAIN cps : Fit(cps[k], h) /\ (a.turn # NoTurn => cps[k].after <= a.turn)
    BY <1>2, <1>6 DEF CheckpointsOK
<1>8. /\ RecordedModel(r) \in Models /\ m \in Headings /\ m # <<>>
      /\ m[1].holds = RecordedModel(r) /\ RecordedModel(r) # "none"
    BY <1>2, ModelFacts
<1> HIDE DEF h, cps, m, still
<1>9. /\ t \in [active : Nat, recorded : Nat, repair : BOOLEAN, cps : Seq(CheckpointsTo(n)),
                flushed : Nat, model : Models, written : Models \cup {"none"},
                keep : BOOLEAN, safe : Nat]
      /\ t.active = r.active /\ t.recorded = Len(h) /\ t.cps = cps /\ t.flushed = Len(cps)
      /\ t.written = RecordedModel(r) /\ t.keep = r.keep /\ t.safe = 0 /\ t.model = r.model
    BY <1>2, <1>4, <1>6, <1>8 DEF RecorderOK
<1> HIDE DEF t
<1>10. RecorderOK(t, n) /\ RecordedModel(t) = t.written
    BY <1>6, <1>8, <1>9 DEF RecorderOK, RecordedModel
<1>11. CheckpointsOK(t, still)
    BY <1>3, <1>7, <1>9 DEF CheckpointsOK, h
<1>12. Written(<<MetaLine>>, m, h, cps, n, b)
  <2>1. <<>> \o h = h
    BY <1>4, ConcatEmptySeq
  <2>2. /\ <<MetaLine>> \in Seq(LinesTo(n)) /\ Loads(<<MetaLine>>) /\ FileFits(<<MetaLine>>)
        /\ ParsedItems(<<MetaLine>>) = <<>> /\ ParsedCheckpoints(<<MetaLine>>) = <<>>
    BY NewFile
  <2>3. MayAdd(<<MetaLine>>, h)
    BY <1>4, <2>1, <2>2 DEF MayAdd
  <2>4. \A j \in DOMAIN cps : Fit(cps[j], ParsedItems(<<MetaLine>>) \o h)
    BY <1>7, <2>1, <2>2
  <2> DEFINE meta == <<MetaLine>>
  <2> HIDE DEF meta
  <2>5. Written(meta, m, h, cps, n, meta \o m \o ItemLines(h) \o CheckpointLines(cps))
    BY <1>4, <1>6, <1>8, <2>2, <2>3, <2>4, WriteOn DEF meta
  <2>6. QED
    BY <2>5 DEF meta
<1> HIDE DEF b
<1>13. /\ b \in Seq(LinesTo(n)) /\ FileFits(b) /\ Loads(b) /\ Len(b) \in Nat
       /\ ParsedItems(b) = h /\ ParsedCheckpoints(b) = cps /\ ParsedModel(b) = RecordedModel(r)
  <2>1. <<>> \o h = h /\ <<>> \o cps = cps
    BY <1>4, <1>6, ConcatEmptySeq
  <2>2. ParsedItems(<<MetaLine>>) = <<>> /\ ParsedCheckpoints(<<MetaLine>>) = <<>>
    BY NewFile
  <2>3. HeadingOf(m, ParsedModel(<<MetaLine>>)) = RecordedModel(r)
    BY <1>8 DEF HeadingOf
  <2>4. QED
    BY <1>12, <2>1, <2>2, <2>3, LenProperties DEF Written
<1>14. r.active \in DOMAIN files
    BY <1>2 DEF MirrorOK
<1>15. Ready(still, t, fs, n) /\ Settled(still, t)
  <2>1. /\ r.active = t.active /\ t.active \in DOMAIN files /\ t.active # None
        /\ ParsedItems(b) = still.history /\ ParsedCheckpoints(b) = t.cps
        /\ ParsedModel(b) = t.written /\ t.recorded = Len(still.history)
        /\ t.flushed = Len(t.cps) /\ t.safe <= Len(b)
    BY <1>3, <1>9, <1>13, <1>14
  <2> HIDE DEF fs
  <2>2. fs = [files EXCEPT ![t.active] = [lines |-> b, torn |-> FALSE]]
    BY <2>1 DEF fs
  <2>3. QED
    BY <1>2, <1>3, <1>10, <1>11, <1>13, <2>1, <2>2, Mirrored
<1>16. SavedBy(a, r, Outcome(t, fs))
  <2>1. /\ DOMAIN fs = DOMAIN files /\ fs[r.active].lines = b
        /\ \A f \in DOMAIN files : f # r.active => fs[f] = files[f]
    BY <1>14
  <2> HIDE DEF fs
  <2>2. QED
    BY <1>9, <1>13, <1>14, <2>1 DEF SavedBy, Outcome, h
<1>17. QED
    BY <1>1, <1>15, <1>16 DEF Kept, Outcome, h, still

\* A queue is its first part and the rest.
LEMMA Rejoined ==
    ASSUME NEW T, NEW s \in Seq(T), NEW k \in 0 .. Len(s)
    PROVE  /\ SubSeq(s, 1, k) \o SubSeq(s, k + 1, Len(s)) = s
           /\ SubSeq(s, k + 1, Len(s)) \in Seq(T)
           /\ \A j \in DOMAIN SubSeq(s, k + 1, Len(s)) :
                \E i \in DOMAIN s : SubSeq(s, k + 1, Len(s))[j] = s[i]
<1>1. Len(s) \in Nat /\ DOMAIN s = 1 .. Len(s) /\ \A i \in 1 .. Len(s) : s[i] \in T
    BY LenProperties, ElementOfSeq
<1>2. SubSeq(s, 1, k) \o SubSeq(s, k + 1, Len(s)) = SubSeq(s, 1, Len(s))
  <2>1. 1 \in 1 .. Len(s) + 1 /\ k \in 1 - 1 .. Len(s) /\ Len(s) \in k .. Len(s)
    BY <1>1
  <2>2. QED
    BY <2>1, ConcatAdjacentSubSeq
<1>3. SubSeq(s, 1, Len(s)) = s
    BY SubSeqFull
<1> DEFINE t == SubSeq(s, k + 1, Len(s))
<1>4. /\ t \in Seq(T) /\ Len(t) = Len(s) - k
      /\ \A i \in 1 .. Len(s) - k : t[i] = s[k + i]
  <2>1. \A i \in k + 1 .. Len(s) : s[i] \in T
    BY <1>1
  <2>2. /\ t \in Seq(T)
        /\ Len(t) = IF k + 1 <= Len(s) THEN Len(s) - (k + 1) + 1 ELSE 0
        /\ \A i \in 1 .. Len(s) - (k + 1) + 1 : t[i] = s[k + 1 + i - 1]
    BY <1>1, <2>1, SubSeqProperties
  <2> HIDE DEF t
  <2>3. /\ \A i \in 1 .. Len(s) - k : k + 1 + i - 1 = k + i
        /\ Len(s) - (k + 1) + 1 = Len(s) - k
    BY <1>1
  <2>4. \A i \in 1 .. Len(s) - k : t[i] = s[k + i]
    BY <2>2, <2>3
  <2>5. Len(t) = Len(s) - k
    <3>1. CASE k = Len(s)
        BY <1>1, <2>2, <3>1
    <3>2. CASE k # Len(s)
        <4>1. k \in Nat /\ k <= Len(s)
            BY <1>1
        <4>2. Len(s) \in Nat /\ k # Len(s)
            BY <1>1, <3>2
        <4>3. k + 1 <= Len(s)
            BY ONLY <4>1, <4>2
        <4>4. QED
            BY <2>2, <2>3, <4>3
    <3>3. QED
        BY <3>1, <3>2
  <2>6. QED
    BY <2>2, <2>4, <2>5
<1>5. \A j \in DOMAIN t : \E i \in DOMAIN s : t[j] = s[i]
  <2>1. DOMAIN t = 1 .. Len(s) - k
    BY <1>4, LenProperties
  <2> HIDE DEF t
  <2>2. \A j \in 1 .. Len(s) - k : k + j \in 1 .. Len(s)
    BY <1>1
  <2>3. QED
    BY <1>1, <1>4, <2>1, <2>2
<1>6. QED
    BY <1>2, <1>3, <1>4, <1>5

\* What the session has beyond its file, appended to the file.
Behind(lines, h, i, cps, k, m, b, n) ==
    /\ lines \in Seq(LinesTo(n)) /\ FileFits(lines) /\ Loads(lines)
    /\ h \in Seq(ItemsTo(n)) /\ Increasing(h) /\ i \in 0 .. Len(h)
    /\ ParsedItems(lines) = SubSeq(h, 1, i)
    /\ cps \in Seq(CheckpointsTo(n)) /\ k \in 0 .. Len(cps)
    /\ ParsedCheckpoints(lines) = SubSeq(cps, 1, k)
    /\ \A j \in DOMAIN cps : Fit(cps[j], h)
    /\ m \in Headings
    /\ b = lines \o (m \o ItemLines(SubSeq(h, i + 1, Len(h)))
                        \o CheckpointLines(SubSeq(cps, k + 1, Len(cps))))
CaughtUp(lines, h, cps, m, b, n) ==
    /\ b \in Seq(LinesTo(n)) /\ FileFits(b) /\ Loads(b) /\ Len(b) >= Len(lines)
    /\ ParsedItems(b) = h /\ ParsedCheckpoints(b) = cps
    /\ ParsedModel(b) = HeadingOf(m, ParsedModel(lines))

LEMMA Continued ==
    ASSUME NEW n \in Nat, NEW lines, NEW h, NEW i, NEW cps, NEW k, NEW m, NEW b,
           Behind(lines, h, i, cps, k, m, b, n)
    PROVE  CaughtUp(lines, h, cps, m, b, n)
<1>0. /\ lines \in Seq(LinesTo(n)) /\ FileFits(lines) /\ Loads(lines)
      /\ h \in Seq(ItemsTo(n)) /\ Increasing(h) /\ i \in 0 .. Len(h)
      /\ ParsedItems(lines) = SubSeq(h, 1, i)
      /\ cps \in Seq(CheckpointsTo(n)) /\ k \in 0 .. Len(cps)
      /\ ParsedCheckpoints(lines) = SubSeq(cps, 1, k)
      /\ \A j \in DOMAIN cps : Fit(cps[j], h)
      /\ m \in Headings
      /\ b = lines \o (m \o ItemLines(SubSeq(h, i + 1, Len(h)))
                          \o CheckpointLines(SubSeq(cps, k + 1, Len(cps))))
    BY DEF Behind
<1> DEFINE g == SubSeq(h, i + 1, Len(h))
           cs == SubSeq(cps, k + 1, Len(cps))
<1>1. SubSeq(h, 1, i) \o g = h /\ g \in Seq(ItemsTo(n))
    BY <1>0, Rejoined
<1>2. /\ SubSeq(cps, 1, k) \o cs = cps /\ cs \in Seq(CheckpointsTo(n))
      /\ \A j \in DOMAIN cs : \E l \in DOMAIN cps : cs[j] = cps[l]
    BY <1>0, Rejoined
<1> HIDE DEF g, cs
<1>3. MayAdd(lines, g)
  <2>1. ASSUME NEW j \in DOMAIN ParsedCheckpoints(lines) PROVE Fit(ParsedCheckpoints(lines)[j], h)
    <3>1. DOMAIN SubSeq(cps, 1, k) = 1 .. k /\ \A l \in 1 .. k : SubSeq(cps, 1, k)[l] = cps[l]
        BY <1>0, FrontFacts, LenProperties
    <3>2. DOMAIN cps = 1 .. Len(cps) /\ Len(cps) \in Nat
        BY <1>0, LenProperties
    <3>3. j \in DOMAIN cps /\ ParsedCheckpoints(lines)[j] = cps[j]
        BY <1>0, <3>1, <3>2
    <3>4. QED
        BY <1>0, <3>3
  <2>2. QED
    BY <1>0, <1>1, <2>1 DEF MayAdd
<1>4. \A j \in DOMAIN cs : Fit(cs[j], ParsedItems(lines) \o g)
    BY <1>0, <1>1, <1>2
<1>5. Written(lines, m, g, cs, n, b)
  <2>1. b = lines \o (m \o ItemLines(g) \o CheckpointLines(cs))
    BY <1>0 DEF g, cs
  <2>2. QED
    BY <1>0, <1>1, <1>2, <1>3, <1>4, <2>1, WriteOn
<1>6. /\ b \in Seq(LinesTo(n)) /\ FileFits(b) /\ Loads(b) /\ Len(b) >= Len(lines)
      /\ ParsedItems(b) = h /\ ParsedCheckpoints(b) = cps
      /\ ParsedModel(b) = HeadingOf(m, ParsedModel(lines))
    BY <1>0, <1>1, <1>2, <1>5 DEF Written
<1>7. QED
    BY <1>6 DEF CaughtUp

LEMMA AppendKeeps ==
    ASSUME NEW n \in Nat, NEW a, NEW r, Ready(a, r, files, n), r.active # None, ~a.moved
    PROVE  Kept(a, r, AppendNew(r, a.history), n)
<1> DEFINE h == a.history
           file == files[r.active]
           m == IF ModelPending(r) THEN NewModelLine(r) ELSE <<>>
           new == m \o ItemLines(SubSeq(h, r.recorded + 1, Len(h)))
                    \o CheckpointLines(SubSeq(r.cps, r.flushed + 1, Len(r.cps)))
           b == file.lines \o new
           still == [a EXCEPT !.moved = FALSE]
           t == [r EXCEPT !.recorded = Len(h), !.repair = FALSE,
                      !.written = IF ModelPending(r) THEN RecordedModel(r) ELSE @,
                      !.flushed = Len(r.cps), !.safe = Len(file.lines)]
           fs == [files EXCEPT ![r.active] =
                    [lines |-> Glued(file.lines, file.torn /\ ~r.repair, new), torn |-> FALSE]]
<1>1. AppendNew(r, h) = Outcome(t, fs)
    BY DEF AppendNew, Outcome
<1>2. /\ AppOK(a, n) /\ RecorderOK(r, n) /\ FilesOK(files, n) /\ CheckpointsOK(r, a)
      /\ MirrorOK(r, files, a)
    BY DEF Ready
<1>3. /\ AppOK(still, n) /\ still.history = h /\ still.turn = a.turn /\ ~still.moved
    BY <1>2, Unmoved
<1>4. /\ h \in Seq(ItemsTo(n)) /\ Len(h) \in Nat /\ Increasing(h)
      /\ r.cps \in Seq(CheckpointsTo(n)) /\ r.recorded \in Nat /\ r.flushed \in Nat
      /\ Len(r.cps) \in Nat /\ r.flushed <= Len(r.cps)
    BY <1>2, LenProperties DEF AppOK, RecorderOK
<1>5. /\ r.active \in DOMAIN files /\ Loads(file.lines) /\ (file.torn => r.repair)
      /\ ParsedCheckpoints(file.lines) = SubSeq(r.cps, 1, r.flushed)
      /\ ParsedModel(file.lines) = r.written
      /\ r.recorded <= Len(h) /\ ParsedItems(file.lines) = SubSeq(h, 1, r.recorded)
    BY <1>2 DEF MirrorOK
<1>6. /\ file \in FilesTo(n) /\ FileFits(file.lines)
    BY <1>2, <1>5, ElementOfSeq, LenProperties DEF FilesOK
<1>7. file.lines \in Seq(LinesTo(n)) /\ Len(file.lines) \in Nat
    BY <1>6, LenProperties DEF FilesTo
<1>8. \A j \in DOMAIN r.cps : Fit(r.cps[j], h) /\ (a.turn # NoTurn => r.cps[j].after <= a.turn)
    BY <1>2 DEF CheckpointsOK
<1>9. /\ RecordedModel(r) \in Models /\ m \in Headings
      /\ m # <<>> => m[1].holds = RecordedModel(r) /\ ModelPending(r)
      /\ m = <<>> => RecordedModel(r) = r.written
  <2>1. /\ RecordedModel(r) \in Models /\ NewModelLine(r) \in Headings /\ NewModelLine(r) # <<>>
        /\ NewModelLine(r)[1].holds = RecordedModel(r) /\ RecordedModel(r) # "none"
    BY <1>2, ModelFacts
  <2>2. QED
    BY <2>1 DEF ModelPending, Headings
<1>10. /\ Glued(file.lines, file.torn /\ ~r.repair, new) = b
    BY <1>5 DEF Glued
<1> HIDE DEF h, still, m
<1>11. /\ b \in Seq(LinesTo(n)) /\ FileFits(b) /\ Loads(b) /\ Len(b) >= Len(file.lines)
       /\ ParsedItems(b) = h /\ ParsedCheckpoints(b) = r.cps
       /\ ParsedModel(b) = HeadingOf(m, r.written)
  <2>1. r.recorded \in 0 .. Len(h) /\ r.flushed \in 0 .. Len(r.cps)
    BY <1>4, <1>5
  <2> DEFINE lines == file.lines
             i == r.recorded
             k == r.flushed
             cps == r.cps
  <2>2. b = lines \o (m \o ItemLines(SubSeq(h, i + 1, Len(h)))
                        \o CheckpointLines(SubSeq(cps, k + 1, Len(cps))))
    OBVIOUS
  <2> HIDE DEF file, b
  <2>3. Behind(lines, h, i, cps, k, m, b, n)
    BY <1>4, <1>5, <1>6, <1>7, <1>8, <1>9, <2>1, <2>2 DEF Behind
  <2>4. ParsedModel(lines) = r.written
    BY <1>5
  <2> HIDE DEF lines, i, k, cps
  <2>5. CaughtUp(lines, h, cps, m, b, n)
    BY <2>3, Continued
  <2>6. QED
    BY <2>4, <2>5 DEF CaughtUp, lines, cps
<1> HIDE DEF file, new, b
<1>12. fs = [files EXCEPT ![r.active] = [lines |-> b, torn |-> FALSE]]
    BY <1>10
<1> HIDE DEF fs
<1>13. /\ t \in [active : Nat, recorded : Nat, repair : BOOLEAN, cps : Seq(CheckpointsTo(n)),
                 flushed : Nat, model : Models, written : Models \cup {"none"},
                 keep : BOOLEAN, safe : Nat]
       /\ t.active = r.active /\ t.recorded = Len(h) /\ t.cps = r.cps /\ t.flushed = Len(r.cps)
       /\ t.written = HeadingOf(m, r.written) /\ t.keep = r.keep
       /\ t.safe = Len(file.lines) /\ t.model = r.model
  <2>1. HeadingOf(m, r.written) = IF ModelPending(r) THEN RecordedModel(r) ELSE r.written
    BY <1>9 DEF HeadingOf, ModelPending
  <2>2. QED
    BY <1>2, <1>4, <1>7, <1>9, <2>1 DEF RecorderOK
<1>14. t.written = RecordedModel(r)
    BY <1>9, <1>13 DEF HeadingOf
<1> HIDE DEF t
<1>15. RecorderOK(t, n) /\ RecordedModel(t) = t.written
  <2>1. RecordedModel(r) # "none"
    BY <1>9, ModelsAssumption
  <2>2. QED
    BY <1>4, <1>13, <1>14, <2>1 DEF RecorderOK, RecordedModel
<1>16. CheckpointsOK(t, still)
    BY <1>3, <1>8, <1>13 DEF CheckpointsOK, h
<1>17. Ready(still, t, fs, n) /\ Settled(still, t)
  <2>1. /\ r.active = t.active /\ t.active \in DOMAIN files /\ t.active # None
        /\ ParsedItems(b) = still.history /\ ParsedCheckpoints(b) = t.cps
        /\ ParsedModel(b) = t.written /\ t.recorded = Len(still.history)
        /\ t.flushed = Len(t.cps) /\ t.safe <= Len(b)
    BY <1>3, <1>5, <1>7, <1>11, <1>13
  <2>2. fs = [files EXCEPT ![t.active] = [lines |-> b, torn |-> FALSE]]
    BY <1>12, <2>1
  <2>3. QED
    BY <1>2, <1>3, <1>11, <1>15, <1>16, <2>1, <2>2, Mirrored
<1>18. SavedBy(a, r, Outcome(t, fs))
  <2>1. /\ DOMAIN fs = DOMAIN files /\ fs[r.active].lines = b
        /\ \A f \in DOMAIN files : f # r.active => fs[f] = files[f]
    BY <1>5, <1>12
  <2>2. QED
    BY <1>5, <1>11, <1>13, <2>1 DEF SavedBy, Outcome, h
<1>19. QED
    BY <1>1, <1>17, <1>18 DEF Kept, Outcome, h, still

LEMMA CreateKeeps ==
    ASSUME NEW n \in Nat, NEW a, NEW r, Ready(a, r, files, n), r.active = None,
           Len(a.history) > r.recorded
    PROVE  Kept(a, r, AppendNew(r, a.history), n)
<1> DEFINE h == a.history
           f == Len(files) + 1
           head == NewModelLine(r)
           lines == <<MetaLine>> \o head
           file == [lines |-> lines, torn |-> FALSE]
           r1 == [r EXCEPT !.active = f, !.written = RecordedModel(r)]
           more == Append(files, file)
           m == IF ModelPending(r1) THEN NewModelLine(r1) ELSE <<>>
           new == m \o ItemLines(SubSeq(h, r1.recorded + 1, Len(h)))
                    \o CheckpointLines(SubSeq(r1.cps, r1.flushed + 1, Len(r1.cps)))
           still == [a EXCEPT !.moved = FALSE]
           t == [r1 EXCEPT !.recorded = Len(h), !.repair = FALSE,
                      !.written = IF ModelPending(r1) THEN RecordedModel(r1) ELSE @,
                      !.flushed = Len(r1.cps), !.safe = 0]
           fs == [more EXCEPT ![r1.active] =
                    [lines |-> Glued(more[r1.active].lines, more[r1.active].torn /\ ~r1.repair, new),
                     torn |-> FALSE]]
<1>1. AppendNew(r, h) = Outcome(t, fs)
  <2>1. Created(r) = Outcome(r1, more)
    BY DEF Created
  <2>2. Outcome(r1, more).recorder = r1 /\ Outcome(r1, more).files = more
    BY DEF Outcome
  <2> HIDE DEF r1, more
  <2>3. QED
    BY <2>1, <2>2 DEF AppendNew
<1>2. /\ AppOK(a, n) /\ RecorderOK(r, n) /\ FilesOK(files, n) /\ CheckpointsOK(r, a)
      /\ UnsavedOK(r, files, a)
    BY DEF Ready
<1>3. /\ AppOK(still, n) /\ still.history = h /\ still.turn = a.turn /\ ~still.moved
    BY <1>2, Unmoved
<1>4. /\ h \in Seq(ItemsTo(n)) /\ Len(h) \in Nat /\ Increasing(h)
      /\ r.cps \in Seq(CheckpointsTo(n)) /\ Len(r.cps) \in Nat
    BY <1>2, LenProperties DEF AppOK, RecorderOK
<1>5. /\ r.recorded = 0 /\ r.flushed = 0 /\ r.written = "none" /\ ~r.keep
      /\ h # <<>> /\ Len(files) < MaxFiles
  <2>1. r.recorded = 0 /\ r.flushed = 0 /\ r.written = "none" /\ ~r.keep
    BY <1>2 DEF UnsavedOK, RecorderOK
  <2>2. h # <<>>
    BY <1>4, <2>1, EmptySeq
  <2>3. QED
    BY <1>2, <2>1, <2>2 DEF UnsavedOK
<1>6. /\ files \in Seq(FilesTo(n)) /\ Len(files) \in Nat /\ DOMAIN files = 1 .. Len(files)
      /\ \A g \in DOMAIN files : FileFits(files[g].lines)
    BY <1>2, LenProperties DEF FilesOK
<1>7. \A j \in DOMAIN r.cps : Fit(r.cps[j], h) /\ (a.turn # NoTurn => r.cps[j].after <= a.turn)
    BY <1>2 DEF CheckpointsOK
<1>8. /\ RecordedModel(r) \in Models /\ RecordedModel(r) # "none"
      /\ head \in Headings /\ head # <<>> /\ head[1].holds = RecordedModel(r)
    BY <1>2, ModelFacts
<1> HIDE DEF h, head, still
<1>9. /\ lines \in Seq(LinesTo(n)) /\ FileFits(lines) /\ Loads(lines)
      /\ ParsedItems(lines) = <<>> /\ ParsedCheckpoints(lines) = <<>>
      /\ ParsedModel(lines) = RecordedModel(r)
  <2> DEFINE meta == <<MetaLine>>
  <2>1. /\ meta \in Seq(LinesTo(n)) /\ Loads(meta) /\ FileFits(meta)
        /\ ParsedItems(meta) = <<>> /\ ParsedCheckpoints(meta) = <<>>
    BY NewFile
  <2> HIDE DEF meta
  <2>2. /\ meta \o head \in Seq(LinesTo(n))
        /\ ParsedItems(meta \o head) = ParsedItems(meta)
        /\ ParsedCheckpoints(meta \o head) = ParsedCheckpoints(meta)
        /\ ParsedModel(meta \o head) = HeadingOf(head, ParsedModel(meta))
        /\ Loads(meta \o head) /\ FileFits(meta \o head)
    BY <1>8, <2>1, HeadingAdded
  <2>3. HeadingOf(head, ParsedModel(meta)) = RecordedModel(r)
    BY <1>8 DEF HeadingOf
  <2>4. QED
    BY <2>1, <2>2, <2>3 DEF meta
<1> HIDE DEF lines
<1>10. file \in FilesTo(n) /\ file.lines = lines /\ file.torn = FALSE
    BY <1>9 DEF FilesTo
<1> HIDE DEF file
<1>11. /\ more \in Seq(FilesTo(n)) /\ Len(more) = f /\ DOMAIN more = 1 .. f
       /\ more[f] = file /\ \A g \in 1 .. Len(files) : more[g] = files[g]
    BY <1>6, <1>10, AppendProperties, LenProperties
<1> HIDE DEF more
<1>12. FilesOK(more, n)
  <2>1. Len(more) <= MaxFiles
    BY <1>5, <1>6, <1>11, RecordBoundsAssumption
  <2>2. \A g \in 1 .. f : g \in 1 .. Len(files) \/ g = f
    BY <1>6
  <2>3. \A g \in DOMAIN more : FileFits(more[g].lines)
    BY <1>6, <1>9, <1>10, <1>11, <2>2
  <2>4. QED
    BY <1>11, <2>1, <2>3 DEF FilesOK
<1>13. /\ r1 \in [active : Nat, recorded : Nat, repair : BOOLEAN, cps : Seq(CheckpointsTo(n)),
                  flushed : Nat, model : Models, written : Models \cup {"none"},
                  keep : BOOLEAN, safe : Nat]
       /\ r1.active = f /\ r1.written = RecordedModel(r) /\ r1.recorded = 0 /\ r1.flushed = 0
       /\ r1.cps = r.cps /\ r1.model = r.model /\ ~r1.keep
  <2>1. /\ r \in [active : Nat, recorded : Nat, repair : BOOLEAN, cps : Seq(CheckpointsTo(n)),
                   flushed : Nat, model : Models, written : Models \cup {"none"},
                   keep : BOOLEAN, safe : Nat]
    BY <1>2 DEF RecorderOK
  <2>2. /\ r1.active = f /\ r1.written = RecordedModel(r) /\ r1.recorded = r.recorded
        /\ r1.flushed = r.flushed /\ r1.cps = r.cps /\ r1.model = r.model /\ r1.keep = r.keep
    BY <2>1
  <2>3. f \in Nat /\ RecordedModel(r) \in Models \cup {"none"}
    BY <1>6, <1>8
  <2> HIDE DEF f
  <2>4. r1 \in [active : Nat, recorded : Nat, repair : BOOLEAN, cps : Seq(CheckpointsTo(n)),
                flushed : Nat, model : Models, written : Models \cup {"none"},
                keep : BOOLEAN, safe : Nat]
    BY <2>1, <2>3
  <2>5. QED
    BY <1>5, <2>2, <2>4
<1> HIDE DEF r1
<1>14. RecordedModel(r1) = RecordedModel(r) /\ ~ModelPending(r1) /\ m = <<>>
    BY <1>5, <1>13 DEF RecordedModel, ModelPending
<1> DEFINE b == lines \o new
<1>15. /\ b \in Seq(LinesTo(n)) /\ FileFits(b) /\ Loads(b) /\ Len(b) \in Nat
       /\ ParsedItems(b) = h /\ ParsedCheckpoints(b) = r.cps
       /\ ParsedModel(b) = RecordedModel(r)
  <2> DEFINE cps == r.cps
  <2>1. SubSeq(h, 1, 0) = <<>> /\ SubSeq(cps, 1, 0) = <<>>
    BY SubSeqEmpty
  <2>2. m \in Headings
    BY <1>14 DEF Headings
  <2>3. b = lines \o (m \o ItemLines(SubSeq(h, 0 + 1, Len(h)))
                        \o CheckpointLines(SubSeq(cps, 0 + 1, Len(cps))))
    BY <1>13
  <2> HIDE DEF b, m
  <2>4. Behind(lines, h, 0, cps, 0, m, b, n)
    BY <1>4, <1>7, <1>9, <2>1, <2>2, <2>3 DEF Behind
  <2> HIDE DEF cps
  <2>5. CaughtUp(lines, h, cps, m, b, n)
    BY <2>4, Continued
  <2>6. HeadingOf(m, ParsedModel(lines)) = RecordedModel(r)
    BY <1>9, <1>14 DEF HeadingOf
  <2>7. QED
    BY <2>5, <2>6, LenProperties DEF CaughtUp, cps
<1>16. more[r1.active].lines = lines /\ more[r1.active].torn = FALSE
    BY <1>10, <1>11, <1>13
<1>17. fs = [more EXCEPT ![f] = [lines |-> b, torn |-> FALSE]]
    BY <1>13, <1>16 DEF Glued
<1> HIDE DEF fs, b, new, m
<1>18. /\ t \in [active : Nat, recorded : Nat, repair : BOOLEAN, cps : Seq(CheckpointsTo(n)),
                 flushed : Nat, model : Models, written : Models \cup {"none"},
                 keep : BOOLEAN, safe : Nat]
       /\ t.active = f /\ t.recorded = Len(h) /\ t.cps = r.cps /\ t.flushed = Len(r.cps)
       /\ t.written = RecordedModel(r) /\ ~t.keep /\ t.safe = 0 /\ t.model = r.model
    BY <1>4, <1>6, <1>13, <1>14
<1> HIDE DEF t
<1>19. RecorderOK(t, n) /\ RecordedModel(t) = t.written
    BY <1>4, <1>5, <1>18 DEF RecorderOK, RecordedModel
<1>20. CheckpointsOK(t, still)
    BY <1>3, <1>7, <1>18 DEF CheckpointsOK, h
<1>21. Ready(still, t, fs, n) /\ Settled(still, t)
  <2>1. /\ t.active \in DOMAIN more /\ t.active # None
        /\ ParsedItems(b) = still.history /\ ParsedCheckpoints(b) = t.cps
        /\ ParsedModel(b) = t.written /\ t.recorded = Len(still.history)
        /\ t.flushed = Len(t.cps) /\ t.safe <= Len(b)
    BY <1>3, <1>6, <1>11, <1>15, <1>18 DEF None
  <2>2. fs = [more EXCEPT ![t.active] = [lines |-> b, torn |-> FALSE]]
    BY <1>17, <1>18
  <2>3. QED
    BY <1>3, <1>12, <1>15, <1>19, <1>20, <2>1, <2>2, Mirrored
<1>22. SavedBy(a, r, Outcome(t, fs))
  <2>1. /\ DOMAIN fs = 1 .. f /\ fs[f].lines = b
        /\ \A g \in 1 .. Len(files) : g # f /\ fs[g] = files[g]
    BY <1>6, <1>11, <1>17
  <2>2. 1 .. f = DOMAIN files \cup {f} /\ f # None
    BY <1>6 DEF None
  <2> HIDE DEF f
  <2>3. QED
    BY <1>6, <1>15, <1>18, <2>1, <2>2 DEF SavedBy, Outcome, h, f
<1>23. QED
    BY <1>1, <1>21, <1>22 DEF Kept, Outcome, h, still

LEMMA SyncKeeps ==
    ASSUME NEW n \in Nat, NEW a, NEW r, Ready(a, r, files, n)
    PROVE  Kept(a, r, Synced(r, a.history, a.moved), n)
<1> DEFINE h == a.history
           grew == Len(h) > r.recorded
           pending == Len(r.cps) > r.flushed \/ ModelPending(r)
           still == [a EXCEPT !.moved = FALSE]
<1>1. /\ AppOK(a, n) /\ RecorderOK(r, n) /\ FilesOK(files, n) /\ CheckpointsOK(r, a)
      /\ MirrorOK(r, files, a) /\ UnsavedOK(r, files, a)
    BY DEF Ready
<1>2. /\ AppOK(still, n) /\ still.history = h /\ still.turn = a.turn /\ ~still.moved
    BY <1>1, Unmoved
<1>3. /\ h \in Seq(ItemsTo(n)) /\ Len(h) \in Nat /\ a.moved \in BOOLEAN
      /\ r.recorded \in Nat /\ r.flushed \in Nat /\ Len(r.cps) \in Nat /\ r.flushed <= Len(r.cps)
    BY <1>1, LenProperties DEF AppOK, RecorderOK
<1>4. RecordedModel(r) # "none"
    BY <1>1, ModelFacts
<1>5. CASE r.active # None /\ (a.moved \/ Len(h) < r.recorded)
  <2>1. Synced(r, h, a.moved) = Rewrite(r, h)
    BY <1>3, <1>5 DEF Synced
  <2>2. QED
    BY <1>5, <2>1, RewriteKeeps
<1>6. CASE r.active = None /\ grew
  <2>1. Synced(r, h, a.moved) = AppendNew(r, h)
    BY <1>3, <1>6 DEF Synced
  <2>2. QED
    BY <1>6, <2>1, CreateKeeps
<1>7. CASE r.active # None /\ ~a.moved /\ Len(h) >= r.recorded /\ (grew \/ pending)
  <2>1. Synced(r, h, a.moved) = AppendNew(r, h)
    BY <1>3, <1>7 DEF Synced
  <2>2. QED
    BY <1>7, <2>1, AppendKeeps
<1>8. CASE ~(r.active # None /\ (a.moved \/ Len(h) < r.recorded)) /\ ~(r.active = None /\ grew)
           /\ ~(r.active # None /\ ~a.moved /\ Len(h) >= r.recorded /\ (grew \/ pending))
  <2>1. Synced(r, h, a.moved) = Outcome(r, files)
    BY <1>8 DEF Synced
  <2>2. /\ r.active = None => h = <<>>
        /\ r.active # None => /\ ~a.moved /\ r.recorded = Len(h) /\ r.flushed = Len(r.cps)
                              /\ RecordedModel(r) = r.written
    <3>1. ASSUME r.active = None PROVE h = <<>>
        <4>1. Len(h) = 0
            BY <1>1, <1>3, <1>8, <3>1 DEF UnsavedOK
        <4>2. QED
            BY <1>3, <4>1, EmptySeq
    <3>2. ASSUME r.active # None
          PROVE  /\ ~a.moved /\ r.recorded = Len(h) /\ r.flushed = Len(r.cps)
                 /\ RecordedModel(r) = r.written
        BY <1>3, <1>4, <1>8, <3>2 DEF ModelPending
    <3>3. QED
        BY <3>1, <3>2
  <2> HIDE DEF still, h, grew, pending
  <2>3. Settled(still, r)
    BY <1>2, <2>2 DEF Settled
  <2>4. CheckpointsOK(r, still)
    BY <1>1, <1>2, <2>2 DEF CheckpointsOK, h
  <2>5. MirrorOK(r, files, still)
    BY <1>1, <1>2, <2>2 DEF MirrorOK, h
  <2>6. UnsavedOK(r, files, still)
    BY <1>1, <1>2, <2>2 DEF UnsavedOK, h
  <2>7. Ready(still, r, files, n)
    BY <1>1, <1>2, <2>4, <2>5, <2>6 DEF Ready
  <2>8. SavedBy(a, r, Outcome(r, files))
    <3>1. CASE r.active = None
        BY <2>2, <3>1 DEF SavedBy, Outcome, h
    <3>2. CASE r.active # None
        <4>1. /\ r.active \in DOMAIN files /\ Loads(files[r.active].lines)
              /\ ParsedItems(files[r.active].lines) = SubSeq(h, 1, r.recorded)
            BY <1>1, <2>2, <3>2 DEF MirrorOK, h
        <4>2. SubSeq(h, 1, r.recorded) = h
            BY <1>3, <2>2, <3>2, SubSeqFull
        <4>3. QED
            BY <3>2, <4>1, <4>2 DEF SavedBy, Outcome, h
    <3>3. QED
        BY <3>1, <3>2
  <2>9. QED
    BY <2>1, <2>3, <2>7, <2>8 DEF Kept, Outcome, h, still
<1>9. QED
    BY <1>5, <1>6, <1>7, <1>8

-----------------------------------------------------------------------------
(* The steps of a conversation.                                            *)

\* What a step makes of the record.
Longer(a, e) == [a EXCEPT !.history = Append(@, e)]
Opened(a, turn) == [a EXCEPT !.turn = turn]
Shorter(a, len) == [a EXCEPT !.history = SubSeq(@, 1, len), !.moved = TRUE]
Snapped(r, history) == [r EXCEPT !.cps = Append(@, Snapshot(history))]

\* The record with every checkpoint fitting the history: so it is at the top of the loop
\* and until something is cut off that checkpoints were taken of.
Live(a, r, fs, n) == Ready(a, r, fs, n) /\ \A i \in DOMAIN r.cps : Fit(r.cps[i], a.history)

LEMMA SettledIsLive ==
    ASSUME NEW n \in Nat, NEW a, NEW r, NEW fs, Ready(a, r, fs, n), Settled(a, r)
    PROVE  Live(a, r, fs, n)
BY DEF Live, Ready, Settled, CheckpointsOK

\* There are no more items in a conversation than were recorded.
LEMMA HistoryBound ==
    ASSUME NEW n \in Nat, NEW h \in Seq(ItemsTo(n)), Increasing(h)
    PROVE  Len(h) <= n
<1>1. DOMAIN h = 1 .. Len(h) /\ Len(h) \in Nat
    BY LenProperties
<1>2. \A i \in 1 .. Len(h) : h[i].id \in 1 .. n
  <2>1. \A i \in 1 .. Len(h) : h[i] \in ItemsTo(n)
    BY ElementOfSeq
  <2>2. QED
    BY <2>1 DEF ItemsTo
<1> DEFINE K == {k \in Nat : k \in 1 .. Len(h) => h[k].id >= k}
<1>3. 0 \in K
    OBVIOUS
<1>4. ASSUME NEW k \in Nat, k \in K PROVE k + 1 \in K
  <2> SUFFICES ASSUME k + 1 \in 1 .. Len(h) PROVE h[k + 1].id >= k + 1
    OBVIOUS
  <2>1. CASE k = 0
    BY <1>2, <2>1
  <2>2. CASE k # 0
    <3>1. k \in 1 .. Len(h) /\ k < k + 1 /\ h[k].id >= k
        BY <1>1, <1>4, <2>2
    <3>2. h[k].id < h[k + 1].id
        BY <1>1, <3>1 DEF Increasing
    <3>3. QED
        BY <1>2, <3>1, <3>2
  <2>3. QED
    BY <2>1, <2>2
<1> HIDE DEF K
<1>5. Nat \subseteq K
    BY <1>3, <1>4, SetInduction
<1>6. CASE Len(h) = 0
    BY <1>6
<1>7. CASE Len(h) # 0
  <2>1. Len(h) \in 1 .. Len(h) /\ Len(h) \in K
    BY <1>1, <1>5, <1>7
  <2>2. h[Len(h)].id >= Len(h)
    BY <2>1 DEF K
  <2>3. QED
    BY <1>1, <1>2, <2>1, <2>2
<1>8. QED
    BY <1>6, <1>7

LEMMA SaidInOrder ==
    ASSUME NEW n \in Nat, NEW h \in Seq(ItemsTo(n)), Increasing(h), NEW e \in ItemsTo(n + 1),
           e.id = n + 1
    PROVE  /\ Append(h, e) \in Seq(ItemsTo(n + 1)) /\ Len(Append(h, e)) = Len(h) + 1
           /\ Increasing(Append(h, e)) /\ Grew(h, Append(h, e), n)
           /\ \A i \in 1 .. Len(h) : Append(h, e)[i] = h[i]
           /\ Append(h, e)[Len(h) + 1] = e
           /\ \A cp \in CheckpointsTo(n) : Fit(cp, h) => Fit(cp, Append(h, e))
<1>1. h \in Seq(ItemsTo(n + 1)) /\ Len(h) \in Nat /\ DOMAIN h = 1 .. Len(h)
    BY ItemsMore, LenProperties
<1> DEFINE g == Append(h, e)
<1>2. /\ g \in Seq(ItemsTo(n + 1)) /\ Len(g) = Len(h) + 1 /\ DOMAIN g = 1 .. Len(h) + 1
      /\ \A i \in 1 .. Len(h) : g[i] = h[i]
      /\ g[Len(h) + 1] = e
    BY <1>1, AppendProperties, LenProperties
<1> HIDE DEF g
<1>3. \A i \in 1 .. Len(h) : h[i].id \in 1 .. n
  <2>1. \A i \in 1 .. Len(h) : h[i] \in ItemsTo(n)
    BY ElementOfSeq
  <2>2. QED
    BY <2>1 DEF ItemsTo
<1>4. \A i \in 1 .. Len(h) + 1 : i \in 1 .. Len(h) \/ i = Len(h) + 1
    BY <1>1
<1>5. Increasing(g)
  <2> SUFFICES ASSUME NEW i \in 1 .. Len(h) + 1, NEW j \in 1 .. Len(h) + 1, i < j
               PROVE  g[i].id < g[j].id
    BY <1>2 DEF Increasing
  <2>1. i \in 1 .. Len(h)
    BY <1>1
  <2>2. CASE j = Len(h) + 1
    BY <1>2, <1>3, <2>1, <2>2
  <2>3. CASE j \in 1 .. Len(h)
    BY <1>1, <1>2, <2>1, <2>3 DEF Increasing
  <2>4. QED
    BY <1>4, <2>2, <2>3
<1>6. Grew(h, g, n)
  <2>1. Len(h) \in 0 .. Len(h) /\ Len(h) <= Len(g)
    BY <1>1, <1>2
  <2>2. \A i \in 1 .. Len(g) : i > Len(h) => g[i].id > n
    BY <1>1, <1>2, <1>4
  <2>3. QED
    BY <1>2, <2>1, <2>2 DEF Grew
<1>7. ASSUME NEW cp \in CheckpointsTo(n), Fit(cp, h) PROVE Fit(cp, g)
  <2>1. cp.after \in Nat /\ cp.tree \subseteq 1 .. n
    BY DEF CheckpointsTo
  <2>2. cp.after <= Len(g)
    BY <1>1, <1>2, <1>7, <2>1 DEF Fit
  <2>3. \A k \in 1 .. cp.after : g[k] = h[k]
    BY <1>1, <1>2, <1>7, <2>1 DEF Fit
  <2>4. \A k \in 1 .. Len(g) : k > cp.after => g[k].id \notin cp.tree
    <3>1. \A k \in 1 .. Len(h) : k > cp.after => g[k].id \notin cp.tree
        BY <1>1, <1>2, <1>7 DEF Fit
    <3>2. g[Len(h) + 1].id \notin cp.tree
        BY <1>2, <2>1
    <3>3. QED
        BY <1>2, <1>4, <3>1, <3>2
  <2>5. QED
    BY <1>1, <1>2, <1>7, <2>1, <2>2, <2>3, <2>4, FitPrefix
<1>8. QED
    BY <1>2, <1>5, <1>6, <1>7 DEF g

\* Something is recorded: at rest, in a turn, or a message that starts one.
LEMMA SaidLive ==
    ASSUME NEW n \in Nat, NEW a, NEW r, NEW fs, Live(a, r, fs, n), NEW e \in ItemsTo(n + 1),
           e.id = n + 1, r.active = None => ~a.moved /\ Len(fs) < MaxFiles,
           NEW b, b \in [history : {Append(a.history, e)}, floor : {a.floor},
                         turn : {a.turn, Len(a.history)}, moved : {a.moved}],
           b.turn = NoTurn => e.kind # "user", a.turn # NoTurn => b.turn = a.turn
    PROVE  Live(b, r, fs, n + 1)
<1> DEFINE h == a.history
           g == Append(h, e)
<1>1. /\ b.history = g /\ b.floor = a.floor /\ b.moved = a.moved
      /\ b.turn = a.turn \/ (a.turn = NoTurn /\ b.turn = Len(h))
    OBVIOUS
<1>2. /\ AppOK(a, n) /\ RecorderOK(r, n) /\ FilesOK(fs, n) /\ CheckpointsOK(r, a)
      /\ MirrorOK(r, fs, a) /\ UnsavedOK(r, fs, a)
      /\ \A i \in DOMAIN r.cps : Fit(r.cps[i], h)
    BY DEF Live, Ready
<1>3. /\ a \in [history : Seq(ItemsTo(n)), floor : Nat, turn : Nat \cup {NoTurn}, moved : BOOLEAN]
      /\ h \in Seq(ItemsTo(n)) /\ Len(h) \in Nat /\ Increasing(h) /\ a.floor \in Nat
      /\ a.turn \in Nat \cup {NoTurn} /\ a.floor <= Len(h) /\ a.turn <= Len(h)
    BY <1>2, LenProperties DEF AppOK
<1>4. /\ g \in Seq(ItemsTo(n + 1)) /\ Len(g) = Len(h) + 1 /\ Increasing(g)
      /\ \A i \in 1 .. Len(h) : g[i] = h[i]
      /\ g[Len(h) + 1] = e
      /\ \A cp \in CheckpointsTo(n) : Fit(cp, h) => Fit(cp, g)
    BY <1>3, SaidInOrder
<1>5. /\ r.cps \in Seq(CheckpointsTo(n)) /\ DOMAIN r.cps = 1 .. Len(r.cps)
      /\ \A i \in DOMAIN r.cps : r.cps[i] \in CheckpointsTo(n)
    BY <1>2, LenProperties, ElementOfSeq DEF RecorderOK
<1>6. \A i \in DOMAIN r.cps : Fit(r.cps[i], g)
    BY <1>2, <1>4, <1>5
<1>10. r.active # None /\ ~a.moved => SubSeq(g, 1, r.recorded) = SubSeq(h, 1, r.recorded)
  <2>1. r.active # None /\ ~a.moved => r.recorded \in 0 .. Len(h)
    BY <1>2, <1>3 DEF MirrorOK, RecorderOK
  <2>2. h \in Seq(ItemsTo(n + 1))
    BY <1>3, ItemsMore
  <2>3. QED
    BY <2>1, <2>2, FrontOfAppend
<1> HIDE DEF g
<1>7. AppOK(b, n + 1)
  <2>1. b \in [history : Seq(ItemsTo(n + 1)), floor : Nat, turn : Nat \cup {NoTurn}, moved : BOOLEAN]
    BY <1>3, <1>4 DEF g
  <2>2. b.floor <= Len(g) /\ b.turn <= Len(g)
    BY <1>1, <1>3, <1>4 DEF NoTurn
  <2> DEFINE start == IF b.turn = NoTurn THEN Len(g) ELSE b.turn
  <2>3. b.floor <= start /\ (start > b.floor => g[start].kind # "user")
    <3>0. LET was == IF a.turn = NoTurn THEN Len(h) ELSE a.turn IN
            a.floor <= was /\ (was > a.floor => h[was].kind # "user")
        BY <1>2 DEF AppOK
    <3>1. CASE b.turn = NoTurn
        <4>1. start = Len(h) + 1 /\ e.kind # "user" /\ g[start] = e
            BY <1>4, <3>1
        <4>2. b.floor <= start
            BY <1>1, <1>3, <4>1
        <4>3. QED
            BY <4>1, <4>2
    <3>2. CASE b.turn # NoTurn /\ b.turn = a.turn
        <4>1. start = a.turn /\ start \in Nat
            BY <1>3, <3>2
        <4>2. start > a.floor => start \in 1 .. Len(h)
            BY <1>3, <4>1
        <4>3. QED
            BY <1>1, <1>4, <3>0, <3>2, <4>1, <4>2
    <3>3. CASE a.turn = NoTurn /\ b.turn = Len(h)
        <4>1. start = Len(h)
            BY <1>3, <3>3 DEF NoTurn
        <4>2. start > a.floor => start \in 1 .. Len(h)
            BY <1>3, <4>1
        <4>3. QED
            BY <1>1, <1>4, <3>0, <3>3, <4>1, <4>2
    <3>4. QED
        BY <1>1, <3>1, <3>2, <3>3
  <2> HIDE DEF h
  <2>4. QED
    BY <1>1, <1>4, <2>1, <2>2, <2>3 DEF AppOK
<1>8. RecorderOK(r, n + 1) /\ FilesOK(fs, n + 1)
  <2>1. n <= n + 1 /\ n + 1 \in Nat
    OBVIOUS
  <2>2. /\ Seq(CheckpointsTo(n)) \subseteq Seq(CheckpointsTo(n + 1))
        /\ Seq(FilesTo(n)) \subseteq Seq(FilesTo(n + 1))
    BY <2>1, ItemsMore
  <2>3. QED
    BY <1>2, <2>2 DEF RecorderOK, FilesOK
<1>9. CheckpointsOK(r, b)
  <2>1. \A i \in DOMAIN r.cps : b.turn # NoTurn => r.cps[i].after <= b.turn
    BY <1>1, <1>2 DEF CheckpointsOK, Fit
  <2>2. QED
    BY <1>1, <1>6, <2>1 DEF CheckpointsOK
<1>11. MirrorOK(r, fs, b)
  <2>1. Len(g) = Len(h) + 1 /\ r.recorded \in Nat
    BY <1>2, <1>4 DEF RecorderOK
  <2>2. ASSUME r.active # None
        PROVE  ~b.moved => /\ r.recorded <= Len(b.history)
                           /\ ParsedItems(fs[r.active].lines) = SubSeq(b.history, 1, r.recorded)
    BY <1>1, <1>2, <1>3, <1>10, <2>1, <2>2 DEF MirrorOK
  <2>3. QED
    BY <1>2, <2>2 DEF MirrorOK
<1>12. UnsavedOK(r, fs, b)
    BY <1>1, <1>2 DEF UnsavedOK
<1>13. QED
    BY <1>1, <1>6, <1>7, <1>8, <1>9, <1>11, <1>12 DEF Live, Ready

\* Some of the turn is taken back: what is left is a first part of the conversation.
LEMMA CutFits ==
    ASSUME NEW n \in Nat, NEW h \in Seq(ItemsTo(n)), Increasing(h), NEW len \in 0 .. Len(h)
    PROVE  /\ SubSeq(h, 1, len) \in Seq(ItemsTo(n)) /\ Len(SubSeq(h, 1, len)) = len
           /\ Increasing(SubSeq(h, 1, len)) /\ Grew(h, SubSeq(h, 1, len), n)
           /\ \A i \in 1 .. len : SubSeq(h, 1, len)[i] = h[i]
           /\ \A cp \in CheckpointsTo(n) :
                Fit(cp, h) /\ cp.after <= len => Fit(cp, SubSeq(h, 1, len))
<1> DEFINE g == SubSeq(h, 1, len)
<1>1. /\ g \in Seq(ItemsTo(n)) /\ Len(g) = len /\ \A i \in 1 .. len : g[i] = h[i]
    BY FrontFacts
<1> HIDE DEF g
<1>2. /\ DOMAIN g = 1 .. len /\ DOMAIN h = 1 .. Len(h) /\ Len(h) \in Nat
      /\ \A i \in 1 .. len : i \in 1 .. Len(h)
    BY <1>1, LenProperties
<1>3. Increasing(g)
    BY <1>1, <1>2 DEF Increasing
<1>4. Grew(h, g, n)
  <2>1. \A i \in 1 .. Len(g) : i > len => g[i].id > n
    BY <1>1
  <2>2. QED
    BY <1>1, <1>2, <2>1 DEF Grew
<1>5. ASSUME NEW cp \in CheckpointsTo(n), Fit(cp, h), cp.after <= len PROVE Fit(cp, g)
  <2>1. cp.after \in Nat
    BY DEF CheckpointsTo
  <2>2. \A k \in 1 .. cp.after : g[k] = h[k]
    BY <1>1, <1>2, <1>5, <2>1
  <2>3. \A k \in 1 .. Len(g) : k > cp.after => g[k].id \notin cp.tree
    BY <1>1, <1>2, <1>5 DEF Fit
  <2>4. QED
    BY <1>1, <1>5, <2>1, <2>2, <2>3, FitPrefix
<1>6. QED
    BY <1>1, <1>3, <1>4, <1>5 DEF g

LEMMA CutLive ==
    ASSUME NEW n \in Nat, NEW a, NEW r, NEW fs, Live(a, r, fs, n), a.turn # NoTurn,
           r.active # None, NEW len \in a.turn .. Len(a.history),
           NEW b, b = Shorter(a, len)
    PROVE  /\ Live(b, r, fs, n) /\ b.history = SubSeq(a.history, 1, len) /\ b.turn = a.turn
           /\ b.floor = a.floor /\ b.moved
           /\ b \in [history : Seq(ItemsTo(n)), floor : Nat, turn : Nat \cup {NoTurn},
                     moved : BOOLEAN]
<1> DEFINE h == a.history
           g == SubSeq(h, 1, len)
<1>1. /\ AppOK(a, n) /\ RecorderOK(r, n) /\ FilesOK(fs, n) /\ CheckpointsOK(r, a)
      /\ MirrorOK(r, fs, a)
      /\ \A i \in DOMAIN r.cps : Fit(r.cps[i], h)
    BY DEF Live, Ready
<1>2. /\ a \in [history : Seq(ItemsTo(n)), floor : Nat, turn : Nat \cup {NoTurn}, moved : BOOLEAN]
      /\ h \in Seq(ItemsTo(n)) /\ Len(h) \in Nat /\ Increasing(h) /\ a.floor \in Nat
      /\ a.turn \in Nat /\ a.floor <= a.turn /\ a.turn <= Len(h)
      /\ a.turn > a.floor => h[a.turn].kind # "user"
    BY <1>1, LenProperties DEF AppOK
<1>3. len \in 0 .. Len(h) /\ a.turn <= len
    BY <1>2
<1>4. /\ g \in Seq(ItemsTo(n)) /\ Len(g) = len /\ Increasing(g)
      /\ \A i \in 1 .. len : g[i] = h[i]
      /\ \A cp \in CheckpointsTo(n) : Fit(cp, h) /\ cp.after <= len => Fit(cp, g)
    BY <1>2, <1>3, CutFits
<1>5. /\ \A i \in DOMAIN r.cps : r.cps[i] \in CheckpointsTo(n) /\ r.cps[i].after <= a.turn
  <2>1. r.cps \in Seq(CheckpointsTo(n))
    BY <1>1 DEF RecorderOK
  <2>2. \A i \in DOMAIN r.cps : r.cps[i] \in CheckpointsTo(n)
    BY <2>1, LenProperties, ElementOfSeq
  <2>3. QED
    BY <1>1, <2>2 DEF CheckpointsOK
<1>6. \A i \in DOMAIN r.cps : Fit(r.cps[i], g)
  <2>1. \A i \in DOMAIN r.cps : r.cps[i].after <= len
    BY <1>2, <1>3, <1>5 DEF CheckpointsTo
  <2>2. QED
    BY <1>1, <1>4, <1>5, <2>1
<1>7. /\ b.history = g /\ b.turn = a.turn /\ b.floor = a.floor /\ b.moved = TRUE
      /\ b \in [history : Seq(ItemsTo(n)), floor : Nat, turn : Nat \cup {NoTurn}, moved : BOOLEAN]
    BY <1>2, <1>4 DEF Shorter
<1> HIDE DEF g
<1>8. AppOK(b, n)
  <2>1. a.turn > a.floor => g[a.turn].kind # "user"
    <3>1. a.turn > a.floor => a.turn \in 1 .. len
        BY <1>2, <1>3
    <3>2. QED
        BY <1>2, <1>4, <3>1
  <2>2. b.floor <= Len(g) /\ b.turn <= Len(g)
    BY <1>2, <1>3, <1>4, <1>7
  <2> HIDE DEF h
  <2>3. QED
    BY <1>2, <1>4, <1>7, <2>1, <2>2 DEF AppOK
<1>9. CheckpointsOK(r, b)
    BY <1>5, <1>6, <1>7 DEF CheckpointsOK
<1>10. MirrorOK(r, fs, b)
    BY <1>1, <1>7 DEF MirrorOK
<1>11. UnsavedOK(r, fs, b)
    BY DEF UnsavedOK
<1>12. QED
    BY <1>1, <1>6, <1>7, <1>8, <1>9, <1>10, <1>11 DEF Live, Ready, g

\* Undoing a submission nothing came of takes back it alone.
LEMMA UndoneIsCut ==
    ASSUME NEW n \in Nat, NEW a, AppOK(a, n), a.turn # NoTurn,
           Len(a.history) = a.turn + 1, Last(a.history).kind = "user"
    PROVE  Undone(a) = Shorter(a, a.turn)
<1> DEFINE h == a.history
           last == {i \in a.floor .. Len(h) : \A j \in i + 1 .. Len(h) : h[j].kind = "user"}
           len == CHOOSE i \in last : \A j \in last : i <= j
<1>1. /\ a.turn \in Nat /\ a.floor \in Nat /\ a.floor <= a.turn /\ Len(h) = a.turn + 1
      /\ a.turn > a.floor => h[a.turn].kind # "user"
      /\ h[a.turn + 1].kind = "user"
    BY DEF AppOK, Last
<1> HIDE DEF h
<1>2. a.turn \in last
  <2>1. \A j \in a.turn + 1 .. Len(h) : j = a.turn + 1
    BY <1>1
  <2>2. QED
    BY <1>1, <2>1
<1>3. ASSUME NEW i \in last PROVE a.turn <= i
  <2> SUFFICES ASSUME i < a.turn PROVE FALSE
    BY <1>1
  <2>1. a.turn \in i + 1 .. Len(h) /\ a.turn > a.floor
    BY <1>1
  <2>2. h[a.turn].kind = "user"
    BY <2>1
  <2>3. QED
    BY <1>1, <2>1, <2>2
<1>4. len = a.turn
  <2>1. last \subseteq Nat
    BY <1>1
  <2> HIDE DEF last
  <2>2. len \in last /\ \A j \in last : len <= j
    BY <1>2, <1>3
  <2>3. len <= a.turn /\ a.turn <= len /\ len \in Nat
    BY <1>2, <1>3, <2>1, <2>2
  <2>4. QED
    BY <1>1, <2>3
<1>5. Undone(a) = Shorter(a, len)
    BY DEF Undone, Shorter, h
<1>6. QED
    BY <1>4, <1>5

\* A turn is over: what it leaves is snapshotted.
LEMMA OverLive ==
    ASSUME NEW n \in 0 .. MaxItems, NEW a, NEW r, NEW fs, Live(a, r, fs, n),
           tree \subseteq 1 .. n,
           Len(a.history) > a.floor => a.history[Len(a.history)].kind # "user",
           NEW b, b = Opened(a, NoTurn), NEW t, t = Snapped(r, a.history)
    PROVE  /\ Live(b, t, fs, n) /\ t.active = r.active
           /\ b.history = a.history /\ b.floor = a.floor /\ b.turn = NoTurn /\ b.moved = a.moved
<1> DEFINE h == a.history
           cp == Snapshot(h)
           cps == Append(r.cps, cp)
<1>1. /\ AppOK(a, n) /\ RecorderOK(r, n) /\ FilesOK(fs, n) /\ CheckpointsOK(r, a)
      /\ MirrorOK(r, fs, a) /\ UnsavedOK(r, fs, a)
      /\ \A i \in DOMAIN r.cps : Fit(r.cps[i], h)
    BY DEF Live, Ready
<1>2. /\ a \in [history : Seq(ItemsTo(n)), floor : Nat, turn : Nat \cup {NoTurn}, moved : BOOLEAN]
      /\ h \in Seq(ItemsTo(n)) /\ Len(h) \in Nat /\ Increasing(h) /\ a.floor \in Nat
      /\ a.floor <= Len(h) /\ n \in Nat /\ MaxItems \in Nat
    BY <1>1, LenProperties, RecordBoundsAssumption DEF AppOK
<1>3. Len(h) \in 0 .. MaxItems
  <2>1. Len(h) <= n
    BY <1>2, HistoryBound
  <2>2. QED
    BY <1>2, <2>1
<1>4. cp \in CheckpointsTo(n) /\ Fit(cp, h)
  <2>1. cp.after = Len(h) /\ cp.of = h /\ cp.tree = tree
    BY DEF Snapshot
  <2>2. cp \in CheckpointsTo(n)
    BY <1>2, <1>3 DEF Snapshot, CheckpointsTo
  <2>3. SubSeq(h, 1, Len(h)) = h /\ DOMAIN h = 1 .. Len(h)
    BY <1>2, SubSeqFull, LenProperties
  <2> HIDE DEF cp, h
  <2>4. Fit(cp, h)
    BY <1>2, <2>1, <2>3 DEF Fit
  <2>5. QED
    BY <2>2, <2>4
<1> HIDE DEF cp, h
<1>5. /\ r.cps \in Seq(CheckpointsTo(n)) /\ Len(r.cps) \in Nat /\ DOMAIN r.cps = 1 .. Len(r.cps)
      /\ r.flushed \in 0 .. Len(r.cps)
    BY <1>1, LenProperties DEF RecorderOK
<1>6. /\ cps \in Seq(CheckpointsTo(n)) /\ Len(cps) = Len(r.cps) + 1
      /\ DOMAIN cps = 1 .. Len(r.cps) + 1
      /\ \A i \in 1 .. Len(r.cps) : cps[i] = r.cps[i]
      /\ cps[Len(r.cps) + 1] = cp
      /\ SubSeq(cps, 1, r.flushed) = SubSeq(r.cps, 1, r.flushed)
    BY <1>4, <1>5, AppendProperties, LenProperties, FrontOfAppend
<1>7. \A i \in DOMAIN cps : Fit(cps[i], h)
  <2>1. \A i \in 1 .. Len(r.cps) + 1 : i \in 1 .. Len(r.cps) \/ i = Len(r.cps) + 1
    BY <1>5
  <2>2. QED
    BY <1>1, <1>4, <1>5, <1>6, <2>1
<1>8. /\ t \in [active : Nat, recorded : Nat, repair : BOOLEAN, cps : Seq(CheckpointsTo(n)),
                flushed : Nat, model : Models, written : Models \cup {"none"},
                keep : BOOLEAN, safe : Nat]
      /\ t.active = r.active /\ t.cps = cps /\ t.flushed = r.flushed /\ t.recorded = r.recorded
      /\ t.written = r.written /\ t.keep = r.keep /\ t.safe = r.safe /\ t.repair = r.repair
    BY <1>1, <1>6 DEF RecorderOK, Snapped, cp, h
<1> HIDE DEF cps
<1>9. /\ b \in [history : Seq(ItemsTo(n)), floor : Nat, turn : Nat \cup {NoTurn}, moved : BOOLEAN]
      /\ b.history = h /\ b.floor = a.floor /\ b.turn = NoTurn /\ b.moved = a.moved
    BY <1>2 DEF Opened, h
<1>10. AppOK(b, n)
  <2>1. b.turn <= Len(h)
    BY <1>2, <1>9 DEF NoTurn
  <2>2. QED
    BY <1>2, <1>9, <2>1 DEF AppOK, h
<1>11. RecorderOK(t, n)
  <2>1. r.flushed <= Len(cps) /\ (r.keep => r.written # "none")
    BY <1>1, <1>5, <1>6 DEF RecorderOK
  <2>2. QED
    BY <1>8, <2>1 DEF RecorderOK
<1>12. CheckpointsOK(t, b)
    BY <1>7, <1>8, <1>9 DEF CheckpointsOK
<1>13. MirrorOK(t, fs, b)
    BY <1>1, <1>6, <1>8, <1>9 DEF MirrorOK, h
<1>14. UnsavedOK(t, fs, b)
    BY <1>1, <1>8, <1>9 DEF UnsavedOK, h
<1>15. QED
    BY <1>1, <1>7, <1>8, <1>9, <1>10, <1>11, <1>12, <1>13, <1>14 DEF Live, Ready, h

-----------------------------------------------------------------------------
(* The steps of the loop, and what each does to the saved conversations.    *)

\* The conversation goes on, nothing being saved; it is saved, if there is any; it is left;
\* another is opened; the process dies, the last write possibly cut short.
Says ==
    /\ Grew(app.history, app'.history, recordedIds)
    /\ files' = files /\ recorder'.active = recorder.active
Saves ==
    /\ Grew(app.history, app'.history, recordedIds)
    /\ SavedBy(app', recorder, Outcome(recorder', files'))
Leaves == app'.history = <<>> /\ recorder'.active = None /\ files' = files
Opens ==
    \E f \in DOMAIN files :
        /\ Loads(files[f].lines) /\ app'.history = ParsedItems(files[f].lines)
        /\ recorder'.active = f /\ files' = files
Dies ==
    /\ app'.history = <<>> /\ recorder'.active = None /\ recorder.active \in DOMAIN files
    /\ DOMAIN files' = DOMAIN files
    /\ \A f \in DOMAIN files : f # recorder.active => files'[f] = files[f]
    /\ Loads(files'[recorder.active].lines) =>
            Begins(ParsedItems(files'[recorder.active].lines),
                   ParsedItems(files[recorder.active].lines))
Told == Says \/ Saves \/ Leaves \/ Opens \/ Dies

LEMMA GrewMore ==
    ASSUME NEW n \in Nat, NEW m \in Nat, n <= m, NEW T, NEW h \in Seq(T), NEW g \in Seq(ItemsTo(m)),
           Grew(h, g, n), NEW e \in ItemsTo(m + 1), e.id = m + 1
    PROVE  Grew(h, Append(g, e), n)
<1>1. PICK k \in 0 .. Len(h) : /\ k <= Len(g) /\ \A i \in 1 .. k : g[i] = h[i]
                               /\ \A i \in 1 .. Len(g) : i > k => g[i].id > n
    BY DEF Grew
<1> DEFINE q == Append(g, e)
<1>2. /\ g \in Seq(ItemsTo(m + 1)) /\ Len(g) \in Nat /\ Len(h) \in Nat
    BY ItemsMore, LenProperties
<1>3. /\ Len(q) = Len(g) + 1 /\ q[Len(g) + 1] = e
      /\ \A i \in 1 .. Len(g) : q[i] = g[i]
    BY <1>2, AppendProperties
<1> HIDE DEF q
<1>4. \A i \in 1 .. Len(q) : i \in 1 .. Len(g) \/ i = Len(g) + 1
    BY <1>2, <1>3
<1>5. k <= Len(q) /\ \A i \in 1 .. k : q[i] = h[i]
    BY <1>1, <1>2, <1>3
<1>6. \A i \in 1 .. Len(q) : i > k => q[i].id > n
    BY <1>1, <1>3, <1>4
<1>7. QED
    BY <1>5, <1>6 DEF Grew, q

LEMMA GrewNot ==
    ASSUME NEW n \in Nat, NEW T, NEW h \in Seq(T)
    PROVE  Grew(h, h, n) /\ Grew(h, <<>>, n)
<1>1. Len(h) \in Nat /\ Len(<<>>) = 0
    BY LenProperties, EmptySeq
<1>2. Grew(h, h, n)
  <2>1. Len(h) \in 0 .. Len(h) /\ Len(h) <= Len(h)
        /\ \A i \in 1 .. Len(h) : i > Len(h) => h[i].id > n
    BY <1>1
  <2>2. QED
    BY <2>1 DEF Grew
<1>3. Grew(h, <<>>, n)
  <2>1. 0 \in 0 .. Len(h) /\ 0 <= Len(<<>>) /\ \A i \in 1 .. 0 : FALSE
    BY <1>1
  <2>2. QED
    BY <1>1, <2>1 DEF Grew
<1>4. QED
    BY <1>2, <1>3

LEMMA SaidIs ==
    ASSUME NEW n \in Nat, NEW a, AppOK(a, n), NEW e, NEW b, b = Longer(a, e),
           NEW c, c = Opened(b, Len(a.history))
    PROVE  /\ b \in [history : {Append(a.history, e)}, floor : {a.floor}, turn : {a.turn, Len(a.history)},
                     moved : {a.moved}]
           /\ b.turn = a.turn /\ b.history = Append(a.history, e)
           /\ c \in [history : {Append(a.history, e)}, floor : {a.floor}, turn : {a.turn, Len(a.history)},
                     moved : {a.moved}]
           /\ c.turn = Len(a.history) /\ c.history = Append(a.history, e)
<1>1. a \in [history : Seq(ItemsTo(n)), floor : Nat, turn : Nat \cup {NoTurn}, moved : BOOLEAN]
    BY DEF AppOK
<1>2. /\ b = [history |-> Append(a.history, e), floor |-> a.floor, turn |-> a.turn, moved |-> a.moved]
      /\ c = [history |-> Append(a.history, e), floor |-> a.floor, turn |-> Len(a.history),
              moved |-> a.moved]
    BY <1>1 DEF Longer, Opened
<1> DEFINE g == Append(a.history, e)
           k == Len(a.history)
<1> HIDE DEF g, k
<1>3. /\ b = [history |-> g, floor |-> a.floor, turn |-> a.turn, moved |-> a.moved]
      /\ c = [history |-> g, floor |-> a.floor, turn |-> k, moved |-> a.moved]
    BY <1>2 DEF g, k
<1>4. /\ b \in [history : {g}, floor : {a.floor}, turn : {a.turn, k}, moved : {a.moved}]
      /\ b.turn = a.turn /\ b.history = g
    BY ONLY <1>3
<1>5. /\ c \in [history : {g}, floor : {a.floor}, turn : {a.turn, k}, moved : {a.moved}]
      /\ c.turn = k /\ c.history = g
    BY ONLY <1>3
<1>6. QED
    BY <1>4, <1>5 DEF g, k

LEMMA ItemIs ==
    ASSUME NEW k \in Nat, NEW kind \in Kinds, recordedIds \in Nat, k # 0
    PROVE  /\ Item(k, kind).id = recordedIds + k /\ Item(k, kind).kind = kind
           /\ Item(k, kind) \in ItemsTo(recordedIds + k)
BY DEF Item, ItemsTo

\* What every step starts from.
LEMMA InvFacts ==
    ASSUME RecordInv
    PROVE  /\ Ready(app, recorder, files, recordedIds)
           /\ recordedIds \in Nat /\ recordedIds <= MaxItems /\ MaxItems \in Nat
           /\ AppOK(app, recordedIds) /\ RecorderOK(recorder, recordedIds)
           /\ FilesOK(files, recordedIds)
           /\ app.history \in Seq(ItemsTo(recordedIds)) /\ Increasing(app.history)
           /\ Len(app.history) \in Nat
           /\ app.turn \in Nat \cup {NoTurn} /\ app.floor \in Nat /\ app.moved \in BOOLEAN
           /\ phase = "top" =>
                /\ Live(app, recorder, files, recordedIds) /\ ~app.moved
                /\ app.history # <<>> => recorder.active # None
<1>1. /\ Ready(app, recorder, files, recordedIds) /\ recordedIds \in 0 .. MaxItems
      /\ phase = "top" => Settled(app, recorder)
    BY DEF RecordInv
<1>2. recordedIds \in Nat /\ recordedIds <= MaxItems /\ MaxItems \in Nat
    BY <1>1, RecordBoundsAssumption
<1>3. /\ AppOK(app, recordedIds) /\ RecorderOK(recorder, recordedIds) /\ FilesOK(files, recordedIds)
    BY <1>1 DEF Ready
<1>4. /\ app.history \in Seq(ItemsTo(recordedIds)) /\ Increasing(app.history)
      /\ Len(app.history) \in Nat
      /\ app.turn \in Nat \cup {NoTurn} /\ app.floor \in Nat /\ app.moved \in BOOLEAN
    BY <1>3, LenProperties DEF AppOK
<1>5. phase = "top" =>
        /\ Live(app, recorder, files, recordedIds) /\ ~app.moved
        /\ app.history # <<>> => recorder.active # None
  <2> SUFFICES ASSUME phase = "top"
               PROVE  /\ Live(app, recorder, files, recordedIds) /\ ~app.moved
                      /\ app.history # <<>> => recorder.active # None
    OBVIOUS
  <2>1. Settled(app, recorder)
    BY <1>1
  <2>2. QED
    BY <1>1, <1>2, <2>1, SettledIsLive DEF Settled
<1>6. QED
    BY <1>1, <1>2, <1>3, <1>4, <1>5

LEMMA InvMade ==
    ASSUME RecordInv, Ready(app', recorder', files', recordedIds'), phase' = "bottom",
           tree' \subseteq 1 .. recordedIds', recordedIds' \in 0 .. MaxItems,
           crashes' = crashes, picks' \in 0 .. MaxPicks
    PROVE  RecordInv'
BY DEF RecordInv

\* What a sync of a makes of the state.
LEMMA SyncDone ==
    ASSUME NEW n \in Nat, NEW a, NEW r, Ready(a, r, files, n), Sync(a, r), r.active = recorder.active,
           Grew(app.history, a.history, recordedIds)
    PROVE  Ready(app', recorder', files', n) /\ Settled(app', recorder') /\ Saves
<1> DEFINE done == Synced(r, a.history, a.moved)
<1>1. /\ recorder' = done.recorder /\ files' = done.files
      /\ app' = [a EXCEPT !.moved = FALSE]
    BY DEF Sync
<1>2. Kept(a, r, done, n)
    BY SyncKeeps
<1> HIDE DEF done
<1>3. /\ Ready([a EXCEPT !.moved = FALSE], done.recorder, done.files, n)
      /\ Settled([a EXCEPT !.moved = FALSE], done.recorder)
      /\ SavedBy(a, r, done)
    BY <1>2 DEF Kept
<1>4. app'.history = a.history
  <2>1. AppOK(a, n)
    BY DEF Ready
  <2>2. QED
    BY <1>1, <2>1, Unmoved
<1>5. SavedBy(app', recorder, Outcome(recorder', files'))
    BY <1>1, <1>3, <1>4 DEF SavedBy, Outcome
<1>6. QED
    BY <1>1, <1>3, <1>4, <1>5 DEF Saves

LEMMA StartTurnTold ==
    ASSUME RecordInv, StartTurn
    PROVE  RecordInv' /\ Told
<1> DEFINE n == recordedIds
           e == Item(1, "user")
           s == Said(app, 1, "user")
           b == [s EXCEPT !.turn = Len(app.history)]
<1>1. /\ n \in Nat /\ AppOK(app, n) /\ app.history \in Seq(ItemsTo(n)) /\ Increasing(app.history)
      /\ Live(app, recorder, files, n) /\ ~app.moved /\ MaxItems \in Nat
      /\ Len(app.history) \in Nat
    BY InvFacts DEF StartTurn, Arm
<1>2. /\ phase' = "bottom" /\ app.turn = NoTurn /\ n + 1 <= MaxItems /\ recordedIds' = n + 1
      /\ recorder.active = None => Len(files) < MaxFiles
      /\ Sync(b, recorder)
      /\ tree' = tree /\ crashes' = crashes /\ picks' = picks
    BY DEF StartTurn, Arm, Idle, Room
<1>3. e.id = n + 1 /\ e \in ItemsTo(n + 1) /\ e.kind = "user"
    BY <1>1, ItemIs DEF Kinds
<1>4. s = Longer(app, e)
    BY DEF Said, Longer
<1> HIDE DEF e, s
<1>5. /\ b \in [history : {Append(app.history, e)}, floor : {app.floor},
                turn : {app.turn, Len(app.history)}, moved : {app.moved}]
      /\ b.turn = Len(app.history) /\ b.history = Append(app.history, e)
  <2>1. b = Opened(s, Len(app.history))
    BY DEF Opened
  <2> HIDE DEF b
  <2>2. QED
    BY <1>1, <1>4, <2>1, SaidIs
<1> HIDE DEF b
<1>6. Live(b, recorder, files, n + 1)
  <2>1. b.turn # NoTurn
    BY <1>1, <1>5 DEF NoTurn
  <2> HIDE DEF n
  <2>2. QED
    BY <1>1, <1>2, <1>3, <1>5, <2>1, SaidLive
<1>7. Grew(app.history, b.history, n)
    BY <1>1, <1>3, <1>5, SaidInOrder
<1>8. Ready(app', recorder', files', n + 1) /\ Saves
    BY <1>1, <1>2, <1>6, <1>7, SyncDone DEF Live
<1>9. RecordInv'
  <2>1. tree \subseteq 1 .. n /\ picks \in 0 .. MaxPicks
    BY DEF RecordInv
  <2>2. tree' \subseteq 1 .. recordedIds' /\ recordedIds' \in 0 .. MaxItems
    BY <1>1, <1>2, <2>1
  <2>3. QED
    BY <1>2, <1>8, <2>1, <2>2, InvMade
<1>10. QED
    BY <1>8, <1>9 DEF Told

\* A line recorded without a sync: a reply, a notice, a tool's call.
LEMMA SaidTold ==
    ASSUME RecordInv, phase = "top", phase' = "bottom", NEW kind \in Kinds,
           kind = "user" => app.turn # NoTurn, Room(1), app' = Said(app, 1, kind),
           tree' \subseteq tree \cup {recordedIds + 1},
           recorder' = recorder, files' = files, crashes' = crashes, picks' = picks
    PROVE  RecordInv' /\ Told
<1> DEFINE n == recordedIds
           e == Item(1, kind)
<1>1. /\ n \in Nat /\ AppOK(app, n) /\ app.history \in Seq(ItemsTo(n)) /\ Increasing(app.history)
      /\ Live(app, recorder, files, n) /\ ~app.moved /\ MaxItems \in Nat
    BY InvFacts
<1>2. /\ n + 1 <= MaxItems /\ recordedIds' = n + 1
      /\ recorder.active = None => Len(files) < MaxFiles
    BY DEF Room
<1>3. e.id = n + 1 /\ e \in ItemsTo(n + 1) /\ e.kind = kind
    BY <1>1, ItemIs
<1>4. app' = Longer(app, e)
    BY DEF Said, Longer
<1> HIDE DEF e
<1> DEFINE b == Longer(app, e)
<1>5. /\ b \in [history : {Append(app.history, e)}, floor : {app.floor},
                turn : {app.turn, Len(app.history)}, moved : {app.moved}]
      /\ b.turn = app.turn /\ b.history = Append(app.history, e)
  <2>1. QED
    BY <1>1, SaidIs
<1>6. app' = b
    BY <1>4
<1> HIDE DEF b
<1>7. Live(b, recorder, files, n + 1)
  <2> HIDE DEF n
  <2>1. QED
    BY <1>1, <1>2, <1>3, <1>5, SaidLive
<1>8. Grew(app.history, b.history, n)
    BY <1>1, <1>3, <1>5, SaidInOrder
<1>9. Ready(app', recorder', files', n + 1)
    BY <1>6, <1>7 DEF Live
<1>10. Says
    BY <1>6, <1>8 DEF Says
<1>11. RecordInv'
  <2>1. tree \subseteq 1 .. n /\ picks \in 0 .. MaxPicks
    BY DEF RecordInv
  <2>2. tree' \subseteq 1 .. recordedIds' /\ recordedIds' \in 0 .. MaxItems
    BY <1>1, <1>2, <2>1
  <2>3. QED
    BY <1>2, <1>9, <2>1, <2>2, InvMade
<1>12. QED
    BY <1>10, <1>11 DEF Told

LEMMA RecordTold ==
    ASSUME RecordInv, NEW kind \in {"user", "said"}, Record(kind)
    PROVE  RecordInv' /\ Told
<1>1. kind \in Kinds
    BY DEF Kinds
<1>2. QED
    BY <1>1, SaidTold DEF Record, Arm, Idle

LEMMA WorkTold ==
    ASSUME RecordInv, Work
    PROVE  RecordInv' /\ Told
<1>1. "work" \in Kinds
    BY DEF Kinds
<1>2. QED
    BY <1>1, SaidTold DEF Work, Arm, Idle

LEMMA WithdrawTold ==
    ASSUME RecordInv, Withdraw
    PROVE  RecordInv' /\ Told
<1> DEFINE n == recordedIds
<1>1. /\ n \in Nat /\ app.history \in Seq(ItemsTo(n)) /\ Increasing(app.history)
      /\ Live(app, recorder, files, n) /\ Len(app.history) \in Nat /\ app.turn \in Nat \cup {NoTurn}
      /\ (app.history # <<>> => recorder.active # None) /\ n <= MaxItems /\ MaxItems \in Nat
    BY InvFacts DEF Withdraw, Arm
<1>2. /\ phase' = "bottom" /\ app.turn # NoTurn
      /\ recorder' = recorder /\ files' = files /\ tree' = tree /\ recordedIds' = n
      /\ crashes' = crashes /\ picks' = picks
    BY DEF Withdraw, Arm, Idle
<1>3. PICK len \in app.turn .. Len(app.history) - 1 :
            app' = Shorter(app, len)
    BY DEF Withdraw, Shorter
<1>4. len \in app.turn .. Len(app.history) /\ recorder.active # None /\ len \in 0 .. Len(app.history)
  <2>1. app.turn \in Nat
    BY <1>1, <1>2
  <2>2. Len(app.history) # 0
    BY <1>1, <1>3, <2>1
  <2>3. app.history # <<>>
    BY <2>2, EmptySeq
  <2>4. QED
    BY <1>1, <1>3, <2>1, <2>3
<1> DEFINE b == Shorter(app, len)
<1>5. Live(b, recorder, files, n) /\ b.history = SubSeq(app.history, 1, len)
  <2> HIDE DEF n
  <2>1. QED
    BY <1>1, <1>2, <1>4, CutLive
<1>6. app' = b
    BY <1>3
<1> HIDE DEF b
<1>7. Grew(app.history, b.history, n)
    BY <1>1, <1>4, <1>5, CutFits
<1>8. Says
    BY <1>2, <1>6, <1>7 DEF Says
<1>9. RecordInv'
  <2>1. tree \subseteq 1 .. n /\ picks \in 0 .. MaxPicks /\ n \in 0 .. MaxItems
    BY DEF RecordInv
  <2>2. Ready(app', recorder', files', recordedIds')
    BY <1>2, <1>5, <1>6 DEF Live
  <2>3. QED
    BY <1>2, <2>1, <2>2, InvMade
<1>10. QED
    BY <1>8, <1>9 DEF Told

\* The next thing recorded in a step, and the next message that starts a turn.
LEMMA NextSaid ==
    ASSUME NEW n \in Nat, NEW m \in Nat, n <= m, NEW T, NEW h \in Seq(T),
           NEW a, NEW r, NEW fs, Live(a, r, fs, m), Grew(h, a.history, n),
           r.active = None => ~a.moved /\ Len(fs) < MaxFiles,
           NEW e \in ItemsTo(m + 1), e.id = m + 1, a.turn = NoTurn => e.kind # "user",
           NEW b, b = Longer(a, e)
    PROVE  /\ Live(b, r, fs, m + 1) /\ Grew(h, b.history, n)
           /\ b.history = Append(a.history, e) /\ b.turn = a.turn /\ b.moved = a.moved
           /\ Len(b.history) > 0 /\ b.history[Len(b.history)] = e
<1>1. AppOK(a, m) /\ a.history \in Seq(ItemsTo(m)) /\ Increasing(a.history)
      /\ Len(a.history) \in Nat
    BY LenProperties DEF Live, Ready, AppOK
<1> DEFINE c == Opened(b, Len(a.history))
<1>2. /\ b \in [history : {Append(a.history, e)}, floor : {a.floor}, turn : {a.turn, Len(a.history)},
                moved : {a.moved}]
      /\ b.turn = a.turn /\ b.history = Append(a.history, e)
    BY <1>1, SaidIs
<1>3. b.moved = a.moved
    BY <1>2
<1>4. Live(b, r, fs, m + 1)
    BY <1>2, SaidLive
<1>5. /\ Len(b.history) = Len(a.history) + 1 /\ b.history[Len(a.history) + 1] = e
    BY <1>1, <1>2, SaidInOrder
<1>6. Grew(h, b.history, n)
    BY <1>1, <1>2, GrewMore
<1>7. QED
    BY <1>1, <1>2, <1>3, <1>4, <1>5, <1>6

LEMMA NextAsked ==
    ASSUME NEW n \in Nat, NEW m \in Nat, n <= m, NEW T, NEW h \in Seq(T),
           NEW a, NEW r, NEW fs, Live(a, r, fs, m), Grew(h, a.history, n), a.turn = NoTurn,
           r.active = None => ~a.moved /\ Len(fs) < MaxFiles,
           NEW e \in ItemsTo(m + 1), e.id = m + 1,
           NEW b, b = Longer(a, e), NEW c, c = Opened(b, Len(a.history))
    PROVE  Live(c, r, fs, m + 1) /\ Grew(h, c.history, n)
<1>1. AppOK(a, m) /\ a.history \in Seq(ItemsTo(m)) /\ Increasing(a.history)
      /\ Len(a.history) \in Nat
    BY LenProperties DEF Live, Ready, AppOK
<1>2. /\ c \in [history : {Append(a.history, e)}, floor : {a.floor}, turn : {a.turn, Len(a.history)},
                moved : {a.moved}]
      /\ c.turn = Len(a.history) /\ c.history = Append(a.history, e)
    BY <1>1, SaidIs
<1>3. c.turn # NoTurn
    BY <1>1, <1>2 DEF NoTurn
<1>4. Live(c, r, fs, m + 1)
    BY <1>2, <1>3, SaidLive
<1>5. Grew(h, c.history, n)
    BY <1>1, <1>2, GrewMore
<1>6. QED
    BY <1>4, <1>5

LEMMA AfterTurnTold ==
    ASSUME RecordInv, phase' = "bottom", tree' = tree, crashes' = crashes, picks' = picks,
           NEW a, NEW k \in {0, 1}, NEW held \in BOOLEAN, NEW queued \in BOOLEAN,
           AfterTurn(a, k, held, queued),
           Live(a, recorder, files, recordedIds + k), Grew(app.history, a.history, recordedIds),
           recorder.active = None => ~a.moved,
           Len(a.history) > a.floor => a.history[Len(a.history)].kind # "user"
    PROVE  RecordInv' /\ Told
<1> DEFINE n == recordedIds
           over == Opened(a, NoTurn)
           r == Snapped(recorder, a.history)
           x == Item(k + 1, "said")
           noted == IF held THEN Longer(over, x) ELSE over
           used == IF held THEN k + 1 ELSE k
           y == Item(used + 1, "user")
           b == Longer(noted, y)
           c == Opened(b, Len(noted.history))
<1>1. /\ n \in Nat /\ app.history \in Seq(ItemsTo(n)) /\ MaxItems \in Nat
      /\ tree \subseteq 1 .. n /\ picks \in 0 .. MaxPicks
    BY InvFacts DEF RecordInv
<1>2. /\ Room(IF queued THEN used + 1 ELSE used)
      /\ queued => Sync(c, r)
      /\ ~queued => app' = noted /\ recorder' = r /\ files' = files
    BY DEF AfterTurn, Said, Longer, Opened, Snapped
<1>3. /\ recorder.active = None => Len(files) < MaxFiles
      /\ recordedIds' = IF queued THEN n + (used + 1) ELSE n + used
      /\ recordedIds' <= MaxItems
    BY <1>2 DEF Room
<1>4. /\ used \in {k, k + 1} /\ k \in Nat /\ used \in Nat /\ n + k \in 0 .. MaxItems
      /\ n + used \in Nat /\ n <= n + used /\ n + k \in Nat /\ n <= n + k
      /\ recordedIds' \in 0 .. MaxItems /\ n <= recordedIds'
    BY <1>1, <1>3
<1>5. /\ x.id = (n + k) + 1 /\ x \in ItemsTo((n + k) + 1) /\ x.kind = "said"
      /\ y.id = (n + used) + 1 /\ y \in ItemsTo((n + used) + 1) /\ y.kind = "user"
  <2>1. n + (k + 1) = (n + k) + 1 /\ n + (used + 1) = (n + used) + 1
    BY <1>1, <1>4
  <2>2. k + 1 \in Nat /\ k + 1 # 0 /\ used + 1 \in Nat /\ used + 1 # 0
    BY <1>4
  <2>3. "said" \in Kinds /\ "user" \in Kinds
    BY DEF Kinds
  <2>4. /\ x.id = n + (k + 1) /\ x \in ItemsTo(n + (k + 1)) /\ x.kind = "said"
        /\ y.id = n + (used + 1) /\ y \in ItemsTo(n + (used + 1)) /\ y.kind = "user"
    BY <1>1, <2>2, <2>3, ItemIs
  <2>5. QED
    BY <2>1, <2>4
<1> HIDE DEF x, y, c, b
<1>6. /\ Live(over, r, files, n + k) /\ r.active = recorder.active
      /\ over.history = a.history /\ over.turn = NoTurn /\ over.moved = a.moved
  <2>1. tree \subseteq 1 .. n + k
    BY <1>1, <1>4
  <2> HIDE DEF n
  <2>2. QED
    BY <1>4, <2>1, OverLive DEF n
<1> HIDE DEF over, r
<1>7. /\ Live(noted, r, files, n + used) /\ Grew(app.history, noted.history, n)
      /\ noted.turn = NoTurn /\ noted.moved = a.moved
  <2>1. CASE held
    <3>1. noted = Longer(over, x) /\ n + used = (n + k) + 1
        BY <1>1, <1>4, <2>1
    <3> HIDE DEF noted
    <3>2. /\ Live(noted, r, files, (n + k) + 1) /\ Grew(app.history, noted.history, n)
          /\ noted.turn = over.turn /\ noted.moved = over.moved
        BY <1>1, <1>3, <1>4, <1>5, <1>6, <3>1, NextSaid
    <3>3. QED
        BY <1>6, <3>1, <3>2
  <2>2. CASE ~held
    BY <1>6, <2>2
  <2>3. QED
    BY <2>1, <2>2
<1> HIDE DEF noted, used
<1>8. CASE queued
  <2>1. Live(c, r, files, (n + used) + 1) /\ Grew(app.history, c.history, n)
    BY <1>1, <1>3, <1>4, <1>5, <1>6, <1>7, NextAsked DEF b, c
  <2>2. recordedIds' = (n + used) + 1 /\ Sync(c, r)
    BY <1>1, <1>2, <1>3, <1>4, <1>8
  <2>3. Ready(app', recorder', files', (n + used) + 1) /\ Saves
    BY <1>4, <1>6, <2>1, <2>2, SyncDone DEF Live
  <2>4. RecordInv'
    BY <1>1, <1>4, <2>2, <2>3, InvMade
  <2>5. QED
    BY <2>3, <2>4 DEF Told
<1>9. CASE ~queued
  <2>1. app' = noted /\ recorder' = r /\ files' = files /\ recordedIds' = n + used
    BY <1>2, <1>3, <1>9
  <2>2. Ready(app', recorder', files', recordedIds')
    BY <1>7, <2>1 DEF Live
  <2>3. Says
    BY <1>6, <1>7, <2>1 DEF Says
  <2>4. RecordInv'
    BY <1>1, <1>4, <2>2, InvMade
  <2>5. QED
    BY <2>3, <2>4 DEF Told
<1>10. QED
    BY <1>8, <1>9

\* What ends a turn: something is said last, or the submission is undone.
LEMMA LastWordLive ==
    ASSUME RecordInv, phase = "top", NEW held \in BOOLEAN, NEW queued \in BOOLEAN,
           NEW a, a = Said(app, 1, "said"), AfterTurn(a, 1, held, queued)
    PROVE  /\ Live(a, recorder, files, recordedIds + 1) /\ ~a.moved
           /\ Grew(app.history, a.history, recordedIds)
           /\ a.history[Len(a.history)].kind # "user"
<1> DEFINE n == recordedIds
           e == Item(1, "said")
<1>1. /\ n \in Nat /\ app.history \in Seq(ItemsTo(n))
      /\ Live(app, recorder, files, n) /\ ~app.moved
    BY InvFacts
<1>2. recorder.active = None => Len(files) < MaxFiles
    BY DEF AfterTurn, Room
<1>3. e.id = n + 1 /\ e \in ItemsTo(n + 1) /\ e.kind = "said"
    BY <1>1, ItemIs DEF Kinds
<1>4. a = Longer(app, e)
    BY DEF Said, Longer
<1>5. Grew(app.history, app.history, n)
    BY <1>1, GrewNot
<1>6. /\ Live(a, recorder, files, n + 1) /\ Grew(app.history, a.history, n)
      /\ a.moved = app.moved /\ a.history[Len(a.history)] = e
  <2> DEFINE h == app.history
             T == ItemsTo(n)
  <2>1. /\ h \in Seq(T) /\ Grew(h, app.history, n) /\ n <= n
        /\ recorder.active = None => ~app.moved /\ Len(files) < MaxFiles
        /\ app.turn = NoTurn => e.kind # "user"
    BY <1>1, <1>2, <1>3, <1>5
  <2> HIDE DEF e, n, h, T
  <2>2. Live(a, recorder, files, n + 1) /\ Grew(h, a.history, n)
        /\ a.moved = app.moved /\ a.history[Len(a.history)] = e
    BY <1>1, <1>3, <1>4, <2>1, NextSaid
  <2>3. QED
    BY <2>2 DEF h
<1> HIDE DEF e, n
<1>7. QED
    BY <1>1, <1>3, <1>6 DEF n

LEMMA UndoneLive ==
    ASSUME RecordInv, phase = "top", app.turn # NoTurn,
           Len(app.history) = app.turn + 1, Last(app.history).kind = "user",
           NEW a, a = Undone(app)
    PROVE  /\ Live(a, recorder, files, recordedIds) /\ recorder.active # None
           /\ Grew(app.history, a.history, recordedIds)
           /\ Len(a.history) > a.floor => a.history[Len(a.history)].kind # "user"
<1> DEFINE n == recordedIds
<1>1. /\ n \in Nat /\ app.history \in Seq(ItemsTo(n)) /\ Increasing(app.history)
      /\ Live(app, recorder, files, n) /\ AppOK(app, n) /\ app.turn \in Nat
      /\ (app.history # <<>> => recorder.active # None)
    BY InvFacts
<1>2. app.history # <<>>
    BY <1>1, EmptySeq
<1>3. a = Shorter(app, app.turn)
    BY <1>1, UndoneIsCut
<1>4. app.turn \in app.turn .. Len(app.history) /\ app.turn \in 0 .. Len(app.history)
    BY <1>1
<1> HIDE DEF n
<1>5. /\ Live(a, recorder, files, n) /\ a.history = SubSeq(app.history, 1, app.turn)
      /\ a.turn = app.turn /\ a.floor = app.floor
    BY <1>1, <1>2, <1>3, <1>4, CutLive
<1>6. Grew(app.history, a.history, n) /\ Len(a.history) = app.turn
    BY <1>1, <1>4, <1>5, CutFits
<1>7. Len(a.history) > a.floor => a.history[Len(a.history)].kind # "user"
    BY <1>5, <1>6 DEF Live, Ready, AppOK
<1>8. QED
    BY <1>1, <1>2, <1>5, <1>6, <1>7 DEF n

LEMMA EndTurnTold ==
    ASSUME RecordInv, NEW held \in BOOLEAN, NEW queued \in BOOLEAN, EndTurn(held, queued)
    PROVE  RecordInv' /\ Told
<1> DEFINE a == Said(app, 1, "said")
<1>1. /\ phase = "top" /\ phase' = "bottom" /\ tree' = tree /\ crashes' = crashes /\ picks' = picks
      /\ AfterTurn(a, 1, held, queued)
    BY DEF EndTurn, Arm
<1> HIDE DEF a
<1>2. /\ Live(a, recorder, files, recordedIds + 1) /\ ~a.moved
      /\ Grew(app.history, a.history, recordedIds)
      /\ a.history[Len(a.history)].kind # "user"
    BY <1>1, LastWordLive DEF a
<1>3. 1 \in {0, 1}
    OBVIOUS
<1>4. QED
    BY <1>1, <1>2, <1>3, AfterTurnTold

LEMMA InterruptTold ==
    ASSUME RecordInv, NEW held \in BOOLEAN, NEW queued \in BOOLEAN, Interrupt(held, queued)
    PROVE  RecordInv' /\ Told
<1>1. /\ phase = "top" /\ phase' = "bottom" /\ tree' = tree /\ crashes' = crashes /\ picks' = picks
      /\ app.turn # NoTurn
    BY DEF Interrupt, Arm, Idle
<1>2. 1 \in {0, 1} /\ 0 \in {0, 1}
    OBVIOUS
<1>3. CASE Len(app.history) = app.turn + 1 /\ Last(app.history).kind = "user"
  <2> DEFINE a == Undone(app)
  <2>1. AfterTurn(a, 0, held, queued)
    BY <1>3 DEF Interrupt
  <2> HIDE DEF a
  <2>2. /\ Live(a, recorder, files, recordedIds) /\ recorder.active # None
        /\ Grew(app.history, a.history, recordedIds)
        /\ Len(a.history) > a.floor => a.history[Len(a.history)].kind # "user"
    BY <1>1, <1>3, UndoneLive DEF a
  <2>3. recordedIds + 0 = recordedIds
    BY InvFacts
  <2>4. QED
    BY <1>1, <1>2, <2>1, <2>2, <2>3, AfterTurnTold
<1>4. CASE ~(Len(app.history) = app.turn + 1 /\ Last(app.history).kind = "user")
  <2> DEFINE a == Said(app, 1, "said")
  <2>1. AfterTurn(a, 1, held, queued)
    BY <1>4 DEF Interrupt
  <2> HIDE DEF a
  <2>2. /\ Live(a, recorder, files, recordedIds + 1) /\ ~a.moved
        /\ Grew(app.history, a.history, recordedIds)
        /\ a.history[Len(a.history)].kind # "user"
    BY <1>1, <2>1, LastWordLive DEF a
  <2>3. QED
    BY <1>1, <1>2, <2>1, <2>2, AfterTurnTold
<1>5. QED
    BY <1>3, <1>4

LEMMA BlockPromptTold ==
    ASSUME RecordInv, NEW held \in BOOLEAN, NEW queued \in BOOLEAN, BlockPrompt(held, queued)
    PROVE  RecordInv' /\ Told
<1> DEFINE n == recordedIds
           u == Undone(app)
           e == Item(1, "said")
           a == Said(u, 1, "said")
<1>1. /\ phase = "top" /\ phase' = "bottom" /\ tree' = tree /\ crashes' = crashes /\ picks' = picks
      /\ app.turn # NoTurn
      /\ Len(app.history) = app.turn + 1 /\ Last(app.history).kind = "user"
      /\ AfterTurn(a, 1, held, queued)
    BY DEF BlockPrompt, Arm, Idle
<1>2. /\ n \in Nat /\ app.history \in Seq(ItemsTo(n))
    BY InvFacts
<1>3. e.id = n + 1 /\ e \in ItemsTo(n + 1) /\ e.kind = "said"
    BY <1>2, ItemIs DEF Kinds
<1>4. a = Longer(u, e)
    BY DEF Said, Longer
<1> HIDE DEF u, e, a
<1>5. /\ Live(u, recorder, files, n) /\ recorder.active # None
      /\ Grew(app.history, u.history, n)
    BY <1>1, UndoneLive DEF u
<1> HIDE DEF n
<1>6. /\ Live(a, recorder, files, n + 1) /\ Grew(app.history, a.history, n)
      /\ a.history[Len(a.history)] = e
    BY <1>2, <1>3, <1>4, <1>5, NextSaid
<1>7. 1 \in {0, 1}
    OBVIOUS
<1>8. QED
    BY <1>1, <1>3, <1>5, <1>6, <1>7, AfterTurnTold DEF n

LEMMA BacktrackTold ==
    ASSUME RecordInv, Backtrack
    PROVE  RecordInv' /\ Told
<1> DEFINE n == recordedIds
           h == app.history
<1>1. /\ n \in Nat /\ h \in Seq(ItemsTo(n)) /\ Increasing(h) /\ Len(h) \in Nat
      /\ Live(app, recorder, files, n) /\ AppOK(app, n) /\ RecorderOK(recorder, n)
      /\ FilesOK(files, n) /\ MirrorOK(recorder, files, app)
      /\ (h # <<>> => recorder.active # None)
    BY InvFacts DEF Backtrack, Arm, Live, Ready
<1>2. /\ phase' = "bottom" /\ app.turn = NoTurn
      /\ recorder' = recorder /\ files' = files /\ recordedIds' = n
      /\ crashes' = crashes /\ picks' = picks
    BY DEF Backtrack, Arm, Idle
<1>3. PICK i \in DOMAIN h : app' = CutBack(app, i - 1) /\ tree' = Restored(recorder.cps, i - 1)
    BY DEF Backtrack
<1> DEFINE len == i - 1
           g == SubSeq(h, 1, len)
           b == CutBack(app, len)
<1>4. len \in 0 .. Len(h) /\ len \in Nat /\ recorder.active # None
  <2>1. DOMAIN h = 1 .. Len(h)
    BY <1>1, LenProperties
  <2>2. h # <<>>
    BY <1>1, <2>1, EmptySeq
  <2>3. QED
    BY <1>1, <2>1, <2>2
<1>5. app' = b /\ tree' = Restored(recorder.cps, len)
    BY <1>3
<1>6. /\ b.history = g /\ b.floor = len /\ b.turn = NoTurn /\ b.moved = TRUE
      /\ b = [history |-> g, floor |-> len, turn |-> NoTurn, moved |-> TRUE]
  <2>1. app \in [history : Seq(ItemsTo(n)), floor : Nat, turn : Nat \cup {NoTurn}, moved : BOOLEAN]
    BY <1>1 DEF AppOK
  <2> HIDE DEF n, len
  <2>2. b = [app EXCEPT !.history = g, !.floor = len, !.moved = TRUE]
    BY DEF CutBack
  <2> HIDE DEF b, g
  <2>4. b = [history |-> g, floor |-> len, turn |-> app.turn, moved |-> TRUE]
    BY <2>1, <2>2
  <2>3. QED
    BY <1>2, <2>4
<1> HIDE DEF len, b
<1>7. /\ g \in Seq(ItemsTo(n)) /\ Len(g) = len /\ Increasing(g) /\ Grew(h, g, n)
      /\ \A cp \in CheckpointsTo(n) : Fit(cp, h) /\ cp.after <= len => Fit(cp, g)
    BY <1>1, <1>4, CutFits
<1> HIDE DEF g
<1>8. AppOK(b, n)
  <2>1. b \in [history : Seq(ItemsTo(n)), floor : Nat, turn : Nat \cup {NoTurn}, moved : BOOLEAN]
    BY <1>4, <1>6, <1>7
  <2>2. b.turn <= Len(b.history)
    BY <1>4, <1>6, <1>7 DEF NoTurn
  <2>3. QED
    BY <1>4, <1>6, <1>7, <2>1, <2>2 DEF AppOK
<1>9. recorder.cps \in Seq(CheckpointsTo(n))
    BY <1>1 DEF RecorderOK
<1>10. CheckpointsOK(recorder, b)
  <2>1. \A j \in DOMAIN recorder.cps : /\ recorder.cps[j] \in CheckpointsTo(n)
                                       /\ Fit(recorder.cps[j], h)
    BY <1>1, <1>9, LenProperties, ElementOfSeq DEF Live
  <2>2. QED
    BY <1>4, <1>6, <1>7, <2>1 DEF CheckpointsOK
<1>11. MirrorOK(recorder, files, b) /\ UnsavedOK(recorder, files, b)
    BY <1>1, <1>4, <1>6 DEF MirrorOK, UnsavedOK
<1>12. Ready(app', recorder', files', recordedIds')
    BY <1>1, <1>2, <1>5, <1>8, <1>10, <1>11 DEF Ready
<1>13. RecordInv'
  <2>1. tree \subseteq 1 .. n /\ picks \in 0 .. MaxPicks /\ n \in 0 .. MaxItems
    BY DEF RecordInv
  <2> HIDE DEF n
  <2>2. Restored(recorder.cps, len) \subseteq 1 .. n
    BY <1>1, <1>4, <1>9, <2>1, RestoredFacts
  <2>3. QED
    BY <1>2, <1>5, <1>12, <2>1, <2>2, InvMade DEF n
<1>14. Says
    BY <1>2, <1>5, <1>6, <1>7 DEF Says
<1>15. QED
    BY <1>13, <1>14 DEF Told

\* A session with nothing said, and no file yet.
LEMMA NothingSaid ==
    ASSUME NEW n \in Nat, NEW fs, FilesOK(fs, n), NEW moved \in BOOLEAN,
           NEW a, a = [history |-> <<>>, floor |-> 0, turn |-> NoTurn, moved |-> moved],
           NEW model \in Models
    PROVE  /\ Ready(a, Fresh(model), fs, n)
           /\ tree \subseteq 1 .. n => Ready(a, Seeded(model), fs, n)
           /\ Fresh(model).active = None /\ Seeded(model).active = None /\ a.history = <<>>
<1> DEFINE r == Fresh(model)
           t == Seeded(model)
           cp == Snapshot(<<>>)
<1>1. a = [history |-> <<>>, floor |-> 0, turn |-> NoTurn, moved |-> moved]
    OBVIOUS
<1>2. /\ r = [active |-> None, recorded |-> 0, repair |-> FALSE, cps |-> <<>>, flushed |-> 0,
              model |-> model, written |-> "none", keep |-> FALSE, safe |-> 0]
      /\ t = [active |-> None, recorded |-> 0, repair |-> FALSE, cps |-> <<cp>>, flushed |-> 0,
              model |-> model, written |-> "none", keep |-> FALSE, safe |-> 0]
  <2>1. r = [active |-> None, recorded |-> 0, repair |-> FALSE, cps |-> <<>>, flushed |-> 0,
             model |-> model, written |-> "none", keep |-> FALSE, safe |-> 0]
    BY DEF Fresh
  <2>2. t = [r EXCEPT !.cps = <<cp>>]
    BY DEF Seeded
  <2> HIDE DEF r, t, cp
  <2>3. QED
    BY <2>1, <2>2
<1>3. cp.after = 0 /\ cp.of = <<>> /\ cp.tree = tree /\ cp = [after |-> 0, of |-> <<>>, tree |-> tree]
  <2>1. Len(<<>>) = 0
    BY EmptySeq
  <2>2. QED
    BY <2>1 DEF Snapshot
<1> HIDE DEF r, t, cp
<1>4. AppOK(a, n) /\ a.history = <<>>
  <2>1. <<>> \in Seq(ItemsTo(n)) /\ Len(<<>>) = 0 /\ DOMAIN <<>> = {}
    BY EmptySeq
  <2>2. a \in [history : Seq(ItemsTo(n)), floor : Nat, turn : Nat \cup {NoTurn}, moved : BOOLEAN]
    <3>1. [history |-> <<>>, floor |-> 0, turn |-> NoTurn, moved |-> moved]
            \in [history : Seq(ItemsTo(n)), floor : Nat, turn : Nat \cup {NoTurn}, moved : BOOLEAN]
        BY <2>1
    <3>2. QED
        BY <1>1, <3>1
  <2>3. Increasing(a.history)
    BY <1>1, <2>1 DEF Increasing
  <2>4. /\ a.floor = 0 /\ a.turn = NoTurn /\ a.history = <<>>
    BY <1>1
  <2>5. QED
    BY <2>1, <2>2, <2>3, <2>4 DEF AppOK, NoTurn
<1>5. RecorderOK(r, n) /\ CheckpointsOK(r, a)
  <2>1. <<>> \in Seq(CheckpointsTo(n)) /\ Len(<<>>) = 0 /\ DOMAIN <<>> = {}
    BY EmptySeq
  <2>2. r \in [active : Nat, recorded : Nat, repair : BOOLEAN, cps : Seq(CheckpointsTo(n)),
               flushed : Nat, model : Models, written : Models \cup {"none"},
               keep : BOOLEAN, safe : Nat]
    BY <1>2, <2>1 DEF None
  <2>3. r.flushed = 0 /\ r.cps = <<>> /\ r.keep = FALSE
    BY <1>2
  <2>4. QED
    BY <2>1, <2>2, <2>3 DEF RecorderOK, CheckpointsOK
<1>6. ASSUME tree \subseteq 1 .. n PROVE RecorderOK(t, n) /\ CheckpointsOK(t, a)
  <2>1. cp \in CheckpointsTo(n)
    <3>1. <<>> \in Seq(ItemsTo(n)) /\ 0 \in 0 .. MaxItems
        BY EmptySeq, RecordBoundsAssumption
    <3>2. QED
        BY <1>3, <1>6, <3>1 DEF CheckpointsTo
  <2>2. Fit(cp, <<>>)
    <3>1. Len(<<>>) = 0 /\ DOMAIN <<>> = {} /\ SubSeq(<<>>, 1, 0) = <<>>
        BY EmptySeq, SubSeqEmpty
    <3>2. QED
        BY <1>3, <3>1 DEF Fit
  <2>3. <<cp>> \in Seq(CheckpointsTo(n)) /\ Len(<<cp>>) = 1 /\ DOMAIN <<cp>> = {1} /\ <<cp>>[1] = cp
    BY <2>1
  <2>4. t \in [active : Nat, recorded : Nat, repair : BOOLEAN, cps : Seq(CheckpointsTo(n)),
               flushed : Nat, model : Models, written : Models \cup {"none"},
               keep : BOOLEAN, safe : Nat]
    BY <1>2, <2>3 DEF None
  <2>5. t.flushed = 0 /\ t.cps = <<cp>> /\ t.keep = FALSE
    BY <1>2
  <2>6. a.turn = NoTurn
    BY <1>1
  <2>7. QED
    BY <1>4, <2>2, <2>3, <2>4, <2>5, <2>6 DEF RecorderOK, CheckpointsOK
<1>7. /\ MirrorOK(r, fs, a) /\ MirrorOK(t, fs, a) /\ UnsavedOK(r, fs, a) /\ UnsavedOK(t, fs, a)
      /\ r.active = None /\ t.active = None
    BY <1>2, <1>4 DEF MirrorOK, UnsavedOK
<1>8. QED
    BY <1>4, <1>5, <1>6, <1>7 DEF Ready, r, t

LEMMA ClearTold ==
    ASSUME RecordInv, Clear
    PROVE  RecordInv' /\ Told
<1>1. /\ recordedIds \in Nat /\ FilesOK(files, recordedIds) /\ RecorderOK(recorder, recordedIds)
      /\ tree \subseteq 1 .. recordedIds /\ picks \in 0 .. MaxPicks /\ recordedIds \in 0 .. MaxItems
    BY InvFacts DEF RecordInv
<1>2. recorder.model \in Models
    BY <1>1 DEF RecorderOK
<1>3. /\ phase' = "bottom"
      /\ app' = [history |-> <<>>, floor |-> 0, turn |-> NoTurn, moved |-> TRUE]
      /\ recorder' = Seeded(recorder.model) /\ files' = files /\ tree' = tree
      /\ recordedIds' = recordedIds /\ crashes' = crashes /\ picks' = picks
    BY DEF Clear, Arm, NewApp
<1>4. /\ Ready(app', recorder', files', recordedIds')
      /\ recorder'.active = None /\ app'.history = <<>>
  <2>1. TRUE \in BOOLEAN
    OBVIOUS
  <2>2. QED
    BY <1>1, <1>2, <1>3, <2>1, NothingSaid
<1>5. RecordInv'
    BY <1>1, <1>3, <1>4, InvMade
<1>6. QED
    BY <1>3, <1>4, <1>5 DEF Told, Leaves

LEMMA BootTold ==
    ASSUME RecordInv, Boot
    PROVE  RecordInv' /\ Told
<1>1. /\ recordedIds \in Nat /\ FilesOK(files, recordedIds) /\ RecorderOK(recorder, recordedIds)
      /\ tree \subseteq 1 .. recordedIds /\ picks \in 0 .. MaxPicks /\ recordedIds \in 0 .. MaxItems
    BY InvFacts DEF RecordInv
<1>2. recorder.model \in Models
    BY <1>1 DEF RecorderOK
<1>3. /\ phase' = "bottom" /\ app' = app
      /\ recorder' = Seeded(recorder.model) /\ files' = files /\ tree' = tree
      /\ recordedIds' = recordedIds /\ crashes' = crashes /\ picks' = picks
    BY DEF Boot
<1>4. app = [history |-> <<>>, floor |-> 0, turn |-> NoTurn, moved |-> FALSE]
    BY DEF Boot, RecordInv, NewApp
<1>5. /\ Ready(app', recorder', files', recordedIds')
      /\ recorder'.active = None /\ app'.history = <<>>
  <2>1. FALSE \in BOOLEAN
    OBVIOUS
  <2>2. QED
    BY <1>1, <1>2, <1>3, <1>4, <2>1, NothingSaid
<1>6. RecordInv'
    BY <1>1, <1>3, <1>5, InvMade
<1>7. QED
    BY <1>3, <1>5, <1>6 DEF Told, Leaves

\* The process is gone, whatever it left in the files.
LEMMA GoneInv ==
    ASSUME RecordInv, Gone, FilesOK(files', recordedIds), recordedIds' = recordedIds,
           tree' = tree, crashes' \in 0 .. MaxCrashes, picks' = picks
    PROVE  RecordInv' /\ recorder'.active = None /\ app'.history = <<>>
<1>1. /\ recordedIds \in Nat /\ RecorderOK(recorder, recordedIds)
      /\ tree \subseteq 1 .. recordedIds /\ picks \in 0 .. MaxPicks /\ recordedIds \in 0 .. MaxItems
    BY InvFacts DEF RecordInv
<1>2. recorder.model \in Models
    BY <1>1 DEF RecorderOK
<1>3. phase' = "down" /\ app' = NewApp /\ recorder' = Fresh(recorder.model)
    BY DEF Gone
<1>4. NewApp = [history |-> <<>>, floor |-> 0, turn |-> NoTurn, moved |-> FALSE]
    BY DEF NewApp
<1>5. FALSE \in BOOLEAN
    OBVIOUS
<1>6. /\ Ready(app', recorder', files', recordedIds')
      /\ recorder'.active = None /\ app'.history = <<>>
    BY <1>1, <1>2, <1>3, <1>4, <1>5, NothingSaid
<1>7. recorder' = Fresh(recorder'.model)
    BY <1>3 DEF Fresh
<1>8. QED
    BY <1>1, <1>3, <1>6, <1>7 DEF RecordInv

LEMMA QuitTold ==
    ASSUME RecordInv, Quit
    PROVE  RecordInv' /\ Told
<1>1. /\ FilesOK(files, recordedIds) /\ crashes \in 0 .. MaxCrashes
    BY InvFacts DEF RecordInv
<1>2. /\ Gone /\ files' = files /\ tree' = tree /\ recordedIds' = recordedIds
      /\ crashes' = crashes /\ picks' = picks
    BY DEF Quit
<1>3. RecordInv' /\ recorder'.active = None /\ app'.history = <<>>
    BY <1>1, <1>2, GoneInv
<1>4. QED
    BY <1>2, <1>3 DEF Told, Leaves

LEMMA SetModelTold ==
    ASSUME RecordInv, NEW model \in Models, NEW picked \in BOOLEAN, SetModel(model, picked)
    PROVE  RecordInv' /\ Told
<1> DEFINE n == recordedIds
           t == [recorder EXCEPT !.model = model, !.keep = @ /\ ~picked]
<1>1. /\ n \in Nat /\ app.history \in Seq(ItemsTo(n))
      /\ AppOK(app, n) /\ RecorderOK(recorder, n) /\ FilesOK(files, n)
      /\ CheckpointsOK(recorder, app) /\ MirrorOK(recorder, files, app)
      /\ UnsavedOK(recorder, files, app)
      /\ tree \subseteq 1 .. n /\ picks \in 0 .. MaxPicks /\ n \in 0 .. MaxItems
    BY InvFacts DEF RecordInv, Ready
<1>2. /\ phase' = "bottom" /\ app' = app /\ recorder' = t /\ files' = files /\ tree' = tree
      /\ recordedIds' = n /\ crashes' = crashes /\ picks' = picks + 1 /\ picks < MaxPicks
    BY DEF SetModel, Arm
<1>3. /\ t \in [active : Nat, recorded : Nat, repair : BOOLEAN, cps : Seq(CheckpointsTo(n)),
                flushed : Nat, model : Models, written : Models \cup {"none"},
                keep : BOOLEAN, safe : Nat]
      /\ t.active = recorder.active /\ t.recorded = recorder.recorded /\ t.cps = recorder.cps
      /\ t.flushed = recorder.flushed /\ t.written = recorder.written
      /\ t.repair = recorder.repair /\ t.safe = recorder.safe /\ (t.keep => recorder.keep)
    BY <1>1 DEF RecorderOK
<1> HIDE DEF t
<1>4. RecorderOK(t, n)
    BY <1>1, <1>3 DEF RecorderOK
<1>5. CheckpointsOK(t, app) /\ MirrorOK(t, files, app) /\ UnsavedOK(t, files, app)
    BY <1>1, <1>3 DEF CheckpointsOK, MirrorOK, UnsavedOK
<1>6. Ready(app', recorder', files', recordedIds')
    BY <1>1, <1>2, <1>4, <1>5 DEF Ready
<1>7. RecordInv'
  <2>1. picks' \in 0 .. MaxPicks
    BY <1>1, <1>2, RecordBoundsAssumption
  <2>2. QED
    BY <1>1, <1>2, <1>6, <2>1, InvMade
<1>8. Says
    BY <1>1, <1>2, <1>3, GrewNot DEF Says
<1>9. QED
    BY <1>7, <1>8 DEF Told

LEMMA AfterIterationTold ==
    ASSUME RecordInv, AfterIteration
    PROVE  RecordInv' /\ Told
<1> DEFINE n == recordedIds
<1>1. /\ n \in Nat /\ app.history \in Seq(ItemsTo(n)) /\ Ready(app, recorder, files, n)
      /\ tree \subseteq 1 .. n /\ picks \in 0 .. MaxPicks /\ n \in 0 .. MaxItems
    BY InvFacts DEF RecordInv
<1>2. /\ phase' = "top" /\ Sync(app, recorder) /\ tree' = tree /\ recordedIds' = n
      /\ crashes' = crashes /\ picks' = picks
    BY DEF AfterIteration
<1>3. Grew(app.history, app.history, n)
    BY <1>1, GrewNot
<1>4. Ready(app', recorder', files', n) /\ Settled(app', recorder') /\ Saves
    BY <1>1, <1>2, <1>3, SyncDone
<1>5. RecordInv'
    BY <1>1, <1>2, <1>4 DEF RecordInv
<1>6. QED
    BY <1>4, <1>5 DEF Told

LEMMA ResumeTold ==
    ASSUME RecordInv, Resume
    PROVE  RecordInv' /\ Told
<1> DEFINE n == recordedIds
<1>1. /\ n \in Nat /\ MaxItems \in Nat /\ FilesOK(files, n) /\ RecorderOK(recorder, n)
      /\ tree \subseteq 1 .. n /\ picks \in 0 .. MaxPicks /\ n \in 0 .. MaxItems
    BY InvFacts DEF RecordInv
<1>2. /\ phase' = "bottom" /\ files' = files /\ recordedIds' = n
      /\ crashes' = crashes /\ picks' = picks
    BY DEF Resume, Arm
<1>3. PICK f \in DOMAIN files, honoured \in BOOLEAN :
            /\ Loads(files[f].lines) /\ Adopt(f, honoured)
            /\ honoured => ParsedModel(files[f].lines) # "none"
    BY DEF Resume
<1> DEFINE lines == files[f].lines
           h == ParsedItems(lines)
           cps == ParsedCheckpoints(lines)
           model == ParsedModel(lines)
<1>4. /\ files \in Seq(FilesTo(n)) /\ DOMAIN files = 1 .. Len(files) /\ FileFits(lines)
      /\ Len(files) \in Nat
    BY <1>1, LenProperties DEF FilesOK
<1>5. lines \in Seq(LinesTo(n)) /\ Len(lines) \in Nat /\ files[f].torn \in BOOLEAN
  <2>1. files[f] \in FilesTo(n)
    BY <1>4, ElementOfSeq
  <2>2. QED
    BY <2>1, LenProperties DEF FilesTo
<1> DEFINE a == [history |-> h, floor |-> Len(h), turn |-> NoTurn, moved |-> FALSE]
           r == [active |-> f, recorded |-> Len(h), repair |-> files[f].torn,
                 cps |-> cps, flushed |-> Len(cps),
                 model |-> IF honoured THEN model ELSE recorder.model,
                 written |-> model, keep |-> ~honoured /\ model # "none",
                 safe |-> Len(lines)]
<1>6. app' = a /\ recorder' = r /\ tree' = Restored(cps, MaxItems)
    BY <1>3 DEF Adopt, EndsMidLine, NewApp
<1> HIDE DEF lines
<1>7. /\ h \in Seq(ItemsTo(n)) /\ cps \in Seq(CheckpointsTo(n)) /\ model \in Models \cup {"none"}
  <2>1. MetaLine \in LinesTo(n)
    BY <1>1, LinesMade
  <2> HIDE DEF n
  <2>2. h \in Seq(ItemsTo(n))
    BY <1>1, <1>5, <2>1, ItemsAppend
  <2>3. cps \in Seq(CheckpointsTo(n))
    BY <1>1, <1>5, <2>1, CheckpointsAppend
  <2>4. model \in Models \cup {"none"}
    BY <1>1, <1>5, <2>1, ModelAppend
  <2>5. QED
    BY <2>2, <2>3, <2>4
<1>8. Increasing(h) /\ \A j \in DOMAIN cps : Fit(cps[j], h)
    BY <1>1, <1>4, <1>5, FileFitsNow DEF FileFits, Consistent
<1>9. /\ honoured => model \in Models
      /\ recorder.model \in Models
    BY <1>1, <1>3, <1>7 DEF RecorderOK, lines
<1> HIDE DEF h, cps, model
<1>10. Len(h) \in Nat /\ Len(cps) \in Nat
    BY <1>7, LenProperties
<1>11. a = [history |-> h, floor |-> Len(h), turn |-> NoTurn, moved |-> FALSE]
    OBVIOUS
<1> HIDE DEF a
<1>12. AppOK(a, n) /\ a.history = h /\ a.turn = NoTurn
  <2>1. [history |-> h, floor |-> Len(h), turn |-> NoTurn, moved |-> FALSE]
            \in [history : Seq(ItemsTo(n)), floor : Nat, turn : Nat \cup {NoTurn}, moved : BOOLEAN]
    BY <1>7, <1>10
  <2>2. a.history = h /\ a.floor = Len(h) /\ a.turn = NoTurn
    BY <1>11
  <2>3. a.turn <= Len(h)
    BY <1>10, <2>2 DEF NoTurn
  <2>4. QED
    BY <1>8, <1>10, <1>11, <2>1, <2>2, <2>3 DEF AppOK
<1>13. /\ r \in [active : Nat, recorded : Nat, repair : BOOLEAN, cps : Seq(CheckpointsTo(n)),
                 flushed : Nat, model : Models, written : Models \cup {"none"},
                 keep : BOOLEAN, safe : Nat]
  <2> DEFINE run == IF honoured THEN model ELSE recorder.model
             keep == ~honoured /\ model # "none"
  <2>1. run \in Models /\ keep \in BOOLEAN /\ f \in Nat
    BY <1>4, <1>9
  <2> HIDE DEF run, keep
  <2>2. QED
    BY <1>5, <1>7, <1>10, <2>1 DEF run, keep
<1>14. /\ r.active = f /\ r.recorded = Len(h) /\ r.repair = files[f].torn /\ r.cps = cps
       /\ r.flushed = Len(cps) /\ r.written = model /\ r.safe = Len(lines)
       /\ r.keep => model # "none"
    OBVIOUS
<1> HIDE DEF r
<1>15. RecorderOK(r, n)
    BY <1>10, <1>13, <1>14 DEF RecorderOK
<1>16. CheckpointsOK(r, a)
    BY <1>8, <1>12, <1>14 DEF CheckpointsOK
<1>17. MirrorOK(r, files, a)
  <2>1. SubSeq(h, 1, Len(h)) = h /\ SubSeq(cps, 1, Len(cps)) = cps
    BY <1>7, SubSeqFull
  <2>2. /\ Loads(files[f].lines) /\ lines = files[f].lines /\ ParsedItems(lines) = h
        /\ ParsedCheckpoints(lines) = cps /\ ParsedModel(lines) = model
    BY <1>3 DEF lines, h, cps, model
  <2>3. QED
    BY <1>5, <1>10, <1>12, <1>14, <2>1, <2>2 DEF MirrorOK
<1>18. UnsavedOK(r, files, a)
    BY <1>4, <1>14 DEF UnsavedOK, None
<1>19. Ready(app', recorder', files', recordedIds')
    BY <1>1, <1>2, <1>6, <1>12, <1>15, <1>16, <1>17, <1>18 DEF Ready
<1>20. RecordInv'
  <2> HIDE DEF n
  <2>1. Restored(cps, MaxItems) \subseteq 1 .. n
    BY <1>1, <1>7, RestoredFacts
  <2>2. QED
    BY <1>1, <1>2, <1>6, <1>19, <2>1, InvMade DEF n
<1>21. Opens
    BY <1>2, <1>3, <1>6, <1>12, <1>14 DEF Opens, h, lines
<1>22. QED
    BY <1>20, <1>21 DEF Told

\* What a crash leaves of a file is some first part of it, and perhaps a line that is lost.
LEMMA TornFacts ==
    ASSUME NEW n \in Nat, NEW file \in FilesTo(n), FileFits(file.lines),
           NEW m \in 0 .. Len(file.lines), NEW tear \in Tears \cup {"whole"},
           tear # "whole" => m > 0, NEW to, to = TornAt(file, m, tear)
    PROVE  /\ to \in FilesTo(n) /\ FileFits(to.lines)
           /\ Begins(ParsedItems(to.lines), ParsedItems(file.lines))
<1> DEFINE lines == file.lines
<1>1. /\ lines \in Seq(LinesTo(n)) /\ file.torn \in BOOLEAN /\ Len(lines) \in Nat
      /\ file = [lines |-> lines, torn |-> file.torn]
    BY LenProperties DEF FilesTo
<1> HIDE DEF lines
<1>2. \A k \in 0 .. Len(lines) : /\ SubSeq(lines, 1, k) \in Seq(LinesTo(n))
                                 /\ FileFits(SubSeq(lines, 1, k))
                                 /\ Begins(ParsedItems(SubSeq(lines, 1, k)), ParsedItems(lines))
  <2>1. FileFits(lines)
    BY DEF lines
  <2>2. QED
    BY <1>1, <2>1, FrontFacts, FrontOfFile, ItemsOfFront
<1> DEFINE front == SubSeq(lines, 1, m)
           short == SubSeq(lines, 1, m - 1)
<1>3. /\ front \in Seq(LinesTo(n)) /\ FileFits(front)
      /\ Begins(ParsedItems(front), ParsedItems(lines))
    BY <1>2 DEF lines
<1>4. ASSUME NEW x \in {Junk, Cut}, m > 0
      PROVE  /\ Append(short, x) \in Seq(LinesTo(n)) /\ FileFits(Append(short, x))
             /\ Begins(ParsedItems(Append(short, x)), ParsedItems(lines))
  <2>1. m - 1 \in 0 .. Len(lines)
    BY <1>1, <1>4 DEF lines
  <2>2. /\ short \in Seq(LinesTo(n)) /\ FileFits(short)
        /\ Begins(ParsedItems(short), ParsedItems(lines))
    BY <1>2, <2>1
  <2>3. x \in LinesTo(n) /\ x.type \notin {"item", "checkpoint"}
    BY LinesMade
  <2> HIDE DEF short
  <2>4. /\ Append(short, x) \in Seq(LinesTo(n))
        /\ ParsedItems(Append(short, x)) = ParsedItems(short)
        /\ FileFits(Append(short, x))
    BY <2>2, <2>3, AddOther
  <2>5. QED
    BY <2>2, <2>4
<1>5. tear \in {"whole", "newline", "junk", "cut"}
    BY TearsAssumption
<1>6. file \in [lines : Seq(LinesTo(n)), torn : BOOLEAN] /\ file.lines = lines
    BY DEF FilesTo, lines
<1>7. ASSUME NEW left \in Seq(LinesTo(n)), FileFits(left),
             Begins(ParsedItems(left), ParsedItems(lines)),
             to = [file EXCEPT !.lines = left] \/ to = [file EXCEPT !.lines = left, !.torn = TRUE]
      PROVE  /\ to \in FilesTo(n) /\ FileFits(to.lines)
             /\ Begins(ParsedItems(to.lines), ParsedItems(file.lines))
  <2>1. to \in [lines : Seq(LinesTo(n)), torn : BOOLEAN] /\ to.lines = left
    BY <1>6, <1>7
  <2>2. QED
    BY <1>6, <1>7, <2>1 DEF FilesTo
<1>8. CASE tear = "whole"
  <2>1. to = [file EXCEPT !.lines = front]
    BY <1>6, <1>8 DEF TornAt
  <2> HIDE DEF front
  <2>2. QED
    BY <1>3, <1>7, <2>1
<1>9. CASE tear = "newline"
  <2>1. to = [file EXCEPT !.lines = front, !.torn = TRUE]
    BY <1>6, <1>9 DEF TornAt
  <2> HIDE DEF front
  <2>2. QED
    BY <1>3, <1>7, <2>1
<1>10. CASE tear \in {"junk", "cut"}
  <2> DEFINE x == IF tear = "junk" THEN Junk ELSE Cut
             left == Append(short, x)
  <2>1. to = [file EXCEPT !.lines = left, !.torn = TRUE]
    BY <1>6, <1>10 DEF TornAt
  <2>2. x \in {Junk, Cut} /\ m > 0
    BY <1>10
  <2> HIDE DEF x, short
  <2>3. /\ left \in Seq(LinesTo(n)) /\ FileFits(left)
        /\ Begins(ParsedItems(left), ParsedItems(lines))
    BY <1>4, <2>2
  <2> HIDE DEF left
  <2>4. QED
    BY <1>7, <2>1, <2>3
<1>11. QED
    BY <1>5, <1>8, <1>9, <1>10

LEMMA CrashTold ==
    ASSUME RecordInv, Crash
    PROVE  RecordInv' /\ Told
<1> DEFINE n == recordedIds
           f == recorder.active
<1>1. /\ n \in Nat /\ FilesOK(files, n) /\ RecorderOK(recorder, n) /\ MirrorOK(recorder, files, app)
      /\ crashes \in 0 .. MaxCrashes
    BY InvFacts DEF RecordInv, Ready
<1>2. /\ Gone /\ tree' = tree /\ recordedIds' = n /\ picks' = picks /\ crashes' \in 0 .. MaxCrashes
  <2>1. Gone /\ tree' = tree /\ recordedIds' = n /\ picks' = picks
        /\ crashes' = crashes + 1 /\ crashes < MaxCrashes
    BY DEF Crash
  <2>2. QED
    BY <1>1, <2>1, RecordBoundsAssumption
<1>3. CASE files' = files
  <2>1. RecordInv' /\ recorder'.active = None /\ app'.history = <<>>
    BY <1>1, <1>2, <1>3, GoneInv
  <2>2. QED
    BY <1>3, <2>1 DEF Told, Leaves
<1>4. CASE files' # files
  <2>1. PICK m \in recorder.safe .. Len(files[f].lines), tear \in Tears \cup {"whole"} :
            /\ tear # "whole" => m > recorder.safe
            /\ files' = [files EXCEPT ![f] = TornAt(@, m, tear)]
    BY <1>4 DEF Crash
  <2>2. f # None
    BY <1>4 DEF Crash
  <2>3. /\ f \in DOMAIN files /\ recorder.safe \in Nat
        /\ files \in Seq(FilesTo(n)) /\ Len(files) <= MaxFiles /\ DOMAIN files = 1 .. Len(files)
        /\ Len(files) \in Nat /\ \A g \in DOMAIN files : FileFits(files[g].lines)
    BY <1>1, <2>2, LenProperties DEF MirrorOK, RecorderOK, FilesOK
  <2> DEFINE file == files[f]
             to == TornAt(file, m, tear)
  <2>4. file \in FilesTo(n) /\ FileFits(file.lines)
    BY <2>3, ElementOfSeq
  <2>5. m \in 0 .. Len(file.lines) /\ (tear # "whole" => m > 0)
    <3>1. Len(file.lines) \in Nat
        BY <2>4, LenProperties DEF FilesTo
    <3>2. QED
        BY <2>1, <2>3, <3>1
  <2> HIDE DEF n
  <2>6. /\ to \in FilesTo(n) /\ FileFits(to.lines)
        /\ Begins(ParsedItems(to.lines), ParsedItems(file.lines))
    BY <1>1, <2>1, <2>4, <2>5, TornFacts
  <2> HIDE DEF to
  <2>7. files' = [files EXCEPT ![f] = to]
    BY <2>1 DEF to
  <2> DEFINE fs == [files EXCEPT ![f] = to]
  <2>8. /\ fs \in Seq(FilesTo(n)) /\ Len(fs) = Len(files) /\ DOMAIN fs = DOMAIN files
        /\ fs[f] = to /\ \A g \in DOMAIN files : g # f => fs[g] = files[g]
    BY <2>3, <2>6, ExceptSeq
  <2> HIDE DEF fs
  <2>9. FilesOK(fs, n)
    BY <2>3, <2>6, <2>8 DEF FilesOK
  <2>10. files' = fs
    BY <2>7 DEF fs
  <2>11. RecordInv' /\ recorder'.active = None /\ app'.history = <<>>
    BY <1>2, <2>9, <2>10, GoneInv DEF n
  <2>12. Dies
    BY <2>3, <2>6, <2>8, <2>10, <2>11 DEF Dies
  <2>13. QED
    BY <2>11, <2>12 DEF Told
<1>5. QED
    BY <1>3, <1>4

-----------------------------------------------------------------------------
(* The invariant, and what it gives.                                       *)

LEMMA InitInv ==
    ASSUME Init
    PROVE  RecordInv
<1>1. PICK model \in Models :
            recorder = [Fresh(model) EXCEPT !.cps = <<[after |-> 0, of |-> <<>>, tree |-> {}]>>]
    BY DEF Init
<1>2. /\ app = [history |-> <<>>, floor |-> 0, turn |-> NoTurn, moved |-> FALSE]
      /\ files = <<>> /\ tree = {} /\ phase = "top"
      /\ recordedIds = 0 /\ crashes = 0 /\ picks = 0
    BY DEF Init, NewApp
<1>3. recorder = Seeded(model)
  <2>1. Snapshot(<<>>) = [after |-> 0, of |-> <<>>, tree |-> {}]
    <3>1. Len(<<>>) = 0
        BY EmptySeq
    <3>2. QED
        BY <1>2, <3>1 DEF Snapshot
  <2>2. QED
    BY <1>1, <2>1 DEF Seeded
<1>4. 0 \in Nat /\ 0 \in 0 .. MaxItems /\ 0 \in 0 .. MaxCrashes /\ 0 \in 0 .. MaxPicks /\ MaxFiles \in Nat
    BY RecordBoundsAssumption
<1>5. FilesOK(files, 0)
  <2>1. <<>> \in Seq(FilesTo(0)) /\ Len(<<>>) = 0 /\ DOMAIN <<>> = {}
    BY EmptySeq
  <2>2. QED
    BY <1>2, <1>4, <2>1 DEF FilesOK
<1>6. FALSE \in BOOLEAN /\ tree \subseteq 1 .. 0
    BY <1>2
<1>7. /\ Ready(app, recorder, files, 0) /\ recorder.active = None /\ app.history = <<>>
  <2>1. /\ Ready(app, Seeded(model), files, 0) /\ Seeded(model).active = None
        /\ app.history = <<>>
    BY <1>2, <1>4, <1>5, <1>6, NothingSaid
  <2>2. QED
    BY <1>3, <2>1
<1>8. Settled(app, recorder)
  <2>1. app.moved = FALSE
    BY <1>2
  <2>2. QED
    BY <1>7, <2>1 DEF Settled
<1>9. QED
    BY <1>2, <1>4, <1>6, <1>7, <1>8 DEF RecordInv

\* Every step keeps the record, and is one of those five.
LEMMA NextTold ==
    ASSUME RecordInv, Next
    PROVE  RecordInv' /\ Told
<1>1. CASE StartTurn
    BY <1>1, StartTurnTold
<1>2. CASE Work
    BY <1>2, WorkTold
<1>3. CASE Withdraw
    BY <1>3, WithdrawTold
<1>4. CASE \E kind \in {"user", "said"} : Record(kind)
    BY <1>4, RecordTold
<1>5. ASSUME NEW held \in BOOLEAN, NEW queued \in BOOLEAN, EndTurn(held, queued)
      PROVE  RecordInv' /\ Told
    BY <1>5, EndTurnTold
<1>6. ASSUME NEW held \in BOOLEAN, NEW queued \in BOOLEAN, Interrupt(held, queued)
      PROVE  RecordInv' /\ Told
    BY <1>6, InterruptTold
<1>7. ASSUME NEW held \in BOOLEAN, NEW queued \in BOOLEAN, BlockPrompt(held, queued)
      PROVE  RecordInv' /\ Told
    BY <1>7, BlockPromptTold
<1>8. CASE Backtrack
    BY <1>8, BacktrackTold
<1>9. CASE Clear
    BY <1>9, ClearTold
<1>10. CASE Resume
    BY <1>10, ResumeTold
<1>11. CASE \E model \in Models, picked \in BOOLEAN : SetModel(model, picked)
    BY <1>11, SetModelTold
<1>12. CASE AfterIteration
    BY <1>12, AfterIterationTold
<1>13. CASE Quit
    BY <1>13, QuitTold
<1>14. CASE Crash
    BY <1>14, CrashTold
<1>15. CASE Boot
    BY <1>15, BootTold
<1>16. QED
    BY <1>1, <1>2, <1>3, <1>4, <1>5, <1>6, <1>7, <1>8, <1>9, <1>10, <1>11, <1>12, <1>13,
       <1>14, <1>15 DEF Next, TurnStep

LEMMA StutterInv ==
    ASSUME RecordInv, UNCHANGED vars
    PROVE  RecordInv'
<1>1. /\ app' = app /\ recorder' = recorder /\ files' = files /\ tree' = tree
      /\ phase' = phase /\ recordedIds' = recordedIds /\ crashes' = crashes /\ picks' = picks
    BY DEF vars
<1>2. QED
    BY <1>1 DEF RecordInv

LEMMA RecordInvHolds == Spec => []RecordInv
<1>1. Init => RecordInv
    BY InitInv
<1>2. RecordInv /\ [Next]_vars => RecordInv'
    BY NextTold, StutterInv
<1>3. QED
    BY <1>1, <1>2, PTL DEF Spec

LEMMA InvHolds ==
    ASSUME RecordInv
    PROVE  RecordHolds
<1> SUFFICES ASSUME phase = "top"
             PROVE  RecordHolds
    BY DEF RecordHolds, FileMirrorsSession, CheckpointsFitHistory
<1>1. /\ Live(app, recorder, files, recordedIds) /\ Settled(app, recorder)
      /\ MirrorOK(recorder, files, app) /\ recordedIds \in Nat
      /\ app.history \in Seq(ItemsTo(recordedIds))
      /\ recorder.cps \in Seq(CheckpointsTo(recordedIds))
    BY InvFacts DEF RecordInv, Ready, RecorderOK
<1>2. CheckpointsFitHistory
    BY <1>1 DEF CheckpointsFitHistory, Live, Fit
<1>3. FileMirrorsSession
  <2>1. ASSUME recorder.active # None
        PROVE  /\ ParsedItems(files[recorder.active].lines) = app.history
               /\ ParsedCheckpoints(files[recorder.active].lines) = recorder.cps
               /\ ParsedModel(files[recorder.active].lines) = RecordedModel(recorder)
    <3>1. /\ recorder.recorded = Len(app.history) /\ recorder.flushed = Len(recorder.cps)
          /\ RecordedModel(recorder) = recorder.written /\ ~app.moved
        BY <1>1, <2>1 DEF Settled
    <3>2. /\ SubSeq(app.history, 1, Len(app.history)) = app.history
          /\ SubSeq(recorder.cps, 1, Len(recorder.cps)) = recorder.cps
        BY <1>1, SubSeqFull
    <3>3. QED
        BY <1>1, <2>1, <3>1, <3>2 DEF MirrorOK
  <2>2. QED
    BY <2>1 DEF FileMirrorsSession
<1>4. QED
    BY <1>2, <1>3 DEF RecordHolds

\* Whatever was cut, torn, refused or resumed: when the loop is at its top, the file of
\* the session says what the session does, its items, checkpoints and model, and every
\* checkpoint was taken of just what a rewind to it would leave.
THEOREM RecordFollowsSession == Spec => []RecordHolds
<1>1. RecordInv => RecordHolds
    BY InvHolds
<1>2. QED
    BY <1>1, RecordInvHolds, PTL

\* What the recorder thinks saved is no more than was recorded: a cut leaves its count
\* behind for the next sync to notice.
LEMMA SyncLooks ==
    ASSUME NEW a, NEW r, Sync(a, r), RecordInv'
    PROVE  ~app'.moved
<1>1. app' = [a EXCEPT !.moved = FALSE]
    BY DEF Sync
<1>2. app' \in [history : Seq(ItemsTo(recordedIds')), floor : Nat, turn : Nat \cup {NoTurn},
                moved : BOOLEAN]
    BY DEF RecordInv, Ready, AppOK
<1>3. "moved" \in DOMAIN app'
    BY <1>2
<1>4. QED
    BY <1>1, <1>3

LEMMA CountKept ==
    ASSUME RecordInv, RecordInv', Next
    PROVE  /\ recordedIds' >= recordedIds
           /\ app'.moved /\ recorder'.active # None => recorder'.recorded = recorder.recorded
<1>1. /\ recordedIds \in Nat
      /\ recorder \in [active : Nat, recorded : Nat, repair : BOOLEAN,
                       cps : Seq(CheckpointsTo(recordedIds)), flushed : Nat, model : Models,
                       written : Models \cup {"none"}, keep : BOOLEAN, safe : Nat]
    BY InvFacts DEF RecorderOK
<1> DEFINE Goal == /\ recordedIds' >= recordedIds
                   /\ app'.moved /\ recorder'.active # None =>
                        recorder'.recorded = recorder.recorded
<1>2. \A k \in Nat : Room(k) => recordedIds' >= recordedIds
    BY <1>1 DEF Room
<1>3. ASSUME recordedIds' = recordedIds, recorder' = recorder
      PROVE  Goal
    BY <1>1, <1>3
<1>4. ASSUME NEW k \in Nat, Room(k), recorder' = recorder \/ ~app'.moved
      PROVE  Goal
    BY <1>2, <1>4
<1>5. ASSUME NEW a, NEW k \in {0, 1}, NEW held \in BOOLEAN, NEW queued \in BOOLEAN,
             AfterTurn(a, k, held, queued)
      PROVE  Goal
  <2> DEFINE used == IF held THEN k + 1 ELSE k
             r == [recorder EXCEPT !.cps = Append(@, Snapshot(a.history))]
  <2>1. \E m \in Nat : Room(m)
    <3>1. Room(IF queued THEN used + 1 ELSE used)
        BY <1>5 DEF AfterTurn
    <3>2. (IF queued THEN used + 1 ELSE used) \in Nat
        OBVIOUS
    <3>3. QED
        BY <3>1, <3>2
  <2>2. recordedIds' >= recordedIds
    BY <1>2, <2>1
  <2>3. CASE queued
    <3>1. \E b : Sync(b, r)
        BY <1>5, <2>3 DEF AfterTurn
    <3> HIDE DEF r
    <3>2. ~app'.moved
        BY <3>1, SyncLooks
    <3>3. QED
        BY <2>2, <3>2
  <2>4. CASE ~queued
    <3>1. recorder' = r
        BY <1>5, <2>4 DEF AfterTurn
    <3>2. r.recorded = recorder.recorded
        BY <1>1
    <3>3. QED
        BY <2>2, <3>1, <3>2
  <2>5. QED
    BY <2>3, <2>4
<1>6. CASE StartTurn
  <2>1. Room(1) /\ \E a, r : Sync(a, r)
    BY <1>6 DEF StartTurn
  <2>2. QED
    BY <1>4, <2>1, SyncLooks
<1>7. CASE Work \/ \E kind \in {"user", "said"} : Record(kind)
  <2>1. Room(1) /\ recorder' = recorder
    BY <1>7 DEF Work, Record
  <2>2. QED
    BY <1>4, <2>1
<1>8. CASE Withdraw \/ Backtrack
    BY <1>3, <1>8 DEF Withdraw, Backtrack
<1>9. ASSUME NEW held \in BOOLEAN, NEW queued \in BOOLEAN,
             EndTurn(held, queued) \/ Interrupt(held, queued) \/ BlockPrompt(held, queued)
      PROVE  Goal
  <2>1. \E a : \E k \in {0, 1} : AfterTurn(a, k, held, queued)
    BY <1>9 DEF EndTurn, Interrupt, BlockPrompt
  <2>2. QED
    BY <1>5, <2>1
<1>10. CASE Resume
  <2>1. recordedIds' = recordedIds /\ app'.moved = FALSE
    <3>1. /\ recordedIds' = recordedIds
          /\ \E f, honoured : Adopt(f, honoured)
        BY <1>10 DEF Resume
    <3>2. \E h : app' = [history |-> h, floor |-> Len(h), turn |-> NoTurn, moved |-> FALSE]
        BY <3>1 DEF Adopt, NewApp
    <3>3. QED
        BY <3>1, <3>2
  <2>2. QED
    BY <1>1, <2>1
<1>11. CASE \E model \in Models, picked \in BOOLEAN : SetModel(model, picked)
  <2>1. /\ recordedIds' = recordedIds
        /\ \E model, keep : recorder' = [recorder EXCEPT !.model = model, !.keep = keep]
    BY <1>11 DEF SetModel
  <2>2. recorder'.recorded = recorder.recorded
    BY <1>1, <2>1
  <2>3. QED
    BY <1>1, <2>1, <2>2
<1>12. CASE AfterIteration
  <2>1. recordedIds' = recordedIds /\ ~app'.moved
    BY <1>12, SyncLooks DEF AfterIteration
  <2>2. QED
    BY <1>1, <2>1
<1>13. CASE Clear \/ Quit \/ Crash \/ Boot
  <2>1. /\ recordedIds' = recordedIds
        /\ recorder' = Seeded(recorder.model) \/ recorder' = Fresh(recorder.model)
    BY <1>13 DEF Clear, Quit, Crash, Boot, Gone
  <2>2. /\ Fresh(recorder.model).active = None
        /\ Seeded(recorder.model).active = None
    BY DEF Fresh, Seeded
  <2>3. QED
    BY <1>1, <2>1, <2>2
<1>14. QED
    BY <1>6, <1>7, <1>8, <1>9, <1>10, <1>11, <1>12, <1>13 DEF Next, TurnStep

BoundInv == RecordInv /\ recorder.recorded <= recordedIds

LEMMA BoundHolds == Spec => []BoundInv
<1>1. Init => BoundInv
  <2> SUFFICES ASSUME Init PROVE BoundInv
    OBVIOUS
  <2>1. RecordInv
    BY InitInv
  <2>2. recordedIds = 0 /\ \E model, cps : recorder = [Fresh(model) EXCEPT !.cps = cps]
    BY DEF Init
  <2>3. recorder.recorded = 0
    BY <2>2 DEF Fresh
  <2>4. QED
    BY <2>1, <2>2, <2>3 DEF BoundInv
<1>2. BoundInv /\ [Next]_vars => BoundInv'
  <2> SUFFICES ASSUME BoundInv, [Next]_vars PROVE BoundInv'
    OBVIOUS
  <2>1. RecordInv'
    BY NextTold, StutterInv DEF BoundInv
  <2>2. CASE Next
    <3>1. /\ recordedIds' \in Nat /\ recordedIds \in Nat /\ recorder.recorded \in Nat
          /\ app'.history \in Seq(ItemsTo(recordedIds')) /\ Increasing(app'.history)
          /\ MirrorOK(recorder', files', app') /\ UnsavedOK(recorder', files', app')
          /\ recorder'.recorded \in Nat
        BY <2>1, RecordBoundsAssumption
           DEF BoundInv, RecordInv, Ready, AppOK, RecorderOK
    <3>2. Len(app'.history) <= recordedIds' /\ Len(app'.history) \in Nat
        BY <3>1, HistoryBound, LenProperties
    <3>3. /\ recordedIds' >= recordedIds
          /\ app'.moved /\ recorder'.active # None => recorder'.recorded = recorder.recorded
        BY <2>1, <2>2, CountKept DEF BoundInv
    <3>4. recorder'.recorded <= recordedIds'
      <4>1. CASE recorder'.active = None
        BY <3>1, <4>1 DEF UnsavedOK
      <4>2. CASE recorder'.active # None /\ app'.moved
        BY <3>1, <3>3, <4>2 DEF BoundInv
      <4>3. CASE recorder'.active # None /\ ~app'.moved
        BY <3>1, <3>2, <4>3 DEF MirrorOK
      <4>4. QED
        BY <4>1, <4>2, <4>3
    <3>5. QED
        BY <2>1, <3>4 DEF BoundInv
  <2>3. CASE UNCHANGED vars
    BY <2>1, <2>3 DEF BoundInv, vars
  <2>4. QED
    BY <2>2, <2>3
<1>3. QED
    BY <1>1, <1>2, PTL DEF Spec

\* The types of the record, the recorder and the files.
THEOREM RecordTypes == Spec => []TypeOK
<1>1. BoundInv => TypeOK
  <2> SUFFICES ASSUME BoundInv PROVE TypeOK
    OBVIOUS
  <2> DEFINE n == recordedIds
  <2>1. /\ AppOK(app, n) /\ RecorderOK(recorder, n) /\ FilesOK(files, n)
        /\ MirrorOK(recorder, files, app) /\ tree \subseteq 1 .. n /\ n \in 0 .. MaxItems
        /\ phase \in {"down", "top", "bottom"} /\ crashes \in 0 .. MaxCrashes
        /\ picks \in 0 .. MaxPicks /\ n \in Nat /\ MaxItems \in Nat /\ n <= MaxItems
    BY RecordBoundsAssumption DEF BoundInv, RecordInv, Ready
  <2>2. /\ Seq(ItemsTo(n)) \subseteq Seq(Items)
        /\ Seq(CheckpointsTo(n)) \subseteq Seq(Checkpoints)
    <3>1. Items = ItemsTo(MaxItems) /\ Checkpoints = CheckpointsTo(MaxItems)
        BY DEF Items, Checkpoints, ItemsTo, CheckpointsTo
    <3>2. QED
        BY <2>1, <3>1, ItemsMore
  <2>3. /\ app.history \in Seq(Items) /\ app.floor \in 0 .. Len(app.history)
        /\ app.turn \in NoTurn .. Len(app.history) /\ app.moved \in BOOLEAN
    <3>1. /\ app.history \in Seq(Items) /\ app.floor \in Nat /\ app.turn \in Nat \cup {NoTurn}
          /\ app.moved \in BOOLEAN
          /\ app.floor <= Len(app.history) /\ app.turn <= Len(app.history)
        BY <2>1, <2>2 DEF AppOK
    <3>2. Len(app.history) \in Nat
        BY <3>1, LenProperties
    <3>3. QED
        BY <3>1, <3>2 DEF NoTurn
  <2>4. /\ recorder.active \in 0 .. Len(files)
        /\ recorder.active # None => recorder.safe \in 0 .. Len(files[recorder.active].lines)
    <3>1. files \in Seq(FilesTo(n)) /\ recorder.active \in Nat /\ recorder.safe \in Nat
        BY <2>1 DEF FilesOK, RecorderOK
    <3>2. DOMAIN files = 1 .. Len(files) /\ Len(files) \in Nat
        BY <3>1, LenProperties
    <3>3. CASE recorder.active = None
        BY <3>2, <3>3 DEF None
    <3>4. CASE recorder.active # None
      <4>1. /\ recorder.active \in DOMAIN files
            /\ recorder.safe <= Len(files[recorder.active].lines)
        BY <2>1, <3>4 DEF MirrorOK
      <4>2. files[recorder.active] \in FilesTo(n)
        BY <3>1, <3>2, <4>1, ElementOfSeq
      <4>3. Len(files[recorder.active].lines) \in Nat
        BY <4>2, LenProperties DEF FilesTo
      <4>4. QED
        BY <3>1, <3>2, <4>1, <4>3
    <3>5. QED
        BY <3>3, <3>4
  <2>5. /\ recorder.recorded \in 0 .. MaxItems /\ recorder.cps \in Seq(Checkpoints)
        /\ recorder.flushed \in 0 .. Len(recorder.cps)
        /\ recorder.model \in Models /\ recorder.written \in Models \cup {"none"}
        /\ {recorder.keep, recorder.repair} \subseteq BOOLEAN
    <3>1. /\ recorder.recorded \in Nat /\ recorder.recorded <= n
          /\ recorder.cps \in Seq(CheckpointsTo(n)) /\ recorder.flushed \in Nat
          /\ recorder.flushed <= Len(recorder.cps)
          /\ recorder.model \in Models /\ recorder.written \in Models \cup {"none"}
          /\ recorder.keep \in BOOLEAN /\ recorder.repair \in BOOLEAN
        BY <2>1 DEF RecorderOK, BoundInv
    <3>2. Len(recorder.cps) \in Nat
        BY <3>1, LenProperties
    <3>3. QED
        BY <2>1, <2>2, <3>1, <3>2
  <2>6. ASSUME NEW f \in DOMAIN files
        PROVE  /\ files[f].torn \in BOOLEAN
               /\ \A i \in DOMAIN files[f].lines : files[f].lines[i].type \in LineTypes
    <3>1. files[f] \in FilesTo(n)
      <4>1. files \in Seq(FilesTo(n)) /\ DOMAIN files = 1 .. Len(files)
        BY <2>1, LenProperties DEF FilesOK
      <4>2. QED
        BY <4>1, ElementOfSeq
    <3>2. files[f].torn \in BOOLEAN /\ files[f].lines \in Seq(LinesTo(n))
        BY <3>1 DEF FilesTo
    <3>3. ASSUME NEW i \in DOMAIN files[f].lines
          PROVE  files[f].lines[i].type \in LineTypes
      <4>1. files[f].lines[i] \in LinesTo(n)
        BY <3>2, LenProperties, ElementOfSeq
      <4>2. QED
        BY <2>1, <4>1, LineFacts
    <3>4. QED
        BY <3>2, <3>3
  <2>7. tree \subseteq 1 .. MaxItems
    BY <2>1
  <2>8. QED
    BY <2>1, <2>3, <2>4, <2>5, <2>6, <2>7 DEF TypeOK
<1>2. QED
    BY <1>1, BoundHolds, PTL

\* A rewind that finds a checkpoint puts the tree back to before anything it takes back:
\* no work of a call that is gone from the conversation is left in the tree.
THEOREM RewindsTakeTheirWork == Spec => RewoundWorkIsGone
<1> DEFINE NoWorkLeft == Backtrack /\ RestoreTarget(recorder.cps, Len(app'.history)) # None =>
                        tree' \cap (Ids(app.history) \ Ids(app'.history)) = {}
<1>1. RecordInv => [NoWorkLeft]_vars
  <2> SUFFICES ASSUME RecordInv, Backtrack,
                      RestoreTarget(recorder.cps, Len(app'.history)) # None
               PROVE  tree' \cap (Ids(app.history) \ Ids(app'.history)) = {}
    OBVIOUS
  <2> DEFINE n == recordedIds
             h == app.history
  <2>1. /\ phase = "top" /\ \E i \in DOMAIN h : /\ app' = CutBack(app, i - 1)
                                                /\ tree' = Restored(recorder.cps, i - 1)
    BY DEF Backtrack, Arm
  <2>2. /\ n \in Nat /\ Live(app, recorder, files, n) /\ h \in Seq(ItemsTo(n)) /\ Increasing(h)
        /\ recorder.cps \in Seq(CheckpointsTo(n)) /\ tree \subseteq 1 .. n
        /\ app \in [history : Seq(ItemsTo(n)), floor : Nat, turn : Nat \cup {NoTurn},
                    moved : BOOLEAN]
    BY <2>1, InvFacts DEF RecordInv, RecorderOK, AppOK
  <2>3. DOMAIN h = 1 .. Len(h) /\ Len(h) \in Nat
    BY <2>2, LenProperties
  <2>4. PICK i \in 1 .. Len(h) : /\ app' = CutBack(app, i - 1)
                                 /\ tree' = Restored(recorder.cps, i - 1)
    BY <2>1, <2>3
  <2> DEFINE g == SubSeq(h, 1, i - 1)
  <2>5. app'.history = g
    BY <2>2, <2>4 DEF CutBack
  <2>6. i - 1 \in 0 .. Len(h) /\ i - 1 \in Nat
    BY <2>3
  <2>7. g \in Seq(ItemsTo(n)) /\ Len(g) = i - 1 /\ \A k \in 1 .. i - 1 : g[k] = h[k]
    BY <2>2, <2>6, CutFits
  <2> DEFINE t == RestoreTarget(recorder.cps, i - 1)
  <2>8. t # None
    BY <2>5, <2>7
  <2> HIDE DEF n
  <2>9. t \in DOMAIN recorder.cps /\ recorder.cps[t].after <= i - 1
    BY <2>2, <2>6, <2>8, TargetFacts
  <2>10. tree' = recorder.cps[t].tree
    BY <2>2, <2>4, <2>6, <2>8, RestoredFacts
  <2>11. Fit(recorder.cps[t], h)
    BY <2>2, <2>9 DEF Live
  <2>12. recorder.cps[t].after \in Nat
    <3>1. recorder.cps[t] \in CheckpointsTo(n)
        BY <2>2, <2>9, ElementOfSeq, LenProperties
    <3>2. QED
        BY <3>1, RecordBoundsAssumption DEF CheckpointsTo
  <2> HIDE DEF g, t
  <2>13. ASSUME NEW k \in DOMAIN h, h[k].id \notin Ids(g)
         PROVE  h[k].id \notin tree'
    <3>1. k \in 1 .. Len(h)
        BY <2>3
    <3>2. DOMAIN g = 1 .. i - 1
        BY <2>7, <2>6, LenProperties
    <3>3. ~ (k <= i - 1)
      <4> SUFFICES ASSUME k <= i - 1 PROVE FALSE
        OBVIOUS
      <4>1. k \in 1 .. i - 1
        BY <3>1, <2>6
      <4>2. k \in DOMAIN g /\ g[k].id = h[k].id
        BY <2>7, <3>2, <4>1
      <4>3. QED
        BY <2>13, <4>2 DEF Ids
    <3>4. k > recorder.cps[t].after
        BY <2>6, <2>9, <2>12, <3>1, <3>3
    <3>5. QED
        BY <2>10, <2>11, <3>4 DEF Fit
  <2>14. QED
    BY <2>5, <2>13 DEF Ids
<1>2. Spec => [][NoWorkLeft]_vars
  <2>1. Spec => [][Next]_vars
    BY DEF Spec
  <2>2. QED
    BY <1>1, <2>1, RecordInvHolds, PTL
<1>3. QED
    BY <1>2 DEF RewoundWorkIsGone

-----------------------------------------------------------------------------
(* The promise of Journal: each of the five is a step of it.               *)

LEMMA SavedFacts ==
    ASSUME RecordInv, NEW c \in 1 .. MaxFiles
    PROVE  Saved(c) \in Seq(ItemsTo(recordedIds))
<1>1. /\ recordedIds \in Nat /\ files \in Seq(FilesTo(recordedIds)) /\ DOMAIN files = 1 .. Len(files)
    BY InvFacts, LenProperties DEF FilesOK
<1>2. <<>> \in Seq(ItemsTo(recordedIds))
    BY EmptySeq
<1>3. CASE c \in DOMAIN files
  <2>1. files[c] \in FilesTo(recordedIds)
    BY <1>1, <1>3, ElementOfSeq
  <2>2. files[c].lines \in Seq(LinesTo(recordedIds)) /\ MetaLine \in LinesTo(recordedIds)
    BY <1>1, <2>1, LinesMade DEF FilesTo
  <2>3. ParsedItems(files[c].lines) \in Seq(ItemsTo(recordedIds))
    BY <1>1, <2>2, ItemsAppend
  <2>4. QED
    BY <1>2, <2>3 DEF Saved
<1>4. CASE c \notin DOMAIN files
    BY <1>2, <1>4 DEF Saved
<1>5. QED
    BY <1>3, <1>4

\* Items numbered after n are none of those numbered before.
LEMMA LaterIsNew ==
    ASSUME NEW n \in Nat, NEW s \in Seq(ItemsTo(n)), NEW item, item.id > n
    PROVE  item \notin J!Range(s)
<1>1. ASSUME NEW x \in DOMAIN s, s[x] = item PROVE FALSE
  <2>1. s[x] \in ItemsTo(n)
    BY ElementOfSeq, LenProperties
  <2>2. item.id \in 1 .. n
    BY <1>1, <2>1 DEF ItemsTo
  <2>3. QED
    BY <2>2
<1>2. QED
    BY <1>1 DEF J!Range

LEMMA Speaks ==
    ASSUME RecordInv, RecordInv', Grew(app.history, app'.history, recordedIds)
    PROVE  J!Speak(app'.history)
<1> DEFINE n == recordedIds
           h == app.history
           to == app'.history
<1>1. n \in Nat /\ h \in Seq(ItemsTo(n))
    BY InvFacts
<1>2. PICK k \in 0 .. Len(h) : /\ k <= Len(to) /\ \A i \in 1 .. k : to[i] = h[i]
                               /\ \A i \in 1 .. Len(to) : i > k => to[i].id > n
    BY DEF Grew
<1>3. Len(h) \in Nat /\ Len(to) \in Nat
  <2>1. to \in Seq(ItemsTo(recordedIds'))
    BY DEF RecordInv, Ready, AppOK
  <2>2. QED
    BY <1>1, <2>1, LenProperties
<1>4. ASSUME NEW i \in k + 1 .. Len(to)
      PROVE  /\ to[i] \notin J!Range(h)
             /\ \A c \in 1 .. MaxFiles :
                    to[i] \notin J!Range([f \in 1 .. MaxFiles |-> Saved(f)][c])
  <2>1. to[i].id > n
    BY <1>2, <1>3
  <2>2. \A c \in 1 .. MaxFiles : Saved(c) \in Seq(ItemsTo(n))
    BY SavedFacts
  <2> HIDE DEF n, h, to
  <2>3. to[i] \notin J!Range(h)
    BY <1>1, <2>1, LaterIsNew
  <2>4. \A c \in 1 .. MaxFiles : to[i] \notin J!Range(Saved(c))
    BY <1>1, <2>1, <2>2, LaterIsNew
  <2>5. \A c \in 1 .. MaxFiles : [f \in 1 .. MaxFiles |-> Saved(f)][c] = Saved(c)
    OBVIOUS
  <2>6. QED
    BY <2>3, <2>4, <2>5
<1>5. QED
    BY <1>2, <1>4 DEF J!Speak

LEMMA SaysIsSay ==
    ASSUME J!Speak(app'.history), files' = files, recorder'.active = recorder.active
    PROVE  J!Say
<1>1. \A f \in 1 .. MaxFiles : Saved(f)' = Saved(f)
    BY DEF Saved
<1>2. QED
    BY <1>1 DEF J!Say

LEMMA SavesIsSave ==
    ASSUME RecordInv, RecordInv', Saves
    PROVE  J!Say \/ J!Save
<1>1. J!Speak(app'.history)
    BY Speaks DEF Saves
<1>2. CASE recorder'.active = None /\ recorder.active = None /\ files' = files
    BY <1>1, <1>2, SaysIsSay
<1> DEFINE f == recorder'.active
<1>3. CASE /\ f # None
           /\ f = recorder.active \/ (recorder.active = None /\ f = Len(files) + 1)
           /\ DOMAIN files' = DOMAIN files \cup {f}
           /\ \A g \in DOMAIN files : g # f => files'[g] = files[g]
           /\ Loads(files'[f].lines) /\ ParsedItems(files'[f].lines) = app'.history
  <2>1. /\ files' \in Seq(FilesTo(recordedIds')) /\ Len(files') <= MaxFiles /\ MaxFiles \in Nat
    BY RecordBoundsAssumption DEF RecordInv, Ready, FilesOK
  <2>2. DOMAIN files' = 1 .. Len(files') /\ Len(files') \in Nat
    BY <2>1, LenProperties
  <2>3. f \in DOMAIN files' /\ f \in 1 .. MaxFiles
    <3>1. f \in DOMAIN files'
        BY <1>3
    <3>2. f \in 1 .. Len(files')
        BY <2>2, <3>1
    <3> HIDE DEF f
    <3>3. QED
        BY <2>1, <2>2, <3>1, <3>2
  <2>4. \A g \in 1 .. MaxFiles : Saved(g)' = IF g = f THEN app'.history ELSE Saved(g)
    BY <1>3, <2>3 DEF Saved
  <2>5. f = recorder.active \/ (recorder.active = None /\ Saved(f) = <<>>)
    <3>1. files \in Seq(FilesTo(recordedIds))
        BY InvFacts DEF FilesOK
    <3>2. DOMAIN files = 1 .. Len(files) /\ Len(files) \in Nat
        BY <3>1, LenProperties
    <3>3. CASE f = Len(files) + 1
      <4>1. f \notin DOMAIN files
        BY <3>2, <3>3
      <4>2. Saved(f) = <<>>
        BY <4>1 DEF Saved
      <4>3. QED
        BY <1>3, <4>2
    <3>4. QED
        BY <1>3, <3>3
  <2> HIDE DEF f
  <2>6. [g \in 1 .. MaxFiles |-> Saved(g)]' =
            [[g \in 1 .. MaxFiles |-> Saved(g)] EXCEPT ![f] = app'.history]
    BY <2>3, <2>4
  <2>7. [g \in 1 .. MaxFiles |-> Saved(g)][f] = Saved(f)
    BY <2>3
  <2>8. J!Save
    BY <1>1, <2>3, <2>5, <2>6, <2>7 DEF J!Save, f
  <2>9. QED
    BY <2>8
<1>4. QED
    BY <1>2, <1>3 DEF Saves, SavedBy, Outcome

LEMMA OpensIsOpen ==
    ASSUME RecordInv, Opens
    PROVE  \E c \in 1 .. MaxFiles : J!Open(c)
<1>1. PICK f \in DOMAIN files :
            /\ Loads(files[f].lines) /\ app'.history = ParsedItems(files[f].lines)
            /\ recorder'.active = f /\ files' = files
    BY DEF Opens
<1>2. f \in 1 .. MaxFiles
  <2>1. files \in Seq(FilesTo(recordedIds)) /\ Len(files) <= MaxFiles /\ MaxFiles \in Nat
    BY InvFacts, RecordBoundsAssumption DEF FilesOK
  <2>2. DOMAIN files = 1 .. Len(files) /\ Len(files) \in Nat
    BY <2>1, LenProperties
  <2>3. QED
    BY <2>1, <2>2
<1>3. Saved(f) = app'.history
    BY <1>1 DEF Saved
<1>4. \A g \in 1 .. MaxFiles : Saved(g)' = Saved(g)
    BY <1>1 DEF Saved
<1>5. J!Open(f)
    BY <1>1, <1>2, <1>3, <1>4 DEF J!Open
<1>6. QED
    BY <1>2, <1>5

LEMMA DiesIsDie ==
    ASSUME RecordInv, RecordInv', Dies
    PROVE  J!Die
<1> DEFINE a == recorder.active
<1>1. /\ app'.history = <<>> /\ recorder'.active = None /\ a \in DOMAIN files
      /\ DOMAIN files' = DOMAIN files
      /\ \A f \in DOMAIN files : f # a => files'[f] = files[f]
      /\ Loads(files'[a].lines) =>
            Begins(ParsedItems(files'[a].lines), ParsedItems(files[a].lines))
    BY DEF Dies
<1>2. Loads(files[a].lines)
  <2>1. files \in Seq(FilesTo(recordedIds)) /\ MirrorOK(recorder, files, app)
    BY InvFacts DEF FilesOK, Ready
  <2>2. a # None
    BY <1>1, <2>1, LenProperties DEF None
  <2>3. QED
    BY <2>1, <2>2 DEF MirrorOK
<1>3. \A c \in 1 .. MaxFiles : c # a => Saved(c)' = Saved(c)
    BY <1>1 DEF Saved
<1>4. ASSUME NEW c \in 1 .. MaxFiles
      PROVE  J!IsPrefix(Saved(c)', Saved(c))
  <2>1. Saved(c) \in Seq(ItemsTo(recordedIds))
    BY SavedFacts
  <2>2. CASE c # a
    <3>1. Begins(Saved(c), Saved(c))
        BY <2>1, LenProperties DEF Begins
    <3>2. IsPrefix(Saved(c), Saved(c))
        BY <2>1, <3>1, BeginsIsPrefix
    <3>3. Saved(c)' = Saved(c)
        BY <1>3, <2>2
    <3>4. QED
        BY <3>2, <3>3 DEF J!IsPrefix, IsPrefix
  <2>3. CASE c = a /\ Loads(files'[a].lines)
    <3>1. Saved(c) = ParsedItems(files[a].lines)
        BY <1>1, <1>2, <2>3 DEF Saved
    <3>2. Saved(c)' = ParsedItems(files'[c].lines)
        BY <1>1, <2>3 DEF Saved
    <3>3. ParsedItems(files'[c].lines) \in Seq(ItemsTo(recordedIds'))
      <4>1. files' \in Seq(FilesTo(recordedIds')) /\ recordedIds' \in Nat
        BY RecordBoundsAssumption DEF RecordInv, Ready, FilesOK
      <4>2. files'[c] \in FilesTo(recordedIds')
        BY <1>1, <2>3, <4>1, ElementOfSeq, LenProperties
      <4>3. files'[c].lines \in Seq(LinesTo(recordedIds')) /\ MetaLine \in LinesTo(recordedIds')
        BY <4>1, <4>2, LinesMade DEF FilesTo
      <4>4. QED
        BY <4>1, <4>3, ItemsAppend
    <3>4. IsPrefix(ParsedItems(files'[c].lines), Saved(c))
      <4> DEFINE T == ItemsTo(recordedIds) \cup ItemsTo(recordedIds')
                 s == ParsedItems(files'[c].lines)
                 t == Saved(c)
      <4>1. s \in Seq(T) /\ t \in Seq(T)
        BY <2>1, <3>3
      <4>2. Begins(s, t)
        BY <1>1, <2>3, <3>1
      <4> HIDE DEF T, s, t
      <4>3. IsPrefix(s, t)
        BY <4>1, <4>2, BeginsIsPrefix
      <4>4. QED
        BY <4>3 DEF s, t
    <3>5. QED
        BY <3>2, <3>4 DEF J!IsPrefix, IsPrefix
  <2>4. CASE c = a /\ ~Loads(files'[a].lines)
    <3>1. Saved(c)' = <<>>
        BY <2>4 DEF Saved
    <3>2. IsPrefix(<<>>, Saved(c))
      <4>1. <<>> \in Seq(ItemsTo(recordedIds)) /\ Begins(<<>>, Saved(c))
        BY <2>1, EmptySeq, LenProperties DEF Begins
      <4>2. QED
        BY <2>1, <4>1, BeginsIsPrefix
    <3>3. QED
        BY <3>1, <3>2 DEF J!IsPrefix, IsPrefix
  <2>5. QED
    BY <2>2, <2>3, <2>4
<1>5. /\ \A c \in 1 .. MaxFiles :
            J!IsPrefix([f \in 1 .. MaxFiles |-> Saved(f)]'[c], [f \in 1 .. MaxFiles |-> Saved(f)][c])
      /\ \A c \in (1 .. MaxFiles) \ {a} :
            [f \in 1 .. MaxFiles |-> Saved(f)]'[c] = [f \in 1 .. MaxFiles |-> Saved(f)][c]
  <2>1. \A c \in 1 .. MaxFiles : /\ [f \in 1 .. MaxFiles |-> Saved(f)]'[c] = Saved(c)'
                                 /\ [f \in 1 .. MaxFiles |-> Saved(f)][c] = Saved(c)
    OBVIOUS
  <2>2. QED
    BY <1>3, <1>4, <2>1
<1>6. QED
    BY <1>1, <1>5 DEF J!Die

LEMMA LeavesIsNew ==
    ASSUME Leaves
    PROVE  J!New
<1>1. \A f \in 1 .. MaxFiles : Saved(f)' = Saved(f)
    BY DEF Saved, Leaves
<1>2. QED
    BY <1>1 DEF J!New, Leaves

LEMMA ToldIsNext ==
    ASSUME RecordInv, RecordInv', Told
    PROVE  J!Next
<1>1. CASE Says
    BY <1>1, Speaks, SaysIsSay DEF J!Next, Says
<1>2. CASE Saves
    BY <1>2, SavesIsSave DEF J!Next
<1>3. CASE Leaves
    BY <1>3, LeavesIsNew DEF J!Next
<1>4. CASE Opens
    BY <1>4, OpensIsOpen DEF J!Next
<1>5. CASE Dies
    BY <1>5, DiesIsDie DEF J!Next
<1>6. QED
    BY <1>1, <1>2, <1>3, <1>4, <1>5 DEF Told

\* The recorder keeps the promise of Journal: the copy of a conversation is what was on
\* screen, up to some point, nothing taken back comes back by being saved late, and
\* opening a copy gives it back, for any number of items, files, crashes and models.
THEOREM RecorderKeepsTheJournal == Spec => KeepsTheJournal
<1>1. Init => J!Init
  <2> SUFFICES ASSUME Init PROVE J!Init
    OBVIOUS
  <2>1. files = <<>> /\ app.history = <<>>
    BY DEF Init, NewApp
  <2>2. recorder.active = None
    <3>1. \E model, cps : recorder = [Fresh(model) EXCEPT !.cps = cps]
        BY DEF Init
    <3>2. QED
        BY <3>1 DEF Fresh
  <2>3. \A f \in 1 .. MaxFiles : Saved(f) = <<>>
    BY <2>1 DEF Saved
  <2>4. QED
    BY <2>1, <2>2, <2>3 DEF J!Init
<1>2. RecordInv /\ [Next]_vars => [J!Next]_(J!vars)
  <2>1. RecordInv /\ Next => J!Next
    BY NextTold, ToldIsNext
  <2>2. UNCHANGED vars => UNCHANGED J!vars
    BY DEF vars, J!vars, Saved
  <2>3. QED
    BY <2>1, <2>2
<1>3. QED
    BY <1>1, <1>2, RecordInvHolds, PTL DEF Spec, KeepsTheJournal, J!Spec
=============================================================================
