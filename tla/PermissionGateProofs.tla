------------------------ MODULE PermissionGateProofs ------------------------
(***************************************************************************)
(* The gates, for any agents, turns and requests.  A request is in one     *)
(* place from the call that raises it to its answer; all the rest follows  *)
(* from where it can go next.                                              *)
(***************************************************************************)
EXTENDS PermissionGate, QueuesProofs

\* A modal between two steps: nothing queued twice or behind nothing, the draft safe.
ModalFits(m) ==
    /\ m \in Modals
    /\ IsInjective(m.perms) /\ IsInjective(m.asks)
    /\ Range(m.perms) \cap Range(m.asks) = {}
    /\ m.open \notin Range(m.perms) \cup Range(m.asks)
    /\ IF m.open = None THEN m.perms = <<>> /\ m.asks = <<>> /\ m.input = "draft"
       ELSE m.saved = "draft"

\* A question is queued with the questions, a prompt with the prompts.
KindsFit(m) ==
    /\ \A id \in Range(m.perms) : ~IsAsk(id)
    /\ \A id \in Range(m.asks) : IsAsk(id)

\* m2 is m without the requests of G, the next one of its queues raised if need be.
Shrinks(m, m2, G) ==
    /\ ModalFits(m2) /\ KindsFit(m2)
    /\ Pending(m2) = Pending(m) \ G
    /\ Range(m2.asks) \subseteq Range(m.asks)
    /\ m2.open \in {m.open, None} \cup Range(m.perms) \cup Range(m.asks)

\* The requests on an agent channel q, and that each is on it once.
Permissions(q) == {i \in DOMAIN q : q[i].type = "Permission"}
IdsOn(q) == {q[i].id : i \in Permissions(q)}
OnceOn(q) == \A i, j \in Permissions(q) : q[i].id = q[j].id => i = j

Numbered == 1 .. Len(asked)
Flight == Range(replies) \cup IdsOn(agentEvents)

\* A thread that waits has the request it raised; a turn's thread that may go on is
\* the turn in flight.
ThreadsFit ==
    /\ turn # None => turn \notin cancelled
    /\ \A a \in Askers :
          /\ thread[a].pc \in {"wait", "woken"} =>
                thread[a].id \in Numbered /\ asked[thread[a].id].by = a
          /\ thread[a].pc \in {"off", "run", "asking"} => thread[a].id = None
          /\ thread[a].pc = "asking" => thread[a].kind \in Kinds
          /\ a \in Turns /\ a \notin cancelled /\ thread[a].pc # "off" => a = turn

\* Who raised what, and what its channel is.
RequestsFit ==
    /\ \A i \in Numbered : IsAsk(i) => asked[i].by \in Turns
    /\ \A id \in Range(replies) : asked[id].by \in Turns
    /\ \A id \in IdsOn(agentEvents) : asked[id].by \in Agents

\* A request raised is in one place at most, and once.
PlacesFit ==
    /\ IsInjective(replies) /\ OnceOn(agentEvents)
    /\ Flight \subseteq Numbered /\ Pending(modal) \subseteq Numbered
    /\ abandoned \subseteq Numbered /\ Decided \subseteq Numbered
    /\ Flight \cap (Pending(modal) \cup abandoned \cup Decided) = {}
    /\ Pending(modal) \cap (abandoned \cup Decided) = {}
    /\ abandoned \cap Decided = {}

\* A thread that may go on waits on a request that is somewhere.
WaitsFit ==
    \A a \in Askers :
        thread[a].pc = "wait" /\ a \notin cancelled =>
            thread[a].id \in Flight \cup Pending(modal) \cup abandoned \cup Decided

\* A question on its way or on screen is the one the turn in flight waits on.
AsksFit ==
    \A id \in Range(replies) \cup Pending(modal) :
        IsAsk(id) => turn # None /\ thread[turn].pc = "wait" /\ thread[turn].id = id

\* A grant that is waited for has been consented to.
GrantsFit ==
    \A a \in Askers :
        /\ thread[a].pc = "wait" /\ board[thread[a].id] \in {"approve", "always"} =>
              consent[thread[a].id] # "nobody"
        /\ thread[a].pc = "woken" /\ thread[a].got \in {"approve", "always"} =>
              consent[thread[a].id] # "nobody"

\* The prompt last shown has no job left.
JobsFit ==
    /\ PromptNotifies
    /\ jobs \subseteq Numbered
    /\ shown \in Numbered \cup {None} /\ shown \notin jobs

\* The clock of the question on screen has run no longer than the user was away.
ClockFits ==
    clock.age >= 0 =>
        /\ clock.open \in Numbered \cup {None}
        /\ clock.open \notin Range(replies) \cup Range(modal.asks)
        /\ clock.open # None /\ clock.open = AskOpen(modal) => clock.age <= idle

Fits ==
    /\ ModalFits(modal) /\ KindsFit(modal)
    /\ ThreadsFit
    /\ RequestsFit
    /\ PlacesFit
    /\ WaitsFit
    /\ AsksFit
    /\ GrantsFit
    /\ JobsFit

GateInv == TypeOK /\ Fits /\ ClockFits

-----------------------------------------------------------------------------
(* The modal.                                                              *)

\* A modal whose prompt has just been closed.
ClosedFits(m) ==
    /\ m \in Modals
    /\ IsInjective(m.perms) /\ IsInjective(m.asks)
    /\ Range(m.perms) \cap Range(m.asks) = {}
    /\ m.open = None /\ m.input = "draft"

LEMMA NoneIsNoId == None \notin Ids /\ Ids \subseteq Int
    BY DEF None, Ids

\* The elements of the queues are requests.
LEMMA QueuesOfIds ==
    ASSUME NEW m \in Modals
    PROVE  /\ m.perms \in Seq(Ids) /\ m.asks \in Seq(Ids)
           /\ Range(m.perms) \subseteq Ids /\ Range(m.asks) \subseteq Ids
           /\ Pending(m) \subseteq Ids
<1>1. \A s \in Seq(Ids) : Range(s) \subseteq Ids
    BY LenProperties DEF Range
<1>2. QED
    BY <1>1 DEF Modals, Pending

LEMMA CloseFits ==
    ASSUME NEW m, ModalFits(m), m.open # None
    PROVE  /\ ClosedFits(CloseModal(m))
           /\ CloseModal(m).perms = m.perms /\ CloseModal(m).asks = m.asks
           /\ Pending(CloseModal(m)) = Pending(m) \ {m.open}
<1>1. CloseModal(m) = [m EXCEPT !.open = None, !.input = m.saved, !.saved = "empty"]
    BY DEF CloseModal
<1>2. CloseModal(m) \in Modals
    BY <1>1 DEF ModalFits, Modals
<1>3. /\ CloseModal(m).perms = m.perms /\ CloseModal(m).asks = m.asks
      /\ CloseModal(m).open = None /\ CloseModal(m).input = m.saved
    BY <1>1 DEF ModalFits, Modals
<1>4. QED
    BY <1>2, <1>3 DEF ModalFits, ClosedFits, Pending

\* Raising a request on a closed modal.
LEMMA RaiseFits ==
    ASSUME NEW m, ClosedFits(m), NEW id \in Ids, id \notin Range(m.perms) \cup Range(m.asks)
    PROVE  /\ ModalFits(Raised(m, id))
           /\ Raised(m, id).perms = m.perms /\ Raised(m, id).asks = m.asks
           /\ Raised(m, id).open = id
<1>1. /\ Raised(m, id) \in Modals
      /\ Raised(m, id).perms = m.perms /\ Raised(m, id).asks = m.asks
      /\ Raised(m, id).open = id /\ Raised(m, id).saved = m.input
    BY DEF Raised, ClosedFits, Modals
<1>2. QED
    BY <1>1, NoneIsNoId DEF ModalFits, ClosedFits

\* open_next_pending raises what waits first, if anything does.
LEMMA NextFits ==
    ASSUME NEW m, ClosedFits(m), KindsFit(m)
    PROVE  /\ ModalFits(OpenNextPending(m)) /\ KindsFit(OpenNextPending(m))
           /\ Pending(OpenNextPending(m)) = Pending(m)
           /\ Range(OpenNextPending(m).asks) \subseteq Range(m.asks)
           /\ OpenNextPending(m).open \in {None} \cup Range(m.perms) \cup Range(m.asks)
<1> DEFINE n == OpenNextPending(m)
<1>0. /\ m \in Modals /\ m.open = None
      /\ m.perms \in Seq(Ids) /\ m.asks \in Seq(Ids)
      /\ Range(m.perms) \subseteq Ids /\ Range(m.asks) \subseteq Ids
    BY QueuesOfIds DEF ClosedFits
<1>1. CASE m.asks # <<>>
  <2> DEFINE k == [m EXCEPT !.asks = Tail(@)]
             id == Head(m.asks)
  <2>1. n = Raised(k, id)
    BY <1>0, <1>1 DEF OpenNextPending
  <2>2. /\ id \in Range(m.asks) /\ Tail(m.asks) \in Seq(Ids)
        /\ Range(m.asks) = Range(Tail(m.asks)) \cup {id}
        /\ IsInjective(Tail(m.asks)) /\ id \notin Range(Tail(m.asks))
    BY <1>0, <1>1, TailFacts DEF ClosedFits
  <2>3. k \in Modals /\ k.asks = Tail(m.asks) /\ k.perms = m.perms /\ k.open = None
        /\ k.input = m.input
    BY <1>0, <2>2 DEF Modals
  <2> HIDE DEF k, id
  <2>4. ClosedFits(k) /\ id \in Ids /\ id \notin Range(k.perms) \cup Range(k.asks)
    BY <1>0, <2>2, <2>3 DEF ClosedFits
  <2>5. /\ ModalFits(n) /\ n.perms = k.perms /\ n.asks = k.asks /\ n.open = id
    BY <2>1, <2>4, RaiseFits
  <2>6. KindsFit(n)
    BY <2>2, <2>3, <2>5 DEF KindsFit
  <2>7. QED
    BY <1>0, <2>2, <2>3, <2>5, <2>6, NoneIsNoId DEF Pending
<1>2. CASE m.asks = <<>> /\ m.perms # <<>>
  <2> DEFINE k == [m EXCEPT !.perms = Tail(@)]
             id == Head(m.perms)
  <2>1. n = Raised(k, id)
    BY <1>0, <1>2 DEF OpenNextPending
  <2>2. /\ id \in Range(m.perms) /\ Tail(m.perms) \in Seq(Ids)
        /\ Range(m.perms) = Range(Tail(m.perms)) \cup {id}
        /\ IsInjective(Tail(m.perms)) /\ id \notin Range(Tail(m.perms))
    BY <1>0, <1>2, TailFacts DEF ClosedFits
  <2>3. k \in Modals /\ k.perms = Tail(m.perms) /\ k.asks = m.asks /\ k.open = None
        /\ k.input = m.input
    BY <1>0, <2>2 DEF Modals
  <2> HIDE DEF k, id
  <2>4. ClosedFits(k) /\ id \in Ids /\ id \notin Range(k.perms) \cup Range(k.asks)
    BY <1>0, <2>2, <2>3 DEF ClosedFits
  <2>5. /\ ModalFits(n) /\ n.perms = k.perms /\ n.asks = k.asks /\ n.open = id
    BY <2>1, <2>4, RaiseFits
  <2>6. KindsFit(n)
    BY <2>2, <2>3, <2>5 DEF KindsFit
  <2>7. QED
    BY <1>0, <2>2, <2>3, <2>5, <2>6, NoneIsNoId DEF Pending
<1>3. CASE m.asks = <<>> /\ m.perms = <<>>
  <2>1. n = m
    BY <1>0, <1>3 DEF OpenNextPending
  <2>2. Range(m.asks) = {} /\ Range(m.perms) = {}
    BY <1>0, <1>3, EmptyRange
  <2>3. ModalFits(m)
    BY <1>0, <1>3, <2>2 DEF ModalFits, ClosedFits
  <2>4. QED
    BY <1>0, <2>1, <2>3
<1>4. QED
    BY <1>1, <1>2, <1>3

\* An answer: the prompt closes and the next one opens.
LEMMA CloseShrinks ==
    ASSUME NEW m, ModalFits(m), KindsFit(m), m.open # None
    PROVE  Shrinks(m, OpenNextPending(CloseModal(m)), {m.open})
<1> DEFINE c == CloseModal(m)
<1>1. /\ ClosedFits(c) /\ c.perms = m.perms /\ c.asks = m.asks
      /\ Pending(c) = Pending(m) \ {m.open}
    BY CloseFits
<1>2. KindsFit(c)
    BY <1>1 DEF KindsFit
<1> HIDE DEF c
<1>3. /\ ModalFits(OpenNextPending(c)) /\ KindsFit(OpenNextPending(c))
      /\ Pending(OpenNextPending(c)) = Pending(c)
      /\ Range(OpenNextPending(c).asks) \subseteq Range(c.asks)
      /\ OpenNextPending(c).open \in {None} \cup Range(c.perms) \cup Range(c.asks)
    BY <1>1, <1>2, NextFits
<1>4. QED
    BY <1>1, <1>3 DEF Shrinks, c

\* A sweep of the prompts and of the one that is up.
LEMMA SweepShrinks ==
    ASSUME NEW m, ModalFits(m), KindsFit(m),
           NEW S, S \subseteq Pending(m), S \cap Range(m.asks) = {}
    PROVE  LET kept == [m EXCEPT !.perms = Without(@, S)] IN
           Shrinks(m, IF m.open \in S THEN OpenNextPending(CloseModal(kept)) ELSE kept, S)
<1> DEFINE kept == [m EXCEPT !.perms = Without(@, S)]
<1>0. /\ m \in Modals /\ m.perms \in Seq(Ids) /\ m.asks \in Seq(Ids)
      /\ Range(m.perms) \subseteq Ids /\ Range(m.asks) \subseteq Ids
    BY QueuesOfIds DEF ModalFits
<1>1. /\ Without(m.perms, S) \in Seq(Ids)
      /\ Range(Without(m.perms, S)) = Range(m.perms) \ S
      /\ IsInjective(Without(m.perms, S))
    BY <1>0, WithoutFacts DEF ModalFits
<1>2. /\ kept \in Modals /\ kept.perms = Without(m.perms, S) /\ kept.asks = m.asks
      /\ kept.open = m.open /\ kept.input = m.input /\ kept.saved = m.saved
    BY <1>0, <1>1 DEF Modals
<1> HIDE DEF kept
<1>3. m.open = None => kept.perms = <<>> /\ kept.asks = <<>>
  <2>1. m.open = None => Range(m.perms) = {}
    BY <1>0, EmptyRange DEF ModalFits
  <2>2. m.open = None => Range(kept.perms) = {}
    BY <1>1, <1>2, <2>1
  <2>3. kept.perms \in Seq(Ids)
    BY <1>1, <1>2
  <2>4. QED
    BY <1>2, <2>2, <2>3, EmptyRange DEF ModalFits
<1>4. ModalFits(kept)
    BY <1>1, <1>2, <1>3 DEF ModalFits
<1>5. KindsFit(kept)
    BY <1>1, <1>2 DEF KindsFit
<1>6. CASE m.open \in S
  <2>1. m.open # None
    BY <1>0, <1>6, QueuesOfIds, NoneIsNoId
  <2>2. Shrinks(kept, OpenNextPending(CloseModal(kept)), {kept.open})
    BY <1>2, <1>4, <1>5, <2>1, CloseShrinks
  <2>3. Pending(kept) \ {kept.open} = Pending(m) \ S
    BY <1>1, <1>2, <1>6 DEF Pending
  <2>4. Range(kept.perms) \subseteq Range(m.perms)
    BY <1>1, <1>2
  <2>5. QED
    BY <1>2, <1>6, <2>2, <2>3, <2>4 DEF Shrinks, kept
<1>7. CASE m.open \notin S
  <2>1. Pending(kept) = Pending(m) \ S
    BY <1>1, <1>2, <1>7 DEF Pending
  <2>2. Shrinks(m, kept, S)
    BY <1>2, <1>4, <1>5, <2>1 DEF Shrinks
  <2>3. QED
    BY <1>7, <2>2 DEF kept
<1>8. QED
    BY <1>6, <1>7

\* One shrinking after another.
LEMMA ShrinksTwice ==
    ASSUME NEW m1, NEW m2, NEW m3, NEW G, NEW H,
           Shrinks(m1, m2, G), Shrinks(m2, m3, H), m1.open # None
    PROVE  Shrinks(m1, m3, G \cup H)
<1>1. Pending(m3) = Pending(m1) \ (G \cup H)
    BY DEF Shrinks
<1>2. Range(m2.perms) \cup Range(m2.asks) \subseteq Pending(m1)
    BY DEF Shrinks, Pending
<1>3. {m1.open, None} \cup Pending(m1)
        = {m1.open, None} \cup Range(m1.perms) \cup Range(m1.asks)
    BY DEF Pending
<1>4. QED
    BY <1>1, <1>2, <1>3 DEF Shrinks

\* Everything dropped.
LEMMA DiscardShrinks ==
    ASSUME NEW m, ModalFits(m), KindsFit(m)
    PROVE  Shrinks(m, Discarded(m), Pending(m)) /\ Discarded(m).open = None
<1> DEFINE c == CloseModal(m)
<1>1. c \in Modals /\ c.open = None /\ c.input = "draft"
  <2>1. CASE m.open = None
    BY <2>1 DEF CloseModal, ModalFits
  <2>2. CASE m.open # None
    BY <2>2, CloseFits DEF ClosedFits
  <2>3. QED
    BY <2>1, <2>2
<1> HIDE DEF c
<1> DEFINE d == [c EXCEPT !.perms = <<>>, !.asks = <<>>]
<1>2. /\ d \in Modals /\ d.open = None /\ d.input = "draft"
      /\ d.perms = <<>> /\ d.asks = <<>>
  <2>1. <<>> \in Seq(Ids)
    OBVIOUS
  <2>2. QED
    BY <1>1, <2>1 DEF Modals
<1>3. d = Discarded(m)
    BY DEF Discarded, c
<1> HIDE DEF d
<1>4. Range(d.perms) = {} /\ Range(d.asks) = {} /\ IsInjective(d.perms) /\ IsInjective(d.asks)
    BY <1>2 DEF Range, IsInjective
<1>5. Pending(d) = {}
    BY <1>2, <1>4 DEF Pending
<1>6. ModalFits(d) /\ KindsFit(d)
    BY <1>2, <1>4 DEF ModalFits, KindsFit
<1>7. QED
    BY <1>2, <1>3, <1>4, <1>5, <1>6 DEF Shrinks

\* withdraw_agent_permissions and drain_covered_permissions drop what they say.
LEMMA WithdrawnShrinks ==
    ASSUME NEW m, ModalFits(m), KindsFit(m), NEW a
    PROVE  Shrinks(m, Withdrawn(m, a), AskedBy(m, a)) /\ AskedBy(m, a) \subseteq Pending(m)
<1>1. AskedBy(m, a) \subseteq Pending(m) /\ AskedBy(m, a) \cap Range(m.asks) = {}
    BY DEF AskedBy, KindsFit
<1>2. QED
    BY <1>1, SweepShrinks DEF Withdrawn

LEMMA DrainedShrinks ==
    ASSUME NEW m, ModalFits(m), KindsFit(m), NEW r
    PROVE  /\ Shrinks(m, Drained(m, r), Swept(m, r)) /\ Swept(m, r) \subseteq Pending(m)
           /\ \A id \in Swept(m, r) : Covered(r, id)
<1>1. /\ Swept(m, r) \subseteq Pending(m)
      /\ \A id \in Swept(m, r) : Covered(r, id)
    BY DEF Swept, Pending
<1>2. Swept(m, r) \cap Range(m.asks) = {}
    BY <1>1 DEF KindsFit, Covered, IsAsk, Kinds
<1>3. QED
    BY <1>1, <1>2, SweepShrinks DEF Drained

\* expire_asks: every question goes, the one on screen included.
LEMMA ExpiryShrinks ==
    ASSUME NEW m, ModalFits(m), KindsFit(m)
    PROVE  /\ Shrinks(m, OpenNextPending(
                            [(IF AskOpen(m) # None THEN CloseModal(m) ELSE m)
                                EXCEPT !.asks = <<>>]), Expired(m))
           /\ Expired(m) \subseteq Pending(m)
<1> DEFINE c == IF AskOpen(m) # None THEN CloseModal(m) ELSE m
           d == [c EXCEPT !.asks = <<>>]
<1>0. /\ m \in Modals /\ m.perms \in Seq(Ids) /\ m.asks \in Seq(Ids)
      /\ Range(m.perms) \subseteq Ids /\ Range(m.asks) \subseteq Ids /\ <<>> \in Seq(Ids)
      /\ Range(<<>>) = {} /\ IsInjective(<<>>)
    BY QueuesOfIds DEF ModalFits, Range, IsInjective
<1>1. Expired(m) \subseteq Pending(m)
    BY DEF Expired, Pending, AskOpen
<1>2. CASE m.open = None \/ IsAsk(m.open)
  <2>1. c \in Modals /\ c.open = None /\ c.perms = m.perms /\ c.input = "draft"
    <3>1. CASE m.open = None
        BY <1>0, <3>1 DEF AskOpen, ModalFits
    <3>2. CASE m.open # None
        BY <1>2, <3>2, CloseFits DEF AskOpen, ClosedFits
    <3>3. QED
        BY <3>1, <3>2
  <2> HIDE DEF c
  <2>2. d \in Modals /\ d.open = None /\ d.perms = m.perms /\ d.asks = <<>> /\ d.input = "draft"
    BY <1>0, <2>1 DEF Modals
  <2> HIDE DEF d
  <2>3. ClosedFits(d) /\ KindsFit(d)
    BY <1>0, <2>2 DEF ModalFits, KindsFit, ClosedFits
  <2>4. Pending(d) = Range(m.perms)
    BY <1>0, <2>2 DEF Pending
  <2>5. Pending(m) \ Expired(m) = Range(m.perms)
    BY <1>2, NoneIsNoId DEF Pending, Expired, AskOpen, ModalFits
  <2>6. /\ ModalFits(OpenNextPending(d)) /\ KindsFit(OpenNextPending(d))
        /\ Pending(OpenNextPending(d)) = Range(m.perms)
        /\ Range(OpenNextPending(d).asks) \subseteq {}
        /\ OpenNextPending(d).open \in {None} \cup Range(m.perms)
    BY <1>0, <2>2, <2>3, <2>4, NextFits
  <2>7. Shrinks(m, OpenNextPending(d), Expired(m))
    BY <2>5, <2>6 DEF Shrinks
  <2>8. QED
    BY <1>1, <2>7 DEF c, d
<1>3. CASE m.open # None /\ ~IsAsk(m.open)
  <2>1. c = m
    BY <1>3 DEF AskOpen
  <2>2. /\ d \in Modals /\ d.open = m.open /\ d.perms = m.perms /\ d.asks = <<>>
        /\ d.saved = m.saved
    BY <1>0, <2>1 DEF Modals
  <2> HIDE DEF d
  <2>3. OpenNextPending(d) = d
    BY <1>3, <2>2 DEF OpenNextPending
  <2>4. ModalFits(d) /\ KindsFit(d)
    BY <1>0, <1>3, <2>2 DEF ModalFits, KindsFit
  <2>5. Pending(d) = Pending(m) \ Expired(m)
    BY <1>0, <1>3, <2>2 DEF Pending, Expired, AskOpen, ModalFits
  <2>6. Shrinks(m, d, Expired(m))
    BY <1>0, <2>2, <2>4, <2>5 DEF Shrinks
  <2>7. QED
    BY <1>1, <2>3, <2>6 DEF d
<1>4. QED
    BY <1>2, <1>3

\* A request that arrives is up, or queued behind the modal that is.
LEMMA OpenFits ==
    ASSUME NEW m, ModalFits(m), KindsFit(m), NEW id \in Ids, id \notin Pending(m),
           NEW kind, kind = "ask" <=> IsAsk(id)
    PROVE  LET n == OpenModal(m, id, kind) IN
           /\ ModalFits(n) /\ KindsFit(n) /\ Pending(n) = Pending(m) \cup {id}
           /\ Range(n.asks) \subseteq Range(m.asks) \cup {id}
           /\ IF m.open = None THEN n.open = id /\ n.asks = m.asks ELSE n.open = m.open
           /\ ~IsAsk(id) => n.asks = m.asks
<1> DEFINE n == OpenModal(m, id, kind)
<1>0. /\ m \in Modals /\ m.perms \in Seq(Ids) /\ m.asks \in Seq(Ids)
      /\ id \notin Range(m.perms) \cup Range(m.asks) \cup {m.open} /\ id # None
    BY QueuesOfIds, NoneIsNoId DEF ModalFits, Pending
<1>1. CASE m.open = None
  <2>1. n = Raised(m, id)
    BY <1>1 DEF OpenModal
  <2>2. ClosedFits(m)
    BY <1>1 DEF ModalFits, ClosedFits
  <2>3. /\ ModalFits(n) /\ n.perms = m.perms /\ n.asks = m.asks /\ n.open = id
    BY <1>0, <2>1, <2>2, RaiseFits
  <2>4. QED
    BY <1>0, <1>1, <2>3 DEF KindsFit, Pending
<1>2. CASE m.open # None /\ kind = "ask"
  <2>1. n = [m EXCEPT !.asks = Append(@, id)]
    BY <1>2 DEF OpenModal
  <2>2. /\ Append(m.asks, id) \in Seq(Ids)
        /\ Range(Append(m.asks, id)) = Range(m.asks) \cup {id}
        /\ IsInjective(Append(m.asks, id))
    BY <1>0, AppendFacts DEF ModalFits
  <2>3. /\ n \in Modals /\ n.asks = Append(m.asks, id) /\ n.perms = m.perms
        /\ n.open = m.open /\ n.saved = m.saved
    BY <1>0, <2>1, <2>2 DEF Modals
  <2> HIDE DEF n
  <2>4. ModalFits(n) /\ KindsFit(n)
    BY <1>0, <1>2, <2>2, <2>3 DEF ModalFits, KindsFit
  <2>5. QED
    BY <1>0, <1>2, <2>2, <2>3, <2>4 DEF Pending, n
<1>3. CASE m.open # None /\ kind # "ask"
  <2>1. n = [m EXCEPT !.perms = Append(@, id)]
    BY <1>3 DEF OpenModal
  <2>2. /\ Append(m.perms, id) \in Seq(Ids)
        /\ Range(Append(m.perms, id)) = Range(m.perms) \cup {id}
        /\ IsInjective(Append(m.perms, id))
    BY <1>0, AppendFacts DEF ModalFits
  <2>3. /\ n \in Modals /\ n.perms = Append(m.perms, id) /\ n.asks = m.asks
        /\ n.open = m.open /\ n.saved = m.saved
    BY <1>0, <2>1, <2>2 DEF Modals
  <2> HIDE DEF n
  <2>4. ModalFits(n) /\ KindsFit(n)
    BY <1>0, <1>3, <2>2, <2>3 DEF ModalFits, KindsFit
  <2>5. QED
    BY <1>0, <1>3, <2>2, <2>3, <2>4 DEF Pending, n
<1>4. QED
    BY <1>1, <1>2, <1>3

-----------------------------------------------------------------------------
(* The agent channel.                                                      *)

LEMMA ChannelSend ==
    ASSUME NEW q \in Seq(Messages), NEW e \in Messages
    PROVE  /\ Append(q, e) \in Seq(Messages)
           /\ IdsOn(Append(q, e))
                = IdsOn(q) \cup (IF e.type = "Permission" THEN {e.id} ELSE {})
           /\ OnceOn(q) /\ (e.type = "Permission" => e.id \notin IdsOn(q))
                => OnceOn(Append(q, e))
<1> DEFINE r == Append(q, e)
<1>1. /\ r \in Seq(Messages) /\ Len(r) = Len(q) + 1 /\ Len(q) \in Nat
      /\ \A i \in 1 .. Len(q) : r[i] = q[i]
      /\ r[Len(q) + 1] = e
      /\ DOMAIN q = 1 .. Len(q) /\ DOMAIN r = 1 .. Len(q) + 1
    BY AppendProperties, LenProperties
<1> HIDE DEF r
<1>2. /\ \A i \in 1 .. Len(q) + 1 : i \in 1 .. Len(q) \/ i = Len(q) + 1
      /\ 1 .. Len(q) \subseteq 1 .. Len(q) + 1 /\ Len(q) + 1 \in 1 .. Len(q) + 1
    BY <1>1
<1>3. IdsOn(r) = IdsOn(q) \cup (IF e.type = "Permission" THEN {e.id} ELSE {})
    BY <1>1, <1>2 DEF IdsOn, Permissions
<1>4. ASSUME OnceOn(q), e.type = "Permission" => e.id \notin IdsOn(q)
      PROVE  OnceOn(r)
  <2>1. \A i \in Permissions(r) :
            \/ i \in Permissions(q) /\ r[i] = q[i]
            \/ i = Len(q) + 1 /\ r[i] = e /\ e.type = "Permission"
    BY <1>1, <1>2 DEF Permissions
  <2>2. \A i \in Permissions(q) : q[i].id \in IdsOn(q)
    BY DEF IdsOn
  <2>3. ASSUME NEW i \in Permissions(r), NEW j \in Permissions(r), r[i].id = r[j].id
        PROVE  i = j
    <3>1. CASE i \in Permissions(q) /\ j \in Permissions(q) /\ r[i] = q[i] /\ r[j] = q[j]
        BY <1>4, <2>3, <3>1 DEF OnceOn
    <3>2. ASSUME e.type = "Permission", NEW k \in Permissions(q) PROVE q[k].id # e.id
        BY <1>4, <2>2, <3>2
    <3>3. QED
        BY <2>1, <2>3, <3>1, <3>2
  <2>4. QED
    BY <2>3 DEF OnceOn
<1>5. QED
    BY <1>1, <1>3, <1>4 DEF r

LEMMA ChannelRead ==
    ASSUME NEW q \in Seq(Messages), q # <<>>, OnceOn(q)
    PROVE  /\ Head(q) \in Messages /\ Tail(q) \in Seq(Messages) /\ OnceOn(Tail(q))
           /\ IF Head(q).type = "Permission"
              THEN Head(q).id \in IdsOn(q) /\ IdsOn(Tail(q)) = IdsOn(q) \ {Head(q).id}
              ELSE IdsOn(Tail(q)) = IdsOn(q)
<1> DEFINE r == Tail(q)
           e == Head(q)
<1>1. /\ DOMAIN q = 1 .. Len(q) /\ Len(q) \in Nat /\ Len(q) # 0
      /\ e = q[1] /\ r \in Seq(Messages) /\ e \in Messages
      /\ DOMAIN r = 1 .. Len(q) - 1
      /\ \A i \in 1 .. Len(q) - 1 : r[i] = q[i + 1]
    BY LenProperties, EmptySeq, HeadTailProperties
<1> HIDE DEF r, e
<1>2. /\ 1 \in DOMAIN q
      /\ \A i \in 1 .. Len(q) - 1 : i + 1 \in DOMAIN q /\ i + 1 # 1
      /\ \A i \in DOMAIN q : i = 1 \/ i - 1 \in 1 .. Len(q) - 1
      /\ \A i \in DOMAIN q : (i - 1) + 1 = i
    BY <1>1
<1>3. \A i \in Permissions(r) :
            i + 1 \in Permissions(q) /\ i + 1 # 1 /\ r[i] = q[i + 1] /\ i \in Nat
    BY <1>1, <1>2 DEF Permissions
<1>4. OnceOn(r)
  <2>1. \A i, j \in Nat : i + 1 = j + 1 => i = j
    OBVIOUS
  <2>2. ASSUME NEW i \in Permissions(r), NEW j \in Permissions(r), r[i].id = r[j].id
        PROVE  i = j
    <3>1. i + 1 = j + 1
        BY <1>3, <2>2 DEF OnceOn
    <3>2. QED
        BY <1>3, <2>1, <3>1
  <2>3. QED
    BY <2>2 DEF OnceOn
<1>5. \A i \in Permissions(q) : i = 1 \/ (i - 1 \in Permissions(r) /\ r[i - 1] = q[i])
    BY <1>1, <1>2 DEF Permissions
<1>6. IdsOn(r) \subseteq IdsOn(q)
    BY <1>3 DEF IdsOn
<1>7. CASE e.type = "Permission"
  <2>1. 1 \in Permissions(q) /\ e.id \in IdsOn(q)
    BY <1>1, <1>2, <1>7 DEF Permissions, IdsOn
  <2>2. e.id \notin IdsOn(r)
    BY <1>1, <1>3, <2>1 DEF IdsOn, OnceOn
  <2>3. IdsOn(q) \subseteq IdsOn(r) \cup {e.id}
    BY <1>1, <1>5 DEF IdsOn
  <2>4. QED
    BY <1>1, <1>4, <1>6, <1>7, <2>1, <2>2, <2>3 DEF r, e
<1>8. CASE e.type # "Permission"
  <2>1. 1 \notin Permissions(q)
    BY <1>1, <1>8 DEF Permissions
  <2>2. IdsOn(q) \subseteq IdsOn(r)
    BY <1>5, <2>1 DEF IdsOn
  <2>3. IdsOn(r) = IdsOn(q)
    BY <1>6, <2>2
  <2>4. QED
    BY <1>1, <1>4, <1>8, <2>3 DEF r, e
<1>9. QED
    BY <1>7, <1>8

-----------------------------------------------------------------------------
(* What the session settles.                                               *)

\* A step of the session that takes requests off the screen: those of A are dropped, to
\* be released, those of D decided.
Settles(A, D) ==
    /\ UNCHANGED <<asked, thread, jobs, shown>> /\ loop' = "bottom"
    /\ Shrinks(modal, modal', A \cup D) /\ A \cup D \subseteq Pending(modal) /\ A \cap D = {}
    /\ abandoned' = abandoned \cup A
    /\ IdsOn(agentEvents') = IdsOn(agentEvents) /\ OnceOn(agentEvents')
    /\ cancelled \subseteq cancelled'
    /\ \/ turn' = turn /\ (turn # None => turn \notin cancelled') /\ replies' = replies
       \/ /\ turn' = None /\ (turn # None => turn \in cancelled')
          /\ replies' = <<>> /\ Pending(modal') = {}
    /\ Decided' \subseteq Decided \cup D
    /\ \/ Decided \cup D \subseteq Decided'
       \/ Agents \subseteq cancelled' /\ (turn # None => turn \in cancelled')
    /\ \A id \in Ids : consent[id] # "nobody" => consent'[id] # "nobody"
    /\ \A id \in Ids : board'[id] \in {"approve", "always"} =>
            board'[id] = board[id] \/ consent'[id] # "nobody"

LEMMA NoTurnIsNone == \A a \in Turns : a # None
    BY DEF Turns, None

LEMMA AskersSplit == \A a \in Askers : a \in Agents \/ a \in Turns
    BY DEF Askers

\* Requests raised are requests.
LEMMA NumberedAreIds == ASSUME TypeOK PROVE Numbered \subseteq Ids /\ Numbered \subseteq Int
<1>1. Len(asked) \in Nat /\ Len(asked) <= MaxAsked
    BY LenProperties DEF TypeOK
<1>2. MaxAsked \in Nat
    BY GateBoundsAssumption
<1>3. QED
    BY <1>1, <1>2 DEF Numbered, Ids

LEMMA EmptyQueue == Range(<<>>) = {} /\ IsInjective(<<>>)
    BY DEF Range, IsInjective

LEMMA SettleKeeps ==
    ASSUME TypeOK, Fits, NEW A, NEW D, Settles(A, D)
    PROVE  Fits'
<1>0. /\ asked' = asked /\ thread' = thread /\ jobs' = jobs /\ shown' = shown
      /\ Numbered' = Numbered /\ \A id : IsAsk(id)' <=> IsAsk(id)
    BY DEF Settles, Numbered, IsAsk
<1>1. /\ ModalFits(modal') /\ KindsFit(modal')
      /\ Pending(modal') = Pending(modal) \ (A \cup D)
    BY DEF Settles, Shrinks
<1>2. (ModalFits(modal) /\ KindsFit(modal))'
    BY <1>0, <1>1 DEF ModalFits, KindsFit, Modals
<1>3. ThreadsFit'
    BY <1>0, NoTurnIsNone DEF Settles, Fits, ThreadsFit
<1>4. Range(replies') \subseteq Range(replies) /\ IdsOn(agentEvents)' = IdsOn(agentEvents)
    BY EmptyQueue DEF Settles, IdsOn, Permissions
<1>5. RequestsFit'
    BY <1>0, <1>4 DEF Fits, RequestsFit
<1>6. PlacesFit'
  <2>1. IsInjective(replies') /\ OnceOn(agentEvents)'
    BY EmptyQueue DEF Settles, Fits, PlacesFit, OnceOn, Permissions
  <2>2. Flight' \subseteq Flight
    BY <1>4 DEF Flight
  <2>3. /\ Pending(modal)' = Pending(modal) \ (A \cup D)
        /\ abandoned' = abandoned \cup A /\ Decided' \subseteq Decided \cup D
    BY <1>1 DEF Settles, Pending
  <2>4. A \subseteq Pending(modal) /\ D \subseteq Pending(modal) /\ A \cap D = {}
    BY DEF Settles
  <2>5. QED
    BY <1>0, <2>1, <2>2, <2>3, <2>4 DEF Fits, PlacesFit
<1>7. WaitsFit'
  <2> SUFFICES ASSUME NEW a \in Askers, thread[a].pc = "wait", a \notin cancelled'
               PROVE  thread[a].id \in Flight' \cup Pending(modal') \cup abandoned' \cup Decided'
    BY <1>0 DEF WaitsFit, Pending
  <2>1. /\ a \notin cancelled
        /\ thread[a].id \in Numbered /\ asked[thread[a].id].by = a
        /\ a \in Turns => a = turn
        /\ thread[a].id \in Flight \cup Pending(modal) \cup abandoned \cup Decided
    BY DEF Settles, Fits, ThreadsFit, WaitsFit
  <2>2. Decided \cup D \subseteq Decided'
    BY <2>1, AskersSplit, NoTurnIsNone DEF Settles
  <2>3. CASE thread[a].id \in Range(replies)
    <3>1. a \in Turns
        BY <2>1, <2>3 DEF Fits, RequestsFit
    <3>2. replies' = replies
        BY <2>1, <3>1, NoTurnIsNone DEF Settles
    <3>3. QED
        BY <2>3, <3>2 DEF Flight
  <2>4. CASE thread[a].id \in IdsOn(agentEvents)
    BY <1>4, <2>4 DEF Flight
  <2>5. CASE thread[a].id \in Pending(modal) \cup abandoned \cup Decided
    BY <1>1, <2>2, <2>5 DEF Settles
  <2>6. QED
    BY <2>1, <2>3, <2>4, <2>5 DEF Flight
<1>8. AsksFit'
  <2>1. CASE turn' = turn /\ replies' = replies
    <3>1. Pending(modal)' \subseteq Pending(modal)
        BY <1>1 DEF Pending
    <3>2. QED
        BY <1>0, <2>1, <3>1 DEF Fits, AsksFit
  <2>2. CASE replies' = <<>> /\ Pending(modal') = {}
    BY <2>2, EmptyQueue DEF AsksFit, Pending
  <2>3. QED
    BY <2>1, <2>2 DEF Settles
<1>9. GrantsFit'
  <2> SUFFICES ASSUME NEW a \in Askers
               PROVE  /\ thread[a].pc = "wait" /\ board'[thread[a].id] \in {"approve", "always"}
                            => consent'[thread[a].id] # "nobody"
                      /\ thread[a].pc = "woken" /\ thread[a].got \in {"approve", "always"}
                            => consent'[thread[a].id] # "nobody"
    BY <1>0 DEF GrantsFit
  <2>1. thread[a].pc \in {"wait", "woken"} => thread[a].id \in Ids
    BY NumberedAreIds DEF Fits, ThreadsFit
  <2>2. QED
    BY <2>1 DEF Settles, Fits, GrantsFit
<1>10. JobsFit'
    BY <1>0 DEF Settles, Fits, JobsFit, PromptNotifies
<1>11. QED
    BY <1>2, <1>3, <1>5, <1>6, <1>7, <1>8, <1>9, <1>10 DEF Fits

-----------------------------------------------------------------------------
(* The user's keys.                                                        *)

Boards == [Ids -> {"none", "approve", "always", "deny", "answer", "timedout"}]
Consents == [Ids -> {"nobody", "user", "rule"}]
RuleSets == [mode : Modes, scope : BOOLEAN]
Clocks == [age : -1 .. Wait, open : Ids \cup {None}]

\* The types after a step that settles requests.
LEMMA SettleTypes ==
    ASSUME TypeOK, Fits, Fits', NEW A, NEW D, Settles(A, D),
           cancelled' \subseteq Askers, rows' \subseteq Agents, agentEvents' \in Seq(Messages),
           board' \in Boards, rules' \in RuleSets, footer' \in Modes, consent' \in Consents,
           clock' \in Clocks, idle' \in 0 .. Wait
    PROVE  TypeOK'
<1>1. modal' \in Modals
    BY DEF Fits, ModalFits
<1>2. abandoned' \subseteq Ids
  <2>1. A \subseteq Ids
    BY NumberedAreIds DEF Settles, Fits, PlacesFit
  <2>2. QED
    BY <2>1 DEF Settles, TypeOK
<1>3. turn' \in Turns \cup {None} /\ replies' \in Seq(Ids)
  <2>1. <<>> \in Seq(Ids)
    OBVIOUS
  <2>2. turn' \in {turn, None} /\ replies' \in {replies, <<>>}
    BY DEF Settles
  <2>3. QED
    BY <2>1, <2>2 DEF TypeOK
<1>4. /\ asked' \in Seq(Requests) /\ Len(asked') <= MaxAsked /\ thread' \in [Askers -> Calls]
      /\ jobs' \subseteq Ids /\ shown' \in Ids \cup {None} /\ loop' \in {"top", "bottom"}
    BY DEF Settles, TypeOK
<1>5. QED
    BY <1>1, <1>2, <1>3, <1>4 DEF TypeOK, Boards, Consents, RuleSets, Clocks

\* A key that settles requests: the clock of a question starts again.
LEMMA KeySettles ==
    ASSUME GateInv, NEW A, NEW D, Settles(A, D), Key,
           cancelled' \subseteq Askers, rows' \subseteq Agents, agentEvents' \in Seq(Messages),
           board' \in Boards, rules' \in RuleSets, footer' \in Modes, consent' \in Consents
    PROVE  GateInv'
<1>1. TypeOK /\ Fits /\ ClockFits
    BY DEF GateInv
<1>2. Fits'
    BY <1>1, SettleKeeps
<1>3. /\ clock \in Clocks /\ clock' = (IF clock.age >= 0 THEN [clock EXCEPT !.age = 0] ELSE clock)
      /\ idle' = 0
    BY <1>1 DEF Key, Touched, TypeOK, Clocks
<1>4. Wait \in Nat
    BY WaitAssumption
<1>5. clock' \in Clocks /\ idle' \in 0 .. Wait
    BY <1>3, <1>4 DEF Clocks
<1>6. clock'.open = clock.open /\ (clock'.age >= 0 => clock.age >= 0 /\ clock'.age = 0)
    BY <1>3, <1>4 DEF Clocks
<1>7. TypeOK'
    BY <1>1, <1>2, <1>5, SettleTypes
<1>8. ClockFits'
  <2>1. Range(replies') \subseteq Range(replies) /\ Range(modal'.asks) \subseteq Range(modal.asks)
    BY EmptyQueue DEF Settles, Shrinks
  <2>2. Numbered' = Numbered
    BY DEF Settles, Numbered
  <2>3. idle' = 0 /\ 0 <= 0
    BY <1>3
  <2>4. QED
    BY <1>1, <1>6, <2>1, <2>2, <2>3 DEF ClockFits
<1>9. QED
    BY <1>2, <1>7, <1>8 DEF GateInv

\* What the board and the consents say after a sweep.
LEMMA SweepFacts ==
    ASSUME NEW m, ModalFits(m), KindsFit(m), NEW r, NEW b \in Boards, NEW g \in Consents,
           Sweep(m, r, b, g)
    PROVE  /\ Shrinks(m, modal', Swept(m, r)) /\ Swept(m, r) \subseteq Pending(m)
           /\ board' \in Boards /\ consent' \in Consents
           /\ \A id \in Ids :
                IF id \in Swept(m, r) THEN board'[id] = "approve" /\ consent'[id] = "rule"
                ELSE board'[id] = b[id] /\ consent'[id] = g[id]
<1>1. /\ modal' = Drained(m, r)
      /\ board' = [id \in Ids |-> IF id \in Swept(m, r) THEN "approve" ELSE b[id]]
      /\ consent' = [id \in Ids |->
                        IF id \in Swept(m, r) /\ Covered(r, id) THEN "rule" ELSE g[id]]
    BY DEF Sweep, Posted
<1>2. /\ Shrinks(m, Drained(m, r), Swept(m, r)) /\ Swept(m, r) \subseteq Pending(m)
      /\ \A id \in Swept(m, r) : Covered(r, id)
    BY DrainedShrinks
<1>3. board' \in Boards /\ consent' \in Consents
    BY <1>1 DEF Boards, Consents
<1>4. QED
    BY <1>1, <1>2, <1>3

\* Nothing is taken off the screen.
LEMMA ShrinksByNone ==
    ASSUME NEW m, ModalFits(m), KindsFit(m)
    PROVE  Shrinks(m, m, {})
    BY DEF Shrinks

\* What the invariant says of the parts of the state.
LEMMA TypePieces ==
    ASSUME GateInv
    PROVE  /\ TypeOK /\ Fits /\ ClockFits
           /\ ModalFits(modal) /\ KindsFit(modal)
           /\ board \in Boards /\ consent \in Consents /\ rules \in RuleSets /\ footer \in Modes
           /\ modal \in Modals /\ Pending(modal) \subseteq Ids
           /\ cancelled \subseteq Askers /\ rows \subseteq Agents /\ agentEvents \in Seq(Messages)
           /\ OnceOn(agentEvents) /\ turn \in Turns \cup {None}
           /\ turn # None => turn \notin cancelled
<1>1. TypeOK /\ Fits /\ ClockFits
    BY DEF GateInv
<1>2. Pending(modal) \subseteq Ids
    BY <1>1, QueuesOfIds DEF TypeOK
<1>3. QED
    BY <1>1, <1>2 DEF TypeOK, Fits, ThreadsFit, PlacesFit, Boards, Consents, RuleSets

LEMMA RemembersRules ==
    ASSUME NEW r \in RuleSets, NEW kind
    PROVE  Remember(r, kind) \in RuleSets
    BY DEF Remember, RuleSets, Modes

LEMMA AnswerKeeps ==
    ASSUME GateInv, NEW decision \in {"approve", "always", "deny"}, Answer(decision)
    PROVE  GateInv'
<1> DEFINE id == modal.open
           rules1 == IF decision = "always" THEN Remember(rules, asked[id].kind) ELSE rules
           granted == IF decision = "deny" THEN consent ELSE [consent EXCEPT ![id] = "user"]
           next == OpenNextPending(CloseModal(modal))
           posted == [board EXCEPT ![id] = decision]
           D == {id} \cup Swept(next, rules1)
<1>1. /\ id # None /\ id \in Ids /\ id \in Pending(modal) /\ Key
      /\ rules' = rules1
      /\ footer' = IF decision = "always" /\ asked[id].kind = "file" THEN "edit" ELSE footer
      /\ Sweep(next, rules1, posted, granted)
      /\ UNCHANGED <<threadVars, chanVars, abandoned, jobs, shown>>
    BY TypePieces DEF Answer, Pending, Modals
<1>2. Shrinks(modal, next, {id}) /\ ModalFits(next) /\ KindsFit(next)
    BY <1>1, TypePieces, CloseShrinks DEF Shrinks
<1>3. rules1 \in RuleSets
    BY TypePieces, RemembersRules
<1>4. posted \in Boards /\ granted \in Consents
    BY <1>1, TypePieces DEF Boards, Consents
<1>5. \A i \in Ids : /\ posted[i] = IF i = id THEN decision ELSE board[i]
                     /\ granted[i] = IF i = id /\ decision # "deny" THEN "user" ELSE consent[i]
    BY <1>1, TypePieces DEF Boards, Consents
<1> HIDE DEF next, rules1, posted, granted
<1>6. /\ Shrinks(next, modal', Swept(next, rules1)) /\ Swept(next, rules1) \subseteq Pending(next)
      /\ board' \in Boards /\ consent' \in Consents
      /\ \A i \in Ids :
            IF i \in Swept(next, rules1) THEN board'[i] = "approve" /\ consent'[i] = "rule"
            ELSE board'[i] = posted[i] /\ consent'[i] = granted[i]
    BY <1>1, <1>2, <1>3, <1>4, SweepFacts
<1>7. Shrinks(modal, modal', D) /\ D \subseteq Pending(modal)
  <2>1. Shrinks(modal, modal', D)
    BY <1>1, <1>2, <1>6, ShrinksTwice
  <2>2. QED
    BY <1>1, <1>2, <1>6, <2>1 DEF Shrinks
<1> HIDE DEF D
<1>8. Decided' = Decided \cup D
  <2>1. \A i \in Ids : board'[i] # "none" <=> board[i] # "none" \/ i \in D
    BY <1>5, <1>6 DEF D
  <2>2. D \subseteq Ids
    BY <1>7, TypePieces
  <2>3. QED
    BY <2>1, <2>2 DEF Decided
<1>9. \A i \in Ids : /\ consent[i] # "nobody" => consent'[i] # "nobody"
                     /\ board'[i] \in {"approve", "always"} =>
                            board'[i] = board[i] \/ consent'[i] # "nobody"
    BY <1>5, <1>6
<1>10. Settles({}, D)
  <2>1. IdsOn(agentEvents') = IdsOn(agentEvents) /\ OnceOn(agentEvents')
    BY <1>1, TypePieces DEF chanVars
  <2>2. UNCHANGED <<asked, thread, jobs, shown, turn, cancelled, replies, abandoned>>
    BY <1>1 DEF threadVars, chanVars
  <2>3. {} \cup D = D
    OBVIOUS
  <2>4. QED
    BY <1>1, <1>7, <1>8, <1>9, <2>1, <2>2, <2>3, TypePieces DEF Settles, Key, Arm
<1>11. footer' \in Modes
    BY <1>1, TypePieces DEF Modes
<1>12. cancelled' \subseteq Askers /\ rows' \subseteq Agents /\ agentEvents' \in Seq(Messages)
    BY <1>1, TypePieces DEF threadVars, chanVars
<1>13. QED
    BY <1>1, <1>3, <1>6, <1>10, <1>11, <1>12, KeySettles

LEMMA AnswerAskKeeps == ASSUME GateInv, AnswerAsk PROVE GateInv'
<1> DEFINE id == modal.open
<1>1. /\ id # None /\ id \in Ids /\ id \in Pending(modal) /\ Key
      /\ modal' = OpenNextPending(CloseModal(modal))
      /\ board' = [board EXCEPT ![id] = "answer"]
      /\ UNCHANGED <<threadVars, chanVars, abandoned, rules, footer, jobs, shown, consent>>
    BY TypePieces DEF AnswerAsk, Pending, Modals
<1>2. Shrinks(modal, modal', {id})
    BY <1>1, TypePieces, CloseShrinks
<1> HIDE DEF id
<1>3. /\ board' \in Boards
      /\ \A i \in Ids : board'[i] = IF i = id THEN "answer" ELSE board[i]
    BY <1>1, TypePieces DEF Boards
<1>4. Decided' = Decided \cup {id}
    BY <1>1, <1>3 DEF Decided
<1>5. Settles({}, {id})
  <2>1. IdsOn(agentEvents') = IdsOn(agentEvents) /\ OnceOn(agentEvents')
    BY <1>1, TypePieces DEF chanVars
  <2>2. UNCHANGED <<asked, thread, jobs, shown, turn, cancelled, replies, abandoned, consent>>
    BY <1>1 DEF threadVars, chanVars
  <2>3. {} \cup {id} = {id}
    OBVIOUS
  <2>4. QED
    BY <1>1, <1>2, <1>3, <1>4, <2>1, <2>2, <2>3, TypePieces DEF Settles, Key, Arm
<1>6. QED
    BY <1>1, <1>3, <1>5, TypePieces, KeySettles DEF threadVars, chanVars

\* A step that leaves the board alone decides nothing.
LEMMA SameBoard ==
    ASSUME GateInv, board' = board, consent' = consent
    PROVE  /\ board' \in Boards /\ consent' \in Consents /\ Decided' = Decided
           /\ Decided \cup {} \subseteq Decided'
           /\ \A id \in Ids : consent[id] # "nobody" => consent'[id] # "nobody"
           /\ \A id \in Ids : board'[id] \in {"approve", "always"} =>
                    board'[id] = board[id] \/ consent'[id] # "nobody"
    BY TypePieces DEF Decided

\* Nor one that leaves the agents' channel alone.
LEMMA SameChannel ==
    ASSUME GateInv, agentEvents' = agentEvents
    PROVE  /\ agentEvents' \in Seq(Messages)
           /\ IdsOn(agentEvents') = IdsOn(agentEvents) /\ OnceOn(agentEvents')
    BY TypePieces

LEMMA TypeEntryKeeps == ASSUME GateInv, TypeEntry PROVE GateInv'
<1>1. /\ Key /\ modal.open # None /\ modal' = [modal EXCEPT !.input = "entry"]
      /\ UNCHANGED <<asked, thread, cancelled, turn, rows, replies, agentEvents, board, rules,
                     jobs, abandoned, footer, shown, consent>>
    BY DEF TypeEntry, threadVars, chanVars, gateVars
<1>2. /\ modal' \in Modals /\ modal'.open = modal.open /\ modal'.perms = modal.perms
      /\ modal'.asks = modal.asks /\ modal'.saved = modal.saved
    BY <1>1, TypePieces DEF Modals
<1>3. Shrinks(modal, modal', {} \cup {})
    BY <1>1, <1>2, TypePieces DEF Shrinks, ModalFits, KindsFit, Pending
<1>4. Settles({}, {})
    BY <1>1, <1>3, TypePieces, SameBoard, SameChannel DEF Settles, Key, Arm
<1>5. QED
    BY <1>1, <1>4, TypePieces, KeySettles

\* What abandoning the turn leaves of it.
LEMMA Abandons ==
    ASSUME GateInv, AbandonInflight
    PROVE  /\ cancelled \subseteq cancelled' /\ cancelled' \subseteq Askers
           /\ turn' = None /\ replies' = <<>> /\ (turn # None => turn \in cancelled')
    BY TypePieces DEF AbandonInflight, Askers

LEMMA CancelPermissionKeeps == ASSUME GateInv, CancelPermission PROVE GateInv'
<1>1. /\ Key /\ modal' = Discarded(modal) /\ abandoned' = abandoned \cup Pending(modal)
      /\ AbandonInflight
      /\ UNCHANGED <<asked, thread, rows, agentEvents, board, rules, jobs, footer, shown, consent>>
    BY DEF CancelPermission, gateVars
<1>2. Shrinks(modal, modal', Pending(modal) \cup {})
    BY <1>1, TypePieces, DiscardShrinks
<1>3. Pending(modal') = {}
    BY <1>2 DEF Shrinks
<1>4. Settles(Pending(modal), {})
    BY <1>1, <1>2, <1>3, TypePieces, Abandons, SameBoard, SameChannel DEF Settles, Key, Arm
<1>5. QED
    BY <1>1, <1>4, TypePieces, Abandons, SameBoard, KeySettles

\* With no modal up nothing is pending.
LEMMA NothingPending ==
    ASSUME NEW m, ModalFits(m), m.open = None
    PROVE  Pending(m) = {}
    BY EmptyQueue DEF ModalFits, Pending

LEMMA InterruptKeeps == ASSUME GateInv, Interrupt PROVE GateInv'
<1>1. /\ Key /\ modal' = modal /\ abandoned' = abandoned /\ modal.open = None
      /\ AbandonInflight
      /\ UNCHANGED <<asked, thread, rows, agentEvents, board, rules, jobs, footer, shown, consent>>
    BY DEF Interrupt, gateVars, screenVars
<1>2. Shrinks(modal, modal', {} \cup {})
    BY <1>1, TypePieces, ShrinksByNone
<1>3. Pending(modal') = {}
    BY <1>1, TypePieces, NothingPending
<1>4. Settles({}, {})
    BY <1>1, <1>2, <1>3, TypePieces, Abandons, SameBoard, SameChannel DEF Settles, Key, Arm
<1>5. QED
    BY <1>1, <1>4, TypePieces, Abandons, SameBoard, KeySettles

LEMMA CycleModeKeeps == ASSUME GateInv, CycleMode PROVE GateInv'
<1> DEFINE rules1 == [rules EXCEPT !.mode = Cycled(footer)]
           D == Swept(modal, rules1)
<1>1. /\ Key /\ footer' = Cycled(footer) /\ rules' = rules1
      /\ Sweep(modal, rules1, board, consent)
      /\ UNCHANGED <<asked, thread, cancelled, turn, rows, replies, agentEvents, abandoned,
                     jobs, shown>>
    BY DEF CycleMode, threadVars, chanVars
<1>2. Cycled(footer) \in Modes /\ rules1 \in RuleSets
  <2>1. Cycled(footer) \in Modes
    BY TypePieces DEF Cycled, Modes
  <2>2. QED
    BY <2>1, TypePieces DEF RuleSets
<1> HIDE DEF rules1
<1>3. /\ Shrinks(modal, modal', D) /\ D \subseteq Pending(modal)
      /\ board' \in Boards /\ consent' \in Consents
      /\ \A i \in Ids : IF i \in D THEN board'[i] = "approve" /\ consent'[i] = "rule"
                        ELSE board'[i] = board[i] /\ consent'[i] = consent[i]
    BY <1>1, TypePieces, SweepFacts
<1> HIDE DEF D
<1>4. Decided' = Decided \cup D
  <2>1. \A i \in Ids : board'[i] # "none" <=> board[i] # "none" \/ i \in D
    BY <1>3
  <2>2. D \subseteq Ids
    BY <1>3, TypePieces
  <2>3. QED
    BY <2>1, <2>2 DEF Decided
<1>5. \A i \in Ids : /\ consent[i] # "nobody" => consent'[i] # "nobody"
                     /\ board'[i] \in {"approve", "always"} =>
                            board'[i] = board[i] \/ consent'[i] # "nobody"
    BY <1>3
<1>6. {} \cup D = D
    OBVIOUS
<1>7. Settles({}, D)
    BY <1>1, <1>3, <1>4, <1>5, <1>6, TypePieces, SameChannel DEF Settles, Key, Arm
<1>8. QED
    BY <1>1, <1>2, <1>3, <1>7, TypePieces, KeySettles

LEMMA UserStopsKeeps == ASSUME GateInv, NEW a \in Agents, UserStops(a) PROVE GateInv'
<1>1. /\ Key /\ rows' = rows \ {a} /\ modal' = Withdrawn(modal, a)
      /\ abandoned' = abandoned \cup AskedBy(modal, a)
      /\ cancelled' = cancelled \cup {a}
      /\ UNCHANGED <<asked, thread, turn, replies, agentEvents, board, rules, jobs, footer,
                     shown, consent>>
    BY DEF UserStops, gateVars
<1>2. AskedBy(modal, a) \cup {} = AskedBy(modal, a)
    OBVIOUS
<1>3. Shrinks(modal, modal', AskedBy(modal, a)) /\ AskedBy(modal, a) \subseteq Pending(modal)
    BY <1>1, TypePieces, WithdrawnShrinks
<1>4. a \in Askers /\ (turn # None => turn # a)
    BY TypePieces, AskersAssumption DEF Askers
<1>5. Settles(AskedBy(modal, a), {})
    BY <1>1, <1>2, <1>3, <1>4, TypePieces, SameBoard, SameChannel DEF Settles, Key, Arm
<1>6. QED
    BY <1>1, <1>4, <1>5, TypePieces, KeySettles

LEMMA ClearKeeps == ASSUME GateInv, Clear PROVE GateInv'
<1>1. /\ Key /\ modal' = Discarded(modal) /\ abandoned' = abandoned \cup Pending(modal)
      /\ cancelled' = cancelled \cup Agents \cup ({turn} \ {None})
      /\ turn' = None /\ replies' = <<>> /\ rows' = {}
      /\ board' = [id \in Ids |-> "none"]
      /\ UNCHANGED <<asked, thread, agentEvents, rules, jobs, footer, shown, consent>>
    BY DEF Clear
<1>2. Shrinks(modal, modal', Pending(modal) \cup {})
    BY <1>1, TypePieces, DiscardShrinks
<1>3. Pending(modal') = {}
    BY <1>2 DEF Shrinks
<1>4. /\ board' \in Boards /\ Decided' = {}
      /\ \A id \in Ids : board'[id] = "none"
    BY <1>1 DEF Boards, Decided
<1>5. /\ cancelled \subseteq cancelled' /\ cancelled' \subseteq Askers /\ Agents \subseteq cancelled'
      /\ turn # None => turn \in cancelled'
    BY <1>1, TypePieces DEF Askers
<1>6. Settles(Pending(modal), {})
    BY <1>1, <1>2, <1>3, <1>4, <1>5, TypePieces, SameChannel DEF Settles, Key, Arm
<1>7. QED
    BY <1>1, <1>4, <1>5, <1>6, TypePieces, KeySettles

LEMMA LoadSessionKeeps == ASSUME GateInv, LoadSession PROVE GateInv'
<1>1. /\ Key /\ modal' = Discarded(modal) /\ abandoned' = abandoned \cup Pending(modal)
      /\ rows' = {}
      /\ UNCHANGED <<asked, thread, cancelled, turn, replies, agentEvents, board, rules, jobs,
                     footer, shown, consent>>
    BY DEF LoadSession, threadVars, gateVars
<1>2. Shrinks(modal, modal', Pending(modal) \cup {})
    BY <1>1, TypePieces, DiscardShrinks
<1>3. Settles(Pending(modal), {})
    BY <1>1, <1>2, TypePieces, SameBoard, SameChannel DEF Settles, Key, Arm
<1>4. QED
    BY <1>1, <1>3, TypePieces, KeySettles

-----------------------------------------------------------------------------
(* The loop's own arms.                                                    *)

\* The question on screen after a shrinking was on screen or queued before it.
LEMMA ShrunkQuestion ==
    ASSUME NEW m, ModalFits(m), KindsFit(m), NEW n, NEW G, Shrinks(m, n, G)
    PROVE  AskOpen(n) \in {AskOpen(m), None} \cup Range(m.asks)
    BY DEF Shrinks, KindsFit, AskOpen

LEMMA RecvStoppedKeeps == ASSUME GateInv, RecvStopped PROVE GateInv'
<1> DEFINE a == Head(agentEvents).by
           A == IF a \in rows THEN AskedBy(modal, a) ELSE {}
<1>1. /\ loop' = "bottom" /\ clock' = clock /\ agentEvents # <<>>
      /\ Head(agentEvents).type = "Stopped"
      /\ agentEvents' = Tail(agentEvents) /\ rows' = rows \ {a}
      /\ IF a \in rows
         THEN /\ modal' = Withdrawn(modal, a)
              /\ abandoned' = abandoned \cup AskedBy(modal, a)
              /\ Shows(modal')
         ELSE UNCHANGED <<modal, abandoned, idle>>
      /\ UNCHANGED <<asked, thread, cancelled, turn, replies, board, rules, jobs, footer, shown,
                     consent>>
    BY DEF RecvStopped, NoKey, Arm, threadVars, gateVars
<1>2. /\ agentEvents' \in Seq(Messages) /\ IdsOn(agentEvents') = IdsOn(agentEvents)
      /\ OnceOn(agentEvents')
    BY <1>1, TypePieces, ChannelRead
<1>3. Shrinks(modal, modal', A) /\ A \subseteq Pending(modal) /\ abandoned' = abandoned \cup A
    BY <1>1, TypePieces, WithdrawnShrinks, ShrinksByNone
<1> HIDE DEF A
<1>4. A \cup {} = A
    OBVIOUS
<1>5. Settles(A, {})
    BY <1>1, <1>2, <1>3, <1>4, TypePieces, SameBoard DEF Settles
<1>6. Fits'
    BY <1>5, SettleKeeps DEF GateInv
<1>7. clock \in Clocks /\ idle \in 0 .. Wait /\ Wait \in Nat /\ ClockFits
    BY WaitAssumption DEF GateInv, TypeOK, Clocks
<1>8. idle' \in {0, idle} /\ (AskOpen(modal') = AskOpen(modal) => idle' = idle)
  <2>1. CASE a \in rows
    BY <1>1, <2>1 DEF Shows, AskOpen, IsAsk
  <2>2. CASE a \notin rows
    BY <1>1, <2>2
  <2>3. QED
    BY <2>1, <2>2
<1>9. TypeOK'
    BY <1>1, <1>2, <1>5, <1>6, <1>7, <1>8, TypePieces, SameBoard, SettleTypes
<1>10. ClockFits'
  <2>1. Range(replies') = Range(replies) /\ Range(modal'.asks) \subseteq Range(modal.asks)
    BY <1>1, <1>3 DEF Shrinks
  <2>2. AskOpen(modal') \in {AskOpen(modal), None} \cup Range(modal.asks)
    BY <1>3, TypePieces, ShrunkQuestion
  <2>3. Numbered' = Numbered /\ AskOpen(modal)' = AskOpen(modal')
    BY <1>1 DEF Numbered, AskOpen, IsAsk
  <2> SUFFICES ASSUME clock.age >= 0, clock.open # None, clock.open = AskOpen(modal')
               PROVE  clock.age <= idle'
    BY <1>1, <1>7, <2>1, <2>3 DEF ClockFits
  <2>4. AskOpen(modal') = AskOpen(modal)
    BY <1>7, <2>2 DEF ClockFits
  <2>5. QED
    BY <1>7, <1>8, <2>4 DEF ClockFits
<1>11. QED
    BY <1>6, <1>9, <1>10 DEF GateInv

LEMMA TickKeeps == ASSUME GateInv, Tick PROVE GateInv'
<1> DEFINE fresh == clock.age < 0 \/ clock.open # AskOpen(modal)
           age == IF fresh THEN 0 ELSE clock.age
           rest == [age |-> -1, open |-> None]
<1>1. /\ loop' = "bottom"
      /\ UNCHANGED <<asked, thread, cancelled, turn, rows, replies, agentEvents, rules, jobs,
                     abandoned, footer, shown, consent>>
      /\ \/ clock' = rest /\ UNCHANGED <<modal, board, idle>>
         \/ /\ age < Wait /\ clock' = [age |-> age, open |-> AskOpen(modal)]
            /\ UNCHANGED <<modal, board, idle>>
         \/ /\ clock' = rest
            /\ modal' = OpenNextPending(
                          [(IF AskOpen(modal) # None THEN CloseModal(modal) ELSE modal)
                              EXCEPT !.asks = <<>>])
            /\ board' = Posted(board, Expired(modal), "timedout")
            /\ idle' = 0
    BY DEF Tick, Arm, threadVars, chanVars
<1>2. clock \in Clocks /\ idle \in 0 .. Wait /\ Wait \in Nat \ {0} /\ ClockFits
    BY WaitAssumption DEF GateInv, TypeOK, Clocks
<1>3. AskOpen(modal) \in Ids \cup {None} /\ AskOpen(modal) \in Numbered \cup {None}
  <2>1. modal.open # None => modal.open \in Pending(modal) /\ Pending(modal) \subseteq Numbered
    BY TypePieces DEF Fits, PlacesFit, Pending
  <2>2. QED
    BY <2>1, TypePieces, NumberedAreIds DEF AskOpen
<1>4. age \in 0 .. Wait
    BY <1>2 DEF Clocks
<1>5. rest \in Clocks /\ ~(rest.age >= 0)
    BY <1>2 DEF Clocks
<1>6. CASE UNCHANGED <<modal, board, idle>>
  <2>1. Shrinks(modal, modal', {} \cup {})
    BY <1>6, TypePieces, ShrinksByNone
  <2>2. Settles({}, {})
    BY <1>1, <1>6, <2>1, TypePieces, SameBoard, SameChannel DEF Settles
  <2>3. Fits'
    BY <2>2, SettleKeeps DEF GateInv
  <2>4. clock' = rest \/ (age < Wait /\ clock' = [age |-> age, open |-> AskOpen(modal)])
    BY <1>1
  <2>5. clock' \in Clocks
    BY <1>3, <1>4, <1>5, <2>4 DEF Clocks
  <2>6. TypeOK'
    BY <1>1, <1>2, <1>6, <2>2, <2>3, <2>5, TypePieces, SameBoard, SettleTypes
  <2>7. ClockFits'
    <3>1. CASE clock' = rest
        BY <1>5, <3>1 DEF ClockFits
    <3>2. CASE clock' = [age |-> age, open |-> AskOpen(modal)]
        <4>1. clock'.age = age /\ clock'.open = AskOpen(modal)
            BY <3>2
        <4>2. AskOpen(modal) # None => age <= idle
            BY <1>2 DEF ClockFits, Clocks
        <4>3. AskOpen(modal) \notin Range(replies) \cup Range(modal.asks)
            <5>1. /\ None \notin Range(replies) \cup Range(modal.asks)
                  /\ modal.open \notin Range(modal.asks)
                  /\ modal.open # None => modal.open \notin Range(replies)
                <6>1. Range(replies) \subseteq Numbered
                    BY TypePieces DEF Fits, PlacesFit, Flight
                <6>2. Range(modal.asks) \subseteq Ids /\ Numbered \subseteq Ids
                    BY TypePieces, QueuesOfIds, NumberedAreIds
                <6>3. modal.open # None => modal.open \notin Range(replies)
                    BY TypePieces DEF Fits, PlacesFit, Flight, Pending
                <6>4. QED
                    BY <6>1, <6>2, <6>3, TypePieces, NoneIsNoId DEF ModalFits
            <5>2. QED
                BY <5>1 DEF AskOpen
        <4>4. Numbered' = Numbered
            BY <1>1 DEF Numbered
        <4>5. QED
            BY <1>1, <1>3, <1>6, <4>1, <4>2, <4>3, <4>4 DEF ClockFits
    <3>3. QED
        BY <2>4, <3>1, <3>2
  <2>8. QED
    BY <2>3, <2>6, <2>7 DEF GateInv
<1>7. CASE /\ clock' = rest /\ idle' = 0
           /\ modal' = OpenNextPending(
                          [(IF AskOpen(modal) # None THEN CloseModal(modal) ELSE modal)
                              EXCEPT !.asks = <<>>])
           /\ board' = Posted(board, Expired(modal), "timedout")
  <2> DEFINE D == Expired(modal)
  <2>1. Shrinks(modal, modal', D) /\ D \subseteq Pending(modal)
    BY <1>7, TypePieces, ExpiryShrinks
  <2> HIDE DEF D
  <2>2. {} \cup D = D /\ D \subseteq Ids
    BY <2>1, TypePieces
  <2>3. /\ board' \in Boards
        /\ \A id \in Ids : board'[id] = IF id \in D THEN "timedout" ELSE board[id]
    BY <1>7, TypePieces DEF Posted, Boards, D
  <2>4. Decided' = Decided \cup D
    BY <2>2, <2>3 DEF Decided
  <2>5. Settles({}, D)
    BY <1>1, <2>1, <2>2, <2>3, <2>4, TypePieces, SameChannel DEF Settles
  <2>6. Fits'
    BY <2>5, SettleKeeps DEF GateInv
  <2>7. idle' \in 0 .. Wait
    BY <1>2, <1>7
  <2>8. TypeOK'
    BY <1>1, <1>5, <1>7, <2>3, <2>5, <2>6, <2>7, TypePieces, SettleTypes
  <2>9. ClockFits'
    BY <1>5, <1>7 DEF ClockFits
  <2>10. QED
    BY <2>6, <2>8, <2>9 DEF GateInv
<1>8. QED
    BY <1>1, <1>6, <1>7

\* A request that arrives is up or queued, and no longer on its way.
LEMMA OpenKeeps ==
    ASSUME TypeOK, Fits, NEW id \in Flight,
           UNCHANGED <<asked, thread, cancelled, turn, jobs, shown, abandoned, board, consent>>,
           loop' = "bottom", Flight' = Flight \ {id},
           Range(replies') \subseteq Range(replies), IsInjective(replies'),
           IdsOn(agentEvents') \subseteq IdsOn(agentEvents), OnceOn(agentEvents'),
           ModalFits(modal'), KindsFit(modal'), Pending(modal') = Pending(modal) \cup {id},
           IsAsk(id) => id \in Range(replies)
    PROVE  Fits'
<1>0. /\ Numbered' = Numbered /\ Decided' = Decided /\ \A i : IsAsk(i)' <=> IsAsk(i)
      /\ Pending(modal)' = Pending(modal) \cup {id}
    BY DEF Numbered, IsAsk, Decided, Pending
<1>1. (ModalFits(modal) /\ KindsFit(modal))'
    BY <1>0 DEF ModalFits, KindsFit, Modals
<1>2. ThreadsFit'
    BY <1>0 DEF Fits, ThreadsFit
<1>3. RequestsFit'
  <2>1. IdsOn(agentEvents)' \subseteq IdsOn(agentEvents)
    BY DEF IdsOn, Permissions
  <2>2. QED
    BY <1>0, <2>1 DEF Fits, RequestsFit
<1>4. PlacesFit'
  <2>1. OnceOn(agentEvents)'
    BY DEF OnceOn, Permissions
  <2>2. QED
    BY <1>0, <2>1 DEF Fits, PlacesFit
<1>5. WaitsFit'
    BY <1>0 DEF Fits, WaitsFit
<1>6. AsksFit'
    BY <1>0 DEF Fits, AsksFit
<1>7. GrantsFit'
    BY DEF Fits, GrantsFit
<1>8. JobsFit'
    BY <1>0 DEF Fits, JobsFit, PromptNotifies
<1>9. QED
    BY <1>1, <1>2, <1>3, <1>4, <1>5, <1>6, <1>7, <1>8 DEF Fits

\* A request on its way is nowhere else.
LEMMA FlightFacts ==
    ASSUME GateInv, NEW id \in Flight
    PROVE  /\ id \in Numbered /\ id \in Ids /\ id \notin Pending(modal) /\ id # None
           /\ (id \in Range(replies) <=> asked[id].by \in Turns)
           /\ (id \in IdsOn(agentEvents) <=> asked[id].by \in Agents)
           /\ (IsAsk(id) => id \in Range(replies))
           /\ ~(id \in Range(replies) /\ id \in IdsOn(agentEvents))
<1>1. /\ id \in Numbered /\ id \notin Pending(modal) /\ id \in Ids /\ id # None
    BY TypePieces, NumberedAreIds, NoneIsNoId DEF Fits, PlacesFit
<1>2. /\ id \in Range(replies) => asked[id].by \in Turns
      /\ id \in IdsOn(agentEvents) => asked[id].by \in Agents
      /\ IsAsk(id) => asked[id].by \in Turns
    BY <1>1, TypePieces DEF Fits, RequestsFit
<1>3. ~(asked[id].by \in Turns /\ asked[id].by \in Agents)
    BY AskersAssumption
<1>4. QED
    BY <1>1, <1>2, <1>3 DEF Flight

LEMMA RecvReplyKeeps == ASSUME GateInv, RecvReply PROVE GateInv'
<1> DEFINE id == Head(replies)
<1>1. /\ replies # <<>> /\ loop' = "bottom" /\ clock' = clock
      /\ replies' = Tail(replies)
      /\ modal' = OpenModal(modal, id, asked[id].kind)
      /\ idle' = IF asked[id].kind = "ask" THEN 0 ELSE idle
      /\ UNCHANGED <<asked, thread, cancelled, turn, rows, agentEvents, board, rules, jobs,
                     abandoned, footer, shown, consent>>
    BY DEF RecvReply, NoKey, Arm, threadVars, gateVars
<1>2. replies \in Seq(Ids) /\ IsInjective(replies)
    BY TypePieces DEF TypeOK, Fits, PlacesFit
<1>3. /\ id \in Range(replies) /\ replies' \in Seq(Ids)
      /\ Range(replies) = Range(replies') \cup {id}
      /\ IsInjective(replies') /\ id \notin Range(replies')
    BY <1>1, <1>2, TailFacts
<1> HIDE DEF id
<1>4. /\ id \in Flight /\ id \in Ids /\ id \in Numbered /\ id \notin Pending(modal) /\ id # None
      /\ id \notin IdsOn(agentEvents)
    BY <1>3, FlightFacts DEF Flight
<1>5. /\ ModalFits(modal') /\ KindsFit(modal') /\ Pending(modal') = Pending(modal) \cup {id}
      /\ Range(modal'.asks) \subseteq Range(modal.asks) \cup {id}
      /\ IF modal.open = None THEN modal'.open = id /\ modal'.asks = modal.asks
         ELSE modal'.open = modal.open
      /\ ~IsAsk(id) => modal'.asks = modal.asks
    BY <1>1, <1>4, TypePieces, OpenFits DEF IsAsk
<1>6. Flight' = Flight \ {id}
    BY <1>1, <1>3, <1>4 DEF Flight, IdsOn, Permissions
<1>7. Fits'
  <2>1. IdsOn(agentEvents') \subseteq IdsOn(agentEvents) /\ OnceOn(agentEvents')
    BY <1>1, TypePieces
  <2>2. QED
    BY <1>1, <1>3, <1>4, <1>5, <1>6, <2>1, TypePieces, OpenKeeps
<1>8. clock \in Clocks /\ idle \in 0 .. Wait /\ Wait \in Nat /\ ClockFits
    BY WaitAssumption DEF GateInv, TypeOK, Clocks
<1>9. idle' \in 0 .. Wait
    BY <1>1, <1>8
<1>10. TypeOK'
  <2>1. modal' \in Modals
    BY <1>5 DEF ModalFits
  <2>2. QED
    BY <1>1, <1>3, <1>9, <2>1, TypePieces DEF TypeOK
<1>11. ClockFits'
  <2>1. Numbered' = Numbered /\ AskOpen(modal)' = AskOpen(modal')
    BY <1>1 DEF Numbered, AskOpen, IsAsk
  <2> SUFFICES ASSUME clock.age >= 0
               PROVE  /\ clock.open \in Numbered \cup {None}
                      /\ clock.open \notin Range(replies') \cup Range(modal'.asks)
                      /\ clock.open # None /\ clock.open = AskOpen(modal') => clock.age <= idle'
    BY <1>1, <2>1 DEF ClockFits
  <2>2. /\ clock.open \in Numbered \cup {None} /\ clock.open # id
        /\ clock.open \notin Range(replies') \cup Range(modal'.asks)
    BY <1>3, <1>5, <1>8 DEF ClockFits
  <2>3. ASSUME clock.open # None, clock.open = AskOpen(modal') PROVE clock.age <= idle'
    <3>1. modal'.open = modal.open /\ AskOpen(modal') = AskOpen(modal) /\ AskOpen(modal) # None
        BY <1>5, <2>2, <2>3 DEF AskOpen
    <3>2. ~IsAsk(id)
        <4>1. modal.open \in Pending(modal) /\ IsAsk(modal.open)
            BY <3>1 DEF AskOpen, Pending
        <4>2. IsAsk(id) => id = modal.open
            BY <1>3, <4>1, TypePieces DEF Fits, AsksFit
        <4>3. QED
            BY <1>4, <4>1, <4>2
    <3>3. idle' = idle
        BY <1>1, <3>2 DEF IsAsk
    <3>4. QED
        BY <1>8, <2>3, <3>1, <3>3 DEF ClockFits
  <2>4. QED
    BY <2>2, <2>3
<1>12. QED
    BY <1>7, <1>10, <1>11 DEF GateInv

LEMMA RecvPermissionKeeps == ASSUME GateInv, RecvPermission PROVE GateInv'
<1> DEFINE id == Head(agentEvents).id
<1>1. /\ agentEvents # <<>> /\ Head(agentEvents).type = "Permission"
      /\ loop' = "bottom" /\ clock' = clock
      /\ agentEvents' = Tail(agentEvents)
      /\ modal' = OpenModal(modal, id, "permission")
      /\ UNCHANGED <<asked, thread, cancelled, turn, rows, replies, board, rules, jobs,
                     abandoned, footer, shown, idle, consent>>
    BY DEF RecvPermission, NoKey, Arm, threadVars, gateVars
<1>2. /\ agentEvents' \in Seq(Messages) /\ OnceOn(agentEvents') /\ id \in IdsOn(agentEvents)
      /\ IdsOn(agentEvents') = IdsOn(agentEvents) \ {id}
    BY <1>1, TypePieces, ChannelRead
<1> HIDE DEF id
<1>3. /\ id \in Flight /\ id \in Ids /\ id \in Numbered /\ id \notin Pending(modal) /\ id # None
      /\ id \notin Range(replies) /\ ~IsAsk(id)
    BY <1>2, FlightFacts DEF Flight
<1>4. /\ ModalFits(modal') /\ KindsFit(modal') /\ Pending(modal') = Pending(modal) \cup {id}
      /\ IF modal.open = None THEN modal'.open = id /\ modal'.asks = modal.asks
         ELSE modal'.open = modal.open
      /\ modal'.asks = modal.asks
  <2>1. "permission" = "ask" <=> IsAsk(id)
    BY <1>3
  <2>2. QED
    BY <1>1, <1>3, <2>1, TypePieces, OpenFits
<1>5. Flight' = Flight \ {id}
  <2>1. IdsOn(agentEvents)' = IdsOn(agentEvents')
    BY DEF IdsOn, Permissions
  <2>2. QED
    BY <1>1, <1>2, <1>3, <2>1 DEF Flight
<1>6. Fits'
  <2>1. Range(replies') \subseteq Range(replies) /\ IsInjective(replies')
    BY <1>1, TypePieces DEF Fits, PlacesFit
  <2>2. QED
    BY <1>1, <1>2, <1>3, <1>4, <1>5, <2>1, TypePieces, OpenKeeps
<1>7. TypeOK'
  <2>1. modal' \in Modals
    BY <1>4 DEF ModalFits
  <2>2. QED
    BY <1>1, <1>2, <2>1, TypePieces DEF TypeOK
<1>8. ClockFits'
  <2>1. Numbered' = Numbered /\ AskOpen(modal)' = AskOpen(modal')
    BY <1>1 DEF Numbered, AskOpen, IsAsk
  <2>2. AskOpen(modal') \in {AskOpen(modal), None}
    BY <1>3, <1>4 DEF AskOpen
  <2>3. QED
    BY <1>1, <1>4, <2>1, <2>2, TypePieces DEF ClockFits
<1>9. QED
    BY <1>6, <1>7, <1>8 DEF GateInv

-----------------------------------------------------------------------------
(* The threads.                                                            *)

LEMMA CallFacts ==
    /\ AtRest \in Calls /\ AtRest.pc = "off" /\ AtRest.id = None
    /\ Running \in Calls /\ Running.pc = "run" /\ Running.id = None
<1>1. AtRest \in Calls /\ AtRest.pc = "off" /\ AtRest.id = None
    BY DEF AtRest, Calls
<1>2. Running \in Calls /\ Running.pc = "run" /\ Running.id = None
    BY <1>1 DEF Running, Calls
<1>3. QED
    BY <1>1, <1>2

\* A request is raised by an asker.
LEMMA NumberedFacts ==
    ASSUME TypeOK
    PROVE  \A id \in Numbered : asked[id] \in Requests /\ asked[id].by \in Askers
<1>1. \A id \in Numbered : asked[id] \in Requests
    BY LenProperties DEF TypeOK, Numbered
<1>2. QED
    BY <1>1 DEF Requests

\* A thread that waits for nothing, before and after.
LEMMA UnaskedKeeps ==
    ASSUME TypeOK, Fits, NEW a \in Askers, NEW c \in Calls,
           thread[a].pc \in {"off", "run", "asking"}, thread' = [thread EXCEPT ![a] = c],
           c.pc \in {"off", "run", "asking"}, c.id = None, c.pc = "asking" => c.kind \in Kinds,
           UNCHANGED <<asked, replies, agentEvents, modal, abandoned, board, jobs, shown,
                       consent>>,
           loop' \in {loop, "bottom"}, cancelled \subseteq cancelled',
           turn' # None => turn' \notin cancelled',
           turn' = turn \/ turn = None \/ thread[turn].pc # "wait",
           \A b \in Turns : b \notin cancelled' /\ thread'[b].pc # "off" => b = turn'
    PROVE  Fits'
<1>0. /\ Numbered' = Numbered /\ Decided' = Decided /\ \A i : IsAsk(i)' <=> IsAsk(i)
      /\ Pending(modal)' = Pending(modal) /\ Flight' = Flight /\ OpenPrompt' = OpenPrompt
      /\ IdsOn(agentEvents)' = IdsOn(agentEvents)
    BY DEF Numbered, IsAsk, Decided, Pending, Flight, IdsOn, Permissions, OpenPrompt
<1>1. /\ thread \in [Askers -> Calls] /\ thread'[a] = c
      /\ \A b \in Askers : b # a => thread'[b] = thread[b]
    BY DEF TypeOK
<1>2. (ModalFits(modal) /\ KindsFit(modal))'
    BY <1>0 DEF Fits, ModalFits, KindsFit, Modals
<1>3. ThreadsFit'
    BY <1>0, <1>1 DEF Fits, ThreadsFit
<1>4. RequestsFit'
    BY <1>0 DEF Fits, RequestsFit
<1>5. PlacesFit'
  <2>1. OnceOn(agentEvents)' <=> OnceOn(agentEvents)
    BY DEF OnceOn, Permissions
  <2>2. QED
    BY <1>0, <2>1 DEF Fits, PlacesFit
<1>6. WaitsFit'
    BY <1>0, <1>1 DEF Fits, WaitsFit
<1>7. AsksFit'
  <2> SUFFICES ASSUME NEW id \in Range(replies) \cup Pending(modal), IsAsk(id)
               PROVE  turn' # None /\ thread'[turn'].pc = "wait" /\ thread'[turn'].id = id
    BY <1>0 DEF AsksFit
  <2>1. turn # None /\ thread[turn].pc = "wait" /\ thread[turn].id = id
    BY DEF Fits, AsksFit
  <2>2. turn' = turn /\ turn # a /\ turn \in Askers
    BY <2>1 DEF TypeOK, Askers
  <2>3. QED
    BY <1>1, <2>1, <2>2
<1>8. GrantsFit'
    BY <1>1 DEF Fits, GrantsFit
<1>9. JobsFit'
  <2>1. \A id \in jobs : thread'[asked[id].by].id = id
    <3> SUFFICES ASSUME NEW id \in jobs PROVE thread'[asked[id].by].id = id
        OBVIOUS
    <3>1. thread[asked[id].by].id = id /\ id \in Numbered
        BY DEF Fits, JobsFit, PromptNotifies
    <3>2. asked[id].by \in Askers
        BY <3>1, NumberedFacts
    <3>3. thread[a].id = None /\ id # None
        BY <3>1, NumberedAreIds, NoneIsNoId DEF Fits, ThreadsFit
    <3>4. QED
        BY <1>1, <3>1, <3>2, <3>3
  <2>2. loop' = "top" => OpenPrompt \notin jobs
    BY DEF Fits, JobsFit, PromptNotifies
  <2>3. QED
    BY <1>0, <2>1, <2>2 DEF Fits, JobsFit, PromptNotifies
<1>10. QED
    BY <1>2, <1>3, <1>4, <1>5, <1>6, <1>7, <1>8, <1>9 DEF Fits

\* The clock, while nothing it looks at changes.
LEMMA ClockStays ==
    ASSUME ClockFits, UNCHANGED <<asked, replies, modal, clock, idle>>
    PROVE  ClockFits'
    BY DEF ClockFits, Numbered, AskOpen, IsAsk

\* While the turn in flight stays, so does who may go on.
LEMMA SameTurn ==
    ASSUME GateInv, NEW a \in Askers, NEW c, thread[a].pc # "off",
           thread' = [thread EXCEPT ![a] = c], UNCHANGED <<turn, cancelled>>
    PROVE  /\ turn' # None => turn' \notin cancelled'
           /\ \A b \in Turns : b \notin cancelled' /\ thread'[b].pc # "off" => b = turn'
<1>1. \A b \in Turns : b \in Askers /\ (b # a => thread'[b] = thread[b])
    BY TypePieces DEF TypeOK, Askers
<1>2. QED
    BY <1>1, TypePieces DEF Fits, ThreadsFit

LEMMA ConsultKeeps ==
    ASSUME GateInv, NEW a \in Askers, NEW kind \in Kinds, NEW forced \in Hooked,
           Consult(a, kind, forced)
    PROVE  GateInv'
<1> DEFINE c == [Running EXCEPT !.pc = "asking", !.kind = kind, !.forced = forced]
<1>1. /\ thread[a].pc = "run" /\ thread' = [thread EXCEPT ![a] = c]
      /\ UNCHANGED <<asked, cancelled, turn, rows, replies, agentEvents, board, rules, jobs,
                     modal, abandoned, footer, shown, clock, idle, loop, consent>>
    BY DEF Consult, Goes, chanVars, gateVars, screenVars, timeVars
<1>2. c \in Calls /\ c.pc = "asking" /\ c.id = None /\ c.kind \in Kinds
    BY CallFacts, HookedAssumption DEF Calls, Kinds
<1> HIDE DEF c
<1>3. Fits'
    BY <1>1, <1>2, SameTurn, TypePieces, UnaskedKeeps
<1>4. TypeOK'
    BY <1>1, <1>2, TypePieces DEF TypeOK
<1>5. QED
    BY <1>1, <1>3, <1>4, TypePieces, ClockStays DEF GateInv

LEMMA ReviewedKeeps == ASSUME GateInv, NEW a \in Askers, Reviewed(a) PROVE GateInv'
<1>1. /\ thread[a].pc = "asking" /\ thread' = [thread EXCEPT ![a] = Running]
      /\ UNCHANGED <<asked, cancelled, turn, rows, replies, agentEvents, board, rules, jobs,
                     modal, abandoned, footer, shown, clock, idle, loop, consent>>
    BY DEF Reviewed, Goes, chanVars, gateVars, screenVars, timeVars
<1>2. Fits'
    BY <1>1, CallFacts, SameTurn, TypePieces, UnaskedKeeps
<1>3. TypeOK'
    BY <1>1, CallFacts, TypePieces DEF TypeOK
<1>4. QED
    BY <1>1, <1>2, <1>3, TypePieces, ClockStays DEF GateInv

LEMMA StopKeeps == ASSUME GateInv, NEW a \in Askers, Stop(a) PROVE GateInv'
<1>1. /\ thread[a].pc = "run" /\ thread' = [thread EXCEPT ![a] = AtRest]
      /\ UNCHANGED <<asked, cancelled, turn, rows, replies, agentEvents, board, rules, jobs,
                     modal, abandoned, footer, shown, clock, idle, loop, consent>>
    BY DEF Stop, Goes, chanVars, gateVars, screenVars, timeVars
<1>2. Fits'
    BY <1>1, CallFacts, SameTurn, TypePieces, UnaskedKeeps
<1>3. TypeOK'
    BY <1>1, CallFacts, TypePieces DEF TypeOK
<1>4. QED
    BY <1>1, <1>2, <1>3, TypePieces, ClockStays DEF GateInv

LEMMA StartTurnKeeps == ASSUME GateInv, NEW t \in Turns, StartTurn(t) PROVE GateInv'
<1>1. /\ loop' = "bottom" /\ turn = None /\ thread[t].pc = "off" /\ t \notin cancelled
      /\ turn' = t /\ thread' = [thread EXCEPT ![t] = Running]
      /\ UNCHANGED <<asked, cancelled, rows, replies, agentEvents, board, rules, jobs,
                     modal, abandoned, footer, shown, clock, idle, consent>>
    BY DEF StartTurn, Arm, Goes, gateVars, screenVars, timeVars
<1>2. t \in Askers
    BY DEF Askers
<1>3. \A b \in Turns : b \notin cancelled' /\ thread'[b].pc # "off" => b = turn'
  <2>1. \A b \in Turns : b \in Askers /\ (b # t => thread'[b] = thread[b])
    BY <1>1, TypePieces DEF TypeOK, Askers
  <2>2. QED
    BY <1>1, <2>1, TypePieces, NoTurnIsNone DEF Fits, ThreadsFit
<1>4. Fits'
    BY <1>1, <1>2, <1>3, CallFacts, TypePieces, UnaskedKeeps
<1>5. TypeOK'
    BY <1>1, <1>2, CallFacts, TypePieces DEF TypeOK
<1>6. QED
    BY <1>1, <1>4, <1>5, TypePieces, ClockStays DEF GateInv

LEMMA EndTurnKeeps == ASSUME GateInv, EndTurn PROVE GateInv'
<1>1. /\ loop' = "bottom" /\ turn # None /\ thread[turn].pc = "run"
      /\ turn' = None /\ cancelled' = cancelled \cup {turn}
      /\ thread' = [thread EXCEPT ![turn] = AtRest]
      /\ UNCHANGED <<asked, rows, replies, agentEvents, board, rules, jobs,
                     modal, abandoned, footer, shown, clock, idle, consent>>
    BY DEF EndTurn, Arm, Goes, gateVars, screenVars, timeVars
<1>2. turn \in Turns /\ turn \in Askers
    BY <1>1, TypePieces DEF Askers
<1>3. \A b \in Turns : b \notin cancelled' /\ thread'[b].pc # "off" => b = turn'
  <2>1. \A b \in Turns : b \in Askers /\ (b # turn => thread'[b] = thread[b])
    BY <1>1, TypePieces DEF TypeOK, Askers
  <2>2. QED
    BY <1>1, <2>1, TypePieces DEF Fits, ThreadsFit
<1>4. Fits'
    BY <1>1, <1>2, <1>3, CallFacts, TypePieces, UnaskedKeeps
<1>5. TypeOK'
    BY <1>1, <1>2, CallFacts, TypePieces DEF TypeOK
<1>6. QED
    BY <1>1, <1>4, <1>5, TypePieces, ClockStays DEF GateInv

\* What a request more makes of the requests.
LEMMA OneMore ==
    ASSUME TypeOK, Len(asked) < MaxAsked, NEW req \in Requests, asked' = Append(asked, req)
    PROVE  LET id == Len(asked) + 1 IN
           /\ asked' \in Seq(Requests) /\ Len(asked') <= MaxAsked
           /\ id \in Ids /\ id \notin Numbered /\ id # None /\ Numbered' = Numbered \cup {id}
           /\ asked'[id] = req /\ \A i \in Numbered : asked'[i] = asked[i]
<1>1. asked \in Seq(Requests) /\ Len(asked) \in Nat /\ MaxAsked \in Nat
    BY GateBoundsAssumption, LenProperties DEF TypeOK
<1>2. /\ asked' \in Seq(Requests) /\ Len(asked') = Len(asked) + 1
      /\ asked'[Len(asked) + 1] = req
      /\ \A i \in 1 .. Len(asked) : asked'[i] = asked[i]
    BY <1>1, AppendProperties
<1>3. Numbered' = Numbered \cup {Len(asked) + 1}
    BY <1>1, <1>2 DEF Numbered
<1>4. QED
    BY <1>1, <1>2, <1>3 DEF Numbered, Ids, None

LEMMA RaiseStep ==
    ASSUME GateInv, NEW a \in Askers, NEW c \in Calls, NEW req \in Requests,
           NEW id, id = Len(asked) + 1, Len(asked) < MaxAsked,
           thread[a].pc \in {"run", "asking"}, thread' = [thread EXCEPT ![a] = c],
           c.pc = "wait", c.id = id, req.by = a, req.kind = "ask" => a \in Turns,
           asked' = Append(asked, req), Send(a, id),
           jobs \subseteq jobs', jobs' \subseteq jobs \cup {id},
           UNCHANGED <<cancelled, turn, rows, board, rules, modal, abandoned, footer, shown,
                       clock, idle, loop, consent>>
    PROVE  GateInv'
<1>1. /\ asked' \in Seq(Requests) /\ Len(asked') <= MaxAsked
      /\ id \in Ids /\ id \notin Numbered /\ id # None /\ Numbered' = Numbered \cup {id}
      /\ asked'[id] = req /\ \A i \in Numbered : asked'[i] = asked[i]
    BY TypePieces, OneMore
<1>2. /\ \A i \in Numbered : IsAsk(i)' <=> IsAsk(i)
      /\ IsAsk(id)' => a \in Turns
    BY <1>1 DEF IsAsk
<1>3. /\ thread \in [Askers -> Calls] /\ thread'[a] = c
      /\ \A b \in Askers : b # a => thread'[b] = thread[b]
    BY TypePieces DEF TypeOK
<1>4. /\ Flight \subseteq Numbered /\ Pending(modal) \subseteq Numbered
      /\ abandoned \subseteq Numbered /\ Decided \subseteq Numbered
      /\ IsInjective(replies) /\ OnceOn(agentEvents) /\ replies \in Seq(Ids)
    BY TypePieces DEF Fits, PlacesFit, TypeOK
<1>5. /\ replies' \in Seq(Ids) /\ IsInjective(replies')
      /\ Range(replies')
            = Range(replies) \cup (IF a \in Turns /\ turn = a THEN {id} ELSE {})
  <2>1. id \notin Range(replies)
    BY <1>1, <1>4 DEF Flight
  <2>2. CASE a \in Turns /\ turn = a
    <3>1. replies' = Append(replies, id)
        BY <2>2 DEF Send
    <3>2. /\ Append(replies, id) \in Seq(Ids)
          /\ Range(Append(replies, id)) = Range(replies) \cup {id}
          /\ IsInjective(Append(replies, id))
        BY <1>1, <1>4, <2>1, AppendFacts
    <3>3. QED
        BY <2>2, <3>1, <3>2
  <2>3. CASE ~(a \in Turns /\ turn = a)
    BY <1>4, <2>3 DEF Send
  <2>4. QED
    BY <2>2, <2>3
<1>6. /\ agentEvents' \in Seq(Messages) /\ OnceOn(agentEvents')
      /\ IdsOn(agentEvents') = IdsOn(agentEvents) \cup (IF a \in Turns THEN {} ELSE {id})
  <2>1. CASE a \in Turns
    BY <1>4, <2>1, TypePieces DEF Send
  <2>2. CASE a \notin Turns
    <3> DEFINE e == [type |-> "Permission", id |-> id, by |-> a]
    <3>1. e \in Messages /\ e.type = "Permission" /\ e.id = id
        BY <1>1, <2>2, AskersSplit DEF Messages
    <3>2. agentEvents' = Append(agentEvents, e)
        BY <2>2 DEF Send
    <3>3. id \notin IdsOn(agentEvents)
        BY <1>1, <1>4 DEF Flight
    <3> HIDE DEF e
    <3>4. QED
        BY <2>2, <3>1, <3>2, <3>3, TypePieces, ChannelSend
  <2>3. QED
    BY <2>1, <2>2
<1>7. /\ IdsOn(agentEvents)' = IdsOn(agentEvents') /\ (OnceOn(agentEvents)' <=> OnceOn(agentEvents'))
      /\ Decided' = Decided /\ Pending(modal)' = Pending(modal)
    BY DEF IdsOn, OnceOn, Permissions, Decided, Pending
<1>8. Flight \subseteq Flight' /\ Flight' \subseteq Flight \cup {id}
    BY <1>5, <1>6, <1>7 DEF Flight
<1>9. (ModalFits(modal) /\ KindsFit(modal))'
  <2>1. ModalFits(modal)'
    BY TypePieces DEF ModalFits, Modals
  <2>2. Range(modal.perms) \cup Range(modal.asks) \subseteq Numbered
    BY <1>4 DEF Pending
  <2>3. KindsFit(modal)'
    BY <1>2, <2>2, TypePieces DEF KindsFit
  <2>4. QED
    BY <2>1, <2>3
<1>10. ThreadsFit'
  <2> SUFFICES ASSUME NEW b \in Askers
               PROVE  /\ thread'[b].pc \in {"wait", "woken"} =>
                            thread'[b].id \in Numbered' /\ asked'[thread'[b].id].by = b
                      /\ thread'[b].pc \in {"off", "run", "asking"} => thread'[b].id = None
                      /\ thread'[b].pc = "asking" => thread'[b].kind \in Kinds
                      /\ b \in Turns /\ b \notin cancelled /\ thread'[b].pc # "off" => b = turn
    BY TypePieces DEF ThreadsFit
  <2>1. CASE b = a
    <3>1. a \in Turns /\ a \notin cancelled => a = turn
        BY TypePieces DEF Fits, ThreadsFit
    <3>2. QED
        BY <1>1, <1>3, <2>1, <3>1
  <2>2. CASE b # a
    BY <1>1, <1>3, <2>2, TypePieces DEF Fits, ThreadsFit
  <2>3. QED
    BY <2>1, <2>2
<1>11. RequestsFit'
  <2>1. \A i \in Numbered : asked'[i].by = asked[i].by
    BY <1>1
  <2>2. asked'[id].by = a
    BY <1>1
  <2>3. \A i \in Numbered' : IsAsk(i)' => asked'[i].by \in Turns
    BY <1>1, <1>2, <2>1, <2>2, TypePieces DEF Fits, RequestsFit
  <2>4. \A i \in Range(replies') : asked'[i].by \in Turns
    BY <1>4, <1>5, <2>1, <2>2, TypePieces DEF Fits, RequestsFit, Flight
  <2>5. \A i \in IdsOn(agentEvents') : asked'[i].by \in Agents
    BY <1>4, <1>6, <2>1, <2>2, AskersSplit, TypePieces DEF Fits, RequestsFit, Flight
  <2>6. QED
    BY <1>7, <2>3, <2>4, <2>5 DEF RequestsFit
<1>12. PlacesFit'
    BY <1>1, <1>4, <1>5, <1>6, <1>7, <1>8, TypePieces DEF Fits, PlacesFit
<1>13. WaitsFit'
  <2> SUFFICES ASSUME NEW b \in Askers, thread'[b].pc = "wait", b \notin cancelled
               PROVE  thread'[b].id \in Flight' \cup Pending(modal) \cup abandoned \cup Decided
    BY <1>7 DEF WaitsFit
  <2>1. CASE b = a
    <3>1. a \in Turns => a = turn
        BY <2>1, TypePieces DEF Fits, ThreadsFit
    <3>2. id \in Flight'
        BY <1>5, <1>6, <1>7, <3>1 DEF Flight
    <3>3. QED
        BY <1>3, <2>1, <3>2
  <2>2. CASE b # a
    BY <1>3, <1>8, <2>2, TypePieces DEF Fits, WaitsFit
  <2>3. QED
    BY <2>1, <2>2
<1>14. AsksFit'
  <2> SUFFICES ASSUME NEW i \in Range(replies') \cup Pending(modal), IsAsk(i)'
               PROVE  turn # None /\ thread'[turn].pc = "wait" /\ thread'[turn].id = i
    BY <1>7 DEF AsksFit
  <2>1. CASE i \in Range(replies) \cup Pending(modal)
    <3>1. IsAsk(i)
        BY <1>2, <1>4, <2>1 DEF Flight
    <3>2. turn # None /\ thread[turn].pc = "wait" /\ thread[turn].id = i
        BY <2>1, <3>1, TypePieces DEF Fits, AsksFit
    <3>3. turn \in Askers /\ turn # a
        BY <3>2, TypePieces DEF Askers
    <3>4. QED
        BY <1>3, <3>2, <3>3
  <2>2. CASE i = id /\ turn = a /\ a \in Turns
    BY <1>3, <2>2, NoTurnIsNone
  <2>3. QED
    BY <1>5, <2>1, <2>2
<1>15. GrantsFit'
  <2>1. board[id] = "none"
    BY <1>1, <1>4 DEF Decided
  <2>2. QED
    BY <1>3, <2>1, TypePieces DEF Fits, GrantsFit
<1>16. JobsFit'
  <2>0. /\ \A i \in jobs : thread[asked[i].by].id = i
        /\ loop = "top" => OpenPrompt \notin jobs
        /\ jobs \subseteq Numbered /\ shown \in Numbered \cup {None} /\ shown \notin jobs
    BY TypePieces DEF Fits, JobsFit, PromptNotifies
  <2>1. \A i \in jobs' : thread'[asked'[i].by].id = i
    <3>1. ASSUME NEW i \in jobs PROVE thread'[asked'[i].by].id = i
        <4>1. /\ asked'[i].by = asked[i].by /\ asked[i].by \in Askers
              /\ thread[asked[i].by].id = i /\ i \in Numbered
            BY <1>1, <2>0, TypePieces, NumberedFacts
        <4>2. thread[a].id = None /\ i # None
            BY <4>1, TypePieces, NumberedAreIds, NoneIsNoId DEF Fits, ThreadsFit
        <4>3. QED
            BY <1>3, <4>1, <4>2
    <3>2. thread'[asked'[id].by].id = id
        BY <1>1, <1>3
    <3>3. QED
        BY <3>1, <3>2
  <2>2. OpenPrompt' = OpenPrompt /\ OpenPrompt # id
    <3>1. modal.open # None => modal.open \in Numbered
        BY <1>4 DEF Pending
    <3>2. QED
        BY <1>1, <1>2, <3>1 DEF OpenPrompt
  <2>3. QED
    BY <1>1, <2>0, <2>1, <2>2 DEF JobsFit, PromptNotifies
<1>17. TypeOK'
    BY <1>1, <1>5, <1>6, TypePieces DEF TypeOK
<1>18. ClockFits'
  <2>1. AskOpen(modal)' = AskOpen(modal)
    <3>1. modal.open # None => modal.open \in Numbered
        BY <1>4 DEF Pending
    <3>2. QED
        BY <1>2, <3>1 DEF AskOpen
  <2>2. QED
    BY <1>1, <1>5, <2>1, TypePieces DEF ClockFits
<1>19. QED
    BY <1>9, <1>10, <1>11, <1>12, <1>13, <1>14, <1>15, <1>16, <1>17, <1>18 DEF GateInv, Fits

LEMMA RaiseKeeps == ASSUME GateInv, NEW a \in Askers, Raise(a) PROVE GateInv'
<1> DEFINE id == Len(asked) + 1
           c == [thread[a] EXCEPT !.pc = "wait", !.id = id]
           req == [by |-> a, kind |-> thread[a].kind, forced |-> thread[a].forced]
<1>1. /\ thread[a].pc = "asking" /\ Len(asked) < MaxAsked
      /\ asked' = Append(asked, req) /\ thread' = [thread EXCEPT ![a] = c]
      /\ jobs' = jobs \cup {id} /\ Send(a, id)
      /\ UNCHANGED <<cancelled, turn, rows, board, rules, modal, abandoned, footer, shown,
                     clock, idle, loop, consent>>
    BY DEF Raise, Goes, screenVars, timeVars
<1>2. thread[a] \in Calls /\ thread[a].kind \in Kinds
    BY <1>1, TypePieces DEF TypeOK, Fits, ThreadsFit
<1>3. req \in Requests /\ req.by = a /\ req.kind # "ask"
    BY <1>2 DEF Requests, Calls, Kinds
<1>4. id \in Ids
    BY <1>1, <1>3, TypePieces, OneMore
<1>5. c \in Calls /\ c.pc = "wait" /\ c.id = id
    BY <1>2, <1>4 DEF Calls
<1> HIDE DEF id, c, req
<1>6. QED
    BY <1>1, <1>3, <1>5, RaiseStep DEF id

LEMMA AskUserKeeps == ASSUME GateInv, NEW a \in Askers, AskUser(a) PROVE GateInv'
<1> DEFINE id == Len(asked) + 1
           c == [Running EXCEPT !.pc = "wait", !.id = id, !.kind = "ask"]
           req == [by |-> a, kind |-> "ask", forced |-> FALSE]
<1>1. /\ a \in Turns /\ thread[a].pc = "run" /\ Len(asked) < MaxAsked
      /\ asked' = Append(asked, req) /\ thread' = [thread EXCEPT ![a] = c]
      /\ Send(a, id)
      /\ UNCHANGED <<cancelled, turn, rows, board, rules, jobs, modal, abandoned, footer, shown,
                     clock, idle, loop, consent>>
    BY DEF AskUser, Goes, gateVars, screenVars, timeVars
<1>2. req \in Requests /\ req.by = a
    BY DEF Requests
<1>3. id \in Ids
    BY <1>1, <1>2, TypePieces, OneMore
<1>4. c \in Calls /\ c.pc = "wait" /\ c.id = id
    BY <1>3, CallFacts DEF Calls
<1> HIDE DEF id, c, req
<1>5. QED
    BY <1>1, <1>2, <1>4, RaiseStep DEF id

\* No two threads have the same request.
LEMMA OwnRequests ==
    ASSUME GateInv, NEW a \in Askers, NEW b \in Askers, a # b,
           thread[a].pc \in {"wait", "woken"}, thread[b].pc \in {"wait", "woken"}
    PROVE  thread[a].id # thread[b].id
    BY TypePieces DEF Fits, ThreadsFit

\* The parts of the invariant that a thread's waking leaves alone.
LEMMA SamePlaces ==
    ASSUME GateInv, UNCHANGED <<asked, replies, agentEvents, modal>>
    PROVE  /\ Numbered' = Numbered /\ (\A i : IsAsk(i)' <=> IsAsk(i))
           /\ Pending(modal)' = Pending(modal) /\ Flight' = Flight
           /\ IdsOn(agentEvents)' = IdsOn(agentEvents) /\ OnceOn(agentEvents)'
           /\ OpenPrompt' = OpenPrompt /\ AskOpen(modal)' = AskOpen(modal)
           /\ (ModalFits(modal) /\ KindsFit(modal))' /\ RequestsFit'
<1>1. /\ Numbered' = Numbered /\ (\A i : IsAsk(i)' <=> IsAsk(i))
      /\ Pending(modal)' = Pending(modal) /\ Flight' = Flight
      /\ IdsOn(agentEvents)' = IdsOn(agentEvents) /\ (OnceOn(agentEvents)' <=> OnceOn(agentEvents))
      /\ OpenPrompt' = OpenPrompt /\ AskOpen(modal)' = AskOpen(modal)
    BY DEF Numbered, IsAsk, Pending, Flight, IdsOn, OnceOn, Permissions, OpenPrompt, AskOpen
<1>2. (ModalFits(modal) /\ KindsFit(modal))'
    BY <1>1, TypePieces DEF ModalFits, KindsFit, Modals
<1>3. RequestsFit'
    BY <1>1, TypePieces DEF Fits, RequestsFit
<1>4. QED
    BY <1>1, <1>2, <1>3, TypePieces

LEMMA WakeKeeps == ASSUME GateInv, NEW a \in Askers, Wake(a) PROVE GateInv'
<1> DEFINE id == thread[a].id
<1>1. PICK got \in {"approve", "always", "deny", "answer", "timedout", "cancelled"} :
          /\ thread[a].pc = "wait"
          /\ thread' = [thread EXCEPT ![a] = [thread[a] EXCEPT !.pc = "woken", !.got = got]]
          /\ \/ board[id] # "none" /\ got = board[id] /\ board' = [board EXCEPT ![id] = "none"]
             \/ board[id] = "none" /\ got = "cancelled" /\ a \in cancelled /\ board' = board
          /\ UNCHANGED <<asked, cancelled, turn, rows, replies, agentEvents, rules, jobs,
                         modal, abandoned, footer, shown, clock, idle, loop, consent>>
  <2>1. thread[a].pc = "wait" => id \in Ids
    BY TypePieces, NumberedAreIds DEF Fits, ThreadsFit
  <2>2. id \in Ids => board[id] \in {"none", "approve", "always", "deny", "answer", "timedout"}
    BY TypePieces DEF Boards
  <2>3. QED
    BY <2>1, <2>2 DEF Wake, Goes, chanVars, screenVars, timeVars
<1> DEFINE c == [thread[a] EXCEPT !.pc = "woken", !.got = got]
<1>2. thread[a] \in Calls /\ thread \in [Askers -> Calls]
    BY TypePieces DEF TypeOK
<1>3. c \in Calls /\ c.pc = "woken" /\ c.id = id /\ c.got = got
    BY <1>2 DEF Calls
<1>4. thread' = [thread EXCEPT ![a] = c]
    BY <1>1
<1> HIDE DEF c
<1>5. /\ thread'[a] = c /\ \A b \in Askers : b # a => thread'[b] = thread[b]
      /\ thread' \in [Askers -> Calls]
    BY <1>2, <1>3, <1>4
<1>6. id \in Numbered /\ asked[id].by = a /\ id \in Ids
    BY <1>1, TypePieces, NumberedAreIds DEF Fits, ThreadsFit
<1>7. /\ board' \in Boards /\ Decided' \subseteq Decided
      /\ \A i \in Ids : i # id => board'[i] = board[i]
    BY <1>1, <1>6, TypePieces DEF Boards, Decided
<1>8. /\ Numbered' = Numbered /\ (\A i : IsAsk(i)' <=> IsAsk(i))
      /\ Pending(modal)' = Pending(modal) /\ Flight' = Flight
      /\ OpenPrompt' = OpenPrompt /\ OnceOn(agentEvents)'
      /\ (ModalFits(modal) /\ KindsFit(modal))' /\ RequestsFit'
    BY <1>1, SamePlaces
<1>9. ThreadsFit'
  <2> SUFFICES ASSUME NEW b \in Askers
               PROVE  /\ thread'[b].pc \in {"wait", "woken"} =>
                            thread'[b].id \in Numbered /\ asked[thread'[b].id].by = b
                      /\ thread'[b].pc \in {"off", "run", "asking"} => thread'[b].id = None
                      /\ thread'[b].pc = "asking" => thread'[b].kind \in Kinds
                      /\ b \in Turns /\ b \notin cancelled /\ thread'[b].pc # "off" => b = turn
    BY <1>1, <1>8, TypePieces DEF ThreadsFit
  <2>1. CASE b = a
    <3>1. a \in Turns /\ a \notin cancelled => a = turn
        BY <1>1, TypePieces DEF Fits, ThreadsFit
    <3>2. QED
        BY <1>3, <1>5, <1>6, <2>1, <3>1
  <2>2. CASE b # a
    BY <1>5, <2>2, TypePieces DEF Fits, ThreadsFit
  <2>3. QED
    BY <2>1, <2>2
<1>10. PlacesFit'
    BY <1>1, <1>7, <1>8, TypePieces DEF Fits, PlacesFit
<1>11. WaitsFit'
  <2> SUFFICES ASSUME NEW b \in Askers, thread'[b].pc = "wait", b \notin cancelled
               PROVE  thread'[b].id \in Flight \cup Pending(modal) \cup abandoned \cup Decided'
    BY <1>1, <1>8 DEF WaitsFit
  <2>1. b # a /\ thread'[b] = thread[b] /\ thread[b].id # id
    BY <1>1, <1>3, <1>5, OwnRequests
  <2>2. thread[b].id \in Flight \cup Pending(modal) \cup abandoned \cup Decided
    BY <2>1, TypePieces DEF Fits, WaitsFit
  <2>3. thread[b].id \in Decided => thread[b].id \in Decided'
    BY <1>7, <2>1 DEF Decided
  <2>4. QED
    BY <2>1, <2>2, <2>3
<1>12. AsksFit'
  <2> SUFFICES ASSUME NEW i \in Range(replies) \cup Pending(modal), IsAsk(i)
               PROVE  turn # None /\ thread'[turn].pc = "wait" /\ thread'[turn].id = i
    BY <1>1, <1>8 DEF AsksFit
  <2>1. turn # None /\ thread[turn].pc = "wait" /\ thread[turn].id = i /\ turn \in Askers
    BY TypePieces DEF Fits, AsksFit, Askers
  <2>2. turn # a
    <3>1. turn \notin cancelled
        BY <2>1, TypePieces
    <3>2. i \notin Decided
        BY TypePieces DEF Fits, PlacesFit, Flight
    <3>3. QED
        BY <1>1, <1>6, <2>1, <3>1, <3>2 DEF Decided
  <2>3. QED
    BY <1>5, <2>1, <2>2
<1>13. GrantsFit'
  <2> SUFFICES ASSUME NEW b \in Askers
               PROVE  /\ thread'[b].pc = "wait" /\ board'[thread'[b].id] \in {"approve", "always"}
                            => consent[thread'[b].id] # "nobody"
                      /\ thread'[b].pc = "woken" /\ thread'[b].got \in {"approve", "always"}
                            => consent[thread'[b].id] # "nobody"
    BY <1>1 DEF GrantsFit
  <2>1. CASE b = a
    BY <1>1, <1>3, <1>5, <2>1, TypePieces DEF Fits, GrantsFit
  <2>2. CASE b # a
    <3>1. thread[b].pc = "wait" => thread[b].id # id /\ thread[b].id \in Ids
        BY <1>1, <2>2, OwnRequests, TypePieces, NumberedAreIds DEF Fits, ThreadsFit
    <3>2. QED
        BY <1>5, <1>7, <2>2, <3>1, TypePieces DEF Fits, GrantsFit
  <2>3. QED
    BY <2>1, <2>2
<1>14. JobsFit'
  <2>1. \A b \in Askers : thread'[b].id = thread[b].id
    BY <1>3, <1>5
  <2>2. \A i \in jobs : asked[i].by \in Askers
    BY TypePieces, NumberedFacts DEF Fits, JobsFit
  <2>3. QED
    BY <1>1, <1>8, <2>1, <2>2, TypePieces DEF Fits, JobsFit, PromptNotifies
<1>15. TypeOK'
    BY <1>1, <1>5, <1>7, TypePieces DEF TypeOK, Boards
<1>16. QED
    BY <1>1, <1>8, <1>9, <1>10, <1>11, <1>12, <1>13, <1>14, <1>15, TypePieces, ClockStays
        DEF GateInv, Fits

LEMMA ResolveKeeps == ASSUME GateInv, NEW a \in Askers, Resolve(a) PROVE GateInv'
<1> DEFINE id == thread[a].id
<1>1. /\ thread[a].pc = "woken" /\ jobs' = jobs \ {id}
      /\ rules' = (IF thread[a].got = "always" THEN Remember(rules, thread[a].kind) ELSE rules)
      /\ thread' = [thread EXCEPT ![a] = Running]
      /\ consent' = [consent EXCEPT ![id] = "nobody"]
      /\ UNCHANGED <<asked, cancelled, turn, rows, replies, agentEvents, board,
                     modal, abandoned, footer, shown, clock, idle, loop>>
    BY DEF Resolve, Goes, chanVars, screenVars, timeVars
<1>2. /\ thread'[a] = Running /\ \A b \in Askers : b # a => thread'[b] = thread[b]
      /\ thread' \in [Askers -> Calls]
    BY <1>1, CallFacts, TypePieces DEF TypeOK
<1>3. id \in Numbered /\ asked[id].by = a /\ id \in Ids
    BY <1>1, TypePieces, NumberedAreIds DEF Fits, ThreadsFit
<1>4. consent' \in Consents /\ \A i \in Ids : i # id => consent'[i] = consent[i]
    BY <1>1, <1>3, TypePieces DEF Consents
<1>5. /\ Numbered' = Numbered /\ (\A i : IsAsk(i)' <=> IsAsk(i)) /\ Decided' = Decided
      /\ Pending(modal)' = Pending(modal) /\ Flight' = Flight
      /\ OpenPrompt' = OpenPrompt /\ OnceOn(agentEvents)'
      /\ (ModalFits(modal) /\ KindsFit(modal))' /\ RequestsFit'
    BY <1>1, SamePlaces DEF Decided
<1>6. ThreadsFit'
  <2> SUFFICES ASSUME NEW b \in Askers
               PROVE  /\ thread'[b].pc \in {"wait", "woken"} =>
                            thread'[b].id \in Numbered /\ asked[thread'[b].id].by = b
                      /\ thread'[b].pc \in {"off", "run", "asking"} => thread'[b].id = None
                      /\ thread'[b].pc = "asking" => thread'[b].kind \in Kinds
                      /\ b \in Turns /\ b \notin cancelled /\ thread'[b].pc # "off" => b = turn
    BY <1>1, <1>5, TypePieces DEF ThreadsFit
  <2>1. CASE b = a
    <3>1. a \in Turns /\ a \notin cancelled => a = turn
        BY <1>1, TypePieces DEF Fits, ThreadsFit
    <3>2. QED
        BY <1>2, <2>1, <3>1, CallFacts
  <2>2. CASE b # a
    BY <1>2, <2>2, TypePieces DEF Fits, ThreadsFit
  <2>3. QED
    BY <2>1, <2>2
<1>7. PlacesFit'
    BY <1>1, <1>5, TypePieces DEF Fits, PlacesFit
<1>8. WaitsFit'
    BY <1>1, <1>2, <1>5, CallFacts, TypePieces DEF Fits, WaitsFit
<1>9. AsksFit'
  <2> SUFFICES ASSUME NEW i \in Range(replies) \cup Pending(modal), IsAsk(i)
               PROVE  turn # None /\ thread'[turn].pc = "wait" /\ thread'[turn].id = i
    BY <1>1, <1>5 DEF AsksFit
  <2>1. turn # None /\ thread[turn].pc = "wait" /\ thread[turn].id = i /\ turn \in Askers
    BY TypePieces DEF Fits, AsksFit, Askers
  <2>2. QED
    BY <1>1, <1>2, <2>1
<1>10. GrantsFit'
  <2> SUFFICES ASSUME NEW b \in Askers
               PROVE  /\ thread'[b].pc = "wait" /\ board[thread'[b].id] \in {"approve", "always"}
                            => consent'[thread'[b].id] # "nobody"
                      /\ thread'[b].pc = "woken" /\ thread'[b].got \in {"approve", "always"}
                            => consent'[thread'[b].id] # "nobody"
    BY <1>1 DEF GrantsFit
  <2>1. CASE b = a
    BY <1>2, <2>1, CallFacts
  <2>2. CASE b # a
    <3>1. thread[b].pc \in {"wait", "woken"} => thread[b].id # id /\ thread[b].id \in Ids
        BY <1>1, <2>2, OwnRequests, TypePieces, NumberedAreIds DEF Fits, ThreadsFit
    <3>2. QED
        BY <1>2, <1>4, <2>2, <3>1, TypePieces DEF Fits, GrantsFit
  <2>3. QED
    BY <2>1, <2>2
<1>11. JobsFit'
  <2>1. ASSUME NEW i \in jobs, i # id PROVE thread'[asked[i].by].id = i
    <3>1. thread[asked[i].by].id = i /\ asked[i].by \in Askers
        BY TypePieces, NumberedFacts DEF Fits, JobsFit, PromptNotifies
    <3>2. asked[i].by # a
        BY <2>1, <3>1
    <3>3. QED
        BY <1>2, <3>1, <3>2
  <2>2. QED
    BY <1>1, <1>5, <2>1, TypePieces DEF Fits, JobsFit, PromptNotifies
<1>12. rules' \in RuleSets
    BY <1>1, TypePieces, RemembersRules
<1>13. TypeOK'
    BY <1>1, <1>2, <1>4, <1>12, TypePieces DEF TypeOK, Consents, RuleSets
<1>14. QED
    BY <1>1, <1>5, <1>6, <1>7, <1>8, <1>9, <1>10, <1>11, <1>13, TypePieces, ClockStays
        DEF GateInv, Fits

LEMMA LeadStopsKeeps == ASSUME GateInv, NEW a \in Agents, LeadStops(a) PROVE GateInv'
<1> DEFINE e == [type |-> "Stopped", id |-> None, by |-> a]
<1>1. /\ cancelled' = cancelled \cup {a}
      /\ agentEvents' = Append(agentEvents, e)
      /\ UNCHANGED <<asked, thread, turn, rows, replies, board, rules, jobs, modal, abandoned,
                     footer, shown, clock, idle, loop, consent>>
    BY DEF LeadStops, gateVars, screenVars, timeVars
<1>2. e \in Messages /\ e.type # "Permission"
    BY DEF Messages
<1> HIDE DEF e
<1>3. /\ agentEvents' \in Seq(Messages) /\ IdsOn(agentEvents') = IdsOn(agentEvents)
      /\ OnceOn(agentEvents')
    BY <1>1, <1>2, TypePieces, ChannelSend
<1>4. a \in Askers /\ (turn # None => turn # a) /\ cancelled \subseteq cancelled'
    BY <1>1, TypePieces, AskersAssumption DEF Askers
<1>5. /\ Numbered' = Numbered /\ (\A i : IsAsk(i)' <=> IsAsk(i)) /\ Decided' = Decided
      /\ Pending(modal)' = Pending(modal) /\ OpenPrompt' = OpenPrompt
      /\ IdsOn(agentEvents)' = IdsOn(agentEvents) /\ OnceOn(agentEvents)'
      /\ Flight' = Flight
  <2>1. IdsOn(agentEvents)' = IdsOn(agentEvents') /\ (OnceOn(agentEvents)' <=> OnceOn(agentEvents'))
    BY DEF IdsOn, OnceOn, Permissions
  <2>2. QED
    BY <1>1, <1>3, <2>1 DEF Numbered, IsAsk, Decided, Pending, Flight, OpenPrompt
<1>6. (ModalFits(modal) /\ KindsFit(modal))'
    BY <1>1, <1>5, TypePieces DEF ModalFits, KindsFit, Modals
<1>7. ThreadsFit'
    BY <1>1, <1>4, <1>5, TypePieces DEF Fits, ThreadsFit
<1>8. RequestsFit'
    BY <1>1, <1>5, TypePieces DEF Fits, RequestsFit
<1>9. PlacesFit'
    BY <1>1, <1>5, TypePieces DEF Fits, PlacesFit
<1>10. WaitsFit'
    BY <1>1, <1>4, <1>5, TypePieces DEF Fits, WaitsFit
<1>11. AsksFit' /\ GrantsFit'
    BY <1>1, <1>5, TypePieces DEF Fits, AsksFit, GrantsFit
<1>12. JobsFit'
    BY <1>1, <1>5, TypePieces DEF Fits, JobsFit, PromptNotifies
<1>13. TypeOK'
    BY <1>1, <1>3, <1>4, TypePieces DEF TypeOK
<1>14. QED
    BY <1>1, <1>6, <1>7, <1>8, <1>9, <1>10, <1>11, <1>12, <1>13, TypePieces, ClockStays
        DEF GateInv, Fits

-----------------------------------------------------------------------------
(* Time, and the tail of an iteration.                                     *)

LEMMA FitsStay ==
    ASSUME GateInv, UNCHANGED <<asked, thread, cancelled, turn, replies, agentEvents, board,
                                jobs, modal, abandoned, shown, loop, consent>>
    PROVE  Fits'
<1>1. /\ Numbered' = Numbered /\ (\A i : IsAsk(i)' <=> IsAsk(i)) /\ Decided' = Decided
      /\ Pending(modal)' = Pending(modal) /\ Flight' = Flight
      /\ OpenPrompt' = OpenPrompt /\ OnceOn(agentEvents)'
      /\ (ModalFits(modal) /\ KindsFit(modal))' /\ RequestsFit'
    BY SamePlaces DEF Decided
<1>2. ThreadsFit' /\ PlacesFit' /\ WaitsFit'
    BY <1>1, TypePieces DEF Fits, ThreadsFit, PlacesFit, WaitsFit
<1>3. AsksFit' /\ GrantsFit' /\ JobsFit'
    BY <1>1, TypePieces DEF Fits, AsksFit, GrantsFit, JobsFit, PromptNotifies
<1>4. QED
    BY <1>1, <1>2, <1>3 DEF Fits

LEMMA TimePassesKeeps == ASSUME GateInv, TimePasses PROVE GateInv'
<1>1. /\ idle' = (IF AskOpen(modal) # None /\ idle < Wait THEN idle + 1 ELSE idle)
      /\ clock' = (IF clock.age \in 0 .. Wait - 1 THEN [clock EXCEPT !.age = @ + 1] ELSE clock)
      /\ UNCHANGED <<asked, thread, cancelled, turn, rows, replies, agentEvents, board, rules,
                     jobs, modal, abandoned, footer, shown, loop, consent>>
    BY DEF TimePasses, threadVars, chanVars, gateVars, screenVars
<1>2. clock \in Clocks /\ idle \in 0 .. Wait /\ Wait \in Nat \ {0} /\ ClockFits
    BY WaitAssumption DEF GateInv, TypeOK, Clocks
<1>3. Fits'
    BY <1>1, FitsStay
<1>4. /\ clock' \in Clocks /\ clock'.open = clock.open
      /\ clock'.age = IF clock.age \in 0 .. Wait - 1 THEN clock.age + 1 ELSE clock.age
    BY <1>1, <1>2 DEF Clocks
<1>5. idle' \in 0 .. Wait
    BY <1>1, <1>2
<1>6. TypeOK'
    BY <1>1, <1>4, <1>5, TypePieces DEF TypeOK, Clocks
<1>7. ClockFits'
  <2>1. Numbered' = Numbered /\ AskOpen(modal)' = AskOpen(modal)
    BY <1>1, SamePlaces
  <2>2. clock.age \in -1 .. Wait /\ (clock'.age >= 0 => clock.age >= 0)
    BY <1>2, <1>4 DEF Clocks
  <2>3. ASSUME clock.age >= 0, clock.open # None, clock.open = AskOpen(modal)
        PROVE  clock'.age <= idle'
    <3>1. clock.age <= idle
        BY <1>2, <2>3 DEF ClockFits
    <3>2. clock'.age <= Wait /\ clock'.age <= clock.age + 1
        BY <1>2, <1>4, <2>2
    <3>3. idle' = IF idle < Wait THEN idle + 1 ELSE idle
        BY <1>1, <2>3
    <3>4. QED
        BY <1>2, <1>4, <2>2, <3>1, <3>2, <3>3
  <2>4. QED
    BY <1>1, <1>2, <1>4, <2>1, <2>2, <2>3 DEF ClockFits
<1>8. QED
    BY <1>3, <1>6, <1>7 DEF GateInv

LEMMA AfterIterationKeeps == ASSUME GateInv, AfterIteration PROVE GateInv'
<1>1. /\ loop' = "top"
      /\ board' = [id \in Ids |->
                    IF id \notin abandoned THEN board[id]
                    ELSE IF IsAsk(id) THEN "answer" ELSE "deny"]
      /\ abandoned' = {}
      /\ shown' = OpenPrompt
      /\ jobs' = (IF OpenPrompt = shown THEN jobs ELSE jobs \ {OpenPrompt})
      /\ UNCHANGED <<asked, thread, cancelled, turn, rows, replies, agentEvents, rules, modal,
                     footer, clock, idle, consent>>
    BY DEF AfterIteration, threadVars, chanVars, timeVars
<1>2. /\ board' \in Boards
      /\ \A id \in Ids :
            IF id \in abandoned THEN board'[id] \in {"answer", "deny"} ELSE board'[id] = board[id]
    BY <1>1, TypePieces DEF Boards
<1>3. abandoned \subseteq Numbered /\ abandoned \subseteq Ids
    BY TypePieces, NumberedAreIds DEF Fits, PlacesFit
<1>4. Decided' = Decided \cup abandoned
    BY <1>2, <1>3 DEF Decided
<1>5. /\ Numbered' = Numbered /\ (\A i : IsAsk(i)' <=> IsAsk(i))
      /\ Pending(modal)' = Pending(modal) /\ Flight' = Flight
      /\ OpenPrompt' = OpenPrompt /\ OnceOn(agentEvents)'
      /\ (ModalFits(modal) /\ KindsFit(modal))' /\ RequestsFit'
    BY <1>1, SamePlaces
<1>6. ThreadsFit'
    BY <1>1, <1>5, TypePieces DEF Fits, ThreadsFit
<1>7. PlacesFit'
    BY <1>1, <1>3, <1>4, <1>5, TypePieces DEF Fits, PlacesFit
<1>8. WaitsFit'
    BY <1>1, <1>4, <1>5, TypePieces DEF Fits, WaitsFit
<1>9. AsksFit'
    BY <1>1, <1>5, TypePieces DEF Fits, AsksFit
<1>10. GrantsFit'
  <2>1. \A a \in Askers : thread[a].pc = "wait" => thread[a].id \in Ids
    BY TypePieces, NumberedAreIds DEF Fits, ThreadsFit
  <2>2. \A id \in Ids : board'[id] \in {"approve", "always"} => board'[id] = board[id]
    BY <1>2
  <2>3. QED
    BY <1>1, <2>1, <2>2, TypePieces DEF Fits, GrantsFit
<1>11. OpenPrompt \in Numbered \cup {None}
    BY TypePieces DEF OpenPrompt, Fits, PlacesFit, Pending
<1>12. JobsFit'
  <2>1. jobs' \subseteq jobs /\ OpenPrompt \notin jobs'
    BY <1>1, TypePieces DEF Fits, JobsFit
  <2>2. QED
    BY <1>1, <1>5, <1>11, <2>1, TypePieces DEF Fits, JobsFit, PromptNotifies
<1>13. TypeOK'
  <2>1. shown' \in Ids \cup {None} /\ jobs' \subseteq Ids
    BY <1>1, <1>11, TypePieces, NumberedAreIds DEF TypeOK
  <2>2. QED
    BY <1>1, <1>2, <2>1, TypePieces DEF TypeOK, Boards
<1>14. QED
    BY <1>1, <1>5, <1>6, <1>7, <1>8, <1>9, <1>10, <1>12, <1>13, TypePieces, ClockStays
        DEF GateInv, Fits

LEMMA GateStutters == ASSUME GateInv, UNCHANGED vars PROVE GateInv'
<1>1. UNCHANGED <<asked, thread, cancelled, turn, rows, replies, agentEvents, board, rules, jobs,
                  modal, abandoned, footer, shown, clock, idle, loop, consent>>
    BY DEF vars, threadVars, chanVars, gateVars, screenVars, timeVars
<1>2. TypeOK'
    BY <1>1, TypePieces DEF TypeOK
<1>3. QED
    BY <1>1, <1>2, FitsStay, TypePieces, ClockStays DEF GateInv

-----------------------------------------------------------------------------
(* The specification.                                                      *)

LEMMA GateStarts == ASSUME Init PROVE GateInv
<1>1. /\ asked = <<>> /\ cancelled = {} /\ turn = None /\ rows = Agents
      /\ thread = [a \in Askers |-> IF a \in Agents THEN Running ELSE AtRest]
      /\ replies = <<>> /\ agentEvents = <<>>
      /\ modal = [open |-> None, perms |-> <<>>, asks |-> <<>>,
                  input |-> "draft", saved |-> "empty"]
      /\ abandoned = {} /\ board = [id \in Ids |-> "none"]
      /\ rules \in [mode : StartModes, scope : {FALSE}] /\ footer = rules.mode
      /\ jobs = {} /\ shown = None /\ clock = [age |-> -1, open |-> None]
      /\ loop = "top" /\ consent = [id \in Ids |-> "nobody"] /\ idle = 0
    BY DEF Init
<1>2. Range(<<>>) = {} /\ IsInjective(<<>>) /\ IdsOn(<<>>) = {} /\ OnceOn(<<>>)
    BY EmptyQueue DEF IdsOn, OnceOn, Permissions
<1>3. Numbered = {} /\ Flight = {} /\ Decided = {} /\ Len(asked) = 0
    BY <1>1, <1>2 DEF Numbered, Flight, Decided
<1>4. /\ \A s : <<>> \in Seq(s)
      /\ 0 <= MaxAsked /\ Wait \in Nat \ {0}
    BY GateBoundsAssumption, WaitAssumption
<1>5. /\ modal \in Modals /\ modal.open = None /\ modal.perms = <<>> /\ modal.asks = <<>>
      /\ modal.input = "draft"
    BY <1>1, <1>4 DEF Modals
<1>6. Pending(modal) = {}
    BY <1>2, <1>5 DEF Pending
<1>7. ModalFits(modal) /\ KindsFit(modal)
    BY <1>2, <1>5 DEF ModalFits, KindsFit
<1>8. \A a \in Askers : /\ thread[a] \in Calls /\ thread[a].id = None
                        /\ thread[a].pc \in {"off", "run"}
                        /\ thread[a].pc # "off" => a \in Agents
    BY <1>1, CallFacts
<1>9. TypeOK
  <2>1. rules \in [mode : Modes, scope : BOOLEAN] /\ footer \in Modes
    BY <1>1, ModesAssumption DEF Modes
  <2>2. thread \in [Askers -> Calls]
    BY <1>1, <1>8
  <2>3. clock \in [age : -1 .. Wait, open : Ids \cup {None}] /\ idle \in 0 .. Wait
    BY <1>1, <1>4
  <2>4. QED
    BY <1>1, <1>3, <1>4, <1>5, <2>1, <2>2, <2>3 DEF TypeOK
<1>10. ThreadsFit
    BY <1>1, <1>8, AskersAssumption DEF ThreadsFit
<1>11. RequestsFit /\ PlacesFit
    BY <1>1, <1>2, <1>3, <1>6 DEF RequestsFit, PlacesFit
<1>12. WaitsFit /\ AsksFit /\ GrantsFit
    BY <1>1, <1>2, <1>6, <1>8 DEF WaitsFit, AsksFit, GrantsFit
<1>13. JobsFit
    BY <1>1 DEF JobsFit, PromptNotifies
<1>14. ClockFits
    BY <1>1 DEF ClockFits
<1>15. QED
    BY <1>7, <1>9, <1>10, <1>11, <1>12, <1>13, <1>14 DEF GateInv, Fits

LEMMA GateStepKeeps == ASSUME GateInv, [Next]_vars PROVE GateInv'
<1>1. ASSUME NEW a \in Askers, ThreadStep(a) PROVE GateInv'
    BY <1>1, ConsultKeeps, ReviewedKeeps, RaiseKeeps, AskUserKeeps, WakeKeeps, ResolveKeeps,
       StopKeeps DEF ThreadStep
<1>2. ASSUME LoopStep PROVE GateInv'
    BY <1>2, RecvReplyKeeps, RecvPermissionKeeps, RecvStoppedKeeps, TickKeeps DEF LoopStep
<1>3. ASSUME UserStep PROVE GateInv'
    BY <1>3, AnswerKeeps, AnswerAskKeeps, TypeEntryKeeps, CancelPermissionKeeps, InterruptKeeps,
       CycleModeKeeps, UserStopsKeeps, ClearKeeps, LoadSessionKeeps DEF UserStep
<1>4. QED
    BY <1>1, <1>2, <1>3, LeadStopsKeeps, StartTurnKeeps, EndTurnKeeps, TimePassesKeeps,
       AfterIterationKeeps, GateStutters DEF Next

\* What every state of the gates is: each request in the one place it has got to, each
\* thread at the request it raised, the modal in order and the clock behind the user
\* (the whole of PermissionGate's specification; the invariant the others follow from).
THEOREM RequestsKeepTheirPlace == Spec => []GateInv
<1>1. Init => GateInv
    BY GateStarts
<1>2. GateInv /\ [Next]_vars => GateInv'
    BY GateStepKeeps
<1>3. QED
    BY <1>1, <1>2, PTL DEF Spec

\* Every variable of the gates keeps its type.
THEOREM GateTypes == Spec => []TypeOK
<1>1. GateInv => TypeOK
    BY DEF GateInv
<1>2. QED
    BY <1>1, RequestsKeepTheirPlace, PTL

\* The requests in flight are those of the two channels.
LEMMA FlightIsInFlight == ASSUME TypeOK PROVE InFlight = Flight
<1>1. DOMAIN agentEvents = 1 .. Len(agentEvents)
    BY LenProperties DEF TypeOK
<1>2. {e.id : e \in {f \in Range(agentEvents) : f.type = "Permission"}} = IdsOn(agentEvents)
    BY <1>1 DEF IdsOn, Permissions, Range
<1>3. QED
    BY <1>2 DEF InFlight, Flight

LEMMA InOnePlace == ASSUME GateInv PROVE RequestInOnePlace
<1> DEFINE places == <<Range(replies) \cup InFlight, {modal.open}, Range(modal.perms),
                       Range(modal.asks), abandoned, Decided>>
<1>1. Range(replies) \cup InFlight = Flight
    BY TypePieces, FlightIsInFlight DEF Flight
<1>2. /\ Flight \subseteq Ids /\ abandoned \subseteq Ids /\ Decided \subseteq Ids
      /\ Range(modal.perms) \subseteq Ids /\ Range(modal.asks) \subseteq Ids
    BY TypePieces, NumberedAreIds, QueuesOfIds DEF Fits, PlacesFit
<1>3. /\ modal.open \notin Range(modal.perms) \cup Range(modal.asks)
      /\ Range(modal.perms) \cap Range(modal.asks) = {}
    BY TypePieces DEF ModalFits
<1>4. /\ Flight \cap (Pending(modal) \cup abandoned \cup Decided) = {}
      /\ Pending(modal) \cap (abandoned \cup Decided) = {} /\ abandoned \cap Decided = {}
    BY TypePieces DEF Fits, PlacesFit
<1>5. /\ Flight \cap ({modal.open} \cup Range(modal.perms) \cup Range(modal.asks)) = {}
      /\ ({modal.open} \cup Range(modal.perms) \cup Range(modal.asks))
            \cap (abandoned \cup Decided) = {}
    BY <1>2, <1>4, NoneIsNoId DEF Pending
<1>6. /\ DOMAIN places = 1 .. 6
      /\ places[1] = Flight /\ places[2] = {modal.open} /\ places[3] = Range(modal.perms)
      /\ places[4] = Range(modal.asks) /\ places[5] = abandoned /\ places[6] = Decided
    BY <1>1
<1> HIDE DEF places
<1>7. \A i \in 1 .. 6 : i = 1 \/ i = 2 \/ i = 3 \/ i = 4 \/ i = 5 \/ i = 6
    OBVIOUS
<1>8. ASSUME NEW i \in DOMAIN places, NEW j \in DOMAIN places, i # j
      PROVE  places[i] \cap places[j] = {}
  <2>1. /\ places[1] \cap places[2] = {} /\ places[1] \cap places[3] = {}
        /\ places[1] \cap places[4] = {} /\ places[1] \cap places[5] = {}
        /\ places[1] \cap places[6] = {} /\ places[2] \cap places[3] = {}
        /\ places[2] \cap places[4] = {} /\ places[2] \cap places[5] = {}
        /\ places[2] \cap places[6] = {} /\ places[3] \cap places[4] = {}
        /\ places[3] \cap places[5] = {} /\ places[3] \cap places[6] = {}
        /\ places[4] \cap places[5] = {} /\ places[4] \cap places[6] = {}
        /\ places[5] \cap places[6] = {}
    BY <1>3, <1>4, <1>5, <1>6
  <2>2. places[j] \cap places[i] = places[i] \cap places[j]
    OBVIOUS
  <2>3. QED
    BY <1>6, <1>7, <1>8, <2>1, <2>2
<1>9. IsInjective(modal.perms) /\ IsInjective(modal.asks)
    BY TypePieces DEF ModalFits
<1>10. QED
    BY <1>8, <1>9 DEF RequestInOnePlace, places

\* A request is asked once and answered once: it is on its way, on screen, queued, dropped
\* and about to be released, or decided, in one of these at most; and no thread that may
\* go on waits for a request that is in none.
THEOREM RequestsAreAskedOnce == Spec => []EachRequestOnce
<1>1. GateInv => EachRequestOnce
  <2> SUFFICES ASSUME GateInv PROVE EachRequestOnce
    OBVIOUS
  <2>1. EveryWaitIsAnswerable
    BY TypePieces, FlightIsInFlight DEF Fits, WaitsFit, EveryWaitIsAnswerable
  <2>2. QED
    BY <2>1, InOnePlace DEF EachRequestOnce
<1>2. QED
    BY <1>1, RequestsKeepTheirPlace, PTL

\* No tool call goes ahead without the user or a standing rule having granted it: not on a
\* prompt that Esc, a stop or a loaded session dropped, nor on another request's decision.
THEOREM NoGrantWithoutConsent == Spec => []GrantedIsConsented
<1>1. GateInv => GrantedIsConsented
    BY TypePieces DEF Fits, GrantsFit, GrantedIsConsented
<1>2. QED
    BY <1>1, RequestsKeepTheirPlace, PTL

\* However modals follow each other, none up means none queued and the composer's draft
\* back; and the job of a prompt has run by the end of the iteration that raised it.
THEOREM ModalsGiveBack == Spec => []ModalInStep
<1>1. GateInv => ModalInStep
    BY TypePieces DEF Fits, ModalFits, JobsFit, ModalInStep, ModalGivesBack
<1>2. QED
    BY <1>1, RequestsKeepTheirPlace, PTL

\* A step that times out the question on screen finds the user away for the whole wait.
LEMMA TimesOutWhenAway ==
    ASSUME GateInv, [Next]_vars, NEW id \in Ids,
           board'[id] = "timedout", board[id] = "none", id = AskOpen(modal)
    PROVE  idle >= Wait
<1>0. id # None /\ board' # board
    BY NoneIsNoId
<1>1. ASSUME NEW a \in Askers, ThreadStep(a) PROVE FALSE
  <2>1. board' # board => Wake(a)
    BY <1>1 DEF ThreadStep, Consult, Reviewed, Raise, AskUser, Resolve, Stop, gateVars
  <2>2. thread[a].id \in Ids => board'[id] \in {board[id], "none"}
    BY <1>0, <2>1, TypePieces DEF Wake, Boards
  <2>3. thread[a].pc = "wait" => thread[a].id \in Ids
    BY TypePieces, NumberedAreIds DEF Fits, ThreadsFit
  <2>4. QED
    BY <1>0, <2>1, <2>2, <2>3 DEF Wake
<1>2. ASSUME NEW decision \in {"approve", "always", "deny"}, Answer(decision) PROVE FALSE
  <2>1. PICK m, r, b, g : Sweep(m, r, b, g) /\ b = [board EXCEPT ![modal.open] = decision]
    BY <1>2 DEF Answer
  <2>2. board'[id] \in {"approve", b[id]}
    BY <2>1 DEF Sweep, Posted
  <2>3. b[id] \in {decision, board[id]}
    BY <2>1, TypePieces DEF Boards
  <2>4. QED
    BY <2>2, <2>3
<1>3. ASSUME AnswerAsk PROVE FALSE
    BY <1>3, TypePieces DEF AnswerAsk, Boards
<1>4. ASSUME CycleMode PROVE FALSE
  <2>1. PICK m, r, g : Sweep(m, r, board, g)
    BY <1>4 DEF CycleMode
  <2>2. QED
    BY <2>1 DEF Sweep, Posted
<1>5. ASSUME Clear PROVE FALSE
    BY <1>5 DEF Clear
<1>6. ASSUME AfterIteration PROVE FALSE
    BY <1>6 DEF AfterIteration
<1>7. ASSUME Tick PROVE idle >= Wait
  <2>1. /\ clock.age >= 0 /\ clock.open = AskOpen(modal) /\ clock.age >= Wait
    <3>1. clock \in Clocks /\ Wait \in Nat \ {0}
        BY TypePieces, WaitAssumption DEF TypeOK, Clocks
    <3>2. QED
        BY <1>0, <1>7, <3>1 DEF Tick, Clocks
  <2>2. clock.age <= idle
    BY <1>0, <2>1, TypePieces DEF ClockFits
  <2>3. clock.age \in Int /\ idle \in Int /\ Wait \in Int
    BY TypePieces, WaitAssumption DEF TypeOK
  <2>4. QED
    BY <2>1, <2>2, <2>3
<1>8. UserStep => \/ AnswerAsk \/ CycleMode \/ Clear
                  \/ \E decision \in {"approve", "always", "deny"} : Answer(decision)
    BY <1>0 DEF UserStep, TypeEntry, CancelPermission, Interrupt, UserStops, LoadSession, gateVars
<1>9. LoopStep => Tick
    BY <1>0 DEF LoopStep, RecvReply, RecvPermission, RecvStopped, gateVars
<1>10. /\ \A a \in Agents : ~LeadStops(a)
       /\ \A t \in Turns : ~StartTurn(t)
       /\ ~EndTurn /\ ~TimePasses /\ ~(UNCHANGED vars)
    BY <1>0 DEF LeadStops, StartTurn, EndTurn, TimePasses, gateVars, vars
<1>11. QED
    BY <1>1, <1>2, <1>3, <1>4, <1>5, <1>6, <1>7, <1>8, <1>9, <1>10 DEF Next

\* A question on screen is timed out only when the user has been away for the whole wait
\* since it came up and since the last key, whichever question the clock ran for before.
THEOREM QuestionsTimeOutWhenAway == Spec => TimedOutWhenAway
<1>1. GateInv /\ [Next]_vars =>
        [\A id \in Ids : board'[id] = "timedout" /\ board[id] = "none" /\ id = AskOpen(modal) =>
            idle >= Wait]_vars
    BY TimesOutWhenAway
<1>2. QED
    BY <1>1, RequestsKeepTheirPlace, PTL DEF Spec, TimedOutWhenAway
=============================================================================
