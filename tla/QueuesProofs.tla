---------------------------- MODULE QueuesProofs ----------------------------
(* What the operators of Queues return, for every queue.                   *)
EXTENDS Queues, Functions, SequenceTheorems, WellFoundedInduction, TLAPS

\* Induction on the naturals, for a set in place of a predicate.
LEMMA SetInduction ==
    ASSUME NEW P, 0 \in P, \A n \in Nat : n \in P => n + 1 \in P
    PROVE  Nat \subseteq P
<1>1. CASE Nat \ P = {}
    BY <1>1
<1>2. CASE Nat \ P # {}
  <2> DEFINE R == OpToRel(<, Nat)
             T == Nat \ P
  <2>1. IsWellFoundedOn(R, Nat)
    BY NatLessThanWellFounded
  <2>2. T \subseteq Nat /\ T # {}
    BY <1>2
  <2>3. \A i, j \in Nat : i < j => <<i, j>> \in R
    BY DEF OpToRel
  <2> HIDE DEF R, T
  <2>4. PICK n \in T : \A m \in T : ~(<<m, n>> \in R)
    BY <2>1, <2>2, WFMin, Zenon
  <2>5. n # 0 /\ n \in Nat
    BY <2>2 DEF T
  <2>6. n - 1 \in Nat /\ n - 1 < n /\ n - 1 + 1 = n
    BY <2>5
  <2>7. n - 1 \notin T
    BY <2>3, <2>4, <2>5, <2>6
  <2>8. QED
    BY <2>5, <2>6, <2>7 DEF T
<1>3. QED
    BY <1>1, <1>2

-----------------------------------------------------------------------------
(* filter.                                                                 *)

\* What is picked of the first n elements, by what is of fewer.
PickedOf(s, P, picked, n) ==
    IF n = 0 THEN <<>> ELSE IF n \in P THEN Append(picked[n - 1], s[n]) ELSE picked[n - 1]
Picks(s, P, m, picked) == picked = [n \in 0 .. m |-> PickedOf(s, P, picked, n)]

\* The recursion defines a function.
LEMMA PickedExists ==
    ASSUME NEW s, NEW P, NEW m \in Nat
    PROVE  \E picked : Picks(s, P, m, picked)
<1> DEFINE K == {k \in Nat : \E f : f = [n \in 0 .. k |-> PickedOf(s, P, f, n)]}
<1>1. 0 \in K
  <2> DEFINE f == [n \in 0 .. 0 |-> <<>>]
  <2>1. f = [n \in 0 .. 0 |-> PickedOf(s, P, f, n)]
    BY DEF PickedOf
  <2> HIDE DEF f
  <2>2. QED
    BY <2>1
<1>2. ASSUME NEW k \in Nat, k \in K PROVE k + 1 \in K
  <2>1. PICK f : f = [n \in 0 .. k |-> PickedOf(s, P, f, n)]
    BY <1>2
  <2> DEFINE g == [n \in 0 .. k + 1 |-> PickedOf(s, P, f, n)]
  <2>2. \A n \in 0 .. k : g[n] = f[n]
    BY <2>1
  <2>3. \A n \in 0 .. k + 1 : PickedOf(s, P, g, n) = PickedOf(s, P, f, n)
    <3>1. \A n \in 0 .. k + 1 : n # 0 => n - 1 \in 0 .. k
        OBVIOUS
    <3> HIDE DEF g
    <3>2. QED
        BY <2>2, <3>1 DEF PickedOf
  <2>4. g = [n \in 0 .. k + 1 |-> PickedOf(s, P, g, n)]
    BY <2>3
  <2> HIDE DEF g
  <2>5. QED
    BY <2>4
<1> HIDE DEF K
<1>3. Nat \subseteq K
    BY <1>1, <1>2, SetInduction
<1>4. QED
    BY <1>3 DEF K, Picks

\* and one only.
LEMMA PicksUnique ==
    ASSUME NEW s, NEW P, NEW m \in Nat, NEW f, NEW g, Picks(s, P, m, f), Picks(s, P, m, g)
    PROVE  f[m] = g[m]
<1> DEFINE K == {k \in Nat : k <= m => f[k] = g[k]}
<1>1. \A n \in 0 .. m : f[n] = PickedOf(s, P, f, n) /\ g[n] = PickedOf(s, P, g, n)
    BY DEF Picks
<1>2. 0 \in K
    BY <1>1 DEF PickedOf
<1>3. ASSUME NEW k \in Nat, k \in K PROVE k + 1 \in K
  <2> SUFFICES ASSUME k + 1 <= m PROVE f[k + 1] = g[k + 1]
    OBVIOUS
  <2>1. f[k] = g[k] /\ k + 1 \in 0 .. m /\ k + 1 - 1 = k /\ k + 1 # 0
    BY <1>3
  <2>2. QED
    BY <1>1, <2>1 DEF PickedOf
<1> HIDE DEF K
<1>4. Nat \subseteq K
    BY <1>2, <1>3, SetInduction
<1>5. QED
    BY <1>4 DEF K

LEMMA PickedUnfolds ==
    ASSUME NEW s, NEW P, Len(s) \in Nat
    PROVE  \E picked : Picks(s, P, Len(s), picked) /\ Picked(s, P) = picked[Len(s)]
<1> DEFINE f == CHOOSE f : f = [n \in 0 .. Len(s) |-> PickedOf(s, P, f, n)]
<1>1. f = [n \in 0 .. Len(s) |-> PickedOf(s, P, f, n)]
    BY PickedExists DEF Picks
<1>2. Picked(s, P) = f[Len(s)]
    BY DEF Picked, PickedOf
<1> HIDE DEF f
<1>3. QED
    BY <1>1, <1>2 DEF Picks

\* What is picked of the empty queue, and of a queue with one element more.
LEMMA PickedEmpty ==
    ASSUME NEW P
    PROVE  Picked(<<>>, P) = <<>>
<1>1. Len(<<>>) = 0
    BY EmptySeq
<1>2. PICK picked : Picks(<<>>, P, 0, picked) /\ Picked(<<>>, P) = picked[0]
    BY <1>1, PickedUnfolds
<1>3. picked[0] = PickedOf(<<>>, P, picked, 0)
    BY <1>2 DEF Picks
<1>4. QED
    BY <1>2, <1>3 DEF PickedOf

LEMMA PickedAppend ==
    ASSUME NEW T, NEW P, NEW Q, NEW s \in Seq(T), NEW e \in T,
           \A i \in 1 .. Len(s) : i \in P <=> i \in Q
    PROVE  Picked(Append(s, e), P) =
                IF Len(s) + 1 \in P THEN Append(Picked(s, Q), e) ELSE Picked(s, Q)
<1>0. \A i \in 1 .. Len(s) : i \in P <=> i \in Q
    OBVIOUS
<1> DEFINE t == Append(s, e)
<1>1. /\ Len(s) \in Nat /\ Len(t) = Len(s) + 1 /\ t[Len(s) + 1] = e
      /\ \A i \in 1 .. Len(s) : t[i] = s[i]
  BY LenProperties, AppendProperties
<1> HIDE DEF t
<1>2. PICK f : Picks(s, Q, Len(s), f) /\ Picked(s, Q) = f[Len(s)]
  BY <1>1, PickedUnfolds
<1>3. PICK g : Picks(t, P, Len(s) + 1, g) /\ Picked(t, P) = g[Len(s) + 1]
  BY <1>1, PickedUnfolds
<1>4. \A n \in 0 .. Len(s) : f[n] = PickedOf(s, Q, f, n)
  BY <1>2 DEF Picks
<1>5. \A n \in 0 .. Len(s) + 1 : g[n] = PickedOf(t, P, g, n)
  BY <1>1, <1>3 DEF Picks
<1> DEFINE K == {n \in Nat : n <= Len(s) => g[n] = f[n]}
<1>6. 0 \in K
  BY <1>1, <1>4, <1>5 DEF PickedOf
<1>7. ASSUME NEW n \in Nat, n \in K PROVE n + 1 \in K
  <2> SUFFICES ASSUME n + 1 <= Len(s) PROVE g[n + 1] = f[n + 1]
      OBVIOUS
  <2>1. g[n] = f[n] /\ n + 1 \in 1 .. Len(s)
      BY <1>1, <1>7
  <2>2. g[n + 1] = IF n + 1 \in P THEN Append(g[n], t[n + 1]) ELSE g[n]
      BY <1>1, <1>5, <2>1 DEF PickedOf
  <2>3. f[n + 1] = IF n + 1 \in Q THEN Append(f[n], s[n + 1]) ELSE f[n]
      BY <1>1, <1>4, <2>1 DEF PickedOf
  <2>4. QED
      BY <1>0, <1>1, <2>1, <2>2, <2>3
<1> HIDE DEF K
<1>8. Nat \subseteq K
  BY <1>6, <1>7, SetInduction
<1>9. g[Len(s)] = f[Len(s)]
  BY <1>1, <1>8 DEF K
<1>10. g[Len(s) + 1] = IF Len(s) + 1 \in P THEN Append(g[Len(s)], e) ELSE g[Len(s)]
  BY <1>1, <1>5 DEF PickedOf
<1>11. QED
  BY <1>2, <1>3, <1>9, <1>10 DEF t

\* What retain leaves are the elements not in S, and each as often as before at most.
LEMMA WithoutFacts ==
    ASSUME NEW T, NEW s \in Seq(T), NEW S
    PROVE  /\ Without(s, S) \in Seq(T)
           /\ Range(Without(s, S)) = Range(s) \ S
           /\ IsInjective(s) => IsInjective(Without(s, S))
<1>1. Len(s) \in Nat /\ s \in [1 .. Len(s) -> T]
    BY LenProperties
<1> DEFINE stay == {i \in DOMAIN s : s[i] \notin S}
<1>2. PICK kept : Picks(s, stay, Len(s), kept) /\ Without(s, S) = kept[Len(s)]
    BY <1>1, PickedUnfolds DEF Without
<1>3. \A n \in 0 .. Len(s) : kept[n] = PickedOf(s, stay, kept, n)
    BY <1>2 DEF Picks
<1> DEFINE P == {n \in Nat : n <= Len(s) =>
                    /\ kept[n] \in Seq(T)
                    /\ Range(kept[n]) = {s[i] : i \in 1 .. n} \ S
                    /\ IsInjective(s) => IsInjective(kept[n])}
<1>4. 0 \in P
  <2>1. kept[0] = <<>>
    BY <1>1, <1>3 DEF PickedOf
  <2>2. <<>> \in Seq(T) /\ Range(<<>>) = {} /\ IsInjective(<<>>)
    BY DEF Range, IsInjective
  <2>3. {s[i] : i \in 1 .. 0} = {}
    OBVIOUS
  <2>4. QED
    BY <2>1, <2>2, <2>3
<1>5. ASSUME NEW n \in Nat, n \in P PROVE n + 1 \in P
  <2> SUFFICES ASSUME n + 1 <= Len(s)
               PROVE  /\ kept[n + 1] \in Seq(T)
                      /\ Range(kept[n + 1]) = {s[i] : i \in 1 .. n + 1} \ S
                      /\ IsInjective(s) => IsInjective(kept[n + 1])
    OBVIOUS
  <2>1. /\ kept[n] \in Seq(T)
        /\ Range(kept[n]) = {s[i] : i \in 1 .. n} \ S
        /\ IsInjective(s) => IsInjective(kept[n])
    BY <1>1, <1>5
  <2>2. kept[n + 1] = IF s[n + 1] \in S THEN kept[n] ELSE Append(kept[n], s[n + 1])
    BY <1>1, <1>3 DEF PickedOf
  <2>3. {s[i] : i \in 1 .. n + 1} = {s[i] : i \in 1 .. n} \cup {s[n + 1]}
    OBVIOUS
  <2>4. s[n + 1] \in T
    BY <1>1
  <2> DEFINE t == kept[n]
             e == s[n + 1]
  <2>5. CASE e \in S
    BY <2>1, <2>2, <2>3, <2>5
  <2>6. CASE e \notin S
    <3>1. /\ Append(t, e) \in Seq(T) /\ Len(Append(t, e)) = Len(t) + 1 /\ Len(t) \in Nat
          /\ \A i \in 1 .. Len(t) : Append(t, e)[i] = t[i]
          /\ Append(t, e)[Len(t) + 1] = e
          /\ DOMAIN t = 1 .. Len(t) /\ DOMAIN Append(t, e) = 1 .. Len(t) + 1
        BY <2>1, <2>4, AppendProperties, LenProperties
    <3>2. Range(Append(t, e)) = Range(t) \cup {e}
        <4>1. \A i \in 1 .. Len(t) + 1 : i \in 1 .. Len(t) \/ i = Len(t) + 1
            BY <3>1
        <4>2. 1 .. Len(t) \subseteq 1 .. Len(t) + 1 /\ Len(t) + 1 \in 1 .. Len(t) + 1
            BY <3>1
        <4>3. QED
            BY <3>1, <4>1, <4>2 DEF Range
    <3>3. ASSUME IsInjective(s) PROVE IsInjective(Append(t, e))
        <4>1. e \notin {s[i] : i \in 1 .. n}
            BY <1>1, <3>3 DEF IsInjective
        <4>2. \A i \in 1 .. Len(t) : t[i] # e
            BY <2>1, <3>1, <4>1 DEF Range
        <4>3. IsInjective(t)
            BY <2>1, <3>3
        <4>4. \A i \in 1 .. Len(t) + 1 : i \in 1 .. Len(t) \/ i = Len(t) + 1
            BY <3>1
        <4>5. QED
            BY <3>1, <4>2, <4>3, <4>4 DEF IsInjective
    <3>4. QED
        BY <2>1, <2>2, <2>3, <2>6, <3>1, <3>2, <3>3
  <2>7. QED
    BY <2>5, <2>6
<1> HIDE DEF P
<1>6. Nat \subseteq P
    BY <1>4, <1>5, SetInduction
<1>7. Len(s) \in P
    BY <1>1, <1>6
<1>8. Range(s) = {s[i] : i \in 1 .. Len(s)}
    BY <1>1 DEF Range
<1>9. QED
    BY <1>1, <1>2, <1>7, <1>8 DEF P

\* A queue without elements is the empty queue.
LEMMA EmptyRange ==
    ASSUME NEW T, NEW s \in Seq(T)
    PROVE  Range(s) = {} <=> s = <<>>
<1>1. DOMAIN s = 1 .. Len(s) /\ Len(s) \in Nat
    BY LenProperties
<1>2. ASSUME s # <<>> PROVE s[1] \in Range(s)
  <2>1. Len(s) # 0
    BY <1>2, EmptySeq
  <2>2. 1 \in DOMAIN s
    BY <1>1, <2>1
  <2>3. QED
    BY <2>2 DEF Range
<1>3. ASSUME s = <<>> PROVE Range(s) = {}
    BY <1>3 DEF Range
<1>4. QED
    BY <1>2, <1>3

\* Taking the head of a queue leaves the others, and the head is gone if it was there once.
LEMMA TailFacts ==
    ASSUME NEW T, NEW s \in Seq(T), s # <<>>
    PROVE  /\ Head(s) \in Range(s) /\ Tail(s) \in Seq(T)
           /\ Range(s) = Range(Tail(s)) \cup {Head(s)}
           /\ IsInjective(s) => IsInjective(Tail(s)) /\ Head(s) \notin Range(Tail(s))
<1>1. /\ DOMAIN s = 1 .. Len(s) /\ Len(s) \in Nat /\ Len(s) # 0
      /\ Head(s) = s[1] /\ Tail(s) \in Seq(T)
      /\ DOMAIN Tail(s) = 1 .. Len(s) - 1
      /\ \A i \in 1 .. Len(s) - 1 : Tail(s)[i] = s[i + 1]
    BY LenProperties, EmptySeq, HeadTailProperties
<1>2. 1 \in DOMAIN s
    BY <1>1
<1>3. Range(s) = Range(Tail(s)) \cup {Head(s)}
  <2>1. \A i \in 1 .. Len(s) : i = 1 \/ i - 1 \in 1 .. Len(s) - 1
    BY <1>1
  <2>2. \A i \in 1 .. Len(s) - 1 : i + 1 \in 1 .. Len(s)
    BY <1>1
  <2>3. \A i \in 1 .. Len(s) : s[i] \in Range(Tail(s)) \cup {Head(s)}
    <3>1. ASSUME NEW i \in 1 .. Len(s), i - 1 \in 1 .. Len(s) - 1
          PROVE  s[i] = Tail(s)[i - 1]
        BY <1>1, <3>1
    <3>2. QED
        BY <1>1, <2>1, <3>1 DEF Range
  <2>4. \A i \in 1 .. Len(s) - 1 : Tail(s)[i] \in Range(s)
    BY <1>1, <2>2 DEF Range
  <2>5. QED
    BY <1>1, <1>2, <2>3, <2>4 DEF Range
<1>4. ASSUME IsInjective(s) PROVE IsInjective(Tail(s)) /\ Head(s) \notin Range(Tail(s))
  <2>1. \A i \in 1 .. Len(s) - 1 : i + 1 \in 1 .. Len(s) /\ i + 1 # 1
    BY <1>1
  <2>2. \A i, j \in 1 .. Len(s) - 1 : Tail(s)[i] = Tail(s)[j] => i = j
    BY <1>1, <1>4, <2>1 DEF IsInjective
  <2>3. \A i \in 1 .. Len(s) - 1 : Tail(s)[i] # s[1]
    BY <1>1, <1>2, <1>4, <2>1 DEF IsInjective
  <2>4. QED
    BY <1>1, <2>2, <2>3 DEF IsInjective, Range
<1>5. QED
    BY <1>1, <1>2, <1>3, <1>4 DEF Range

\* A new element at the end of a queue.
LEMMA AppendFacts ==
    ASSUME NEW T, NEW s \in Seq(T), NEW e \in T
    PROVE  /\ Append(s, e) \in Seq(T) /\ Len(Append(s, e)) = Len(s) + 1
           /\ Range(Append(s, e)) = Range(s) \cup {e}
           /\ IsInjective(s) /\ e \notin Range(s) => IsInjective(Append(s, e))
<1>1. /\ Append(s, e) \in Seq(T) /\ Len(Append(s, e)) = Len(s) + 1 /\ Len(s) \in Nat
      /\ \A i \in 1 .. Len(s) : Append(s, e)[i] = s[i]
      /\ Append(s, e)[Len(s) + 1] = e
      /\ DOMAIN s = 1 .. Len(s) /\ DOMAIN Append(s, e) = 1 .. Len(s) + 1
    BY AppendProperties, LenProperties
<1>2. \A i \in 1 .. Len(s) + 1 : i \in 1 .. Len(s) \/ i = Len(s) + 1
    BY <1>1
<1>3. 1 .. Len(s) \subseteq 1 .. Len(s) + 1 /\ Len(s) + 1 \in 1 .. Len(s) + 1
    BY <1>1
<1>4. Range(Append(s, e)) = Range(s) \cup {e}
    BY <1>1, <1>2, <1>3 DEF Range
<1>5. ASSUME IsInjective(s), e \notin Range(s) PROVE IsInjective(Append(s, e))
    BY <1>1, <1>2, <1>5 DEF IsInjective, Range
<1>6. QED
    BY <1>1, <1>4, <1>5

\* Induction on queues, element by element at the end, for a set in place of a predicate.
LEMMA QueueInduction ==
    ASSUME NEW T, NEW K, <<>> \in K,
           \A s \in Seq(T), e \in T : s \in K => Append(s, e) \in K
    PROVE  Seq(T) \subseteq K
<1> DEFINE L == {n \in Nat : \A s \in Seq(T) : Len(s) = n => s \in K}
<1>1. 0 \in L
  <2>1. \A s \in Seq(T) : Len(s) = 0 => s = <<>>
    BY EmptySeq
  <2>2. QED
    BY <2>1
<1>2. ASSUME NEW n \in Nat, n \in L PROVE n + 1 \in L
  <2> SUFFICES ASSUME NEW s \in Seq(T), Len(s) = n + 1 PROVE s \in K
    OBVIOUS
  <2>1. s # <<>>
    BY EmptySeq
  <2>2. PICK t \in Seq(T), e \in T : s = Append(t, e)
    BY <2>1, SequenceEmptyOrAppend
  <2>3. Len(s) = Len(t) + 1 /\ Len(t) \in Nat
    BY <2>2, AppendProperties, LenProperties
  <2>4. t \in K
    BY <1>2, <2>3
  <2>5. QED
    BY <2>2, <2>4
<1> HIDE DEF L
<1>3. Nat \subseteq L
    BY <1>1, <1>2, SetInduction
<1>4. \A s \in Seq(T) : Len(s) \in Nat
    BY LenProperties
<1>5. QED
    BY <1>3, <1>4 DEF L

\* What is picked are elements at positions picked.
LEMMA PickedFacts ==
    ASSUME NEW T, NEW s \in Seq(T), NEW P
    PROVE  /\ Picked(s, P) \in Seq(T)
           /\ \A k \in DOMAIN Picked(s, P) : \E i \in 1 .. Len(s) : i \in P /\ Picked(s, P)[k] = s[i]
<1> DEFINE K == {t \in Seq(T) :
                    /\ Picked(t, P) \in Seq(T)
                    /\ \A k \in DOMAIN Picked(t, P) :
                            \E i \in 1 .. Len(t) : i \in P /\ Picked(t, P)[k] = t[i]}
<1>1. <<>> \in K
  <2>1. Picked(<<>>, P) = <<>> /\ <<>> \in Seq(T) /\ DOMAIN <<>> = {}
    BY PickedEmpty, EmptySeq
  <2>2. QED
    BY <2>1
<1>2. ASSUME NEW t \in Seq(T), NEW e \in T, t \in K PROVE Append(t, e) \in K
  <2> DEFINE u == Append(t, e)
             p == Picked(t, P)
  <2>1. /\ u \in Seq(T) /\ Len(u) = Len(t) + 1 /\ u[Len(t) + 1] = e /\ Len(t) \in Nat
        /\ \A i \in 1 .. Len(t) : u[i] = t[i]
    BY AppendProperties, LenProperties
  <2>2. Picked(u, P) = IF Len(t) + 1 \in P THEN Append(p, e) ELSE p
    <3>1. \A R : (\A i \in 1 .. Len(t) : i \in P <=> i \in R)
                => Picked(Append(t, e), P) =
                        IF Len(t) + 1 \in P THEN Append(Picked(t, R), e) ELSE Picked(t, R)
        BY PickedAppend
    <3>2. QED
        BY <3>1
  <2>3. /\ p \in Seq(T)
        /\ \A k \in DOMAIN p : \E i \in 1 .. Len(t) : i \in P /\ p[k] = t[i]
    BY <1>2
  <2> HIDE DEF u, p
  <2>4. \A k \in DOMAIN p : \E i \in 1 .. Len(u) : i \in P /\ p[k] = u[i]
    BY <2>1, <2>3
  <2>5. CASE Len(t) + 1 \notin P
    <3>1. Picked(u, P) = p
        BY <2>2, <2>5
    <3>2. u \in K
        BY <2>1, <2>3, <2>4, <3>1
    <3>3. QED
        BY <3>2 DEF u
  <2>6. CASE Len(t) + 1 \in P
    <3> DEFINE q == Append(p, e)
    <3>1. /\ q \in Seq(T) /\ DOMAIN q = 1 .. Len(p) + 1 /\ DOMAIN p = 1 .. Len(p)
          /\ \A k \in 1 .. Len(p) : q[k] = p[k]
          /\ q[Len(p) + 1] = e /\ Len(p) \in Nat
        BY <2>3, AppendProperties, LenProperties
    <3>2. Picked(u, P) = q
        BY <2>2, <2>6
    <3> HIDE DEF q
    <3>3. \A k \in 1 .. Len(p) + 1 : k \in 1 .. Len(p) \/ k = Len(p) + 1
        BY <3>1
    <3>4. Len(t) + 1 \in 1 .. Len(u)
        BY <2>1
    <3>5. \A k \in DOMAIN q : \E i \in 1 .. Len(u) : i \in P /\ q[k] = u[i]
        <4>1. ASSUME NEW k \in 1 .. Len(p)
              PROVE  \E i \in 1 .. Len(u) : i \in P /\ q[k] = u[i]
            BY <2>4, <3>1, <4>1
        <4>2. \E i \in 1 .. Len(u) : i \in P /\ q[Len(p) + 1] = u[i]
            BY <2>1, <2>6, <3>1, <3>4
        <4>3. QED
            BY <3>1, <3>3, <4>1, <4>2
    <3>6. u \in K
        BY <2>1, <3>1, <3>2, <3>5
    <3>7. QED
        BY <3>6 DEF u
  <2>7. QED
    BY <2>5, <2>6
<1> HIDE DEF K
<1>3. Seq(T) \subseteq K
    BY <1>1, <1>2, QueueInduction
<1>4. QED
    BY <1>3 DEF K

\* The first k positions pick the first k elements.
LEMMA PickedFront ==
    ASSUME NEW T, NEW s \in Seq(T), NEW k \in 0 .. Len(s), NEW P,
           \A i \in 1 .. Len(s) : i \in P <=> i <= k
    PROVE  Picked(s, P) = SubSeq(s, 1, k)
<1> DEFINE K == {t \in Seq(T) : \A Q : \A m \in 0 .. Len(t) :
                    (\A i \in 1 .. Len(t) : i \in Q <=> i <= m) => Picked(t, Q) = SubSeq(t, 1, m)}
<1>1. <<>> \in K
  <2>1. \A Q : Picked(<<>>, Q) = <<>>
    BY PickedEmpty
  <2>2. <<>> \in Seq(T) /\ Len(<<>>) = 0 /\ SubSeq(<<>>, 1, 0) = <<>>
    BY EmptySeq, SubSeqEmpty
  <2>3. \A m \in 0 .. Len(<<>>) : m = 0
    BY <2>2
  <2>4. QED
    BY <2>1, <2>2, <2>3
<1>2. ASSUME NEW t \in Seq(T), NEW e \in T, t \in K PROVE Append(t, e) \in K
  <2> DEFINE u == Append(t, e)
  <2>1. /\ u \in Seq(T) /\ Len(u) = Len(t) + 1 /\ u[Len(t) + 1] = e /\ Len(t) \in Nat
        /\ \A i \in 1 .. Len(t) : u[i] = t[i]
    BY AppendProperties, LenProperties
  <2> SUFFICES ASSUME NEW Q, NEW m \in 0 .. Len(u), \A i \in 1 .. Len(u) : i \in Q <=> i <= m
               PROVE  Picked(u, Q) = SubSeq(u, 1, m)
    BY <2>1
  <2>2. Picked(u, Q) = IF Len(t) + 1 \in Q THEN Append(Picked(t, Q), e) ELSE Picked(t, Q)
    BY PickedAppend
  <2>3. CASE m = Len(t) + 1
    <3>1. \A i \in 1 .. Len(t) : i \in Q <=> i <= Len(t)
        BY <2>1, <2>3
    <3>2. Len(t) \in 0 .. Len(t)
        BY <2>1
    <3>3. Picked(t, Q) = SubSeq(t, 1, Len(t))
        BY <1>2, <3>1, <3>2
    <3>4. Picked(t, Q) = t
        BY <3>3, SubSeqFull
    <3>5. Len(t) + 1 \in Q
        BY <2>1, <2>3
    <3>6. SubSeq(u, 1, m) = u
        BY <2>1, <2>3, SubSeqFull
    <3>7. QED
        BY <2>2, <3>4, <3>5, <3>6
  <2>4. CASE m # Len(t) + 1
    <3>1. m \in 0 .. Len(t) /\ Len(t) + 1 \notin Q /\ \A i \in 1 .. Len(t) : i \in Q <=> i <= m
        BY <2>1, <2>4
    <3>2. Picked(t, Q) = SubSeq(t, 1, m)
        BY <1>2, <3>1
    <3>3. SubSeq(u, 1, m) = SubSeq(t, 1, m)
        <4>1. CASE m = 0
            BY <4>1, SubSeqEmpty
        <4>2. CASE m # 0
            <5>1. u = t \o <<e>> /\ <<e>> \in Seq(T)
                BY AppendIsConcat
            <5>2. 1 \in 1 .. Len(t) /\ m \in 1 .. Len(t)
                BY <2>1, <3>1, <4>2
            <5>3. QED
                BY <5>1, <5>2, SubSeqOfConcat1
        <4>3. QED
            BY <4>1, <4>2
    <3>4. QED
        BY <2>2, <3>1, <3>2, <3>3
  <2>5. QED
    BY <2>3, <2>4
<1> HIDE DEF K
<1>3. Seq(T) \subseteq K
    BY <1>1, <1>2, QueueInduction
<1>4. QED
    BY <1>3 DEF K
=============================================================================
