--------------------------- MODULE RegistryProofs ---------------------------
(***************************************************************************)
(* Registry for any number of events and connections and any limits: types,*)
(* the exclusive claim, that no event vanishes or is in two places, that   *)
(* events and spooled attachments are given up only at a limit, and that   *)
(* it implements Delivery.                                                 *)
(***************************************************************************)
EXTENDS Registry, SequenceTheorems, WellFoundedInduction, TLAPS

----------------------------------------------------------------------------
(***************************************************************************)
(* The operations of Backlog, for every queue: they keep a queue of events *)
(* a queue of events, never invent an event, never list one twice, respect *)
(* the capacity, and lose only what is expired or over the length.         *)
(***************************************************************************)

\* A nonempty set of naturals has a least element, and Min is that element.
LEMMA MinOfNats ==
    ASSUME NEW S \in SUBSET Nat, S # {}
    PROVE  Min(S) \in S /\ \A y \in S : Min(S) <= y
<1>1. \E x \in S : \A y \in S : ~(<<y, x>> \in OpToRel(<, Nat))
  BY WFMin, NatLessThanWellFounded, Zenon
<1>2. PICK x \in S : \A y \in S : ~(<<y, x>> \in OpToRel(<, Nat))
  BY <1>1
<1>3. \A y \in S : x <= y
  <2>1. SUFFICES ASSUME NEW y \in S, y < x PROVE FALSE
    OBVIOUS
  <2>2. <<y, x>> \in Nat \X Nat /\ <<y, x>>[1] < <<y, x>>[2]
    BY <2>1
  <2>3. <<y, x>> \in OpToRel(<, Nat)
    BY <2>2, Zenon DEF OpToRel
  <2> QED BY <1>2, <2>3, Zenon
<1> QED BY <1>3 DEF Min

\* The elements of a sequence are the values at its positions.
LEMMA Elements ==
    ASSUME NEW S, NEW s \in Seq(S)
    PROVE  /\ \A e : e \in ToSet(s) <=> \E i \in 1..Len(s) : s[i] = e
           /\ ToSet(s) \subseteq S
BY DEF ToSet

\* An event appended to a queue joins its elements; the queue stays free of
\* duplicates if it was not in it.
LEMMA AppendElements ==
    ASSUME NEW S, NEW s \in Seq(S), NEW e \in S
    PROVE  /\ Append(s, e) \in Seq(S)
           /\ ToSet(Append(s, e)) = ToSet(s) \cup {e}
           /\ IsInjective(s) /\ e \notin ToSet(s) => IsInjective(Append(s, e))
<1> DEFINE t == Append(s, e)
<1>1. /\ t \in Seq(S) /\ Len(t) = Len(s) + 1
      /\ t[Len(s) + 1] = e
      /\ \A i \in 1..Len(s) : t[i] = s[i]
  BY AppendProperties
<1>2. IsInjective(s) /\ e \notin ToSet(s) => IsInjective(t)
  BY SMT DEF ToSet, IsInjective
<1> HIDE DEF t
<1>3. \A x : x \in ToSet(t) <=> x \in ToSet(s) \cup {e}
  <2>1. \A x : x \in ToSet(t) <=> \E i \in 1..Len(t) : t[i] = x
    BY <1>1, Elements
  <2>2. \A x : x \in ToSet(s) <=> \E i \in 1..Len(s) : s[i] = x
    BY Elements
  <2> QED BY <1>1, <2>1, <2>2
<1> QED BY <1>1, <1>2, <1>3 DEF t

\* A concatenation has the elements of both parts.
LEMMA ConcatElements ==
    ASSUME NEW S, NEW s \in Seq(S), NEW t \in Seq(S)
    PROVE  /\ s \o t \in Seq(S)
           /\ ToSet(s \o t) = ToSet(s) \cup ToSet(t)
           /\ IsInjective(s) /\ IsInjective(t) /\ ToSet(s) \cap ToSet(t) = {}
              => IsInjective(s \o t)
<1> DEFINE u == s \o t
<1>1. /\ u \in Seq(S) /\ Len(u) = Len(s) + Len(t)
      /\ \A i \in 1..Len(u) : u[i] = IF i <= Len(s) THEN s[i] ELSE t[i - Len(s)]
  BY ConcatProperties
<1>2. Len(s) \in Nat /\ Len(t) \in Nat
  BY LenProperties
<1> HIDE DEF u
<1>3. \A x : x \in ToSet(u) <=> \E i \in 1..Len(u) : u[i] = x
  BY <1>1, Elements
<1>4. \A x : x \in ToSet(s) <=> \E i \in 1..Len(s) : s[i] = x
  BY Elements
<1>5. \A x : x \in ToSet(t) <=> \E i \in 1..Len(t) : t[i] = x
  BY Elements
<1>6. \A i \in 1..Len(s) : i \in 1..Len(u) /\ u[i] = s[i]
  BY <1>1, <1>2
<1>7. \A i \in 1..Len(t) : Len(s) + i \in 1..Len(u) /\ u[Len(s) + i] = t[i]
  <2>1. TAKE i \in 1..Len(t)
  <2>2. Len(s) + i \in 1..Len(u) /\ ~(Len(s) + i <= Len(s)) /\ (Len(s) + i) - Len(s) = i
    BY <1>1, <1>2
  <2> QED BY <1>1, <2>2
<1>8. \A x : x \in ToSet(s) \cup ToSet(t) => x \in ToSet(u)
  <2>1. \A x : x \in ToSet(s) => x \in ToSet(u)
    BY <1>3, <1>4, <1>6
  <2>2. ASSUME NEW x, x \in ToSet(t) PROVE x \in ToSet(u)
    <3>1. PICK i \in 1..Len(t) : t[i] = x
      BY <1>5, <2>2
    <3>2. Len(s) + i \in 1..Len(u) /\ u[Len(s) + i] = x
      BY <1>7, <3>1
    <3> QED BY <1>3, <3>2
  <2> QED BY <2>1, <2>2
<1>9. \A x : x \in ToSet(u) => x \in ToSet(s) \cup ToSet(t)
  BY <1>1, <1>2, <1>3, <1>4, <1>5
<1>10. ASSUME IsInjective(s), IsInjective(t), ToSet(s) \cap ToSet(t) = {}
       PROVE  IsInjective(u)
  <2>1. DOMAIN u = 1..Len(u) /\ DOMAIN s = 1..Len(s) /\ DOMAIN t = 1..Len(t)
    BY <1>1, LenProperties
  <2>2. SUFFICES ASSUME NEW i \in 1..Len(u), NEW j \in 1..Len(u), u[i] = u[j]
                 PROVE  i = j
    BY <2>1 DEF IsInjective
  <2>3. CASE i <= Len(s) /\ j <= Len(s)
    BY <1>1, <1>2, <1>10, <2>1, <2>2, <2>3 DEF IsInjective
  <2>4. CASE i > Len(s) /\ j > Len(s)
    <3>1. i - Len(s) \in 1..Len(t) /\ j - Len(s) \in 1..Len(t)
      BY <1>1, <1>2, <2>4
    <3>2. t[i - Len(s)] = t[j - Len(s)]
      BY <1>1, <1>2, <2>2, <2>4
    <3>3. i - Len(s) = j - Len(s)
      BY <1>10, <2>1, <3>1, <3>2 DEF IsInjective
    <3> QED BY <1>2, <3>3
  <2>5. CASE (i <= Len(s)) # (j <= Len(s))
    <3>1. \A k \in 1..Len(u) : k <= Len(s) => u[k] \in ToSet(s)
      BY <1>1, <1>2, <1>4
    <3>2. \A k \in 1..Len(u) : k > Len(s) => u[k] \in ToSet(t)
      <4>1. TAKE k \in 1..Len(u)
      <4>2. HAVE k > Len(s)
      <4>3. k - Len(s) \in 1..Len(t) /\ u[k] = t[k - Len(s)]
        BY <1>1, <1>2, <4>2
      <4> QED BY <1>5, <4>3
    <3>3. \/ u[i] \in ToSet(s) /\ u[j] \in ToSet(t)
          \/ u[j] \in ToSet(s) /\ u[i] \in ToSet(t)
      BY <1>2, <2>5, <3>1, <3>2
    <3> QED BY <1>10, <2>2, <3>3
  <2> QED BY <1>2, <2>3, <2>4, <2>5
<1> QED BY <1>1, <1>8, <1>9, <1>10 DEF u

\* A suffix has no element the whole has not.
LEMMA SuffixElements ==
    ASSUME NEW S, NEW s \in Seq(S), NEW m \in 1..(Len(s) + 1)
    PROVE  /\ SubSeq(s, m, Len(s)) \in Seq(S)
           /\ Len(SubSeq(s, m, Len(s))) = Len(s) - m + 1
           /\ ToSet(SubSeq(s, m, Len(s))) \subseteq ToSet(s)
           /\ IsInjective(s) => IsInjective(SubSeq(s, m, Len(s)))
<1> DEFINE u == SubSeq(s, m, Len(s))
<1>1. Len(s) \in Nat /\ \A i \in m..Len(s) : s[i] \in S
  OBVIOUS
<1>2. /\ u \in Seq(S) /\ Len(u) = Len(s) - m + 1
      /\ \A i \in 1..Len(u) : u[i] = s[m + i - 1]
  BY <1>1, SubSeqProperties
<1> HIDE DEF u
<1>3. ToSet(u) \subseteq ToSet(s)
  <2>1. \A x : x \in ToSet(u) <=> \E i \in 1..Len(u) : u[i] = x
    BY <1>2, Elements
  <2>2. \A x : x \in ToSet(s) <=> \E i \in 1..Len(s) : s[i] = x
    BY Elements
  <2>3. \A i \in 1..Len(u) : m + i - 1 \in 1..Len(s)
    BY <1>1, <1>2
  <2> QED BY <1>2, <2>1, <2>2, <2>3
<1>4. IsInjective(s) => IsInjective(u)
  BY SMTT(30), <1>1, <1>2 DEF IsInjective
<1> QED BY <1>2, <1>3, <1>4 DEF u

\* Taking the head off a queue leaves a queue without duplicates.
LEMMA TailElements ==
    ASSUME NEW S, NEW s \in Seq(S), s # <<>>
    PROVE  /\ Head(s) \in S
           /\ Tail(s) \in Seq(S)
           /\ IsInjective(s) => IsInjective(Tail(s))
<1>1. Tail(s) = SubSeq(s, 2, Len(s)) /\ 2 \in 1..(Len(s) + 1)
  BY TailIsSubSeq, EmptySeq, LenProperties
<1> QED BY <1>1, SuffixElements, HeadTailProperties
-----------------------------------------------------------------------------
\* evict_expired keeps a suffix of the queue.
LEMMA EvictExpiredKeeps ==
    ASSUME NEW items \in Seq(Event), NEW tm
    PROVE  /\ EvictExpired(items, tm) \in Seq(Event)
           /\ ToSet(EvictExpired(items, tm)) \subseteq ToSet(items)
           /\ IsInjective(items) => IsInjective(EvictExpired(items, tm))
<1>1. CASE Live(items, tm) = {}
  <2>1. EvictExpired(items, tm) = <<>>
    BY <1>1 DEF EvictExpired
  <2> QED BY <2>1 DEF ToSet, IsInjective
<1>2. CASE Live(items, tm) # {}
  <2>1. Len(items) \in Nat /\ Live(items, tm) \in SUBSET Nat
    BY DEF Live
  <2>2. Min(Live(items, tm)) \in 1..(Len(items) + 1)
    <3>1. Min(Live(items, tm)) \in Live(items, tm)
      BY <1>2, <2>1, MinOfNats
    <3> QED BY <2>1, <3>1 DEF Live
  <2>3. EvictExpired(items, tm) = SubSeq(items, Min(Live(items, tm)), Len(items))
    BY <1>2 DEF EvictExpired
  <2> QED BY <2>2, <2>3, SuffixElements
<1> QED BY <1>1, <1>2

\* pop_front until n are left: a suffix of at most n.
LEMMA KeepNewestKeeps ==
    ASSUME NEW items \in Seq(Event), NEW n \in Nat
    PROVE  /\ KeepNewest(items, n) \in Seq(Event)
           /\ Len(KeepNewest(items, n)) <= n
           /\ ToSet(KeepNewest(items, n)) \subseteq ToSet(items)
           /\ IsInjective(items) => IsInjective(KeepNewest(items, n))
<1>1. CASE Len(items) > n
  <2>1. Len(items) - n + 1 \in 1..(Len(items) + 1)
    BY <1>1
  <2>2. KeepNewest(items, n) = SubSeq(items, Len(items) - n + 1, Len(items))
    BY <1>1 DEF KeepNewest
  <2>3. Len(items) - (Len(items) - n + 1) + 1 <= n
    OBVIOUS
  <2> QED BY <2>1, <2>2, <2>3, SuffixElements
<1>2. CASE ~(Len(items) > n)
  BY <1>2 DEF KeepNewest
<1> QED BY <1>1, <1>2

\* Backlog::push: the new event is in, nothing else comes in, nothing twice, and
\* the queue is at most at its capacity.
LEMMA PushKeeps ==
    ASSUME NEW items \in Seq(Event), NEW e \in Event, NEW tm
    PROVE  /\ push(items, e, tm) \in Seq(Event)
           /\ Len(push(items, e, tm)) <= Capacity
           /\ e \in ToSet(push(items, e, tm))
           /\ ToSet(push(items, e, tm)) \subseteq ToSet(items) \cup {e}
           /\ IsInjective(items) /\ e \notin ToSet(items) => IsInjective(push(items, e, tm))
<1> DEFINE live == EvictExpired(items, tm)
           kept == KeepNewest(live, Capacity - 1)
<1>1. Capacity \in Nat /\ Capacity - 1 \in Nat
  BY BacklogAssumption DEF Capacity
<1>2. /\ live \in Seq(Event) /\ ToSet(live) \subseteq ToSet(items)
      /\ IsInjective(items) => IsInjective(live)
  BY EvictExpiredKeeps
<1> HIDE DEF live
<1>3. /\ kept \in Seq(Event) /\ ToSet(kept) \subseteq ToSet(live)
      /\ Len(kept) <= Capacity - 1
      /\ IsInjective(live) => IsInjective(kept)
  BY <1>1, <1>2, KeepNewestKeeps
<1> HIDE DEF kept
<1>4. /\ Append(kept, e) \in Seq(Event)
      /\ ToSet(Append(kept, e)) = ToSet(kept) \cup {e}
      /\ IsInjective(kept) /\ e \notin ToSet(kept) => IsInjective(Append(kept, e))
  BY <1>3, AppendElements
<1>5. Len(Append(kept, e)) <= Capacity
  BY <1>1, <1>3
<1>6. push(items, e, tm) = Append(kept, e)
  BY DEF push, kept, live
<1> QED BY <1>2, <1>3, <1>4, <1>5, <1>6

\* Backlog::restore: only what was put back or was there, nothing twice, and at
\* most the capacity.
LEMMA RestoreKeeps ==
    ASSUME NEW items \in Seq(Event), NEW put \in Seq(Event), NEW tm
    PROVE  /\ restore(items, put, tm) \in Seq(Event)
           /\ Len(restore(items, put, tm)) <= Capacity
           /\ ToSet(restore(items, put, tm)) \subseteq ToSet(items) \cup ToSet(put)
           /\ IsInjective(items) /\ IsInjective(put) /\ ToSet(items) \cap ToSet(put) = {}
              => IsInjective(restore(items, put, tm))
<1> DEFINE all == put \o items
           live == EvictExpired(all, tm)
<1>1. Capacity \in Nat
  BY BacklogAssumption DEF Capacity
<1>2. /\ all \in Seq(Event) /\ ToSet(all) = ToSet(items) \cup ToSet(put)
      /\ IsInjective(items) /\ IsInjective(put) /\ ToSet(items) \cap ToSet(put) = {}
         => IsInjective(all)
  <2>1. all \in Seq(Event) /\ ToSet(all) = ToSet(put) \cup ToSet(items)
    BY ConcatElements
  <2>2. IsInjective(items) /\ IsInjective(put) /\ ToSet(put) \cap ToSet(items) = {}
         => IsInjective(all)
    BY ConcatElements
  <2> HIDE DEF all
  <2> QED BY <2>1, <2>2
<1> HIDE DEF all
<1>3. /\ live \in Seq(Event) /\ ToSet(live) \subseteq ToSet(all)
      /\ IsInjective(all) => IsInjective(live)
  BY <1>2, EvictExpiredKeeps
<1> HIDE DEF live
<1>4. /\ KeepNewest(live, Capacity) \in Seq(Event)
      /\ Len(KeepNewest(live, Capacity)) <= Capacity
      /\ ToSet(KeepNewest(live, Capacity)) \subseteq ToSet(live)
      /\ IsInjective(live) => IsInjective(KeepNewest(live, Capacity))
  BY <1>1, <1>3, KeepNewestKeeps
<1>5. restore(items, put, tm) = KeepNewest(live, Capacity)
  BY DEF restore, live, all
<1> QED BY <1>2, <1>3, <1>4, <1>5
-----------------------------------------------------------------------------
\* evict_expired drops only what is past the age limit: it stops at the first item
\* that is not.
LEMMA EvictsOnlyExpired ==
    ASSUME NEW items \in Seq(Event), NEW tm, NEW x \in ToSet(items),
           x \notin ToSet(EvictExpired(items, tm))
    PROVE  Expired(x, tm)
<1> DEFINE live == Live(items, tm)
<1>1. PICK i \in 1..Len(items) : items[i] = x
  BY Elements
<1>2. SUFFICES ASSUME i \in live PROVE FALSE
  BY <1>1 DEF Live
<1>3. Len(items) \in Nat /\ live \in SUBSET Nat /\ live # {}
  BY <1>2 DEF Live
<1>4. Min(live) \in live /\ Min(live) <= i
  BY <1>2, <1>3, MinOfNats
<1>5. PICK m \in live : m = Min(live)
  BY <1>4
<1>6. m \in 1..Len(items) /\ m <= i /\ i \in 1..Len(items)
  BY <1>4, <1>5 DEF Live
<1>7. EvictExpired(items, tm) = SubSeq(items, m, Len(items))
  BY <1>3, <1>5 DEF EvictExpired
<1> HIDE DEF live
<1> DEFINE u == SubSeq(items, m, Len(items))
<1>8. \A j \in m..Len(items) : items[j] \in Event
  BY <1>6
<1>9. /\ u \in Seq(Event) /\ Len(u) = Len(items) - m + 1
      /\ \A j \in 1..Len(u) : u[j] = items[m + j - 1]
  BY <1>3, <1>6, <1>8, SubSeqProperties
<1> HIDE DEF u
<1>10. i - m + 1 \in 1..Len(u) /\ m + (i - m + 1) - 1 = i
  BY <1>3, <1>6, <1>9
<1>11. u[i - m + 1] = x
  BY <1>1, <1>9, <1>10
<1>12. x \in ToSet(u)
  BY <1>9, <1>10, <1>11, Elements
<1> QED BY <1>7, <1>12 DEF u

\* pop_front drops an item only down to the length it stops at.
LEMMA DropsOnlyToLength ==
    ASSUME NEW items \in Seq(Event), NEW n \in Nat, KeepNewest(items, n) # items
    PROVE  Len(KeepNewest(items, n)) = n
<1>1. Len(items) > n /\ Len(items) \in Nat
  BY DEF KeepNewest
<1>2. Len(items) - n + 1 \in 1..(Len(items) + 1)
  BY <1>1
<1>3. Len(items) - (Len(items) - n + 1) + 1 = n
  BY <1>1
<1> QED BY <1>1, <1>2, <1>3, SuffixElements DEF KeepNewest

\* Backlog::push gives up an item for its age or for a full queue.
LEMMA PushLoses ==
    ASSUME NEW items \in Seq(Event), NEW e \in Event, NEW tm, NEW x \in ToSet(items),
           x \notin ToSet(push(items, e, tm))
    PROVE  Expired(x, tm) \/ Len(push(items, e, tm)) = Capacity
<1> DEFINE live == EvictExpired(items, tm)
           kept == KeepNewest(live, Capacity - 1)
<1>1. Capacity \in Nat /\ Capacity - 1 \in Nat
  BY BacklogAssumption DEF Capacity
<1>2. live \in Seq(Event)
  BY EvictExpiredKeeps
<1>3. x \notin ToSet(live) => Expired(x, tm)
  BY EvictsOnlyExpired
<1> HIDE DEF live
<1>4. kept \in Seq(Event) /\ (kept # live => Len(kept) = Capacity - 1)
  BY <1>1, <1>2, KeepNewestKeeps, DropsOnlyToLength
<1> HIDE DEF kept
<1>5. push(items, e, tm) = Append(kept, e)
  BY DEF push, kept, live
<1>6. x \notin ToSet(kept)
  BY <1>4, <1>5, AppendElements
<1>7. Len(Append(kept, e)) = Len(kept) + 1 /\ Len(kept) \in Nat
  BY <1>4
<1>8. CASE kept = live
  BY <1>3, <1>6, <1>8
<1>9. CASE kept # live
  BY <1>1, <1>4, <1>5, <1>7, <1>9
<1> QED BY <1>8, <1>9

\* So does Backlog::restore, of what was there and of what it puts back.
LEMMA RestoreLoses ==
    ASSUME NEW items \in Seq(Event), NEW put \in Seq(Event), NEW tm,
           NEW x \in ToSet(items) \cup ToSet(put),
           x \notin ToSet(restore(items, put, tm))
    PROVE  Expired(x, tm) \/ Len(restore(items, put, tm)) = Capacity
<1> DEFINE all == put \o items
           live == EvictExpired(all, tm)
           kept == KeepNewest(live, Capacity)
<1>1. Capacity \in Nat
  BY BacklogAssumption DEF Capacity
<1>2. all \in Seq(Event) /\ ToSet(all) = ToSet(put) \cup ToSet(items)
  BY ConcatElements
<1>3. x \in ToSet(all)
  <2> HIDE DEF all
  <2> QED BY <1>2
<1> HIDE DEF all
<1>4. live \in Seq(Event)
  BY <1>2, EvictExpiredKeeps
<1>5. x \notin ToSet(live) => Expired(x, tm)
  BY <1>2, <1>3, EvictsOnlyExpired
<1> HIDE DEF live
<1>6. kept # live => Len(kept) = Capacity
  BY <1>1, <1>4, DropsOnlyToLength
<1> HIDE DEF kept
<1>7. restore(items, put, tm) = kept
  BY DEF restore, kept, live, all
<1> QED BY <1>5, <1>6, <1>7

----------------------------------------------------------------------------
(* The registry. *)

\* Registry::ack finds the first entry of an event that is in flight.
LEMMA AckAtFirst ==
    ASSUME inflight \in Seq(Event), NEW e, e \in ToSet(inflight)
    PROVE  /\ AckAt(e) \in 1..Len(inflight)
           /\ inflight[AckAt(e)] = e
<1> DEFINE at == {i \in 1..Len(inflight) : inflight[i] = e}
<1>1. DOMAIN inflight = 1..Len(inflight) /\ Len(inflight) \in Nat
  OBVIOUS
<1>2. at # {} /\ at \in SUBSET Nat
  BY Elements
<1>3. Min(at) \in at /\ \A y \in at : Min(at) <= y
  BY <1>2, MinOfNats
<1>4. PICK m \in at : \A y \in at : m <= y
  BY <1>3
<1>5. \A j \in 1..(m - 1) : inflight[j] # e
  <2> SUFFICES ASSUME NEW j \in 1..(m - 1), inflight[j] = e PROVE FALSE
    OBVIOUS
  <2>1. j \in at /\ ~(m <= j)
    BY <1>1
  <2> QED BY <1>4, <2>1
<1>6. \E i \in DOMAIN inflight : inflight[i] = e /\ \A j \in 1..(i - 1) : inflight[j] # e
  BY <1>1, <1>5
<1> QED BY <1>1, <1>6 DEF AckAt

\* What Registry::ack leaves in flight: everything else, in order.
LEMMA AckRemoves ==
    ASSUME inflight \in Seq(Event), NEW e, e \in ToSet(inflight)
    PROVE  /\ RemoveAt(inflight, AckAt(e)) \in Seq(Event)
           /\ IsInjective(inflight) =>
                 /\ IsInjective(RemoveAt(inflight, AckAt(e)))
                 /\ ToSet(RemoveAt(inflight, AckAt(e))) = ToSet(inflight) \ {e}
<1> DEFINE k == AckAt(e)
           u == RemoveAt(inflight, k)
           n == Len(inflight)
<1>1. k \in 1..n /\ inflight[k] = e /\ n \in Nat
  BY AckAtFirst
<1> HIDE DEF k
<1> DEFINE a == SubSeq(inflight, 1, k - 1)
           b == SubSeq(inflight, k + 1, n)
<1>2. a \in Seq(Event) /\ Len(a) = k - 1 /\ \A i \in 1..(k - 1) : a[i] = inflight[i]
  BY <1>1
<1>3. b \in Seq(Event) /\ Len(b) = n - k /\ \A i \in 1..(n - k) : b[i] = inflight[k + i]
  BY <1>1
<1>4. /\ u \in Seq(Event) /\ Len(u) = n - 1
      /\ \A i \in 1..(n - 1) : u[i] = IF i < k THEN inflight[i] ELSE inflight[i + 1]
  <2>1. u = a \o b
    BY DEF RemoveAt
  <2> HIDE DEF a, b, u
  <2>2. /\ u \in Seq(Event) /\ Len(u) = Len(a) + Len(b)
        /\ \A i \in 1..(Len(a) + Len(b)) :
              u[i] = IF i <= Len(a) THEN a[i] ELSE b[i - Len(a)]
    BY <1>2, <1>3, <2>1, ConcatProperties
  <2>3. Len(a) + Len(b) = n - 1
    BY <1>1, <1>2, <1>3
  <2>4. ASSUME NEW i \in 1..(n - 1)
        PROVE  u[i] = IF i < k THEN inflight[i] ELSE inflight[i + 1]
    <3>1. CASE i < k
      BY <1>1, <1>2, <2>2, <2>3, <3>1
    <3>2. CASE ~(i < k)
      <4>1. i - (k - 1) \in 1..(n - k) /\ k + (i - (k - 1)) = i + 1 /\ ~(i <= Len(a))
        BY <1>1, <1>2, <3>2
      <4>2. u[i] = b[i - (k - 1)]
        BY <1>2, <2>2, <2>3, <4>1
      <4> QED BY <1>3, <3>2, <4>1, <4>2
    <3> QED BY <3>1, <3>2
  <2> QED BY <2>2, <2>3, <2>4
<1> HIDE DEF u
<1>5. ASSUME IsInjective(inflight)
      PROVE  IsInjective(u) /\ ToSet(u) = ToSet(inflight) \ {e}
  <2>1. DOMAIN u = 1..(n - 1) /\ DOMAIN inflight = 1..n
    BY <1>1, <1>4
  <2>2. \A i, j \in 1..n : inflight[i] = inflight[j] => i = j
    BY <1>5, <2>1 DEF IsInjective
  <2>3. IsInjective(u)
    BY <1>1, <1>4, <2>1, <2>2 DEF IsInjective
  <2>4. \A x : x \in ToSet(u) <=> \E i \in 1..(n - 1) : u[i] = x
    BY <1>4, Elements
  <2>5. \A x : x \in ToSet(inflight) <=> \E i \in 1..n : inflight[i] = x
    BY Elements
  <2>6. \A x : x \in ToSet(u) => x \in ToSet(inflight) \ {e}
    <3> SUFFICES ASSUME NEW i \in 1..(n - 1) PROVE u[i] \in ToSet(inflight) \ {e}
      BY <2>4
    <3>1. CASE i < k
      BY <1>1, <1>4, <2>2, <2>5, <3>1
    <3>2. CASE ~(i < k)
      <4>1. i + 1 \in 1..n /\ i + 1 # k /\ u[i] = inflight[i + 1]
        BY <1>1, <1>4, <3>2
      <4> QED BY <1>1, <2>2, <2>5, <4>1
    <3> QED BY <3>1, <3>2
  <2>7. \A x : x \in ToSet(inflight) \ {e} => x \in ToSet(u)
    <3> SUFFICES ASSUME NEW i \in 1..n, inflight[i] # e PROVE inflight[i] \in ToSet(u)
      BY <2>5
    <3>1. CASE i < k
      BY <1>1, <1>4, <2>4, <3>1
    <3>2. CASE i > k
      <4>1. i - 1 \in 1..(n - 1) /\ u[i - 1] = inflight[i]
        BY <1>1, <1>4, <3>2
      <4> QED BY <2>4, <4>1
    <3> QED BY <1>1, <3>1, <3>2
  <2> QED BY <2>3, <2>6, <2>7
<1> QED BY <1>4, <1>5 DEF u, k

\* Every variable of Registry keeps its type in every reachable state.
THEOREM TypeCorrect == Spec => []TypeOK
<1>1. Init => TypeOK
  BY DEF Init, TypeOK, ConnPc
<1>2. TypeOK /\ [Next]_vars => TypeOK'
  <2> SUFFICES ASSUME TypeOK, [Next]_vars PROVE TypeOK'
    OBVIOUS
  <2> USE DEF TypeOK
  <2>1. ASSUME NEW e \in Event, FetchAttachment(e) PROVE TypeOK'
    BY <2>1 DEF FetchAttachment, conns
  <2>2. ASSUME NEW e \in Event, Deliver(e) PROVE TypeOK'
    <3>1. Append(inflight, e) \in Seq(Event)
      OBVIOUS
    <3>2. \A c \in Conn : Append(queue[c], e) \in Seq(Event \cup {Result})
      OBVIOUS
    <3>3. fate' \in [Event -> {"none", "acked", "lost"}]
      BY <2>2 DEF Deliver, Losing
    <3>4. inflight' \in Seq(Event) /\ queue' \in [Conn -> Seq(Event \cup {Result})]
      <4>1. CASE UNCHANGED <<inflight, queue>>
        BY <4>1
      <4>2. ASSUME NEW c \in Conn, inflight' = Append(inflight, e),
                   queue' = [queue EXCEPT ![c] = Append(@, e)]
            PROVE  inflight' \in Seq(Event) /\ queue' \in [Conn -> Seq(Event \cup {Result})]
        BY <3>1, <3>2, <4>2
      <4>3. \/ UNCHANGED <<inflight, queue>>
            \/ \E c \in Conn : /\ inflight' = Append(inflight, e)
                              /\ queue' = [queue EXCEPT ![c] = Append(@, e)]
        BY <2>2 DEF Deliver
      <4> QED BY <4>1, <4>2, <4>3
    <3> QED BY <2>2, <3>3, <3>4 DEF Deliver
  <2>3. ASSUME NEW e \in Event, Enqueue(e) PROVE TypeOK'
    <3>1. backlog' \in Seq(Event)
      BY <2>3, PushKeeps DEF Enqueue
    <3> QED BY <2>3, <3>1 DEF Enqueue, Losing, conns
  <2>4. ASSUME NEW c \in Conn, TakeBacklog(c) PROVE TypeOK'
    <3>1. drain(backlog, now) \in Seq(Event)
      BY EvictExpiredKeeps DEF drain
    <3> QED BY <2>4, <3>1 DEF TakeBacklog, Losing, Goto, ConnPc
  <2>5. ASSUME NEW c \in Conn, ExtendInFlight(c) PROVE TypeOK'
    BY <2>5 DEF ExtendInFlight, Goto, ConnPc
  <2>6. ASSUME NEW c \in Conn, SpawnWriter(c) PROVE TypeOK'
    BY <2>6 DEF SpawnWriter, Goto, ConnPc
  <2>7. ASSUME NEW c \in Conn, SendResult(c) PROVE TypeOK'
    <3>1. \A d \in Conn : Append(queue[d], Result) \in Seq(Event \cup {Result})
      OBVIOUS
    <3>2. queue' \in [Conn -> Seq(Event \cup {Result})]
      BY <2>7, <3>1 DEF SendResult
    <3> QED BY <2>7, <3>2 DEF SendResult, Goto, ConnPc
  <2>8. ASSUME NEW c \in Conn, ReleaseName(c) PROVE TypeOK'
    BY <2>8 DEF ReleaseName, Goto, ConnPc
  <2>9. ASSUME NEW c \in Conn, TakeInFlight(c) PROVE TypeOK'
    BY <2>9 DEF TakeInFlight, Goto, ConnPc
  <2>10. ASSUME NEW c \in Conn, RestoreBacklog(c) PROVE TypeOK'
    <3>1. backlog' \in Seq(Event)
      BY <2>10, RestoreKeeps DEF RestoreBacklog
    <3> QED BY <2>10, <3>1 DEF RestoreBacklog, Losing, Goto, ConnPc
  <2>11. ASSUME NEW c \in Conn, Claim(c) PROVE TypeOK'
    BY <2>11 DEF Claim, Goto, ConnPc
  <2>12. ASSUME NEW c \in Conn, Welcome(c) PROVE TypeOK'
    BY <2>12 DEF Welcome, Goto, ConnPc
  <2>13. ASSUME NEW c \in Conn, FlushBacklog(c) PROVE TypeOK'
    <3>1. Head(hand[c]) \in Event /\ Tail(hand[c]) \in Seq(Event)
      BY <2>13, TailElements DEF FlushBacklog
    <3>2. hand' \in [Conn -> Seq(Event)] /\ sent' \in SUBSET Event
      <4> DEFINE h == Head(hand[c])
                 t == Tail(hand[c])
      <4>1. \/ sent' = sent \cup {h} /\ hand' = [hand EXCEPT ![c] = t]
            \/ sent' = sent /\ hand' = [hand EXCEPT ![c] = <<>>]
        BY <2>13 DEF FlushBacklog
      <4>2. h \in Event /\ t \in Seq(Event) /\ <<>> \in Seq(Event)
        BY <3>1
      <4> HIDE DEF h, t
      <4> QED BY <4>1, <4>2
    <3> QED BY <2>13, <3>2 DEF FlushBacklog, Goto, ConnPc
  <2>14. ASSUME NEW c \in Conn, WriteLoop(c) PROVE TypeOK'
    <3>1. Head(queue[c]) \in Event \cup {Result} /\ Tail(queue[c]) \in Seq(Event \cup {Result})
      BY <2>14, TailElements DEF WriteLoop
    <3>2. queue' \in [Conn -> Seq(Event \cup {Result})] /\ sent' \in SUBSET Event
      BY <2>14, <3>1 DEF WriteLoop
    <3> QED BY <2>14, <3>2 DEF WriteLoop
  <2>15. ASSUME NEW c \in Conn, WriterEnds(c) PROVE TypeOK'
    BY <2>15 DEF WriterEnds
  <2>16. ASSUME NEW c \in Conn, Command(c) PROVE TypeOK'
    BY <2>16 DEF Command, Goto, ConnPc
  <2>17. ASSUME NEW c \in Conn, ReadLoopEnds(c) PROVE TypeOK'
    BY <2>17 DEF ReadLoopEnds, Goto, ConnPc
  <2>18. ASSUME NEW c \in Conn, NEW e \in Event, Ack(c, e) PROVE TypeOK'
    <3>1. inflight' \in Seq(Event)
      BY <2>18, AckRemoves DEF Ack
    <3> QED BY <2>18, <3>1 DEF Ack, conns
  <2>19. CASE Sweep
    BY <2>19 DEF Sweep, conns
  <2>20. CASE Tick
    BY <2>20 DEF Tick, conns
  <2>21. CASE UNCHANGED vars
    BY <2>21 DEF vars, conns
  <2> QED
    BY <2>1, <2>2, <2>3, <2>4, <2>5, <2>6, <2>7, <2>8, <2>9, <2>10, <2>11, <2>12,
       <2>13, <2>14, <2>15, <2>16, <2>17, <2>18, <2>19, <2>20, <2>21
       DEF Next, Dispatcher, Handler, Socket
<1> QED BY <1>1, <1>2, PTL DEF Spec
-----------------------------------------------------------------------------
\* Claim::drop and Registry::claim keep the claim exclusive: the connection in the
\* registry's entry is the one, and the only one, whose handler owns the session.
THEOREM ClaimExclusive == Spec => []OneOwner
<1>1. Init => OneOwner
  BY RegistryAssumption DEF Init, OneOwner, Owning
<1>2. TypeOK /\ OneOwner /\ [Next]_vars => OneOwner'
  <2> SUFFICES ASSUME TypeOK, OneOwner, [Next]_vars PROVE OneOwner'
    OBVIOUS
  <2> USE RegistryAssumption DEF TypeOK, OneOwner, Owning
  <2>1. ASSUME NEW e \in Event, Dispatcher(e) PROVE OneOwner'
    BY <2>1 DEF Dispatcher, FetchAttachment, Deliver, Enqueue, conns
  <2>2. ASSUME NEW c \in Conn, Handler(c) PROVE OneOwner'
    <3>1. CASE ReleaseName(c)
      BY <3>1 DEF ReleaseName, Goto
    <3>2. CASE TakeBacklog(c)
      BY <3>2 DEF TakeBacklog, Goto
    <3>3. CASE ExtendInFlight(c)
      BY <3>3 DEF ExtendInFlight, Goto
    <3>4. CASE SpawnWriter(c)
      BY <3>4 DEF SpawnWriter, Goto
    <3>5. CASE SendResult(c)
      BY <3>5 DEF SendResult, Goto
    <3>6. CASE TakeInFlight(c)
      BY <3>6 DEF TakeInFlight, Goto
    <3>7. CASE RestoreBacklog(c)
      BY <3>7 DEF RestoreBacklog, Goto
    <3> QED BY <2>2, <3>1, <3>2, <3>3, <3>4, <3>5, <3>6, <3>7 DEF Handler
  <2>3. ASSUME NEW c \in Conn, Socket(c) PROVE OneOwner'
    <3>1. CASE Claim(c)
      BY <3>1 DEF Claim, Goto
    <3>2. CASE Welcome(c) \/ ReadLoopEnds(c) \/ Command(c)
      BY <3>2 DEF Welcome, ReadLoopEnds, Command, Goto
    <3>3. CASE FlushBacklog(c)
      BY <3>3 DEF FlushBacklog, Goto
    <3>4. CASE WriteLoop(c) \/ WriterEnds(c)
      BY <3>4 DEF WriteLoop, WriterEnds
    <3>5. CASE \E e \in Event : Ack(c, e)
      BY <3>5 DEF Ack, conns
    <3> QED BY <2>3, <3>1, <3>2, <3>3, <3>4, <3>5 DEF Socket
  <2>4. CASE Sweep \/ Tick \/ UNCHANGED vars
    BY <2>4 DEF Sweep, Tick, vars, conns
  <2> QED BY <2>1, <2>2, <2>3, <2>4 DEF Next
<1> QED BY <1>1, <1>2, TypeCorrect, PTL DEF Spec
-----------------------------------------------------------------------------
(* No event vanishes, none is in two places.  Each critical section moves  *)
(* events from one place to another, so the two are proved together; the   *)
(* strengthening is that back[c] is empty but for a claim that is putting  *)
(* it back, or TakeInFlight would overwrite what another one took.         *)

Conserved == NothingVanishes /\ OnePlace

BackEmpty == \A c \in Conn : pc[c] # "restore" => back[c] = <<>>

\* Membership in the two places that are spread over the connections.
LEMMA DrainedMembers ==
    \A x : x \in Drained <=> \E c \in Conn : pc[c] = "extend" /\ x \in ToSet(hand[c])
BY DEF Drained

\* What the claims are putting back is what their lists hold.
LEMMA PuttingBackMembers ==
    \A x : x \in PuttingBack <=> \E c \in Conn : x \in ToSet(back[c])
BY DEF PuttingBack

\* The drained events after a step, where the state is primed.
LEMMA DrainedMembersNext ==
    \A x : x \in Drained' <=> \E c \in Conn : pc'[c] = "extend" /\ x \in ToSet(hand'[c])
BY DEF Drained, ToSet

\* And the events being put back after a step.
LEMMA PuttingBackMembersNext ==
    \A x : x \in PuttingBack' <=> \E c \in Conn : x \in ToSet(back'[c])
BY DEF PuttingBack, ToSet

\* A step that leaves all five places alone conserves the events.
LEMMA PlacesUnchanged ==
    ASSUME Conserved,
           backlog' = backlog, inflight' = inflight, back' = back, task' = task,
           fate' = fate,
           \A c \in Conn : IsInjective(hand'[c]),
           \A c \in Conn : pc'[c] = "extend" <=> pc[c] = "extend",
           \A c \in Conn : pc[c] = "extend" => hand'[c] = hand[c]
    PROVE  Conserved'
<1>1. Drained' = Drained
  <2>1. \A x : x \in Drained' <=> x \in Drained
    BY DrainedMembers, DrainedMembersNext
  <2> QED BY <2>1
<1>2. PuttingBack' = PuttingBack /\ Settled' = Settled
  BY DEF PuttingBack, Settled
<1>3. ToSet(backlog)' = ToSet(backlog) /\ ToSet(inflight)' = ToSet(inflight)
  BY DEF ToSet
<1>4. NothingVanishes'
  BY <1>1, <1>2, <1>3 DEF Conserved, NothingVanishes
<1>5. OnePlace'
  BY <1>1, <1>2, <1>3 DEF Conserved, OnePlace, IsInjective
<1> QED BY <1>4, <1>5 DEF Conserved

\* deliver moves an event from its dispatch into flight, or gives it up, or
\* leaves it to enqueue.
LEMMA DeliverConserves ==
    ASSUME TypeOK, Conserved, NEW e \in Event, Deliver(e)
    PROVE  Conserved'
<1>1. /\ backlog' = backlog /\ hand' = hand /\ back' = back /\ pc' = pc
      /\ task[e] \in {"new", "deliver"}
  BY DEF Deliver, Dispatching, TypeOK
<1>2. Drained' = Drained /\ PuttingBack' = PuttingBack /\ ToSet(backlog)' = ToSet(backlog)
  BY <1>1 DEF Drained, PuttingBack, ToSet
<1>3. e \notin ToSet(backlog) \cup ToSet(inflight) \cup Drained \cup PuttingBack \cup Settled
  BY <1>1 DEF Conserved, OnePlace
<1>4. CASE /\ inflight' = Append(inflight, e)
           /\ task' = [task EXCEPT ![e] = "done"]
           /\ fate' = fate
  <2>1. ToSet(inflight)' = ToSet(inflight) \cup {e} /\ IsInjective(inflight')
    BY <1>3, <1>4, AppendElements DEF TypeOK, Conserved, OnePlace
  <2>2. Settled' = Settled
    BY <1>4 DEF Settled
  <2>3. NothingVanishes'
    BY <1>2, <1>4, <2>1, <2>2 DEF Conserved, NothingVanishes, TypeOK
  <2>4. OnePlace'
    BY <1>1, <1>2, <1>3, <1>4, <2>1, <2>2 DEF Conserved, OnePlace, TypeOK
  <2> QED BY <2>3, <2>4 DEF Conserved
<1>5. CASE /\ inflight' = inflight
           /\ task' = [task EXCEPT ![e] = "done"]
           /\ fate' = Losing({e})
  <2>1. ToSet(inflight)' = ToSet(inflight)
    BY <1>5 DEF ToSet
  <2>2. Settled' = Settled \cup {e}
    BY <1>5 DEF Settled, Losing
  <2>3. NothingVanishes'
    BY <1>2, <1>5, <2>1, <2>2 DEF Conserved, NothingVanishes, TypeOK
  <2>4. OnePlace'
    BY <1>1, <1>2, <1>3, <1>5, <2>1, <2>2 DEF Conserved, OnePlace, TypeOK
  <2> QED BY <2>3, <2>4 DEF Conserved
<1>6. CASE inflight' = inflight /\ task' = [task EXCEPT ![e] = "enqueue"] /\ fate' = fate
  <2>1. ToSet(inflight)' = ToSet(inflight) /\ Settled' = Settled
    BY <1>6 DEF ToSet, Settled
  <2>3. NothingVanishes'
    BY <1>2, <1>6, <2>1 DEF Conserved, NothingVanishes, TypeOK
  <2>4. OnePlace'
    BY <1>1, <1>2, <1>3, <1>6, <2>1 DEF Conserved, OnePlace, TypeOK
  <2> QED BY <2>3, <2>4 DEF Conserved
<1> QED BY <1>4, <1>5, <1>6 DEF Deliver

\* enqueue moves it into the backlog and gives up what the backlog evicts.
LEMMA EnqueueConserves ==
    ASSUME TypeOK, Conserved, NEW e \in Event, Enqueue(e)
    PROVE  Conserved'
<1>1. /\ inflight' = inflight /\ hand' = hand /\ back' = back /\ pc' = pc
      /\ task[e] = "enqueue" /\ task' = [task EXCEPT ![e] = "done"]
      /\ backlog' = push(backlog, e, now)
      /\ fate' = Losing(ToSet(backlog) \ ToSet(backlog'))
  BY DEF Enqueue, conns
<1>2. /\ Drained' = Drained /\ PuttingBack' = PuttingBack
      /\ ToSet(inflight)' = ToSet(inflight)
  BY <1>1 DEF Drained, PuttingBack, ToSet
<1>3. e \notin ToSet(backlog) \cup ToSet(inflight) \cup Drained \cup PuttingBack \cup Settled
  BY <1>1 DEF Conserved, OnePlace
<1>4. /\ ToSet(backlog') \subseteq ToSet(backlog) \cup {e}
      /\ e \in ToSet(backlog')
      /\ IsInjective(backlog')
  BY <1>1, <1>3, PushKeeps DEF TypeOK, Conserved, OnePlace
<1>5. ToSet(backlog) \subseteq Event
  BY Elements DEF TypeOK
<1>6. Settled' = Settled \cup (ToSet(backlog) \ ToSet(backlog'))
  BY <1>1, <1>5 DEF Settled, Losing
<1>7. NothingVanishes'
  BY <1>1, <1>2, <1>4, <1>6 DEF Conserved, NothingVanishes, TypeOK
<1>8. OnePlace'
  BY <1>1, <1>2, <1>3, <1>4, <1>6 DEF Conserved, OnePlace, TypeOK
<1> QED BY <1>7, <1>8 DEF Conserved

\* An acknowledgement moves an event from flight to its end.
LEMMA AckConserves ==
    ASSUME TypeOK, Conserved, NEW c \in Conn, NEW e \in Event, Ack(c, e)
    PROVE  Conserved'
<1>1. /\ backlog' = backlog /\ hand' = hand /\ back' = back /\ pc' = pc /\ task' = task
      /\ e \in ToSet(inflight) /\ inflight' = RemoveAt(inflight, AckAt(e))
      /\ fate' = [fate EXCEPT ![e] = "acked"]
  BY DEF Ack, conns
<1>2. /\ Drained' = Drained /\ PuttingBack' = PuttingBack
      /\ ToSet(backlog)' = ToSet(backlog)
  BY <1>1 DEF Drained, PuttingBack, ToSet
<1>3. IsInjective(inflight') /\ ToSet(inflight') = ToSet(inflight) \ {e}
  BY <1>1, AckRemoves DEF TypeOK, Conserved, OnePlace
<1>4. Settled' = Settled \cup {e}
  BY <1>1 DEF Settled, TypeOK
<1>5. NothingVanishes'
  BY <1>1, <1>2, <1>3, <1>4 DEF Conserved, NothingVanishes
<1>6. task[e] = "done"
  BY <1>1 DEF Conserved, OnePlace
<1>7. OnePlace'
  BY <1>1, <1>2, <1>3, <1>4, <1>6 DEF Conserved, OnePlace
<1> QED BY <1>5, <1>7 DEF Conserved

\* A download changes no place.
LEMMA FetchConserves ==
    ASSUME TypeOK, Conserved, NEW e \in Event, FetchAttachment(e)
    PROVE  Conserved'
<1>1. /\ backlog' = backlog /\ inflight' = inflight /\ hand' = hand /\ back' = back
      /\ pc' = pc /\ fate' = fate
      /\ task[e] = "new" /\ task' = [task EXCEPT ![e] = "deliver"]
  BY DEF FetchAttachment, conns
<1>2. /\ Drained' = Drained /\ PuttingBack' = PuttingBack /\ Settled' = Settled
      /\ ToSet(backlog)' = ToSet(backlog) /\ ToSet(inflight)' = ToSet(inflight)
  BY <1>1 DEF Drained, PuttingBack, Settled, ToSet
<1>3. NothingVanishes'
  BY <1>1, <1>2 DEF Conserved, NothingVanishes, TypeOK
<1>4. OnePlace'
  BY <1>1, <1>2 DEF Conserved, OnePlace, TypeOK
<1> QED BY <1>3, <1>4 DEF Conserved

\* The first half of take_backlog: out of the backlog, into the handler's hands.
\* Only the owner of the session drains, so no other hand holds anything.
LEMMA TakeBacklogConserves ==
    ASSUME TypeOK, OneOwner, Conserved, NEW c \in Conn, TakeBacklog(c)
    PROVE  Conserved'
<1> DEFINE taken == drain(backlog, now)
<1>1. /\ inflight' = inflight /\ back' = back /\ task' = task
      /\ backlog' = <<>> /\ hand' = [hand EXCEPT ![c] = taken]
      /\ pc[c] = "welcomed" /\ pc' = [pc EXCEPT ![c] = "extend"]
      /\ fate' = Losing(ToSet(backlog) \ ToSet(taken))
  BY DEF TakeBacklog, Goto
<1>2. /\ taken \in Seq(Event) /\ ToSet(taken) \subseteq ToSet(backlog)
      /\ IsInjective(taken)
  BY EvictExpiredKeeps DEF drain, TypeOK, Conserved, OnePlace
<1> HIDE DEF taken
<1>3. \A d \in Conn : pc[d] # "extend"
  BY <1>1 DEF OneOwner, Owning
<1>4. Drained = {}
  BY <1>3, DrainedMembers
<1>5. \A d \in Conn : pc'[d] = "extend" <=> d = c
  BY <1>1, <1>3 DEF TypeOK
<1>6. hand'[c] = taken
  BY <1>1 DEF TypeOK
<1>7. Drained' = ToSet(taken)
  <2>1. \A x : x \in Drained' <=> x \in ToSet(taken)
    BY <1>5, <1>6, DrainedMembersNext
  <2> QED BY <2>1
<1>8. PuttingBack' = PuttingBack /\ ToSet(inflight)' = ToSet(inflight)
  BY <1>1 DEF PuttingBack, ToSet
<1>9. ToSet(backlog') = {} /\ IsInjective(backlog')
  BY <1>1 DEF ToSet, IsInjective
<1>10. ToSet(backlog) \subseteq Event
  BY Elements DEF TypeOK
<1>11. Settled' = Settled \cup (ToSet(backlog) \ ToSet(taken))
  BY <1>1, <1>10 DEF Settled, Losing
<1>12. \A d \in Conn : IsInjective(hand'[d])
  BY <1>1, <1>2 DEF TypeOK, Conserved, OnePlace
<1>13. NothingVanishes'
  BY <1>1, <1>4, <1>7, <1>8, <1>11 DEF Conserved, NothingVanishes
<1>14. OnePlace'
  BY <1>1, <1>2, <1>7, <1>8, <1>9, <1>11, <1>12 DEF Conserved, OnePlace
<1> QED BY <1>13, <1>14 DEF Conserved

\* The second half: from the handler's hands into flight.
LEMMA ExtendConserves ==
    ASSUME TypeOK, OneOwner, Conserved, NEW c \in Conn, ExtendInFlight(c)
    PROVE  Conserved'
<1>1. /\ backlog' = backlog /\ back' = back /\ task' = task /\ fate' = fate /\ hand' = hand
      /\ inflight' = inflight \o hand[c]
      /\ pc[c] = "extend" /\ pc' = [pc EXCEPT ![c] = "flush"]
  BY DEF ExtendInFlight, Goto
<1>2. \A d \in Conn : pc[d] = "extend" <=> d = c
  BY <1>1 DEF OneOwner, Owning
<1>3. Drained = ToSet(hand[c])
  <2>1. \A x : x \in Drained <=> x \in ToSet(hand[c])
    BY <1>2, DrainedMembers
  <2> QED BY <2>1
<1>4. \A d \in Conn : pc'[d] # "extend"
  BY <1>1, <1>2 DEF TypeOK
<1>5. Drained' = {}
  BY <1>4, DrainedMembersNext
<1>6. IsInjective(inflight') /\ ToSet(inflight') = ToSet(inflight) \cup ToSet(hand[c])
  <2>1. inflight \in Seq(Event) /\ hand[c] \in Seq(Event)
    BY DEF TypeOK
  <2>2. IsInjective(inflight) /\ IsInjective(hand[c]) /\ ToSet(inflight) \cap ToSet(hand[c]) = {}
    BY <1>3 DEF Conserved, OnePlace
  <2> QED BY <1>1, <2>1, <2>2, ConcatElements
<1>7. /\ PuttingBack' = PuttingBack /\ Settled' = Settled
      /\ ToSet(backlog)' = ToSet(backlog)
  BY <1>1 DEF PuttingBack, Settled, ToSet
<1>8. NothingVanishes'
  BY <1>1, <1>3, <1>5, <1>6, <1>7 DEF Conserved, NothingVanishes
<1>9. OnePlace'
  BY <1>1, <1>3, <1>5, <1>6, <1>7 DEF Conserved, OnePlace
<1> QED BY <1>8, <1>9 DEF Conserved

\* A dying claim takes what is in flight ...
LEMMA TakeInFlightConserves ==
    ASSUME TypeOK, BackEmpty, Conserved, NEW c \in Conn, TakeInFlight(c)
    PROVE  Conserved'
<1>1. /\ backlog' = backlog /\ hand' = hand /\ task' = task /\ fate' = fate
      /\ back' = [back EXCEPT ![c] = inflight] /\ inflight' = <<>>
      /\ pc[c] = "released" /\ pc' = [pc EXCEPT ![c] = "restore"]
  BY DEF TakeInFlight, Goto
<1>2. ToSet(back[c]) = {}
  BY <1>1 DEF BackEmpty, ToSet
<1>3. \A d \in Conn : back'[d] = IF d = c THEN inflight ELSE back[d]
  BY <1>1 DEF TypeOK
<1>4. PuttingBack' = PuttingBack \cup ToSet(inflight)
  <2>1. \A x : x \in PuttingBack' <=> x \in PuttingBack \cup ToSet(inflight)
    BY <1>2, <1>3, PuttingBackMembers, PuttingBackMembersNext
  <2> QED BY <2>1
<1>5. \A d \in Conn : pc'[d] = "extend" <=> pc[d] = "extend"
  BY <1>1 DEF TypeOK
<1>6. Drained' = Drained
  <2>1. \A x : x \in Drained' <=> x \in Drained
    BY <1>1, <1>5, DrainedMembers, DrainedMembersNext
  <2> QED BY <2>1
<1>7. Settled' = Settled /\ ToSet(backlog)' = ToSet(backlog)
  BY <1>1 DEF Settled, ToSet
<1>8. ToSet(inflight') = {} /\ IsInjective(inflight')
  BY <1>1 DEF ToSet, IsInjective
<1>9. \A d \in Conn : ToSet(back[d]) \subseteq PuttingBack
  BY PuttingBackMembers
<1>10. NothingVanishes'
  BY <1>1, <1>4, <1>6, <1>7 DEF Conserved, NothingVanishes
<1>11. OnePlace'
  <2>1. \A d \in Conn : IsInjective(back'[d])
    BY <1>3 DEF Conserved, OnePlace
  <2>2. \A d, f \in Conn : d # f => ToSet(back'[d]) \cap ToSet(back'[f]) = {}
    BY <1>3, <1>9 DEF Conserved, OnePlace
  <2> QED BY <1>1, <1>4, <1>6, <1>7, <1>8, <2>1, <2>2 DEF Conserved, OnePlace
<1> QED BY <1>10, <1>11 DEF Conserved

\* ... and puts it back in front of the backlog, giving up what is evicted.
LEMMA RestoreConserves ==
    ASSUME TypeOK, Conserved, NEW c \in Conn, RestoreBacklog(c)
    PROVE  Conserved'
<1>1. /\ inflight' = inflight /\ hand' = hand /\ task' = task
      /\ back' = [back EXCEPT ![c] = <<>>]
      /\ pc[c] = "restore" /\ pc' = [pc EXCEPT ![c] = "off"]
      /\ backlog' = IF back[c] = <<>> THEN backlog ELSE restore(backlog, back[c], now)
      /\ fate' = Losing((ToSet(backlog) \cup ToSet(back[c])) \ ToSet(backlog'))
  BY DEF RestoreBacklog, Goto
<1>2. \A x : x \in PuttingBack <=> \E d \in Conn : x \in ToSet(back[d])
  BY PuttingBackMembers
<1>3. /\ backlog \in Seq(Event) /\ back[c] \in Seq(Event)
      /\ IsInjective(backlog) /\ IsInjective(back[c])
      /\ ToSet(backlog) \cap ToSet(back[c]) = {}
  BY <1>2 DEF TypeOK, Conserved, OnePlace
<1>4. /\ ToSet(backlog') \subseteq ToSet(backlog) \cup ToSet(back[c])
      /\ IsInjective(backlog')
  BY <1>1, <1>3, RestoreKeeps
<1>5. \A d \in Conn : back'[d] = IF d = c THEN <<>> ELSE back[d]
  BY <1>1 DEF TypeOK
<1>6. ToSet(<<>>) = {} /\ IsInjective(<<>>)
  BY DEF ToSet, IsInjective
<1>7. PuttingBack' = PuttingBack \ ToSet(back[c])
  <2>1. \A x : x \in PuttingBack' <=> \E d \in Conn : x \in ToSet(back'[d])
    BY PuttingBackMembersNext
  <2>2. \A d \in Conn : d # c => ToSet(back[d]) \cap ToSet(back[c]) = {}
    BY DEF Conserved, OnePlace
  <2>3. \A x : x \in PuttingBack' <=> x \in PuttingBack \ ToSet(back[c])
    BY <1>2, <1>5, <1>6, <2>1, <2>2
  <2> QED BY <2>3
<1>8. \A d \in Conn : pc'[d] = "extend" <=> pc[d] = "extend"
  BY <1>1 DEF TypeOK
<1>9. Drained' = Drained
  <2>1. \A x : x \in Drained' <=> x \in Drained
    BY <1>1, <1>8, DrainedMembers, DrainedMembersNext
  <2> QED BY <2>1
<1>10. ToSet(backlog) \cup ToSet(back[c]) \subseteq Event
  BY <1>3, Elements
<1>11. Settled' = Settled \cup ((ToSet(backlog) \cup ToSet(back[c])) \ ToSet(backlog'))
  BY <1>1, <1>10 DEF Settled, Losing
<1>12. ToSet(inflight)' = ToSet(inflight)
  BY <1>1 DEF ToSet
<1>13. NothingVanishes'
  BY <1>1, <1>7, <1>9, <1>11, <1>12 DEF Conserved, NothingVanishes
<1>14. ToSet(back[c]) \subseteq PuttingBack
  BY <1>2
<1>15. OnePlace'
  <2>1. \A d \in Conn : IsInjective(back'[d])
    BY <1>5, <1>6 DEF Conserved, OnePlace
  <2>2. \A d, f \in Conn : d # f => ToSet(back'[d]) \cap ToSet(back'[f]) = {}
    BY <1>5, <1>6 DEF Conserved, OnePlace
  <2> QED BY <1>1, <1>4, <1>7, <1>9, <1>11, <1>12, <1>14, <2>1, <2>2 DEF Conserved, OnePlace
<1> QED BY <1>13, <1>15 DEF Conserved

\* Only a claim that is putting events back holds any.
LEMMA BackEmptyAlways == Spec => []BackEmpty
<1>1. Init => BackEmpty
  BY DEF Init, BackEmpty
<1>2. TypeOK /\ BackEmpty /\ [Next]_vars => BackEmpty'
  <2> SUFFICES ASSUME TypeOK, BackEmpty, [Next]_vars PROVE BackEmpty'
    OBVIOUS
  <2> USE DEF TypeOK, BackEmpty
  <2>1. ASSUME NEW e \in Event, Dispatcher(e) PROVE BackEmpty'
    BY <2>1 DEF Dispatcher, FetchAttachment, Deliver, Enqueue, conns
  <2>2. ASSUME NEW c \in Conn, Handler(c) PROVE BackEmpty'
    <3>1. CASE TakeBacklog(c) \/ ExtendInFlight(c) \/ SpawnWriter(c)
      BY <3>1 DEF TakeBacklog, ExtendInFlight, SpawnWriter, Goto
    <3>2. CASE SendResult(c) \/ ReleaseName(c)
      BY <3>2 DEF SendResult, ReleaseName, Goto
    <3>3. CASE TakeInFlight(c)
      BY <3>3 DEF TakeInFlight, Goto
    <3>4. CASE RestoreBacklog(c)
      BY <3>4 DEF RestoreBacklog, Goto
    <3> QED BY <2>2, <3>1, <3>2, <3>3, <3>4 DEF Handler
  <2>3. ASSUME NEW c \in Conn, Socket(c) PROVE BackEmpty'
    <3>1. CASE Claim(c) \/ Welcome(c) \/ FlushBacklog(c)
      BY <3>1 DEF Claim, Welcome, FlushBacklog, Goto
    <3>2. CASE WriteLoop(c) \/ WriterEnds(c) \/ Command(c) \/ ReadLoopEnds(c)
      BY <3>2 DEF WriteLoop, WriterEnds, Command, ReadLoopEnds, Goto
    <3>3. CASE \E e \in Event : Ack(c, e)
      BY <3>3 DEF Ack, conns
    <3> QED BY <2>3, <3>1, <3>2, <3>3 DEF Socket
  <2>4. CASE Sweep \/ Tick \/ UNCHANGED vars
    BY <2>4 DEF Sweep, Tick, vars, conns
  <2> QED BY <2>1, <2>2, <2>3, <2>4 DEF Next
<1> QED BY <1>1, <1>2, TypeCorrect, PTL DEF Spec

\* The two conservation invariants, in the proof's joint form.
LEMMA ConservedAlways == Spec => []Conserved
<1>1. Init => Conserved
  <2> SUFFICES ASSUME Init PROVE Conserved
    OBVIOUS
  <2>1. ToSet(<<>>) = {} /\ IsInjective(<<>>)
    BY DEF ToSet, IsInjective
  <2>2. Drained = {}
    BY DrainedMembers DEF Init
  <2>3. PuttingBack = {}
    BY <2>1, PuttingBackMembers DEF Init
  <2>4. Settled = {}
    BY DEF Init, Settled
  <2> QED BY <2>1, <2>2, <2>3, <2>4 DEF Init, Conserved, NothingVanishes, OnePlace
<1>2. TypeOK /\ OneOwner /\ BackEmpty /\ Conserved /\ [Next]_vars => Conserved'
  <2> SUFFICES ASSUME TypeOK, OneOwner, BackEmpty, Conserved, [Next]_vars PROVE Conserved'
    OBVIOUS
  <2>1. ASSUME NEW e \in Event, Dispatcher(e) PROVE Conserved'
    BY <2>1, FetchConserves, DeliverConserves, EnqueueConserves DEF Dispatcher
  <2>2. \A c \in Conn : IsInjective(hand[c])
    BY DEF Conserved, OnePlace
  <2>3. ASSUME NEW c \in Conn, Handler(c) PROVE Conserved'
    <3>1. CASE SpawnWriter(c)
      <4>1. \A d \in Conn : pc'[d] = "extend" <=> pc[d] = "extend"
        BY <3>1 DEF SpawnWriter, Goto, TypeOK
      <4> QED BY <2>2, <3>1, <4>1, PlacesUnchanged DEF SpawnWriter
    <3>2. CASE SendResult(c)
      <4>1. \A d \in Conn : pc'[d] = "extend" <=> pc[d] = "extend"
        BY <3>2 DEF SendResult, Goto, TypeOK
      <4> QED BY <2>2, <3>2, <4>1, PlacesUnchanged DEF SendResult
    <3>3. CASE ReleaseName(c)
      <4>1. \A d \in Conn : pc'[d] = "extend" <=> pc[d] = "extend"
        BY <3>3 DEF ReleaseName, Goto, TypeOK
      <4> QED BY <2>2, <3>3, <4>1, PlacesUnchanged DEF ReleaseName
    <3> QED
      BY <2>3, <3>1, <3>2, <3>3, TakeBacklogConserves, ExtendConserves,
         TakeInFlightConserves, RestoreConserves DEF Handler
  <2>4. ASSUME NEW c \in Conn, Socket(c) PROVE Conserved'
    <3>1. CASE Claim(c)
      <4>1. \A d \in Conn : pc'[d] = "extend" <=> pc[d] = "extend"
        BY <3>1 DEF Claim, Goto, TypeOK
      <4> QED BY <2>2, <3>1, <4>1, PlacesUnchanged DEF Claim
    <3>2. CASE Welcome(c)
      <4>1. \A d \in Conn : pc'[d] = "extend" <=> pc[d] = "extend"
        BY <3>2 DEF Welcome, Goto, TypeOK
      <4> QED BY <2>2, <3>2, <4>1, PlacesUnchanged DEF Welcome
    <3>3. CASE FlushBacklog(c)
      <4>1. \A d \in Conn : pc'[d] = "extend" <=> pc[d] = "extend"
        BY <3>3 DEF FlushBacklog, Goto, TypeOK
      <4>2. \A d \in Conn : pc[d] = "extend" => hand'[d] = hand[d]
        BY <3>3 DEF FlushBacklog, TypeOK
      <4>3. IsInjective(Tail(hand[c])) /\ IsInjective(<<>>)
        <5>1. IsInjective(Tail(hand[c]))
          BY <2>2, <3>3, TailElements DEF FlushBacklog, TypeOK
        <5> QED BY <5>1 DEF IsInjective
      <4>4. \A d \in Conn : IsInjective(hand'[d])
        BY <2>2, <3>3, <4>3 DEF FlushBacklog, TypeOK
      <4> QED BY <3>3, <4>1, <4>2, <4>4, PlacesUnchanged DEF FlushBacklog
    <3>4. CASE WriteLoop(c)
      BY <2>2, <3>4, PlacesUnchanged DEF WriteLoop
    <3>5. CASE WriterEnds(c)
      BY <2>2, <3>5, PlacesUnchanged DEF WriterEnds
    <3>6. CASE Command(c)
      <4>1. \A d \in Conn : pc'[d] = "extend" <=> pc[d] = "extend"
        BY <3>6 DEF Command, Goto, TypeOK
      <4> QED BY <2>2, <3>6, <4>1, PlacesUnchanged DEF Command
    <3>7. CASE ReadLoopEnds(c)
      <4>1. \A d \in Conn : pc'[d] = "extend" <=> pc[d] = "extend"
        BY <3>7 DEF ReadLoopEnds, Goto, TypeOK
      <4> QED BY <2>2, <3>7, <4>1, PlacesUnchanged DEF ReadLoopEnds
    <3> QED
      BY <2>4, <3>1, <3>2, <3>3, <3>4, <3>5, <3>6, <3>7, AckConserves DEF Socket
  <2>5. CASE Sweep \/ Tick \/ UNCHANGED vars
    BY <2>2, <2>5, PlacesUnchanged DEF Sweep, Tick, vars, conns
  <2> QED BY <2>1, <2>3, <2>4, <2>5 DEF Next
<1> QED BY <1>1, <1>2, TypeCorrect, ClaimExclusive, BackEmptyAlways, PTL DEF Spec

\* For any events, connections and limits: an event whose dispatch is over is never
\* without a place in the registry until it is acknowledged or logged as lost.
THEOREM NoEventVanishes == Spec => []NothingVanishes
<1>1. Conserved => NothingVanishes
  BY DEF Conserved
<1> QED BY <1>1, ConservedAlways, PTL

\* And no event is in two places, twice in one, or kept after its end.
THEOREM EveryEventInOnePlace == Spec => []OnePlace
<1>1. Conserved => OnePlace
  BY DEF Conserved
<1> QED BY <1>1, ConservedAlways, PTL

\* Neither the backlog nor a connection's queue ever outgrows its limit.
THEOREM LimitsKept == Spec => []WithinLimits
<1>0. Capacity \in Nat /\ SessionQueue \in Nat
  BY BacklogAssumption, RegistryAssumption DEF Capacity
<1>1. Init => WithinLimits
  BY <1>0 DEF Init, WithinLimits
<1>2. TypeOK /\ WithinLimits /\ [Next]_vars => WithinLimits'
  <2> SUFFICES ASSUME TypeOK, WithinLimits, [Next]_vars PROVE WithinLimits'
    OBVIOUS
  <2>1. ASSUME NEW d \in Conn, NEW q \in Seq(Event \cup {Result}), Len(q) <= SessionQueue,
               queue' = [queue EXCEPT ![d] = q], backlog' = backlog
        PROVE  WithinLimits'
    BY <2>1 DEF TypeOK, WithinLimits
  <2>2. ASSUME queue' = queue, Len(backlog') <= Capacity PROVE WithinLimits'
    BY <2>2 DEF WithinLimits
  <2>3. \A d \in Conn, x \in Event \cup {Result} : Len(queue[d]) < SessionQueue =>
            /\ Append(queue[d], x) \in Seq(Event \cup {Result})
            /\ Len(Append(queue[d], x)) <= SessionQueue
    BY <1>0 DEF TypeOK
  <2>4. <<>> \in Seq(Event \cup {Result}) /\ Len(<<>>) = 0
    OBVIOUS
  <2>5. ASSUME NEW e \in Event, Dispatcher(e) PROVE WithinLimits'
    <3>1. CASE FetchAttachment(e)
      BY <2>2, <3>1 DEF FetchAttachment, conns, WithinLimits
    <3>2. CASE Deliver(e)
      <4>1. backlog' = backlog
        BY <3>2 DEF Deliver
      <4>2. \/ queue' = queue
            \/ \E d \in Conn : /\ Len(queue[d]) < SessionQueue
                              /\ queue' = [queue EXCEPT ![d] = Append(queue[d], e)]
        BY <3>2 DEF Deliver
      <4> QED BY <2>1, <2>2, <2>3, <4>1, <4>2 DEF WithinLimits
    <3>3. CASE Enqueue(e)
      <4>1. Len(backlog') <= Capacity
        BY <3>3, PushKeeps DEF Enqueue, TypeOK
      <4> QED BY <2>2, <3>3, <4>1 DEF Enqueue, conns
    <3> QED BY <2>5, <3>1, <3>2, <3>3 DEF Dispatcher
  <2>6. ASSUME NEW c \in Conn, Handler(c) PROVE WithinLimits'
    <3>1. CASE TakeBacklog(c)
      BY <1>0, <2>2, <2>4, <3>1 DEF TakeBacklog
    <3>2. CASE ExtendInFlight(c) \/ SpawnWriter(c) \/ ReleaseName(c) \/ TakeInFlight(c)
      BY <2>2, <3>2 DEF ExtendInFlight, SpawnWriter, ReleaseName, TakeInFlight, WithinLimits
    <3>3. CASE SendResult(c)
      <4>1. backlog' = backlog
        BY <3>3 DEF SendResult
      <4>2. \/ queue' = queue
            \/ /\ Len(queue[c]) < SessionQueue
               /\ queue' = [queue EXCEPT ![c] = Append(queue[c], Result)]
        BY <3>3 DEF SendResult
      <4> QED BY <2>1, <2>2, <2>3, <4>1, <4>2 DEF WithinLimits
    <3>4. CASE RestoreBacklog(c)
      <4>1. Len(backlog') <= Capacity
        BY <3>4, RestoreKeeps DEF RestoreBacklog, TypeOK, WithinLimits
      <4>2. \A d \in Conn : queue'[d] = queue[d] \/ queue'[d] = <<>>
        BY <3>4 DEF RestoreBacklog, TypeOK
      <4> QED BY <1>0, <2>4, <4>1, <4>2 DEF WithinLimits
    <3> QED BY <2>6, <3>1, <3>2, <3>3, <3>4 DEF Handler
  <2>7. ASSUME NEW c \in Conn, Socket(c) PROVE WithinLimits'
    <3>1. CASE Claim(c) \/ WriterEnds(c)
      <4>1. queue' = [queue EXCEPT ![c] = <<>>] /\ backlog' = backlog
        BY <3>1 DEF Claim, WriterEnds
      <4>2. \A d \in Conn : queue'[d] = queue[d] \/ queue'[d] = <<>>
        BY <4>1 DEF TypeOK
      <4> QED BY <1>0, <2>4, <4>1, <4>2 DEF WithinLimits
    <3>2. CASE Welcome(c) \/ FlushBacklog(c) \/ Command(c) \/ ReadLoopEnds(c)
      BY <2>2, <3>2 DEF Welcome, FlushBacklog, Command, ReadLoopEnds, WithinLimits
    <3>3. CASE WriteLoop(c)
      <4>1. queue' = [queue EXCEPT ![c] = Tail(queue[c])] /\ backlog' = backlog /\ queue[c] # <<>>
        BY <3>3 DEF WriteLoop
      <4>2. Tail(queue[c]) \in Seq(Event \cup {Result}) /\ Len(Tail(queue[c])) = Len(queue[c]) - 1
        BY <4>1, HeadTailProperties DEF TypeOK
      <4>3. Len(queue[c]) \in Nat /\ Len(queue[c]) <= SessionQueue
        BY DEF TypeOK, WithinLimits
      <4>4. Len(Tail(queue[c])) <= SessionQueue
        BY <1>0, <4>2, <4>3
      <4> QED BY <2>1, <4>1, <4>2, <4>4
    <3>4. CASE \E e \in Event : Ack(c, e)
      BY <2>2, <3>4 DEF Ack, conns, WithinLimits
    <3> QED BY <2>7, <3>1, <3>2, <3>3, <3>4 DEF Socket
  <2>8. CASE Sweep \/ Tick \/ UNCHANGED vars
    BY <2>2, <2>8 DEF Sweep, Tick, vars, conns, WithinLimits
  <2> QED BY <2>5, <2>6, <2>7, <2>8 DEF Next
<1> QED BY <1>1, <1>2, TypeCorrect, PTL DEF Spec
-----------------------------------------------------------------------------
(* The spool.  SpoolKept speaks of the four places, which every critical   *)
(* section changes.  What is inductive is said without them: a file that   *)
(* was fetched and is gone was old enough for the sweep, unless its event  *)
(* has ended.                                                              *)

SweptWasOld ==
    \A e \in Event :
        fetched[e] > 0 /\ fate[e] = "none" /\ e \notin spool =>
            now - fetched[e] > LeftoverMaxAge

\* A step that deletes no file and fetches none keeps it, whatever ends meanwhile.
LEMMA SweptStays ==
    ASSUME SweptWasOld, now' = now, spool' = spool, fetched' = fetched,
           \A e \in Event : fate'[e] = "none" => fate[e] = "none"
    PROVE  SweptWasOld'
BY DEF SweptWasOld

\* An eviction ends events and revives none.
LEMMA LosingEnds ==
    ASSUME TypeOK, NEW gone, fate' = Losing(gone)
    PROVE  \A e \in Event : fate'[e] = "none" => fate[e] = "none"
BY DEF TypeOK, Losing

\* The attachment of an event that can still be delivered is in the spool, or was
\* swept as a leftover of a day (write_event, Daemon::acked, spool::sweep).
THEOREM AttachmentsAreKept == Spec => []SpoolKept
<1>1. Init => SweptWasOld
  BY DEF Init, SweptWasOld
<1>2. TypeOK /\ SweptWasOld /\ [Next]_vars => SweptWasOld'
  <2> SUFFICES ASSUME TypeOK, SweptWasOld, [Next]_vars PROVE SweptWasOld'
    OBVIOUS
  <2>1. ASSUME NEW e \in Event, Dispatcher(e) PROVE SweptWasOld'
    <3>1. CASE FetchAttachment(e)
      BY <3>1 DEF FetchAttachment, SweptWasOld, TypeOK
    <3>2. CASE Deliver(e)
      <4>1. \A x \in Event : fate'[x] = "none" => fate[x] = "none"
        BY <3>2, LosingEnds DEF Deliver
      <4> QED BY <3>2, <4>1, SweptStays DEF Deliver
    <3>3. CASE Enqueue(e)
      <4>1. \A x \in Event : fate'[x] = "none" => fate[x] = "none"
        BY <3>3, LosingEnds DEF Enqueue
      <4> QED BY <3>3, <4>1, SweptStays DEF Enqueue
    <3> QED BY <2>1, <3>1, <3>2, <3>3 DEF Dispatcher
  <2>2. ASSUME NEW c \in Conn, Handler(c) PROVE SweptWasOld'
    <3>1. CASE TakeBacklog(c)
      <4>1. \A x \in Event : fate'[x] = "none" => fate[x] = "none"
        BY <3>1, LosingEnds DEF TakeBacklog
      <4> QED BY <3>1, <4>1, SweptStays DEF TakeBacklog
    <3>2. CASE RestoreBacklog(c)
      <4>1. \A x \in Event : fate'[x] = "none" => fate[x] = "none"
        BY <3>2, LosingEnds DEF RestoreBacklog
      <4> QED BY <3>2, <4>1, SweptStays DEF RestoreBacklog
    <3>3. CASE ExtendInFlight(c) \/ SpawnWriter(c) \/ SendResult(c)
      BY <3>3, SweptStays DEF ExtendInFlight, SpawnWriter, SendResult
    <3>4. CASE ReleaseName(c) \/ TakeInFlight(c)
      BY <3>4, SweptStays DEF ReleaseName, TakeInFlight
    <3> QED BY <2>2, <3>1, <3>2, <3>3, <3>4 DEF Handler
  <2>3. ASSUME NEW c \in Conn, Socket(c) PROVE SweptWasOld'
    <3>1. CASE \E e \in Event : Ack(c, e)
      BY <3>1 DEF Ack, SweptWasOld, TypeOK
    <3>2. CASE Claim(c) \/ Welcome(c) \/ FlushBacklog(c) \/ WriteLoop(c)
      BY <3>2, SweptStays DEF Claim, Welcome, FlushBacklog, WriteLoop
    <3>3. CASE WriterEnds(c) \/ Command(c) \/ ReadLoopEnds(c)
      BY <3>3, SweptStays DEF WriterEnds, Command, ReadLoopEnds
    <3> QED BY <2>3, <3>1, <3>2, <3>3 DEF Socket
  <2>4. CASE Sweep
    BY <2>4, RegistryAssumption DEF Sweep, SweptWasOld, TypeOK
  <2>5. CASE Tick
    BY <2>5, RegistryAssumption DEF Tick, SweptWasOld, TypeOK
  <2>6. CASE UNCHANGED vars
    BY <2>6, SweptStays DEF vars
  <2> QED BY <2>1, <2>2, <2>3, <2>4, <2>5, <2>6 DEF Next
<1>3. SweptWasOld /\ OnePlace => SpoolKept
  BY DEF SweptWasOld, OnePlace, Settled, SpoolKept
<1> QED BY <1>1, <1>2, <1>3, TypeCorrect, EveryEventInOnePlace, PTL DEF Spec
-----------------------------------------------------------------------------
\* In every step of the registry a message is given up only for its age, a full
\* backlog or a full outbound queue (Backlog::push, drain, restore, deliver).
THEOREM GivenUpAtALimit == Spec => LostOnlyAtALimit
<1> DEFINE AtALimit == \A e \in Event : fate[e] # "lost" /\ fate'[e] = "lost" =>
              \/ Expired(e, now)
              \/ Len(backlog') >= Capacity
              \/ \E c \in Conn : Open(c) /\ Len(queue[c]) >= SessionQueue
<1>0. Capacity \in Nat /\ SessionQueue \in Nat
  BY BacklogAssumption, RegistryAssumption DEF Capacity
<1>1. ASSUME TypeOK, [Next]_vars PROVE AtALimit
  <2>1. ASSUME \A e \in Event : fate'[e] = "lost" => fate[e] = "lost" PROVE AtALimit
    BY <2>1
  <2>2. ASSUME NEW gone, fate' = Losing(gone),
               \A e \in gone : Expired(e, now) \/ Len(backlog') >= Capacity
        PROVE  AtALimit
    BY <2>2 DEF Losing
  <2> HIDE DEF AtALimit
  <2>3. ASSUME NEW e \in Event, Dispatcher(e) PROVE AtALimit
    <3>1. CASE FetchAttachment(e)
      BY <2>1, <3>1 DEF FetchAttachment
    <3>2. CASE Deliver(e)
      <4>1. CASE fate' = fate
        BY <2>1, <4>1
      <4>2. CASE /\ fate' = Losing({e})
                 /\ \E c \in Conn : Open(c) /\ Len(queue[c]) >= SessionQueue
        BY <4>2 DEF Losing, AtALimit
      <4> QED BY <3>2, <4>1, <4>2 DEF Deliver
    <3>3. CASE Enqueue(e)
      <4>1. /\ backlog' = push(backlog, e, now)
            /\ fate' = Losing(ToSet(backlog) \ ToSet(backlog'))
        BY <3>3 DEF Enqueue
      <4>2. \A x \in ToSet(backlog) \ ToSet(backlog') :
                Expired(x, now) \/ Len(backlog') >= Capacity
        BY <1>0, <1>1, <4>1, PushLoses DEF TypeOK
      <4> QED BY <2>2, <4>1, <4>2
    <3> QED BY <2>3, <3>1, <3>2, <3>3 DEF Dispatcher
  <2>4. ASSUME NEW c \in Conn, Handler(c) PROVE AtALimit
    <3>1. CASE TakeBacklog(c)
      <4>1. fate' = Losing(ToSet(backlog) \ ToSet(drain(backlog, now)))
        BY <3>1 DEF TakeBacklog
      <4>2. \A x \in ToSet(backlog) \ ToSet(drain(backlog, now)) : Expired(x, now)
        BY <1>1, EvictsOnlyExpired DEF TypeOK, drain
      <4> QED BY <2>2, <4>1, <4>2
    <3>2. CASE RestoreBacklog(c)
      <4>1. /\ backlog' = IF back[c] = <<>> THEN backlog ELSE restore(backlog, back[c], now)
            /\ fate' = Losing((ToSet(backlog) \cup ToSet(back[c])) \ ToSet(backlog'))
        BY <3>2 DEF RestoreBacklog
      <4>2. backlog \in Seq(Event) /\ back[c] \in Seq(Event)
        BY <1>1 DEF TypeOK
      <4>3. \A x \in (ToSet(backlog) \cup ToSet(back[c])) \ ToSet(backlog') :
                Expired(x, now) \/ Len(backlog') >= Capacity
        <5>1. CASE back[c] = <<>>
          <6>1. ToSet(back[c]) = {}
            BY <5>1 DEF ToSet
          <6> QED BY <4>1, <5>1, <6>1
        <5>2. CASE back[c] # <<>>
          BY <1>0, <4>1, <4>2, <5>2, RestoreLoses
        <5> QED BY <5>1, <5>2
      <4> QED BY <2>2, <4>1, <4>3
    <3>3. CASE ExtendInFlight(c) \/ SpawnWriter(c) \/ SendResult(c)
      BY <2>1, <3>3 DEF ExtendInFlight, SpawnWriter, SendResult
    <3>4. CASE ReleaseName(c) \/ TakeInFlight(c)
      BY <2>1, <3>4 DEF ReleaseName, TakeInFlight
    <3> QED BY <2>4, <3>1, <3>2, <3>3, <3>4 DEF Handler
  <2>5. ASSUME NEW c \in Conn, Socket(c) PROVE AtALimit
    <3>1. CASE \E e \in Event : Ack(c, e)
      BY <1>1, <2>1, <3>1 DEF Ack, TypeOK
    <3>2. CASE Claim(c) \/ Welcome(c) \/ FlushBacklog(c) \/ WriteLoop(c)
      BY <2>1, <3>2 DEF Claim, Welcome, FlushBacklog, WriteLoop
    <3>3. CASE WriterEnds(c) \/ Command(c) \/ ReadLoopEnds(c)
      BY <2>1, <3>3 DEF WriterEnds, Command, ReadLoopEnds
    <3> QED BY <2>5, <3>1, <3>2, <3>3 DEF Socket
  <2>6. CASE Sweep \/ Tick \/ UNCHANGED vars
    BY <2>1, <2>6 DEF Sweep, Tick, vars
  <2> QED BY <1>1, <2>3, <2>4, <2>5, <2>6 DEF Next
<1>2. TypeOK /\ [Next]_vars => [AtALimit]_vars
  BY <1>1
<1> QED BY <1>2, TypeCorrect, PTL DEF Spec, LostOnlyAtALimit
-----------------------------------------------------------------------------
(***************************************************************************)
(* Registry implements Delivery.  The four places an event is kept in come *)
(* and go with every critical section.  What makes the proof short is that *)
(* conservation pins their union down: an event is kept exactly from the   *)
(* end of its dispatch to its fate, so a step's effect on `kept` can be    *)
(* read off task and fate.                                                 *)
(***************************************************************************)

\* What is kept, said without the places.
KeptMeans == Kept = {e \in Event : task[e] = "done" /\ fate[e] = "none"}

\* Nothing is on its way to the socket whose dispatch is not over.
Offered ==
    \A c \in Conn : \A e \in Event :
        e \in ToSet(hand[c]) \cup ToSet(queue[c]) => task[e] = "done"

\* An event is kept from the end of its dispatch until it is acknowledged or lost.
LEMMA KeptMeansAlways == Spec => []KeptMeans
<1>1. TypeOK /\ Conserved => KeptMeans
  <2> SUFFICES ASSUME TypeOK, Conserved PROVE KeptMeans
    OBVIOUS
  <2>1. ToSet(backlog) \subseteq Event /\ ToSet(inflight) \subseteq Event
    BY Elements DEF TypeOK
  <2>2. Drained \subseteq Event
    <3>1. \A c \in Conn : ToSet(hand[c]) \subseteq Event
      BY Elements DEF TypeOK
    <3> QED BY <3>1, DrainedMembers
  <2>3. PuttingBack \subseteq Event
    <3>1. \A c \in Conn : ToSet(back[c]) \subseteq Event
      BY Elements DEF TypeOK
    <3> QED BY <3>1, PuttingBackMembers
  <2>4. \A e \in Event : e \in Settled <=> fate[e] # "none"
    BY DEF Settled
  <2>5. \A e \in Event : e \in Kept <=> task[e] = "done" /\ fate[e] = "none"
    BY <2>4 DEF Kept, Conserved, NothingVanishes, OnePlace
  <2> QED BY <2>1, <2>2, <2>3, <2>5 DEF KeptMeans, Kept
<1> QED BY <1>1, TypeCorrect, ConservedAlways, PTL

\* An event that was acknowledged or lost was dispatched.
LEMMA SettledIsDone ==
    ASSUME OnePlace, NEW e \in Event, fate[e] # "none"
    PROVE  task[e] = "done"
BY DEF OnePlace, Settled

\* A step that gives a queue or a hand fewer items keeps Offered.
LEMMA OfferedShrinks ==
    ASSUME Offered, \A e \in Event : task[e] = "done" => task'[e] = "done",
           \A c \in Conn : ToSet(hand'[c]) \subseteq ToSet(hand[c]),
           \A c \in Conn : ToSet(queue'[c]) \cap Event \subseteq ToSet(queue[c])
    PROVE  Offered'
<1>1. ASSUME NEW c \in Conn, NEW e \in Event, e \in ToSet(hand'[c]) \cup ToSet(queue'[c])
      PROVE  task'[e] = "done"
  BY <1>1 DEF Offered
<1> QED BY <1>1 DEF Offered, ToSet

\* The head of a queue and the rest of it are its elements.
LEMMA TailSubset ==
    ASSUME NEW S, NEW s \in Seq(S), s # <<>>
    PROVE  /\ Head(s) \in S /\ Head(s) \in ToSet(s)
           /\ ToSet(Tail(s)) \subseteq ToSet(s)
<1>1. Tail(s) = SubSeq(s, 2, Len(s)) /\ 2 \in 1..(Len(s) + 1)
  BY TailIsSubSeq, EmptySeq, LenProperties
<1>2. Head(s) \in S /\ Head(s) = s[1] /\ 1 \in 1..Len(s)
  BY HeadTailProperties, EmptySeq, LenProperties
<1> QED BY <1>1, <1>2, SuffixElements, Elements

\* What a connection writes was dispatched: deliver queues an event as it ends its
\* dispatch, and take_backlog drains what was queued before.
LEMMA OfferedAlways == Spec => []Offered
<1>0. ToSet(<<>>) = {}
  BY DEF ToSet
<1>1. Init => Offered
  BY <1>0 DEF Init, Offered
<1>2. TypeOK /\ OnePlace /\ Offered /\ [Next]_vars => Offered'
  <2> SUFFICES ASSUME TypeOK, OnePlace, Offered, [Next]_vars PROVE Offered'
    OBVIOUS
  <2>1. ASSUME NEW e \in Event, Dispatcher(e) PROVE Offered'
    <3>1. CASE FetchAttachment(e)
      <4>1. hand' = hand /\ queue' = queue /\ task[e] = "new"
            /\ task' = [task EXCEPT ![e] = "deliver"]
        BY <3>1 DEF FetchAttachment, conns
      <4>2. \A f \in Event : task[f] = "done" => task'[f] = "done"
        BY <4>1 DEF TypeOK
      <4> QED BY <4>1, <4>2, OfferedShrinks
    <3>2. CASE Deliver(e)
      <4>1. hand' = hand /\ task[e] # "done"
        BY <3>2 DEF Deliver, Dispatching
      <4>2. \A f \in Event : task[f] = "done" => task'[f] = "done"
        BY <3>2, <4>1 DEF Deliver, TypeOK
      <4>3. CASE queue' = queue
        BY <4>1, <4>2, <4>3, OfferedShrinks
      <4>4. ASSUME NEW c \in Conn, queue' = [queue EXCEPT ![c] = Append(queue[c], e)],
                   task' = [task EXCEPT ![e] = "done"]
            PROVE  Offered'
        <5>0. queue[c] \in Seq(Event \cup {Result}) /\ e \in Event \cup {Result}
          BY DEF TypeOK
        <5>1. ToSet(Append(queue[c], e)) = ToSet(queue[c]) \cup {e}
          BY ONLY <5>0, AppendElements
        <5>2. \A d \in Conn : ToSet(queue'[d]) \subseteq ToSet(queue[d]) \cup {e}
          BY <4>4, <5>1 DEF TypeOK
        <5>3. task'[e] = "done"
          BY <4>4 DEF TypeOK
        <5>4. ASSUME NEW d \in Conn, NEW f \in Event, f \in ToSet(hand'[d]) \cup ToSet(queue'[d])
              PROVE  task'[f] = "done"
          BY <4>1, <4>2, <5>2, <5>3, <5>4 DEF Offered
        <5> QED BY <5>4 DEF Offered, ToSet
      <4> QED BY <3>2, <4>3, <4>4 DEF Deliver
    <3>3. CASE Enqueue(e)
      <4>1. hand' = hand /\ queue' = queue /\ task' = [task EXCEPT ![e] = "done"]
        BY <3>3 DEF Enqueue, conns
      <4>2. \A f \in Event : task[f] = "done" => task'[f] = "done"
        BY <4>1 DEF TypeOK
      <4> QED BY <4>1, <4>2, OfferedShrinks
    <3> QED BY <2>1, <3>1, <3>2, <3>3 DEF Dispatcher
  <2>2. ASSUME NEW c \in Conn, Handler(c) PROVE Offered'
    <3>1. CASE TakeBacklog(c)
      <4>1. /\ hand' = [hand EXCEPT ![c] = drain(backlog, now)]
            /\ queue' = queue /\ task' = task
        BY <3>1 DEF TakeBacklog
      <4>2. ToSet(drain(backlog, now)) \subseteq ToSet(backlog)
        BY EvictExpiredKeeps DEF drain, TypeOK
      <4>3. \A f \in Event : f \in ToSet(backlog) => task[f] = "done"
        BY DEF OnePlace
      <4>4. \A d \in Conn : hand'[d] = IF d = c THEN drain(backlog, now) ELSE hand[d]
        BY <4>1 DEF TypeOK
      <4>5. ASSUME NEW d \in Conn, NEW f \in Event, f \in ToSet(hand'[d]) \cup ToSet(queue'[d])
            PROVE  task'[f] = "done"
        BY <4>1, <4>2, <4>3, <4>4, <4>5 DEF Offered
      <4> QED BY <4>5 DEF Offered, ToSet
    <3>2. CASE ExtendInFlight(c) \/ SpawnWriter(c) \/ ReleaseName(c) \/ TakeInFlight(c)
      <4>1. hand' = hand /\ queue' = queue /\ task' = task
        BY <3>2 DEF ExtendInFlight, SpawnWriter, ReleaseName, TakeInFlight
      <4> QED BY <4>1, OfferedShrinks
    <3>3. CASE SendResult(c)
      <4>1. hand' = hand /\ task' = task
            /\ (queue' = queue \/ queue' = [queue EXCEPT ![c] = Append(queue[c], Result)])
        BY <3>3 DEF SendResult
      <4>0. queue[c] \in Seq(Event \cup {Result}) /\ Result \in Event \cup {Result}
        BY DEF TypeOK
      <4>2. ToSet(Append(queue[c], Result)) = ToSet(queue[c]) \cup {Result}
        BY ONLY <4>0, AppendElements
      <4>3. \A d \in Conn : ToSet(queue'[d]) \cap Event \subseteq ToSet(queue[d])
        BY <4>1, <4>2, RegistryAssumption DEF TypeOK
      <4> QED BY <4>1, <4>3, OfferedShrinks
    <3>4. CASE RestoreBacklog(c)
      <4>1. hand' = hand /\ task' = task
            /\ \A d \in Conn : queue'[d] = queue[d] \/ queue'[d] = <<>>
        BY <3>4 DEF RestoreBacklog, TypeOK
      <4>2. \A d \in Conn : ToSet(queue'[d]) \cap Event \subseteq ToSet(queue[d])
        BY <1>0, <4>1
      <4> QED BY <4>1, <4>2, OfferedShrinks
    <3> QED BY <2>2, <3>1, <3>2, <3>3, <3>4 DEF Handler
  <2>3. ASSUME NEW c \in Conn, Socket(c) PROVE Offered'
    <3>1. CASE Claim(c) \/ WriterEnds(c)
      <4>1. hand' = hand /\ task' = task /\ queue' = [queue EXCEPT ![c] = <<>>]
        BY <3>1 DEF Claim, WriterEnds
      <4>2. \A d \in Conn : ToSet(queue'[d]) \cap Event \subseteq ToSet(queue[d])
        BY <1>0, <4>1 DEF TypeOK
      <4> QED BY <4>1, <4>2, OfferedShrinks
    <3>2. CASE Welcome(c) \/ Command(c) \/ ReadLoopEnds(c)
      <4>1. hand' = hand /\ queue' = queue /\ task' = task
        BY <3>2 DEF Welcome, Command, ReadLoopEnds
      <4> QED BY <4>1, OfferedShrinks
    <3>3. CASE FlushBacklog(c)
      <4>1. queue' = queue /\ task' = task /\ hand[c] # <<>>
            /\ (\/ hand' = [hand EXCEPT ![c] = Tail(hand[c])]
                \/ hand' = [hand EXCEPT ![c] = <<>>])
        BY <3>3 DEF FlushBacklog
      <4>2. ToSet(Tail(hand[c])) \subseteq ToSet(hand[c])
        BY <4>1, TailSubset DEF TypeOK
      <4>3. \A d \in Conn : ToSet(hand'[d]) \subseteq ToSet(hand[d])
        BY <1>0, <4>1, <4>2 DEF TypeOK
      <4> QED BY <4>1, <4>3, OfferedShrinks
    <3>4. CASE WriteLoop(c)
      <4>1. hand' = hand /\ task' = task /\ queue[c] # <<>>
            /\ queue' = [queue EXCEPT ![c] = Tail(queue[c])]
        BY <3>4 DEF WriteLoop
      <4>2. ToSet(Tail(queue[c])) \subseteq ToSet(queue[c])
        BY <4>1, TailSubset DEF TypeOK
      <4>3. \A d \in Conn : ToSet(queue'[d]) \cap Event \subseteq ToSet(queue[d])
        BY <4>1, <4>2 DEF TypeOK
      <4> QED BY <4>1, <4>3, OfferedShrinks
    <3>5. CASE \E e \in Event : Ack(c, e)
      <4>1. hand' = hand /\ queue' = queue /\ task' = task
        BY <3>5 DEF Ack, conns
      <4> QED BY <4>1, OfferedShrinks
    <3> QED BY <2>3, <3>1, <3>2, <3>3, <3>4, <3>5 DEF Socket
  <2>4. CASE Sweep \/ Tick \/ UNCHANGED vars
    <3>1. hand' = hand /\ queue' = queue /\ task' = task
      BY <2>4 DEF Sweep, Tick, vars, conns
    <3> QED BY <3>1, OfferedShrinks
  <2> QED BY <2>1, <2>2, <2>3, <2>4 DEF Next
<1> QED BY <1>1, <1>2, TypeCorrect, EveryEventInOnePlace, PTL DEF Spec
-----------------------------------------------------------------------------
(* One lemma per kind of abstract step, in terms of task, fate and sent.   *)

\* A step that ends no dispatch, settles no event and writes none is no step of
\* Delivery.
LEMMA Stutters ==
    ASSUME KeptMeans, KeptMeans', fate' = fate, sent' = sent,
           \A f \in Event : task'[f] = "done" <=> task[f] = "done"
    PROVE  UNCHANGED Promise!vars
<1>1. Kept' = Kept
  BY DEF KeptMeans
<1> QED BY <1>1 DEF Promise!vars

\* A connection writes an event whose dispatch is over.
LEMMA Gives ==
    ASSUME TypeOK, KeptMeans, KeptMeans', NEW e \in Event, task[e] = "done",
           task' = task, fate' = fate, sent' = sent \cup {e}
    PROVE  Promise!Next
<1>1. Kept' = Kept
  BY DEF KeptMeans
<1>2. e \in Promise!Taken
  BY DEF Promise!Taken, KeptMeans, TypeOK
<1>3. Promise!Give(e)
  BY <1>1, <1>2 DEF Promise!Give
<1> QED BY <1>3 DEF Promise!Next

\* A dispatch ends and the event is kept; the kept events of `out` made room.
LEMMA Keeps ==
    ASSUME TypeOK, OnePlace, KeptMeans, KeptMeans', NEW e \in Event, task[e] # "done",
           NEW out \in SUBSET Kept, task' = [task EXCEPT ![e] = "done"],
           fate' = Losing(out), sent' = sent
    PROVE  Promise!Next
<1>1. fate[e] = "none" /\ e \notin Kept
  BY SettledIsDone DEF KeptMeans
<1>2. e \notin Promise!Taken
  BY <1>1 DEF Promise!Taken
<1>3. \A f \in Event : /\ fate'[f] = IF f \in out THEN "lost" ELSE fate[f]
                       /\ task'[f] = IF f = e THEN "done" ELSE task[f]
  BY DEF Losing, TypeOK
<1>4. Kept' = (Kept \ out) \cup {e}
  BY <1>1, <1>3 DEF KeptMeans
<1>5. {f \in Event : fate'[f] = "lost"} = {f \in Event : fate[f] = "lost"} \cup out
  BY <1>3 DEF KeptMeans
<1>6. {f \in Event : fate'[f] = "acked"} = {f \in Event : fate[f] = "acked"}
  BY <1>3 DEF KeptMeans
<1>7. Promise!Keep(e, out)
  BY <1>2, <1>4, <1>5, <1>6 DEF Promise!Keep
<1> QED BY <1>7 DEF Promise!Next

\* A dispatch ends at a full queue: the event is lost and was never kept.
LEMMA Refuses ==
    ASSUME TypeOK, OnePlace, KeptMeans, KeptMeans', NEW e \in Event, task[e] # "done",
           task' = [task EXCEPT ![e] = "done"], fate' = Losing({e}), sent' = sent
    PROVE  Promise!Next
<1>1. fate[e] = "none" /\ e \notin Kept
  BY SettledIsDone DEF KeptMeans
<1>2. e \notin Promise!Taken
  BY <1>1 DEF Promise!Taken
<1>3. \A f \in Event : /\ fate'[f] = IF f = e THEN "lost" ELSE fate[f]
                       /\ task'[f] = IF f = e THEN "done" ELSE task[f]
  BY DEF Losing, TypeOK
<1>4. Kept' = Kept
  BY <1>1, <1>3 DEF KeptMeans
<1>5. {f \in Event : fate'[f] = "lost"} = {f \in Event : fate[f] = "lost"} \cup {e}
  BY <1>3
<1>6. {f \in Event : fate'[f] = "acked"} = {f \in Event : fate[f] = "acked"}
  BY <1>1, <1>3
<1>7. Promise!Refuse(e)
  BY <1>2, <1>4, <1>5, <1>6 DEF Promise!Refuse
<1> QED BY <1>7 DEF Promise!Next

\* Kept events are evicted.
LEMMA GivesUp ==
    ASSUME TypeOK, KeptMeans, KeptMeans', NEW out \in SUBSET Kept,
           task' = task, fate' = Losing(out), sent' = sent
    PROVE  Promise!Next
<1>1. \A f \in Event : fate'[f] = IF f \in out THEN "lost" ELSE fate[f]
  BY DEF Losing, TypeOK
<1>2. Kept' = Kept \ out
  BY <1>1 DEF KeptMeans
<1>3. {f \in Event : fate'[f] = "lost"} = {f \in Event : fate[f] = "lost"} \cup out
  BY <1>1 DEF KeptMeans
<1>4. {f \in Event : fate'[f] = "acked"} = {f \in Event : fate[f] = "acked"}
  BY <1>1 DEF KeptMeans
<1>5. Promise!GiveUp(out)
  BY <1>2, <1>3, <1>4 DEF Promise!GiveUp
<1> QED BY <1>5 DEF Promise!Next

\* An event in flight that was written is acknowledged.
LEMMA Acknowledges ==
    ASSUME TypeOK, KeptMeans, KeptMeans', NEW e \in Event, e \in Kept, e \in sent,
           task' = task, fate' = [fate EXCEPT ![e] = "acked"], sent' = sent
    PROVE  Promise!Next
<1>1. fate[e] = "none" /\ \A f \in Event : fate'[f] = IF f = e THEN "acked" ELSE fate[f]
  BY DEF KeptMeans, TypeOK
<1>2. Kept' = Kept \ {e}
  BY <1>1 DEF KeptMeans
<1>3. {f \in Event : fate'[f] = "acked"} = {f \in Event : fate[f] = "acked"} \cup {e}
  BY <1>1
<1>4. {f \in Event : fate'[f] = "lost"} = {f \in Event : fate[f] = "lost"}
  BY <1>1
<1>5. Promise!Acknowledge(e)
  BY <1>2, <1>3, <1>4 DEF Promise!Acknowledge
<1> QED BY <1>5 DEF Promise!Next

\* Every step of the registry is a step of Delivery or no step at all.
LEMMA StepImplements ==
    ASSUME TypeOK, OnePlace, Offered, KeptMeans, KeptMeans', [Next]_vars
    PROVE  [Promise!Next]_(Promise!vars)
<1> DEFINE Step == Promise!Next \/ UNCHANGED Promise!vars
<1> SUFFICES Step
  OBVIOUS
<1>1. ASSUME NEW e \in Event, Dispatcher(e) PROVE Step
  <2>1. CASE FetchAttachment(e)
    <3>1. /\ fate' = fate /\ sent' = sent
          /\ \A f \in Event : task'[f] = "done" <=> task[f] = "done"
      BY <2>1 DEF FetchAttachment, conns, TypeOK
    <3> QED BY <3>1, Stutters
  <2>2. CASE Deliver(e)
    <3>1. sent' = sent /\ task[e] # "done"
      BY <2>2 DEF Deliver, Dispatching
    <3>2. CASE task' = [task EXCEPT ![e] = "done"] /\ fate' = fate
      <4>1. fate = Losing({})
        BY DEF Losing, TypeOK
      <4>2. {} \in SUBSET Kept /\ fate' = Losing({})
        BY <3>2, <4>1
      <4> QED BY <3>1, <3>2, <4>2, Keeps
    <3>3. CASE task' = [task EXCEPT ![e] = "done"] /\ fate' = Losing({e})
      BY <3>1, <3>3, Refuses
    <3>4. CASE task' = [task EXCEPT ![e] = "enqueue"] /\ fate' = fate
      <4>1. \A f \in Event : task'[f] = "done" <=> task[f] = "done"
        BY <3>1, <3>4 DEF TypeOK
      <4> QED BY <3>1, <3>4, <4>1, Stutters
    <3> QED BY <2>2, <3>2, <3>3, <3>4 DEF Deliver
  <2>3. CASE Enqueue(e)
    <3> DEFINE out == ToSet(backlog) \ ToSet(backlog')
    <3>1. /\ sent' = sent /\ task[e] # "done"
          /\ task' = [task EXCEPT ![e] = "done"] /\ fate' = Losing(out)
      BY <2>3 DEF Enqueue, conns
    <3>2. out \in SUBSET Kept
      BY DEF Kept
    <3> HIDE DEF out
    <3> QED BY <3>1, <3>2, Keeps
  <2> QED BY <1>1, <2>1, <2>2, <2>3 DEF Dispatcher
<1>2. ASSUME NEW c \in Conn, Handler(c) PROVE Step
  <2>1. CASE TakeBacklog(c)
    <3> DEFINE out == ToSet(backlog) \ ToSet(drain(backlog, now))
    <3>1. sent' = sent /\ task' = task /\ fate' = Losing(out)
      BY <2>1 DEF TakeBacklog
    <3>2. out \in SUBSET Kept
      BY DEF Kept
    <3> HIDE DEF out
    <3> QED BY <3>1, <3>2, GivesUp
  <2>2. CASE RestoreBacklog(c)
    <3> DEFINE out == (ToSet(backlog) \cup ToSet(back[c])) \ ToSet(backlog')
    <3>1. sent' = sent /\ task' = task /\ fate' = Losing(out)
      BY <2>2 DEF RestoreBacklog
    <3>2. out \in SUBSET Kept
      BY PuttingBackMembers DEF Kept
    <3> HIDE DEF out
    <3> QED BY <3>1, <3>2, GivesUp
  <2>3. CASE ExtendInFlight(c) \/ SpawnWriter(c) \/ SendResult(c) \/ ReleaseName(c)
             \/ TakeInFlight(c)
    <3>1. task' = task /\ fate' = fate /\ sent' = sent
      BY <2>3 DEF ExtendInFlight, SpawnWriter, SendResult, ReleaseName, TakeInFlight
    <3> QED BY <3>1, Stutters
  <2> QED BY <1>2, <2>1, <2>2, <2>3 DEF Handler
<1>3. ASSUME NEW c \in Conn, Socket(c) PROVE Step
  <2>1. CASE Claim(c) \/ Welcome(c) \/ WriterEnds(c) \/ Command(c) \/ ReadLoopEnds(c)
    <3>1. task' = task /\ fate' = fate /\ sent' = sent
      BY <2>1 DEF Claim, Welcome, WriterEnds, Command, ReadLoopEnds
    <3> QED BY <3>1, Stutters
  <2>2. CASE FlushBacklog(c)
    <3>1. /\ task' = task /\ fate' = fate /\ hand[c] # <<>>
          /\ sent' = sent \cup {Head(hand[c])} \/ sent' = sent
      BY <2>2 DEF FlushBacklog
    <3>2. hand[c] \in Seq(Event)
      BY DEF TypeOK
    <3>3. Head(hand[c]) \in Event /\ Head(hand[c]) \in ToSet(hand[c])
      BY <3>1, <3>2, TailSubset
    <3>4. task[Head(hand[c])] = "done"
      BY <3>3 DEF Offered
    <3> QED BY <3>1, <3>3, <3>4, Stutters, Gives
  <2>3. CASE WriteLoop(c)
    <3>1. /\ task' = task /\ fate' = fate /\ queue[c] # <<>>
          /\ sent' = sent \cup ({Head(queue[c])} \ {Result})
      BY <2>3 DEF WriteLoop
    <3>2. queue[c] \in Seq(Event \cup {Result})
      BY DEF TypeOK
    <3>3. Head(queue[c]) \in Event \cup {Result} /\ Head(queue[c]) \in ToSet(queue[c])
      BY <3>1, <3>2, TailSubset
    <3>4. CASE Head(queue[c]) = Result
      <4>1. sent' = sent
        BY <3>1, <3>4
      <4> QED BY <3>1, <4>1, Stutters
    <3>5. CASE Head(queue[c]) # Result
      <4>1. Head(queue[c]) \in Event /\ sent' = sent \cup {Head(queue[c])}
        BY <3>1, <3>3, <3>5
      <4>2. task[Head(queue[c])] = "done"
        BY <3>3, <4>1 DEF Offered
      <4> QED BY <3>1, <4>1, <4>2, Gives
    <3> QED BY <3>4, <3>5
  <2>4. ASSUME NEW e \in Event, Ack(c, e) PROVE Step
    <3>1. /\ task' = task /\ sent' = sent /\ fate' = [fate EXCEPT ![e] = "acked"]
          /\ e \in sent /\ e \in ToSet(inflight)
      BY <2>4 DEF Ack, conns
    <3>2. e \in Kept
      BY <3>1 DEF Kept
    <3> QED BY <3>1, <3>2, Acknowledges
  <2> QED BY <1>3, <2>1, <2>2, <2>3, <2>4 DEF Socket
<1>4. CASE Sweep \/ Tick \/ UNCHANGED vars
  <2>1. task' = task /\ fate' = fate /\ sent' = sent
    BY <1>4 DEF Sweep, Tick, vars, conns
  <2> QED BY <2>1, Stutters
<1> QED BY <1>1, <1>2, <1>3, <1>4 DEF Next

\* The registry implements Delivery, for any events, connections and limits: what it
\* takes on stays deliverable until it is acknowledged or given up, both for good.
THEOREM RegistryImplementsDelivery == Spec => ImplementsDelivery
<1>1. Init => Promise!Init
  <2> SUFFICES ASSUME Init PROVE Promise!Init
    OBVIOUS
  <2>1. ToSet(<<>>) = {}
    BY DEF ToSet
  <2>2. Drained = {} /\ PuttingBack = {}
    BY <2>1, DrainedMembers, PuttingBackMembers DEF Init
  <2>3. Kept = {}
    BY <2>1, <2>2 DEF Init, Kept
  <2>4. sent = {} /\ \A e \in Event : fate[e] = "none"
    BY DEF Init
  <2> QED BY <2>3, <2>4 DEF Promise!Init
<1>2. TypeOK /\ OnePlace /\ Offered /\ KeptMeans /\ KeptMeans' /\ [Next]_vars
      => [Promise!Next]_(Promise!vars)
  BY StepImplements
<1> QED BY <1>1, <1>2, TypeCorrect, EveryEventInOnePlace, OfferedAlways, KeptMeansAlways, PTL
        DEF Spec, ImplementsDelivery, Promise!Spec
=============================================================================
