--------------------------- MODULE PresenceProofs ---------------------------
(***************************************************************************)
(* Proofs about the alerts of module Presence, for every grace period and  *)
(* every repeat interval.                                                  *)
(***************************************************************************)
EXTENDS Presence, TLAPS

AlertSet == [kind : {"Away", "Back", "Silent"}, outage : Nat, at : Nat]

\* What TypeOK says, with the queues as sequences.
Typed ==
    /\ now \in Nat /\ reports \in Nat /\ reported \in Nat /\ outage \in Nat
    /\ conn \in {"off", "claimed", "flush", "live"}
    /\ since \in Time /\ alertedAt \in Time /\ silentAt \in Time /\ absent \in Time
    /\ sending \in Seq(AlertSet) /\ issued \in Seq(AlertSet) /\ dm \in Seq(AlertSet)
    /\ spawned \in SUBSET AlertSet

\* Watch counts an outage from no earlier than it began, and forgets it when the
\* session is back.
WatchInv ==
    /\ conn \in {"flush", "live"} => since = None
    /\ since # None => absent # None /\ absent <= since
    /\ alertedAt # None => since # None /\ Grace > 0

\* alertedAt and silentAt are the times of the last alerts that count, and the present
\* outage has no Back alert while Watch counts it.
IssuedInv ==
    /\ Grace = 0 => issued = <<>>
    /\ \A i \in 1..Len(issued) : issued[i].outage <= outage
    /\ \A i \in 1..Len(issued) :
          issued[i].kind = "Silent" => silentAt # None /\ issued[i].at <= silentAt
    /\ since # None => \A i \in 1..Len(issued) : issued[i].outage = outage =>
          /\ issued[i].kind # "Back"
          /\ issued[i].kind = "Away" => alertedAt # None /\ issued[i].at <= alertedAt
    /\ alertedAt # None =>
          \E i \in 1..Len(issued) : issued[i].kind = "Away" /\ issued[i].outage = outage

\* The two properties, over the positions of a sequence.
Spaced ==
    \A i, j \in 1..Len(issued) : i < j /\ issued[i].kind = issued[j].kind =>
        /\ issued[i].kind = "Away" /\ issued[i].outage = issued[j].outage =>
              issued[j].at - issued[i].at >= Repeat
        /\ issued[i].kind = "Silent" => issued[j].at - issued[i].at >= SilentRepeat

Answered ==
    \A i \in 1..Len(issued) : issued[i].kind = "Back" =>
        /\ \A j \in 1..Len(issued) :
              issued[j].kind = "Back" /\ issued[j].outage = issued[i].outage => j = i
        /\ \E j \in 1..Len(issued) :
              j < i /\ issued[j].kind = "Away" /\ issued[j].outage = issued[i].outage

PresenceInv == Typed /\ WatchInv /\ IssuedInv /\ Spaced /\ Answered
-----------------------------------------------------------------------------
\* The intervals are numbers, and None is not a time.
LEMMA Intervals ==
    /\ Grace \in Nat /\ Repeat \in Nat /\ SilentRepeat \in Nat
    /\ None \notin Nat
PROOF
  BY PresenceAssumption

\* An alert issued now goes to the end and moves no other.
LEMMA Issue ==
    ASSUME NEW q \in Seq(AlertSet), NEW a \in AlertSet, NEW p, p = Append(q, a)
    PROVE  /\ p \in Seq(AlertSet)
           /\ Len(q) \in Nat
           /\ Len(p) = Len(q) + 1
           /\ \A i \in 1..Len(q) : p[i] = q[i]
           /\ p[Len(q) + 1] = a
PROOF
  OBVIOUS

\* An alert has its fields.
LEMMA AlertFields ==
    ASSUME Typed, NEW kind \in {"Away", "Back", "Silent"}
    PROVE  /\ Alert(kind) \in AlertSet
           /\ Alert(kind).kind = kind
           /\ Alert(kind).outage = outage
           /\ Alert(kind).at = now
PROOF
  BY DEF Typed, Alert, AlertSet

\* A step that issues nothing, in the same outage or with none counted before it, keeps
\* what is known of the alerts.
LEMMA NothingIssued ==
    ASSUME PresenceInv, UNCHANGED issued,
           \/ UNCHANGED <<since, alertedAt, silentAt, outage>>
           \/ /\ UNCHANGED <<silentAt, alertedAt>>
              /\ alertedAt = None
              /\ outage' = outage + 1
    PROVE  IssuedInv' /\ Spaced' /\ Answered'
PROOF
  <1>0. /\ IssuedInv /\ Spaced /\ Answered
        /\ outage \in Nat /\ issued \in Seq(AlertSet)
    BY DEF PresenceInv, Typed
  <1>1. Spaced' /\ Answered'
    BY <1>0 DEF Spaced, Answered
  <1>2. CASE UNCHANGED <<since, alertedAt, silentAt, outage>>
    BY <1>0, <1>1, <1>2 DEF IssuedInv
  <1>3. CASE UNCHANGED <<silentAt, alertedAt>> /\ alertedAt = None /\ outage' = outage + 1
    <2>1. \A i \in 1..Len(issued) : issued[i].outage \in Nat /\ issued[i].outage <= outage
      <3>1. \A i \in 1..Len(issued) : issued[i] \in AlertSet
        BY <1>0
      <3> QED
        BY <1>0, <3>1 DEF IssuedInv, AlertSet
    <2>2. \A i \in 1..Len(issued) : issued[i].outage <= outage' /\ issued[i].outage # outage'
      BY <1>0, <1>3, <2>1
    <2> QED
      BY <1>0, <1>1, <1>3, <2>2 DEF IssuedInv
  <1> QED
    BY <1>2, <1>3

\* The handler's calls keep the invariant.
LEMMA HandlerStep ==
    ASSUME PresenceInv,
           Claim \/ WelcomeFails \/ Connected \/ FlushFails \/ FlushDone \/ Disconnected
    PROVE  PresenceInv'
PROOF
  <1>0. Typed /\ WatchInv /\ IssuedInv /\ Spaced /\ Answered
    BY DEF PresenceInv
  <1>1. CASE Claim \/ WelcomeFails \/ FlushDone
    <2>1. Typed' /\ WatchInv'
      BY <1>0, <1>1 DEF Claim, WelcomeFails, FlushDone, Typed, WatchInv, watch, posts, Time
    <2>2. UNCHANGED issued /\ UNCHANGED <<since, alertedAt, silentAt, outage>>
      BY <1>1 DEF Claim, WelcomeFails, FlushDone, watch, posts
    <2> QED
      BY <2>1, <2>2, NothingIssued DEF PresenceInv
  <1>2. CASE FlushFails \/ Disconnected
    <2>1. since = None /\ alertedAt = None
      BY <1>0, <1>2 DEF FlushFails, Disconnected, WatchInv
    <2>2. /\ UNCHANGED <<now, reports, reported, alertedAt, silentAt, sending, spawned, issued, dm>>
          /\ outage' = outage + 1 /\ conn' = "off" /\ absent' = now
          /\ since' \in {None, now}
      BY <1>2, <2>1 DEF FlushFails, Disconnected, watch, posts
    <2>3. Typed'
      BY <1>0, <2>2 DEF Typed, Time
    <2>4. WatchInv'
      BY <1>0, <2>1, <2>2, Intervals DEF Typed, WatchInv
    <2> QED
      BY <2>1, <2>2, <2>3, <2>4, NothingIssued DEF PresenceInv
  <1>3. CASE Connected
    <2>1. /\ conn' = "flush" /\ since' = None /\ alertedAt' = None /\ absent' = None
          /\ UNCHANGED <<now, silentAt, reports, reported, sending, dm, outage>>
      BY <1>3 DEF Connected
    <2>2. WatchInv'
      BY <2>1 DEF WatchInv
    <2>3. CASE UNCHANGED <<issued, spawned>>
      <3>1. Typed'
        BY <1>0, <2>1, <2>3 DEF Typed, Time
      <3>2. IssuedInv' /\ Spaced' /\ Answered'
        BY <1>0, <2>1, <2>3 DEF IssuedInv, Spaced, Answered
      <3> QED
        BY <2>2, <3>1, <3>2 DEF PresenceInv
    <2>4. CASE /\ alertedAt # None /\ since # None
               /\ issued' = Append(issued, Alert("Back"))
               /\ spawned' = spawned \cup {Alert("Back")}
      <3> DEFINE a == Alert("Back")
                 n == Len(issued)
      <3>1. a \in AlertSet /\ a.kind = "Back" /\ a.outage = outage /\ a.at = now
        BY <1>0, AlertFields
      <3>2. issued \in Seq(AlertSet) /\ issued' = Append(issued, a) /\ outage \in Nat
        BY <1>0, <2>4 DEF Typed
      <3> HIDE DEF a
      <3>3. /\ issued' \in Seq(AlertSet) /\ n \in Nat /\ Len(issued') = n + 1
            /\ \A i \in 1..n : issued'[i] = issued[i]
            /\ issued'[n + 1] = a
        BY ONLY <3>1, <3>2, Issue DEF n
      <3>4. Typed'
        BY <1>0, <2>1, <2>4, <3>1, <3>3 DEF Typed, Time, a
      <3>5. \A i \in 1..Len(issued') : i \in 1..n \/ i = n + 1
        BY <3>3
      <3>6. IssuedInv'
        <4>1. Grace > 0
          BY <1>0, <2>4 DEF WatchInv
        <4>2. \A i \in 1..Len(issued') : issued'[i].outage <= outage'
          BY <1>0, <2>1, <3>1, <3>2, <3>3, <3>5 DEF IssuedInv
        <4>3. \A i \in 1..Len(issued') :
                 issued'[i].kind = "Silent" => silentAt' # None /\ issued'[i].at <= silentAt'
          BY <1>0, <2>1, <3>1, <3>3, <3>5 DEF IssuedInv
        <4> QED
          BY <2>1, <4>1, <4>2, <4>3, Intervals DEF IssuedInv
      <3>7. Spaced'
        BY <1>0, <3>1, <3>3, <3>5 DEF Spaced
      <3>8. Answered'
        <4>1. PICK k \in 1..n : issued[k].kind = "Away" /\ issued[k].outage = outage
          BY <1>0, <2>4 DEF IssuedInv
        <4>2. \A i \in 1..n : issued[i].outage = outage => issued[i].kind # "Back"
          BY <1>0, <2>4 DEF IssuedInv
        <4>3. ASSUME NEW i \in 1..Len(issued'), issued'[i].kind = "Back"
              PROVE  /\ \A j \in 1..Len(issued') :
                          issued'[j].kind = "Back" /\ issued'[j].outage = issued'[i].outage => j = i
                     /\ \E j \in 1..Len(issued') :
                          j < i /\ issued'[j].kind = "Away" /\ issued'[j].outage = issued'[i].outage
          <5>1. CASE i = n + 1
            <6>1. k \in 1..Len(issued') /\ k < i
              BY <3>3, <4>1, <5>1
            <6> QED
              BY <3>1, <3>3, <3>5, <4>1, <4>2, <5>1, <6>1
          <5>2. CASE i \in 1..n
            <6>1. issued[i].kind = "Back" /\ issued'[i] = issued[i] /\ issued[i].outage # outage
              BY <3>3, <4>2, <4>3, <5>2
            <6>2. PICK j \in 1..n :
                     j < i /\ issued[j].kind = "Away" /\ issued[j].outage = issued[i].outage
              BY <1>0, <5>2, <6>1 DEF Answered
            <6>3. j \in 1..Len(issued') /\ issued'[j] = issued[j]
              BY <3>3, <6>2
            <6>4. \A l \in 1..n :
                     issued[l].kind = "Back" /\ issued[l].outage = issued[i].outage => l = i
              BY <1>0, <5>2, <6>1 DEF Answered
            <6> QED
              BY <3>1, <3>3, <3>5, <6>1, <6>2, <6>3, <6>4
          <5> QED
            BY <3>5, <5>1, <5>2
        <4> QED
          BY <4>3 DEF Answered
      <3> QED
        BY <2>2, <3>4, <3>6, <3>7, <3>8 DEF PresenceInv
    <2> QED
      BY <1>3, <2>3, <2>4 DEF Connected
  <1> QED
    BY <1>1, <1>2, <1>3

\* An alert the watcher decides on: it is of the present outage and of now.  It keeps the
\* alerts spaced if it is long enough after the last one of its kind.
LEMMA WatcherIssues ==
    ASSUME PresenceInv, Grace > 0,
           UNCHANGED <<since, outage, now>>,
           NEW kind \in {"Away", "Silent"},
           issued' = Append(issued, Alert(kind)),
           \/ /\ kind = "Away" /\ since # None
              /\ Again(alertedAt, Repeat)
              /\ alertedAt' = now /\ silentAt' = silentAt
           \/ /\ kind = "Silent"
              /\ Again(silentAt, SilentRepeat)
              /\ silentAt' = now /\ alertedAt' = alertedAt
    PROVE  issued' \in Seq(AlertSet) /\ IssuedInv' /\ Spaced' /\ Answered'
PROOF
  <1>0. Typed /\ WatchInv /\ IssuedInv /\ Spaced /\ Answered
    BY DEF PresenceInv
  <1> DEFINE a == Alert(kind)
             n == Len(issued)
  <1>1. a \in AlertSet /\ a.kind = kind /\ a.outage = outage /\ a.at = now
    BY <1>0, AlertFields
  <1>2. /\ issued \in Seq(AlertSet) /\ issued' = Append(issued, a)
        /\ outage \in Nat /\ now \in Nat /\ alertedAt \in Time /\ silentAt \in Time
    BY <1>0 DEF Typed
  <1> HIDE DEF a
  <1>3. /\ issued' \in Seq(AlertSet) /\ n \in Nat /\ Len(issued') = n + 1
        /\ \A i \in 1..n : issued'[i] = issued[i]
        /\ issued'[n + 1] = a
    BY ONLY <1>1, <1>2, Issue DEF n
  <1>4. \A i \in 1..Len(issued') : i \in 1..n \/ i = n + 1
    BY <1>3
  <1>5. \A i \in 1..n : issued[i].at \in Nat /\ issued[i].outage \in Nat
    <2>1. \A i \in 1..n : issued[i] \in AlertSet
      BY <1>2
    <2> QED
      BY <2>1 DEF AlertSet
  <1>6. kind = "Away" => \A i \in 1..n : issued[i].kind = "Away" /\ issued[i].outage = outage =>
                            now - issued[i].at >= Repeat
    BY <1>0, <1>2, <1>5, Intervals DEF IssuedInv, Again, Time
  <1>7. kind = "Silent" => \A i \in 1..n : issued[i].kind = "Silent" =>
                              now - issued[i].at >= SilentRepeat
    BY <1>0, <1>2, <1>5, Intervals DEF IssuedInv, Again, Time
  <1>8. Spaced'
    BY <1>0, <1>1, <1>3, <1>4, <1>6, <1>7 DEF Spaced
  <1>9. Answered'
    <2>1. ASSUME NEW i \in 1..Len(issued'), issued'[i].kind = "Back"
          PROVE  /\ \A j \in 1..Len(issued') :
                      issued'[j].kind = "Back" /\ issued'[j].outage = issued'[i].outage => j = i
                 /\ \E j \in 1..Len(issued') :
                      j < i /\ issued'[j].kind = "Away" /\ issued'[j].outage = issued'[i].outage
      <3>1. i \in 1..n /\ issued'[i] = issued[i]
        BY <1>1, <1>3, <1>4, <2>1
      <3>2. PICK j \in 1..n :
               j < i /\ issued[j].kind = "Away" /\ issued[j].outage = issued[i].outage
        BY <1>0, <2>1, <3>1 DEF Answered
      <3>3. j \in 1..Len(issued') /\ issued'[j] = issued[j]
        BY <1>3, <3>2
      <3>4. \A l \in 1..n :
               issued[l].kind = "Back" /\ issued[l].outage = issued[i].outage => l = i
        BY <1>0, <2>1, <3>1 DEF Answered
      <3> QED
        BY <1>1, <1>3, <1>4, <3>1, <3>2, <3>3, <3>4
    <2> QED
      BY <2>1 DEF Answered
  <1>10. IssuedInv'
    <2>1. \A i \in 1..Len(issued') : issued'[i].outage <= outage'
      BY <1>0, <1>1, <1>2, <1>3, <1>4 DEF IssuedInv
    <2>2. \A i \in 1..Len(issued') :
             issued'[i].kind = "Silent" => silentAt' # None /\ issued'[i].at <= silentAt'
      BY SMTT(30), <1>0, <1>1, <1>2, <1>3, <1>4, <1>5, <1>7, Intervals DEF IssuedInv, Time
    <2>3. since' # None => \A i \in 1..Len(issued') : issued'[i].outage = outage' =>
             /\ issued'[i].kind # "Back"
             /\ issued'[i].kind = "Away" => alertedAt' # None /\ issued'[i].at <= alertedAt'
      BY <1>0, <1>1, <1>2, <1>3, <1>4, <1>5, <1>6, Intervals DEF IssuedInv, Time
    <2>4. alertedAt' # None =>
             \E i \in 1..Len(issued') : issued'[i].kind = "Away" /\ issued'[i].outage = outage'
      <3>1. CASE kind = "Away"
        <4>1. n + 1 \in 1..Len(issued')
          BY <1>3
        <4> QED
          BY <1>1, <1>3, <3>1, <4>1
      <3>2. CASE kind = "Silent"
        <4>1. alertedAt # None =>
                 \E i \in 1..n : issued[i].kind = "Away" /\ issued[i].outage = outage
          BY <1>0 DEF IssuedInv
        <4>2. \A i \in 1..n : i \in 1..Len(issued')
          BY <1>3
        <4> QED
          BY <1>3, <3>2, <4>1, <4>2
      <3> QED
        BY <3>1, <3>2
    <2> QED
      BY <2>1, <2>2, <2>3, <2>4, Intervals DEF IssuedInv
  <1> QED
    BY <1>3, <1>8, <1>9, <1>10

\* The watcher, the sends and the clock keep the invariant.
LEMMA WatcherStep ==
    ASSUME PresenceInv, Watcher \/ SpawnedSends \/ ReportSilence \/ Tick
    PROVE  PresenceInv'
PROOF
  <1>0. Typed /\ WatchInv /\ IssuedInv /\ Spaced /\ Answered
    BY DEF PresenceInv
  <1>1. CASE WatchTick
    <2>1. issued' \in Seq(AlertSet) /\ IssuedInv' /\ Spaced' /\ Answered'
      BY <1>1, WatcherIssues DEF WatchTick, AwayIsDue
    <2>2. Alert("Away") \in AlertSet
      BY <1>0, AlertFields
    <2>3. Typed'
      BY <1>0, <1>1, <2>1, <2>2 DEF WatchTick, Typed, Time
    <2>4. WatchInv'
      BY <1>0, <1>1 DEF WatchTick, AwayIsDue, WatchInv
    <2> QED
      BY <2>1, <2>3, <2>4 DEF PresenceInv
  <1>2. CASE WatchSilent
    <2>1. /\ UNCHANGED <<now, conn, since, alertedAt, absent, reported, spawned, dm, outage>>
          /\ reports' = reports - 1 /\ reports > 0 /\ Grace > 0
      BY <1>2 DEF WatchSilent
    <2>2. WatchInv' /\ reports' \in Nat
      BY <1>0, <2>1 DEF WatchInv, Typed
    <2>3. CASE UNCHANGED <<silentAt, sending, issued>>
      <3>1. Typed'
        BY <1>0, <2>1, <2>2, <2>3 DEF Typed
      <3> QED
        BY <2>1, <2>2, <2>3, <3>1, NothingIssued DEF PresenceInv
    <2>4. CASE /\ Again(silentAt, SilentRepeat)
               /\ silentAt' = now
               /\ sending' = <<Alert("Silent")>>
               /\ issued' = Append(issued, Alert("Silent"))
      <3>1. issued' \in Seq(AlertSet) /\ IssuedInv' /\ Spaced' /\ Answered'
        BY <2>1, <2>4, WatcherIssues
      <3>2. Alert("Silent") \in AlertSet
        BY <1>0, AlertFields
      <3>3. Typed'
        BY <1>0, <2>1, <2>2, <2>4, <3>1, <3>2 DEF Typed, Time
      <3> QED
        BY <2>2, <3>1, <3>3 DEF PresenceInv
    <2> QED
      BY <1>2, <2>3, <2>4 DEF WatchSilent
  <1>3. CASE WatcherSends \/ SpawnedSends
    <2>1. /\ UNCHANGED <<now, conn, absent, reports, reported, issued, outage>>
          /\ UNCHANGED <<since, alertedAt, silentAt>>
      BY <1>3 DEF WatcherSends, SpawnedSends, watch
    <2>2. sending' \in Seq(AlertSet) /\ dm' \in Seq(AlertSet) /\ spawned' \in SUBSET AlertSet
      <3>1. CASE WatcherSends
        <4>1. Head(sending) \in AlertSet /\ Tail(sending) \in Seq(AlertSet)
          BY <1>0, <3>1 DEF WatcherSends, Typed
        <4>2. dm \in Seq(AlertSet) /\ spawned' = spawned /\ spawned \in SUBSET AlertSet
          BY <1>0, <3>1 DEF WatcherSends, Typed
        <4>3. Append(dm, Head(sending)) \in Seq(AlertSet)
          BY <4>1, <4>2
        <4>4. sending' = Tail(sending) /\ (dm' = dm \/ dm' = Append(dm, Head(sending)))
          BY <3>1 DEF WatcherSends
        <4> QED
          BY <4>1, <4>2, <4>3, <4>4
      <3>2. CASE SpawnedSends
        BY SMTT(30), <1>0, <3>2 DEF SpawnedSends, Typed
      <3> QED
        BY <1>3, <3>1, <3>2
    <2>3. Typed' /\ WatchInv'
      BY <1>0, <2>1, <2>2 DEF Typed, WatchInv
    <2> QED
      BY <2>1, <2>3, NothingIssued DEF PresenceInv
  <1>4. CASE ReportSilence \/ Tick
    <2>1. UNCHANGED issued /\ UNCHANGED <<since, alertedAt, silentAt, outage>>
      BY <1>4 DEF ReportSilence, Tick, watch, posts
    <2>2. Typed' /\ WatchInv'
      BY <1>0, <1>4 DEF ReportSilence, Tick, watch, posts, Typed, WatchInv
    <2> QED
      BY <2>1, <2>2, NothingIssued DEF PresenceInv
  <1> QED
    BY <1>1, <1>2, <1>3, <1>4 DEF Watcher

\* The invariant holds of every state of every behaviour.
LEMMA PresenceInvAlways == Spec => []PresenceInv
PROOF
  <1>1. Init => PresenceInv
    BY Intervals DEF Init, PresenceInv, Typed, Time, WatchInv, IssuedInv, Spaced, Answered
  <1>2. PresenceInv /\ UNCHANGED vars => PresenceInv'
    <2> SUFFICES ASSUME PresenceInv, UNCHANGED vars PROVE PresenceInv'
      OBVIOUS
    <2>1. Typed' /\ WatchInv'
      BY DEF PresenceInv, Typed, WatchInv, vars, watch, posts
    <2> QED
      BY <2>1, NothingIssued DEF PresenceInv, vars, watch, posts
  <1>3. PresenceInv /\ [Next]_vars => PresenceInv'
    BY <1>2, HandlerStep, WatcherStep DEF Next
  <1> QED
    BY <1>1, <1>3, PTL DEF Spec

\* Watch's times and the alerts are of their types; the count of waiting reports is
\* never negative.
THEOREM PresenceTypeCorrect == Spec => []TypeOK
PROOF
  <1>1. PresenceInv => TypeOK
    <2> SUFFICES ASSUME Typed PROVE TypeOK
      BY DEF PresenceInv
    <2>1. \A q \in Seq(AlertSet) : ToSet(q) \subseteq AlertSet
      BY DEF ToSet
    <2>2. {since, alertedAt, silentAt, absent} \subseteq Time
      BY DEF Typed
    <2>3. ToSet(sending) \cup spawned \cup ToSet(issued) \cup ToSet(dm) \subseteq AlertSet
      BY <2>1 DEF Typed
    <2> QED
      BY <2>2, <2>3 DEF Typed, TypeOK, AlertSet
  <1> QED
    BY <1>1, PresenceInvAlways, PTL

\* However connections come and go between the watcher's ticks, alerts of one outage and
\* reports of silence are spaced (Watch::tick, Watch::silent).
THEOREM AlertsSpaced == Spec => []AlertsAreSpaced
PROOF
  <1>1. PresenceInv => AlertsAreSpaced
    <2> SUFFICES ASSUME PresenceInv PROVE AlertsAreSpaced
      OBVIOUS
    <2>1. DOMAIN issued = 1..Len(issued)
      BY DEF PresenceInv, Typed
    <2> QED
      BY <2>1 DEF PresenceInv, IssuedInv, Spaced, AlertsAreSpaced
  <1> QED
    BY <1>1, PresenceInvAlways, PTL

\* A Back alert is sent once, for an outage the owner was told of (Watch::connected).
THEOREM BackAfterAway == Spec => []BackAnswersAway
PROOF
  <1>1. PresenceInv => BackAnswersAway
    <2> SUFFICES ASSUME PresenceInv, NEW i \in DOMAIN issued, issued[i].kind = "Back"
                 PROVE  /\ Of("Back", issued[i].outage) = {i}
                        /\ \E j \in Of("Away", issued[i].outage) : j < i
      BY DEF BackAnswersAway
    <2>1. DOMAIN issued = 1..Len(issued)
      BY DEF PresenceInv, Typed
    <2>2. Of("Back", issued[i].outage) = {i}
      BY <2>1 DEF PresenceInv, Answered, Of
    <2>3. \E j \in Of("Away", issued[i].outage) : j < i
      BY <2>1 DEF PresenceInv, Answered, Of
    <2> QED
      BY <2>2, <2>3
  <1> QED
    BY <1>1, PresenceInvAlways, PTL

\* An Away alert is decided on only after a whole grace period without a connection
\* (Watch::tick, with what connected and disconnected told it).
THEOREM AwayAlertsAreReal == Spec => AwayIsReal
PROOF
  <1> DEFINE Real ==
        Len(issued') > Len(issued) /\ issued'[Len(issued')].kind = "Away" =>
            absent # None /\ now - absent >= Grace
  <1>1. PresenceInv /\ [Next]_vars => [Real]_vars
    <2> SUFFICES ASSUME PresenceInv, Next,
                        Len(issued') > Len(issued), issued'[Len(issued')].kind = "Away"
                 PROVE  absent # None /\ now - absent >= Grace
      OBVIOUS
    <2>0. Typed /\ issued \in Seq(AlertSet) /\ Len(issued) \in Nat
      BY DEF PresenceInv, Typed
    <2>1. issued' # issued
      BY <2>0
    <2>2. ASSUME NEW kind \in {"Back", "Silent"}, issued' = Append(issued, Alert(kind))
          PROVE  FALSE
      <3>1. Alert(kind) \in AlertSet /\ Alert(kind).kind = kind
        BY <2>0, AlertFields
      <3>2. issued'[Len(issued')] = Alert(kind)
        BY <2>0, <2>2, <3>1, Issue
      <3> QED
        BY <3>1, <3>2
    <2>3. ~Connected /\ ~WatchSilent
      BY <2>1, <2>2 DEF Connected, WatchSilent
    <2>4. WatchTick
      BY <2>1, <2>3 DEF Next, Watcher, Claim, WelcomeFails, FlushFails, FlushDone, Disconnected,
                        WatcherSends, SpawnedSends, ReportSilence, Tick, posts
    <2>5. since # None /\ now - since >= Grace
      BY <2>4 DEF WatchTick, AwayIsDue, Again
    <2> QED
      BY <2>0, <2>5, Intervals DEF PresenceInv, WatchInv, Typed, Time
  <1> QED
    BY <1>1, PresenceInvAlways, PTL DEF Spec, AwayIsReal
=============================================================================
