--------------------------- MODULE RotationProofs ---------------------------
(***************************************************************************)
(* Proofs about the supervisor of module Rotation, for every number of     *)
(* attempts and every bound on ids, mishaps, markers and emergency runs.   *)
(***************************************************************************)
EXTENDS Rotation, TLAPS

\* The steps rotation.json may hold.
Steps ==
    [next : {"Retry"}, snapshot : BOOLEAN, attempts : Nat, handoff : BOOLEAN]
        \cup [next : {"Postponed"}, attempts : Nat, handoff : BOOLEAN]
        \cup [next : {"Fresh"}, handoff : BOOLEAN]

Starts ==
    [kind : {"Fresh", "Resumed", "AfterRotation", "Retry"}, attempts : Nat,
     handoff : BOOLEAN, snapshot : BOOLEAN, told : BOOLEAN]

Trackers ==
    [phase : {"Idle", "Waiting", "Handoff", "Compacting"}, turn : BOOLEAN,
     agents : BOOLEAN, big : BOOLEAN, pending : BOOLEAN, paused : BOOLEAN,
     attempts : Nat, handoff : BOOLEAN, boundary : BOOLEAN, failed : BOOLEAN]

Clearing == pc \in {"clear1", "clear2"}

\* The before-handoff snapshot is due with the step recorded, or was tried.
Covered(due) == due \/ stale \/ snapped # "no"

\* What rotation.json says is what happened since the rotation began, unless it is
\* stale: its attempts are those spent, its note was written, and whoever goes on
\* without a snapshot of its own finds one tried.
DiskInv ==
    /\ next = Normal \/ next \in Steps
    /\ spent \in Nat
    /\ stale => next.next # "Normal"
    /\ ~stale =>
          /\ next.next = "Normal" => spent = 0
          /\ next.next \in {"Retry", "Postponed"} =>
                spent = next.attempts /\ spent < HandoffAttempts
          /\ next.next = "Fresh" => spent = HandoffAttempts
          /\ next.next = "Retry" => snapped # "no" \/ next.snapshot
          /\ next.next = "Postponed" => snapped # "no"
          /\ next.next # "Normal" => (next.handoff => noted)

\* What plan_start decided on fits rotation.json until claude is spawned.  A rotation
\* that is being cleared starts the next one from nothing, stale or not.
PlanInv ==
    /\ start \in Starts
    /\ ret \in {"run", "spawn", "fresh"}
    /\ ~stale /\ pc = "spawn" /\ ~OneShot =>
          /\ next.next # "Fresh"
          /\ start.attempts = DiskAttempts
          /\ start.handoff => noted
          /\ start.kind = "Retry" <=> next.next = "Retry"
          /\ start.kind = "Retry" => (start.snapshot <=> next.snapshot)
    /\ Clearing /\ ret = "spawn" =>
          /\ start = [Start("AfterRotation", 0, FALSE, FALSE) EXCEPT !.told = start.told]
          /\ ~stale => (start.told => noted)
    /\ ~stale /\ pc = "fresh" => next.next = "Normal"
    /\ pc = "fresh" \/ (Clearing /\ ret = "fresh") => ~Resumable

\* The tracker of a running claude goes by what is on disk.
RunInv ==
    /\ trk \in Trackers
    /\ pc = "window" => ~stopping
    /\ ~stale /\ pc \in {"window", "run"} =>
          /\ trk.phase \in {"Handoff", "Compacting"} => snapped # "no"
          /\ trk.phase = "Handoff" /\ note => noted
          /\ trk.handoff => noted
    /\ ~stale /\ pc \in {"window", "run"} /\ ~stopping /\ ~OneShot =>
          /\ next.next # "Fresh"
          /\ trk.attempts = DiskAttempts
          /\ trk.attempts # 0 => snapped # "no"
    /\ Clearing /\ ret = "run" =>
          trk.phase = "Idle" /\ trk.attempts = 0 /\ ~trk.handoff

\* A one-turn run has no rotation, takes no message and says its line once.
OneShotInv ==
    /\ OneShot =>
          /\ pc # "fresh"
          /\ pc = "spawn" => start.kind = "Resumed"
          /\ pc \in {"window", "run", "clear1", "clear2"} => trk = NewTracker /\ ~ready
          /\ Clearing => shot = "compacted" /\ ret = "run"
          /\ after \notin {"Again", "Pause"}
    /\ pc = "down" => after = "none"
    /\ pc = "down" /\ exit = "auto" => ~said
    /\ pc \in {"plan", "spawn", "window"} \/ (pc # "down" /\ ~OneShot) => ~said

RotationInv ==
    /\ savedId \in Nat
    /\ pc \in {"down", "plan", "fresh", "clear1", "clear2", "spawn", "window", "run"}
    /\ mode \in {"rotate", "emergency"}
    /\ DiskInv /\ PlanInv /\ RunInv /\ OneShotInv
-----------------------------------------------------------------------------
\* The records the supervisor starts from are of their types.
LEMMA NewRecords ==
    /\ NewTracker \in Trackers
    /\ NewTracker.phase = "Idle" /\ NewTracker.attempts = 0 /\ ~NewTracker.handoff
    /\ \A k \in {"Fresh", "Resumed", "AfterRotation", "Retry"}, n \in Nat,
          h \in BOOLEAN, b \in BOOLEAN :
          /\ Start(k, n, h, b) \in Starts
          /\ Start(k, n, h, b).kind = k
          /\ Start(k, n, h, b).attempts = n
          /\ Start(k, n, h, b).handoff = h
          /\ Start(k, n, h, b).snapshot = b
    /\ Normal.next = "Normal"
PROOF
  BY DEF NewTracker, Trackers, Start, Starts, Normal

\* What is on disk is true as long as it is not rewritten.
LEMMA DiskKept ==
    ASSUME DiskInv, UNCHANGED <<next, spent, stale>>, snapped # "no" => snapped' # "no",
           noted => noted'
    PROVE  DiskInv'
PROOF
  BY DEF DiskInv

\* Nothing is on disk of a rotation that is over.
LEMMA DiskCleared ==
    ASSUME next' = Normal, spent' = 0, ~stale'
    PROVE  DiskInv' /\ DiskAttempts' = 0
PROOF
  BY DEF DiskInv, Normal, DiskAttempts

\* The supervisor's process goes: what is in memory is lost, what is on disk stays.
LEMMA GoneStep ==
    ASSUME RotationInv, Gone, UNCHANGED <<next, spent, snapped, noted, stale>>,
           savedId' \in Nat, exit' = "auto" => ~said'
    PROVE  RotationInv'
PROOF
  <1>1. DiskInv'
    BY DiskKept DEF RotationInv
  <1>2. /\ pc' = "down" /\ ret' = "run" /\ after' = "none" /\ trk' = NewTracker
        /\ start' = Start("Fresh", 0, FALSE, FALSE) /\ mode' = mode
    BY DEF Gone
  <1>3. start' \in Starts
    BY <1>2 DEF Start, Starts
  <1>4. PlanInv'
    BY <1>2, <1>3 DEF PlanInv, Clearing
  <1>5. RunInv'
    BY <1>2, NewRecords DEF RunInv, Clearing
  <1>6. OneShotInv'
    BY <1>2 DEF OneShotInv, Clearing, OneShot
  <1> QED
    BY <1>1, <1>2, <1>4, <1>5, <1>6 DEF RotationInv

\* The exits that leave the unit down for the operator are those of a one-turn run.
LEMMA GoDownStep ==
    ASSUME RotationInv, pc # "down", GoDown, UNCHANGED <<next, spent, snapped, noted, stale>>,
           savedId' \in Nat
    PROVE  RotationInv'
PROOF
  <1>1. exit' = "auto" => ~said'
    BY DEF GoDown, RotationInv, OneShotInv
  <1> QED
    BY <1>1, GoneStep DEF GoDown

\* Run::act on a tracker that has changed, but not in its count.
LEMMA ActStep ==
    ASSUME RotationInv, Feeding,
           NEW t \in Trackers, t.attempts = trk.attempts, t.handoff = trk.handoff,
           t.phase = trk.phase \/ t.phase = "Waiting",
           Act(t),
           UNCHANGED <<savedId, next, pc, ret, start, after, stopping, mode, exit, shot, said>>
    PROVE  RotationInv'
PROOF
  <1>0. pc = "run" /\ ~stopping /\ ~OneShot
    BY DEF Feeding
  <1>1. /\ trk' \in Trackers
        /\ trk'.attempts = t.attempts /\ trk'.handoff = t.handoff
        /\ \/ trk'.phase = t.phase /\ ~Requests(t)
           \/ trk'.phase = "Handoff" /\ Requests(t)
    BY DEF Act, Advance, Trackers
  <1>2. /\ snapped # "no" => snapped' # "no"
        /\ Requests(t) /\ t.attempts = 0 => snapped' # "no"
        /\ note' => note /\ ~Requests(t)
        /\ UNCHANGED <<spent, noted, stale>>
    BY DEF Act, Snapshot
  <1>3. DiskInv'
    BY <1>2, DiskKept DEF RotationInv
  <1>4. ~stale /\ trk'.phase \in {"Handoff", "Compacting"} => snapped' # "no"
    BY <1>0, <1>1, <1>2 DEF RotationInv, RunInv
  <1>5. RunInv'
    BY <1>0, <1>1, <1>2, <1>4 DEF RotationInv, RunInv, DiskAttempts, OneShot, Clearing
  <1>6. PlanInv'
    BY <1>0, <1>2 DEF RotationInv, PlanInv, Clearing
  <1>7. OneShotInv'
    BY <1>0 DEF RotationInv, OneShotInv, OneShot, Clearing
  <1> QED
    BY <1>3, <1>5, <1>6, <1>7 DEF RotationInv

\* A tracker that spends an attempt is a tracker.
LEMMA SpendTyped ==
    ASSUME NEW t \in Trackers
    PROVE  Spend(t) \in Trackers /\ Spend(t).phase = "Idle" /\ Spend(t).handoff = t.handoff
PROOF
  <1>1. t.attempts + 1 \in Nat
    BY DEF Trackers
  <1> QED
    BY <1>1 DEF Spend, Trackers

\* An attempt is spent: what is recorded has one more than the tracker and the disk had.
LEMMA RecordStep ==
    ASSUME RotationInv, Feeding,
           NEW t \in Trackers, t.attempts = trk.attempts, t.handoff = trk.handoff,
           NEW step,
           \/ /\ t.attempts + 1 < HandoffAttempts
              /\ \E b \in BOOLEAN : step = Retry(b, t.attempts + 1, t.handoff) /\ Covered(b)
           \/ /\ t.attempts + 1 < HandoffAttempts
              /\ step = Postponed(t.attempts + 1, t.handoff) /\ Covered(FALSE)
           \/ /\ ~(t.attempts + 1 < HandoffAttempts)
              /\ step = Fresh(t.handoff),
           trk' = Spend(t), Record(step), after' \in {"Again", "Pause"},
           UNCHANGED <<pc, ret, start, ready, mode, exit, shot, said>>
    PROVE  RotationInv'
PROOF
  <1>0. /\ pc = "run" /\ ~stopping /\ ~OneShot
        /\ HandoffAttempts \in Nat /\ HandoffAttempts # 0
    BY RotationAssumption DEF Feeding
  <1>1. /\ ~stale => t.attempts = spent /\ spent < HandoffAttempts /\ (t.handoff => noted)
        /\ t.handoff \in BOOLEAN /\ t.attempts \in Nat /\ spent \in Nat
    BY <1>0 DEF RotationInv, RunInv, DiskInv, DiskAttempts, Steps, Trackers, Normal
  <1>2. UNCHANGED <<snapped, noted, stale, savedId, transcripts, marker>> /\ stopping'
    BY DEF Record
  <1>3. DiskInv'
    <2>1. CASE UNCHANGED <<next, spent>>
      BY <1>2, <2>1, DiskKept DEF RotationInv
    <2>2. CASE next' = step /\ spent' = spent + 1
      <3>1. CASE /\ t.attempts + 1 < HandoffAttempts
                 /\ \E b \in BOOLEAN : step = Retry(b, t.attempts + 1, t.handoff) /\ Covered(b)
        <4>1. PICK b \in BOOLEAN : step = Retry(b, t.attempts + 1, t.handoff) /\ Covered(b)
          BY <3>1
        <4>2. /\ step \in Steps /\ step.next = "Retry" /\ step.attempts = t.attempts + 1
              /\ step.handoff = t.handoff /\ step.snapshot = b
          BY <1>1, <4>1 DEF Retry, Steps
        <4> QED
          BY <1>1, <1>2, <2>2, <3>1, <4>1, <4>2 DEF DiskInv, Covered
      <3>2. CASE /\ t.attempts + 1 < HandoffAttempts
                 /\ step = Postponed(t.attempts + 1, t.handoff) /\ Covered(FALSE)
        <4>1. /\ step \in Steps /\ step.next = "Postponed" /\ step.attempts = t.attempts + 1
              /\ step.handoff = t.handoff
          BY <1>1, <3>2 DEF Postponed, Steps
        <4> QED
          BY <1>1, <1>2, <2>2, <3>2, <4>1 DEF DiskInv, Covered
      <3>3. CASE ~(t.attempts + 1 < HandoffAttempts) /\ step = Fresh(t.handoff)
        <4>1. step \in Steps /\ step.next = "Fresh" /\ step.handoff = t.handoff
          BY <1>1, <3>3 DEF Fresh, Steps
        <4>2. ~stale => spent' = HandoffAttempts
          BY <1>0, <1>1, <2>2, <3>3
        <4> QED
          BY <1>1, <1>2, <2>2, <4>1, <4>2 DEF DiskInv
      <3> QED
        BY <3>1, <3>2, <3>3
    <2> QED
      BY <2>1, <2>2 DEF Record
  <1>4. trk' \in Trackers /\ trk'.phase = "Idle" /\ trk'.handoff = t.handoff
    BY SpendTyped
  <1>5. RunInv'
    BY <1>0, <1>1, <1>2, <1>4 DEF RunInv, Clearing
  <1>6. PlanInv'
    BY <1>0, <1>2 DEF RotationInv, PlanInv, Clearing
  <1>7. OneShotInv'
    BY <1>0 DEF RotationInv, OneShotInv, OneShot, Clearing
  <1> QED
    BY <1>2, <1>3, <1>5, <1>6, <1>7 DEF RotationInv

\* A step of the loop that leaves the tracker, the plan and the disk alone.
LEMMA LoopStep ==
    ASSUME RotationInv,
           UNCHANGED <<savedId, next, ret, start, trk, spent, snapped, stale, mode>>,
           noted => noted', trk.phase = "Handoff" /\ note' => note \/ noted',
           pc \in {"run", "window"}, pc' = "run",
           \/ stopping'
           \/ stopping' = stopping,
           OneShot => after' \notin {"Again", "Pause"} /\ ready' = ready,
           OneShot \/ (said' => said)
    PROVE  RotationInv'
PROOF
  <1>1. DiskInv'
    BY DiskKept DEF RotationInv
  <1>2. PlanInv'
    BY DEF RotationInv, PlanInv, Clearing
  <1>3. RunInv'
    BY DEF RotationInv, RunInv, Clearing, DiskAttempts, OneShot
  <1>4. OneShotInv'
    BY DEF RotationInv, OneShotInv, Clearing, OneShot
  <1> QED
    BY <1>1, <1>2, <1>3, <1>4 DEF RotationInv

\* A step of the loop that changes the tracker only: the phase is not entered without
\* its snapshot, no handoff is claimed without its note, and the count stays.
LEMMA TrackerStep ==
    ASSUME RotationInv, Feeding,
           UNCHANGED <<savedId, next, pc, ret, start, spent, snapped, noted, stale, note,
                       after, stopping, mode, exit, shot, said>>,
           trk' \in Trackers, trk'.attempts = trk.attempts,
           trk'.phase = trk.phase \/ trk.phase = "Handoff",
           ~stale => (trk'.handoff => noted)
    PROVE  RotationInv'
PROOF
  <1>0. pc = "run" /\ ~stopping /\ ~OneShot
    BY DEF Feeding
  <1>1. DiskInv'
    BY DiskKept DEF RotationInv
  <1>2. PlanInv'
    BY <1>0 DEF RotationInv, PlanInv, Clearing
  <1>3. RunInv'
    BY <1>0 DEF RotationInv, RunInv, Clearing, DiskAttempts, OneShot
  <1>4. OneShotInv'
    BY <1>0 DEF RotationInv, OneShotInv, Clearing, OneShot
  <1> QED
    BY <1>1, <1>2, <1>3, <1>4 DEF RotationInv

\* plan_start: what it decides on is what rotation.json says.
LEMMA PlanStep ==
    ASSUME RotationInv, PlanStart
    PROVE  RotationInv'
PROOF
  <1>0. /\ pc = "plan" /\ ~OneShot /\ ~said
        /\ UNCHANGED <<transcripts, marker, trk, after, stopping, ready, mode, exit, shot, said>>
    BY DEF PlanStart, RotationInv, OneShotInv, run, unit, line
  <1>1. OneShotInv'
    BY <1>0 DEF PlanStart, Rotated, OneShotInv, OneShot, Clearing, RotationInv
  <1>2. pc' \in {"clear1", "spawn"} /\ (pc' = "clear1" => ret' \in {"spawn", "fresh"})
    BY DEF PlanStart, Rotated
  <1>3. RunInv'
    BY <1>0, <1>2 DEF RotationInv, RunInv, Clearing
  <1>4. CASE /\ next.next = "Fresh" \/ (next.next = "Retry" /\ ~Resumable)
             /\ Rotated(next.handoff)
    <2>1. /\ savedId' = savedId + 1 /\ pc' = "clear1" /\ ret' = "spawn"
          /\ start' = [Start("AfterRotation", 0, FALSE, FALSE) EXCEPT !.told = next.handoff]
          /\ UNCHANGED <<next, spent, snapped, noted, stale>>
      BY <1>4 DEF Rotated, hist
    <2>2. (~stale => (next.handoff => noted)) /\ next.handoff \in BOOLEAN
      BY <1>4 DEF RotationInv, DiskInv, Steps, Normal
    <2>3. start' \in Starts /\ start'.told = next.handoff
      BY <2>1, <2>2 DEF Start, Starts
    <2>4. PlanInv'
      BY <2>1, <2>2, <2>3 DEF PlanInv, Clearing
    <2> QED
      BY <1>1, <1>3, <2>1, <2>4, <1>0, DiskKept DEF RotationInv
  <1>5. CASE /\ next.next = "Retry" /\ Resumable
             /\ start' = Start("Retry", next.attempts, next.handoff, next.snapshot)
             /\ pc' = "spawn"
             /\ UNCHANGED <<savedId, next, ret, hist>>
    <2>1. next.attempts \in Nat /\ next.handoff \in BOOLEAN /\ next.snapshot \in BOOLEAN
      BY <1>5 DEF RotationInv, DiskInv, Steps, Normal
    <2>2. /\ start' \in Starts /\ start'.kind = "Retry" /\ start'.attempts = next.attempts
          /\ start'.handoff = next.handoff /\ start'.snapshot = next.snapshot
      BY <1>5, <2>1 DEF Start, Starts
    <2>3. PlanInv'
      BY <1>0, <1>5, <2>2 DEF RotationInv, PlanInv, DiskInv, DiskAttempts, Clearing, hist
    <2> QED
      BY <1>0, <1>1, <1>3, <1>5, <2>3, DiskKept DEF RotationInv, hist
  <1>6. CASE /\ next.next = "Postponed" /\ marker /\ Resumable
             /\ start' = Start("Resumed", next.attempts, next.handoff, FALSE)
             /\ pc' = "spawn"
             /\ UNCHANGED <<savedId, next, ret, hist>>
    <2>1. next.attempts \in Nat /\ next.handoff \in BOOLEAN
      BY <1>6 DEF RotationInv, DiskInv, Steps, Normal
    <2>2. /\ start' \in Starts /\ start'.kind = "Resumed" /\ start'.attempts = next.attempts
          /\ start'.handoff = next.handoff
      BY <1>6, <2>1 DEF Start, Starts
    <2>3. PlanInv'
      BY <1>0, <1>6, <2>2 DEF RotationInv, PlanInv, DiskInv, DiskAttempts, Clearing, hist
    <2> QED
      BY <1>0, <1>1, <1>3, <1>6, <2>3, DiskKept DEF RotationInv, hist
  <1>7. CASE /\ next.next = "Normal" \/ (next.next = "Postponed" /\ ~marker)
             /\ Resumable
             /\ DropNext
             /\ start' = Start("Resumed", 0, FALSE, FALSE)
             /\ pc' = "spawn"
             /\ IF marker THEN UNCHANGED hist ELSE RotationOver
             /\ UNCHANGED <<savedId, ret>>
    <2>1. start' \in Starts /\ start'.kind = "Resumed" /\ start'.attempts = 0 /\ ~start'.handoff
      BY <1>7 DEF Start, Starts
    <2>2. spent' = 0 /\ (stale' => next' = next /\ next.next = "Postponed")
          /\ (~stale' => next' = Normal)
      BY <1>7, NewRecords DEF RotationInv, DiskInv, RotationOver, DropNext, hist, Steps,
         Normal
    <2>3. DiskInv' /\ (~stale' => DiskAttempts' = 0 /\ next'.next = "Normal")
      <3>1. CASE ~stale'
        BY <2>2, <3>1, DiskCleared, NewRecords
      <3>2. CASE stale'
        BY <2>2, <3>2 DEF RotationInv, DiskInv
      <3> QED BY <3>1, <3>2
    <2>4. PlanInv'
      BY <1>0, <1>7, <2>1, <2>3 DEF RotationInv, PlanInv, Clearing
    <2> QED
      BY <1>0, <1>1, <1>3, <1>7, <2>3, <2>4 DEF RotationInv
  <1>8. CASE /\ next.next \in {"Normal", "Postponed"} /\ ~Resumable
             /\ pc' = "clear1"
             /\ ret' = "fresh"
             /\ UNCHANGED <<savedId, next, start, hist>>
    <2>1. PlanInv'
      BY <1>0, <1>8 DEF RotationInv, PlanInv, Clearing, Resumable
    <2> QED
      BY <1>0, <1>1, <1>3, <1>8, <2>1, DiskKept DEF RotationInv, hist
  <1> QED
    BY <1>4, <1>5, <1>6, <1>7, <1>8 DEF PlanStart

\* run_once starts claude: the tracker takes over what plan_start decided on, or, if
\* the marker is gone since, nothing is pending and what is on disk is stale.
LEMMA SpawnStep ==
    ASSUME RotationInv, Spawn
    PROVE  RotationInv'
PROOF
  <1>0. /\ pc = "spawn" /\ pc' \in {"window", "run"} /\ ~said
        /\ shot' = IF OneShot /\ pc' = "run" THEN "sent" ELSE "unsent"
        /\ said' = (said \/ shot' = "sent")
        /\ after' = "none" /\ ~stopping' /\ ~ready'
        /\ UNCHANGED <<savedId, transcripts, marker, next, ret, start, mode>>
        /\ start \in Starts
    BY DEF Spawn, FirstLine, RotationInv, OneShotInv, PlanInv, disk, unit
  <1>1. DiskInv' /\ RunInv' /\ (OneShot => trk' = NewTracker)
    <2>1. CASE start.kind = "Retry"
      <3>1. ~OneShot
        BY <1>0, <2>1 DEF RotationInv, OneShotInv
      <3>2. /\ trk' = RetryingTracker(start) /\ ~note'
            /\ snapped # "no" \/ start.snapshot => snapped' # "no"
            /\ UNCHANGED <<spent, noted, stale>>
        BY <2>1 DEF Spawn, Snapshot
      <3>3. /\ trk' \in Trackers /\ trk'.attempts = start.attempts /\ trk'.handoff = start.handoff
        BY <1>0, <3>2 DEF RetryingTracker, NewTracker, Trackers, Starts
      <3>4. ~stale => snapped' # "no"
        BY <1>0, <2>1, <3>1, <3>2 DEF RotationInv, PlanInv, DiskInv
      <3>5. ~stale => /\ next.next # "Fresh" /\ start.attempts = DiskAttempts
                      /\ start.handoff => noted
        BY <1>0, <3>1 DEF RotationInv, PlanInv
      <3>6. DiskInv'
        BY <1>0, <3>2, DiskKept DEF RotationInv
      <3> QED
        BY <1>0, <3>1, <3>2, <3>3, <3>4, <3>5, <3>6 DEF RunInv, DiskAttempts, Clearing
    <2>2. CASE start.kind # "Retry" /\ marker /\ ~OneShot
      <3>1. /\ trk' = PendingTracker(after = "Pause", start)
            /\ UNCHANGED <<spent, snapped, noted, stale>>
        BY <2>2 DEF Spawn, hist
      <3>2. /\ trk' \in Trackers /\ trk'.attempts = start.attempts /\ trk'.handoff = start.handoff
            /\ trk'.phase = "Waiting"
        BY <1>0, <3>1 DEF PendingTracker, NewTracker, Trackers, Starts
      <3>3. ~stale => /\ next.next # "Fresh" /\ start.attempts = DiskAttempts
                      /\ start.handoff => noted
                      /\ start.attempts # 0 => snapped # "no"
        BY <1>0, <2>2 DEF RotationInv, PlanInv, DiskInv, DiskAttempts
      <3>4. DiskInv'
        BY <1>0, <3>1, DiskKept DEF RotationInv
      <3> QED
        BY <1>0, <2>2, <3>1, <3>2, <3>3, <3>4 DEF RunInv, DiskAttempts, Clearing
    <2>3. CASE start.kind # "Retry" /\ ~(marker /\ ~OneShot)
      <3>1. trk' = NewTracker
        BY <2>3 DEF Spawn
      <3>2. CASE OneShot \/ next = Normal
        <4>1. UNCHANGED <<spent, snapped, noted, stale>>
          BY <2>3, <3>2 DEF Spawn, hist
        <4>2. DiskInv'
          BY <1>0, <4>1, DiskKept DEF RotationInv
        <4> QED
          BY <1>0, <3>1, <3>2, <4>1, <4>2, NewRecords DEF RunInv, DiskAttempts, Clearing,
             OneShot
      <3>3. CASE ~OneShot /\ next # Normal
        <4>1. spent' = 0 /\ stale'
          BY <1>0, <2>3, <3>3 DEF Spawn, RotationOver
        <4>2. DiskInv'
          BY <1>0, <3>3, <4>1 DEF RotationInv, DiskInv, Steps
        <4> QED
          BY <1>0, <3>1, <3>3, <4>1, <4>2, NewRecords DEF RunInv, Clearing
      <3> QED BY <3>2, <3>3
    <2> QED
      BY <2>1, <2>2, <2>3
  <1>2. PlanInv'
    BY <1>0 DEF RotationInv, PlanInv, Clearing
  <1>3. OneShotInv'
    BY <1>0, <1>1 DEF RotationInv, OneShotInv, OneShot, Clearing
  <1> QED
    BY <1>0, <1>1, <1>2, <1>3 DEF RotationInv

\* clear_rotation: the next rotation starts from nothing, and rotation.json is gone or
\* stale.
LEMMA ClearNextStep ==
    ASSUME RotationInv, ClearNext
    PROVE  RotationInv'
PROOF
  <1>0. /\ pc = "clear2" /\ pc' = ret /\ ret' = ret
        /\ spent' = 0
        /\ \/ ~stale' /\ next' = Normal
           \/ stale' /\ next' = next /\ next # Normal
        /\ UNCHANGED <<savedId, transcripts, marker, start, trk, after, stopping, ready, mode,
                       exit, shot, said>>
    BY DEF ClearNext, RotationOver, DropNext, run, unit, line
  <1>1. DiskInv' /\ (~stale' => DiskAttempts' = 0 /\ next'.next = "Normal")
    <2>1. CASE ~stale'
      BY <1>0, <2>1, DiskCleared, NewRecords
    <2>2. CASE stale'
      BY <1>0, <2>2 DEF RotationInv, DiskInv, Steps
    <2> QED BY <2>1, <2>2
  <1>2. PlanInv'
    <2>1. ret = "spawn" => /\ start.kind = "AfterRotation" /\ start.attempts = 0
                           /\ ~start.handoff
      BY <1>0 DEF RotationInv, PlanInv, Clearing, Start
    <2> QED
      BY <1>0, <1>1, <2>1 DEF RotationInv, PlanInv, Clearing, Resumable
  <1>3. RunInv'
    BY <1>0, <1>1 DEF RotationInv, PlanInv, RunInv, Clearing
  <1>4. OneShotInv'
    BY <1>0 DEF RotationInv, PlanInv, OneShotInv, OneShot, Clearing
  <1> QED
    BY <1>0, <1>1, <1>2, <1>3, <1>4 DEF RotationInv, PlanInv

\* The steps before and between runs.
LEMMA SupervisorStep ==
    ASSUME RotationInv,
           \/ StartUnit \/ PlanEmergency \/ StopBetweenRuns \/ ClearMarker \/ FreshId
           \/ WriteIdFails \/ SpawnFails
    PROVE  RotationInv'
PROOF
  <1>0. savedId \in Nat
    BY DEF RotationInv
  <1>1. CASE StartUnit
    <2>1. /\ pc = "down" /\ pc' = "plan" /\ exit' = "auto"
          /\ ~said' /\ after = "none"
          /\ mode' \in {"rotate", "emergency"}
          /\ UNCHANGED <<savedId, transcripts, marker, next, ret, start, trk, after, stopping, ready,
                         spent, snapped, noted, stale>>
      BY <1>1 DEF StartUnit, RotationInv, OneShotInv, disk, run, hist
    <2>2. PlanInv'
      BY <2>1 DEF RotationInv, PlanInv, Clearing
    <2>3. RunInv'
      BY <2>1 DEF RotationInv, RunInv, Clearing
    <2>4. OneShotInv'
      BY <2>1 DEF OneShotInv, Clearing
    <2> QED
      BY <2>1, <2>2, <2>3, <2>4, DiskKept DEF RotationInv
  <1>2. CASE PlanEmergency
    <2>1. CASE GoDown
      BY <1>0, <1>2, <2>1, GoDownStep DEF PlanEmergency, disk, hist
    <2>2. CASE /\ start' = Start("Resumed", 0, FALSE, FALSE)
               /\ pc' = "spawn"
               /\ UNCHANGED <<ret, trk, after, stopping, note, shutdown, unit, line>>
      <3>1. /\ pc = "plan" /\ OneShot
            /\ UNCHANGED <<savedId, transcripts, marker, next, ready, spent, snapped, noted, stale>>
        BY <1>2 DEF PlanEmergency, disk, hist
      <3>2. start' \in Starts /\ start'.kind = "Resumed"
        BY <2>2 DEF Start, Starts
      <3>3. PlanInv'
        BY <2>2, <3>1, <3>2 DEF RotationInv, PlanInv, Clearing, OneShot, unit
      <3>4. RunInv'
        BY <2>2 DEF RotationInv, RunInv, Clearing
      <3>5. OneShotInv'
        BY <2>2, <3>1, <3>2 DEF RotationInv, OneShotInv, Clearing, OneShot, unit, line
      <3> QED
        BY <2>2, <3>1, <3>3, <3>4, <3>5, DiskKept DEF RotationInv, unit
    <2> QED
      BY <1>2, <2>1, <2>2 DEF PlanEmergency
  <1>3. CASE StopBetweenRuns \/ WriteIdFails \/ SpawnFails
    <2>1. pc # "down" /\ GoDown /\ UNCHANGED <<savedId, next, spent, snapped, noted, stale>>
      BY <1>3 DEF StopBetweenRuns, WriteIdFails, SpawnFails, disk, hist
    <2> QED
      BY <1>0, <2>1, GoDownStep
  <1>4. CASE ClearMarker
    <2>1. /\ pc = "clear1" /\ pc' = "clear2"
          /\ UNCHANGED <<savedId, transcripts, next, ret, start, trk, after, stopping, ready,
                         spent, snapped, noted, stale, mode, exit, shot, said>>
      BY <1>4 DEF ClearMarker, run, hist, unit, line
    <2>2. PlanInv' /\ RunInv'
      BY <2>1 DEF RotationInv, PlanInv, RunInv, Clearing, Resumable
    <2>3. OneShotInv'
      BY <2>1 DEF RotationInv, OneShotInv, Clearing, OneShot
    <2> QED
      BY <2>1, <2>2, <2>3, DiskKept DEF RotationInv
  <1>5. CASE FreshId
    <2>1. /\ pc = "fresh" /\ pc' = "spawn" /\ savedId' = savedId + 1
          /\ start' = Start("Fresh", 0, FALSE, FALSE)
          /\ UNCHANGED <<marker, next, ret, trk, after, stopping, ready, spent, snapped, noted, stale,
                         mode, exit, shot, said>>
      BY <1>5 DEF FreshId, run, hist, unit, line
    <2>2. /\ start' \in Starts /\ start'.kind = "Fresh" /\ start'.attempts = 0
          /\ ~start'.handoff
      BY <2>1 DEF Start, Starts
    <2>3. ~OneShot /\ (~stale => next.next = "Normal" /\ DiskAttempts' = 0)
      BY <2>1 DEF RotationInv, OneShotInv, PlanInv, DiskAttempts
    <2>4. PlanInv'
      BY <2>1, <2>2, <2>3 DEF RotationInv, PlanInv, Clearing
    <2>5. RunInv'
      BY <2>1 DEF RotationInv, RunInv, Clearing
    <2>6. OneShotInv'
      BY <2>1, <2>3 DEF RotationInv, OneShotInv, Clearing, OneShot
    <2> QED
      BY <1>0, <2>1, <2>4, <2>5, <2>6, DiskKept DEF RotationInv
  <1> QED
    BY <1>1, <1>2, <1>3, <1>4, <1>5

\* The steps of the loop that go through Run::act.
LEMMA ActingStep ==
    ASSUME RotationInv,
           \/ TurnEvent \/ ContextEvent \/ BackgroundTasks \/ ResultIdle
           \/ PauseOver \/ Threshold \/ MarkerAppeared
    PROVE  RotationInv'
PROOF
  <1>0. trk \in Trackers
    BY DEF RotationInv, RunInv
  <1> DEFINE Same(t) == /\ t \in Trackers /\ t.attempts = trk.attempts
                        /\ t.handoff = trk.handoff
                        /\ t.phase = trk.phase \/ t.phase = "Waiting"
  <1>1. /\ Same([trk EXCEPT !.turn = TRUE])
        /\ Same([trk EXCEPT !.big = ~@])
        /\ Same([trk EXCEPT !.agents = ~@])
        /\ Same([trk EXCEPT !.paused = FALSE])
        /\ Same(Ended)
        /\ Same(SetPending(trk))
    <2>1. /\ Same([trk EXCEPT !.turn = TRUE])
          /\ Same([trk EXCEPT !.big = ~@])
      BY <1>0 DEF Trackers
    <2>2. /\ Same([trk EXCEPT !.agents = ~@])
          /\ Same([trk EXCEPT !.paused = FALSE])
      BY <1>0 DEF Trackers
    <2>3. Same(Ended)
      BY <1>0 DEF Trackers, Ended
    <2>4. Same(SetPending(trk))
      BY <1>0 DEF Trackers, SetPending
    <2> QED BY <2>1, <2>2, <2>3, <2>4
  <1>2. PICK t : Same(t) /\ Act(t)
    <2>1. CASE TurnEvent
      BY <1>1, <2>1 DEF TurnEvent
    <2>2. CASE ContextEvent
      BY <1>1, <2>2 DEF ContextEvent
    <2>3. CASE BackgroundTasks
      BY <1>1, <2>3 DEF BackgroundTasks
    <2>4. CASE ResultIdle
      BY <1>1, <2>4 DEF ResultIdle
    <2>5. CASE PauseOver
      BY <1>1, <2>5 DEF PauseOver
    <2>6. CASE Threshold \/ MarkerAppeared
      BY <1>1, <2>6 DEF Threshold, MarkerAppeared
    <2> QED
      BY <2>1, <2>2, <2>3, <2>4, <2>5, <2>6
  <1>3. /\ Feeding
        /\ UNCHANGED <<savedId, next, pc, ret, start, after, stopping, mode, exit, shot, said>>
    BY DEF TurnEvent, ContextEvent, BackgroundTasks, ResultIdle, PauseOver, Threshold,
           MarkerAppeared, disk, run, unit, line
  <1> QED
    BY <1>2, <1>3, ActStep

\* The steps of the loop that change the tracker without Run::act.
LEMMA TrackingStep ==
    ASSUME RotationInv,
           \/ CompactionEvent \/ ResultAwait \/ ResultHandoff \/ ResultCompacted \/ MarkerGone
           \/ ResultFailed \/ CapExpires
    PROVE  RotationInv'
PROOF
  <1>0. trk \in Trackers /\ Feeding /\ pc = "run" /\ ~stopping /\ ~OneShot /\ savedId \in Nat
    BY DEF RotationInv, RunInv, Feeding, CompactionEvent, ResultAwait, ResultHandoff,
           ResultCompacted, MarkerGone, ResultFailed, CapExpires
  <1>1. CASE CompactionEvent \/ ResultAwait
    <2>1. /\ trk' \in Trackers /\ trk'.attempts = trk.attempts /\ trk'.phase = trk.phase
          /\ trk'.handoff = trk.handoff
      BY <1>0, <1>1 DEF CompactionEvent, ResultAwait, Ended, Trackers
    <2>2. UNCHANGED <<savedId, next, pc, ret, start, spent, snapped, noted, stale, note,
                      after, stopping, mode, exit, shot, said>>
      BY <1>1 DEF CompactionEvent, ResultAwait, disk, run, hist, unit, line
    <2>3. ~stale => (trk.handoff => noted)
      BY <1>0 DEF RotationInv, RunInv
    <2> QED
      BY <1>0, <2>1, <2>2, <2>3, TrackerStep
  <1>2. CASE ResultHandoff
    <2>1. /\ trk' \in Trackers /\ trk'.attempts = trk.attempts
          /\ trk.phase = "Handoff" /\ note
      BY <1>0, <1>2 DEF ResultHandoff, Ended, Trackers
    <2>2. UNCHANGED <<savedId, next, pc, ret, start, spent, snapped, noted, stale, note,
                      after, stopping, mode, exit, shot, said>>
      BY <1>2 DEF ResultHandoff, disk, run, hist, unit, line
    <2>3. ~stale => noted
      BY <1>0, <2>1 DEF RotationInv, RunInv
    <2> QED
      BY <1>0, <2>1, <2>2, <2>3, TrackerStep
  <1>3. CASE ResultCompacted
    <2>1. /\ trk' \in Trackers /\ trk'.phase = "Idle" /\ trk'.attempts = 0 /\ ~trk'.handoff
      BY <1>0, <1>3 DEF ResultCompacted, Done, Ended, Trackers
    <2>2. /\ pc' = "clear1" /\ ret' = "run"
          /\ UNCHANGED <<savedId, transcripts, next, start, spent, snapped, noted, stale, after,
                         stopping, mode, exit, shot, said>>
      BY <1>3 DEF ResultCompacted, disk, run, hist, unit, line
    <2>3. PlanInv' /\ RunInv'
      BY <2>1, <2>2 DEF RotationInv, PlanInv, RunInv, Clearing
    <2>4. OneShotInv'
      BY <1>0, <2>2 DEF RotationInv, OneShotInv, OneShot
    <2> QED
      BY <2>2, <2>3, <2>4, DiskKept DEF RotationInv
  <1>4. CASE MarkerGone
    <2>1. trk' \in Trackers /\ trk'.phase = "Idle" /\ trk'.attempts = 0 /\ ~trk'.handoff
      BY <1>0, <1>4 DEF MarkerGone, Done, Trackers
    <2>2. /\ spent' = 0
          /\ \/ ~stale' /\ next' = Normal
             \/ stale' /\ next' = next /\ next # Normal
          /\ UNCHANGED <<savedId, pc, ret, start, after, stopping, mode, exit, shot, said>>
      BY <1>4 DEF MarkerGone, RotationOver, DropNext, run, unit, line
    <2>3. DiskInv' /\ (~stale' => DiskAttempts' = 0 /\ next'.next = "Normal")
      <3>1. CASE ~stale'
        BY <2>2, <3>1, DiskCleared, NewRecords
      <3>2. CASE stale'
        BY <2>2, <3>2 DEF RotationInv, DiskInv, Steps
      <3> QED BY <3>1, <3>2
    <2>4. PlanInv' /\ RunInv'
      BY <1>0, <2>1, <2>2, <2>3 DEF RotationInv, PlanInv, RunInv, Clearing
    <2>5. OneShotInv'
      BY <1>0, <2>2 DEF RotationInv, OneShotInv, OneShot, Clearing
    <2> QED
      BY <2>2, <2>3, <2>4, <2>5 DEF RotationInv
  <1>5. CASE ResultFailed
    <2>1. Ended \in Trackers /\ Ended.attempts = trk.attempts /\ Ended.handoff = trk.handoff
      BY <1>0 DEF Ended, Trackers
    <2>2. Covered(FALSE) /\ Failed(Ended)
      BY <1>0, <1>5 DEF ResultFailed, RotationInv, RunInv, Covered
    <2> DEFINE step == IF Ended.attempts + 1 < HandoffAttempts
                       THEN Postponed(Ended.attempts + 1, Ended.handoff)
                       ELSE Fresh(Ended.handoff)
    <2>3. trk' = Spend(Ended) /\ Record(step) /\ after' \in {"Again", "Pause"}
      BY <2>2 DEF Failed
    <2>4. UNCHANGED <<pc, ret, start, ready, mode, exit, shot, said>>
      BY <1>5 DEF ResultFailed, unit, line
    <2>5. \/ /\ Ended.attempts + 1 < HandoffAttempts
             /\ step = Postponed(Ended.attempts + 1, Ended.handoff)
          \/ /\ ~(Ended.attempts + 1 < HandoffAttempts)
             /\ step = Fresh(Ended.handoff)
      OBVIOUS
    <2> HIDE DEF step
    <2> QED
      BY <1>0, <2>1, <2>2, <2>3, <2>4, <2>5, RecordStep
  <1>6. CASE CapExpires
    <2> DEFINE waiting == trk.phase = "Waiting"
               step == IF trk.attempts + 1 < HandoffAttempts
                       THEN Retry(waiting, trk.attempts + 1, trk.handoff)
                       ELSE Fresh(trk.handoff)
    <2>1. waiting \in BOOLEAN /\ Covered(waiting)
      BY <1>0, <1>6 DEF CapExpires, RotationInv, RunInv, Covered
    <2>2. trk' = Spend(trk) /\ Record(step) /\ after' \in {"Again", "Pause"}
      BY <1>6 DEF CapExpires, Cut
    <2>3. UNCHANGED <<pc, ret, start, ready, mode, exit, shot, said>>
      BY <1>6 DEF CapExpires, unit, line
    <2> HIDE DEF waiting
    <2>4. \/ /\ trk.attempts + 1 < HandoffAttempts
             /\ \E b \in BOOLEAN : step = Retry(b, trk.attempts + 1, trk.handoff) /\ Covered(b)
          \/ /\ ~(trk.attempts + 1 < HandoffAttempts)
             /\ step = Fresh(trk.handoff)
      BY <2>1
    <2> HIDE DEF step
    <2> QED
      BY <1>0, <2>2, <2>3, <2>4, RecordStep
  <1> QED
    BY <1>1, <1>2, <1>3, <1>4, <1>5, <1>6

\* The steps that leave the tracker alone.
LEMMA OtherStep ==
    ASSUME RotationInv,
           \/ WriteNote \/ FirstTurnFails \/ FatalFallback \/ WindowCheck \/ ShutdownSeen
           \/ EmergencyCompaction \/ EmergencyResult \/ EmergencyCap \/ ClaudeExits
           \/ Shutdown \/ Crash \/ LoseTranscript \/ TouchMarker \/ UNCHANGED vars
    PROVE  RotationInv'
PROOF
  <1>0. savedId \in Nat
    BY DEF RotationInv
  <1>1. CASE \/ WriteNote \/ FirstTurnFails \/ FatalFallback \/ ShutdownSeen
             \/ EmergencyCompaction \/ EmergencyCap
    <2>0. (noted => noted') /\ (trk.phase = "Handoff" /\ note' => note \/ noted')
      <3>1. CASE WriteNote
        BY <3>1, Zenon DEF WriteNote
      <3>2. CASE UNCHANGED <<note, noted>>
        BY <3>2
      <3> QED
        BY <1>1, <3>1, <3>2 DEF FirstTurnFails, FatalFallback, ShutdownSeen,
                                EmergencyCompaction, EmergencyCap, hist
    <2>1. /\ UNCHANGED <<savedId, next, ret, start, trk, spent, snapped, stale, mode, said, ready>>
          /\ pc \in {"run", "window"} /\ pc' = "run"
          /\ stopping' \/ stopping' = stopping
      BY <1>1 DEF WriteNote, FirstTurnFails, FatalFallback, ShutdownSeen, EmergencyCompaction,
                  EmergencyCap, EmergencyTurn, Feeding, End, disk, run, hist, unit, line
    <2>2. OneShot => after' \notin {"Again", "Pause"}
      BY <1>1 DEF RotationInv, OneShotInv, WriteNote, FirstTurnFails, FatalFallback,
         ShutdownSeen,
                  EmergencyCompaction, EmergencyCap, Feeding, End, run
    <2> QED
      BY <2>0, <2>1, <2>2, LoopStep
  <1>2. CASE WindowCheck
    <2>1. /\ UNCHANGED <<savedId, next, ret, start, trk, spent, snapped, noted, stale, note, mode,
                         ready>>
          /\ pc = "window" /\ pc' = "run"
          /\ stopping' \/ stopping' = stopping
          /\ after' \in {after, "Held", "Ended"}
      BY <1>2 DEF WindowCheck, End, disk, run, hist, unit
    <2>2. OneShot \/ (said' => said)
      BY <1>2 DEF WindowCheck, FirstLine, line
    <2>3. OneShot => after' \notin {"Again", "Pause"}
      BY <2>1 DEF RotationInv, OneShotInv
    <2> QED
      BY <2>1, <2>2, <2>3, LoopStep
  <1>3. CASE EmergencyResult
    <2>1. /\ UNCHANGED <<savedId, transcripts, next, start, trk, spent, snapped, noted, stale, note,
                         mode, said, ready, shot, exit>>
          /\ pc = "run" /\ OneShot /\ stopping' /\ after' \in {after, "Held"}
      BY <1>3 DEF EmergencyResult, EmergencyTurn, End, disk, hist, unit, line
    <2>2. after' \notin {"Again", "Pause"}
      BY <2>1 DEF RotationInv, OneShotInv
    <2>3. CASE UNCHANGED <<pc, ret>>
      BY <2>1, <2>2, <2>3, LoopStep
    <2>4. CASE shot = "compacted" /\ pc' = "clear1" /\ ret' = "run"
      <3>1. trk = NewTracker /\ ~ready
        BY <2>1 DEF RotationInv, OneShotInv
      <3>2. PlanInv'
        BY <2>1, <2>4 DEF RotationInv, PlanInv, Clearing
      <3>3. RunInv'
        BY <2>1, <2>4, <3>1, NewRecords DEF RunInv, Clearing
      <3>4. OneShotInv'
        BY <2>1, <2>2, <2>4, <3>1 DEF OneShotInv, OneShot, Clearing
      <3> QED
        BY <2>1, <2>4, <3>2, <3>3, <3>4, DiskKept DEF RotationInv
    <2> QED
      BY <1>3, <2>3, <2>4 DEF EmergencyResult
  <1>4. CASE ClaudeExits
    <2>1. pc = "run" /\ UNCHANGED <<transcripts, marker, next, spent, snapped, noted, stale, ready>>
      BY <1>4 DEF ClaudeExits, hist
    <2>2. CASE GoDown
      <3>1. savedId' \in Nat
        BY <1>0, <1>4 DEF ClaudeExits, NoId
      <3> QED
        BY <2>1, <2>2, <3>1, GoDownStep
    <2>3. CASE /\ after \in {"Again", "Pause"}
               /\ pc' = "plan"
               /\ trk' = NewTracker
               /\ UNCHANGED <<savedId, ret, start, after, unit, line>>
      <3>1. ~OneShot /\ ~said
        BY <2>1, <2>3 DEF RotationInv, OneShotInv
      <3>2. PlanInv'
        BY <2>1, <2>3 DEF RotationInv, PlanInv, Clearing
      <3>3. RunInv'
        BY <2>3, NewRecords DEF RunInv, Clearing
      <3>4. OneShotInv'
        BY <2>3, <3>1 DEF OneShotInv, OneShot, Clearing, unit, line
      <3> QED
        BY <2>1, <2>3, <3>2, <3>3, <3>4, DiskKept DEF RotationInv, unit
    <2> QED
      BY <1>4, <2>2, <2>3 DEF ClaudeExits
  <1>5. CASE Crash
    <2>1. /\ Gone /\ UNCHANGED <<savedId, next, spent, snapped, noted, stale>> /\ ~said'
      BY <1>5 DEF Crash, disk, hist
    <2> QED
      BY <1>0, <2>1, GoneStep
  <1>6. CASE Shutdown \/ LoseTranscript \/ TouchMarker \/ UNCHANGED vars
    <2>1. /\ UNCHANGED <<savedId, next, pc, ret, start, trk, after, stopping, ready, spent,
                         snapped, noted, stale, note, mode, exit, shot, said>>
          /\ transcripts' = transcripts \/ pc = "down"
      BY <1>6 DEF Shutdown, LoseTranscript, TouchMarker, vars, disk, run, hist, unit, line
    <2>2. PlanInv'
      <3>1. PlanInv
        BY DEF RotationInv
      <3>2. pc # "down" => Resumable' = Resumable
        BY <2>1 DEF Resumable
      <3>3. pc = "fresh" \/ (Clearing /\ ret = "fresh") => ~Resumable'
        BY <2>1, <3>1, <3>2 DEF PlanInv, Clearing
      <3>4. OneShot' = OneShot /\ DiskAttempts' = DiskAttempts /\ Clearing' = Clearing
        BY <2>1 DEF OneShot, DiskAttempts, Clearing
      <3> QED
        BY <2>1, <3>1, <3>3, <3>4 DEF PlanInv
    <2>3. RunInv'
      BY <2>1 DEF RotationInv, RunInv, Clearing, OneShot, DiskAttempts
    <2>4. OneShotInv'
      BY <2>1 DEF RotationInv, OneShotInv, Clearing, OneShot
    <2> QED
      BY <2>1, <2>2, <2>3, <2>4, DiskKept DEF RotationInv
  <1> QED
    BY <1>1, <1>2, <1>3, <1>4, <1>5, <1>6
-----------------------------------------------------------------------------
\* Every step keeps the invariant.
LEMMA RotationStep ==
    ASSUME RotationInv, [Next]_vars
    PROVE  RotationInv'
PROOF
  BY PlanStep, SpawnStep, ClearNextStep, SupervisorStep, ActingStep, TrackingStep, OtherStep
  DEF Next, Supervisor, Claude, Failures

\* The invariant holds of every state of every behaviour.
LEMMA RotationInvAlways == Spec => []RotationInv
PROOF
  <1>1. Init => RotationInv
    <2> SUFFICES ASSUME Init PROVE RotationInv
      OBVIOUS
    <2>1. DiskInv
      BY DEF Init, DiskInv, Normal
    <2>2. start \in Starts
      BY DEF Init, Start, Starts
    <2>3. PlanInv
      BY <2>2 DEF Init, PlanInv, Clearing
    <2>4. RunInv
      BY NewRecords DEF Init, RunInv, Clearing
    <2>5. OneShotInv
      BY DEF Init, OneShotInv, OneShot, Clearing
    <2> QED
      BY <2>1, <2>3, <2>4, <2>5 DEF Init, RotationInv, NoId
  <1> QED
    BY <1>1, RotationStep, PTL DEF Spec

\* Restarts neither forgive an attempt nor charge the next rotation with one, unless
\* rotation.json has outlived its rotation: what the tracker counts is on disk, and no
\* rotation takes more than HANDOFF_ATTEMPTS (rotation.rs: cut, failed; lib.rs: record,
\* plan_start).
THEOREM AttemptsAreKept == Spec => []CountIsKept
PROOF
  <1>1. RotationInv => CountIsKept
    <2> SUFFICES ASSUME RotationInv, ~stale
                 PROVE  (Feeding => trk.attempts = DiskAttempts) /\ spent <= HandoffAttempts
      BY DEF CountIsKept
    <2>1. Feeding => trk.attempts = DiskAttempts
      BY DEF RotationInv, RunInv, Feeding
    <2>2. next.next \in {"Normal", "Retry", "Postponed", "Fresh"}
      BY DEF RotationInv, DiskInv, Steps, Normal
    <2>3. spent \in Nat /\ spent <= HandoffAttempts
      BY <2>2, RotationAssumption DEF RotationInv, DiskInv, Steps, Normal
    <2> QED
      BY <2>1, <2>3
  <1> QED
    BY <1>1, RotationInvAlways, PTL

\* No handoff or compaction is under way before its snapshot was tried, on whichever
\* path of restarts, cuts and pauses the rotation came to it, unless rotation.json has
\* outlived its rotation (Run::act, run_once; a snapshot that fails is only logged).
THEOREM SnapshotComesFirst == Spec => []SnapshotFirst
PROOF
  <1>1. RotationInv => SnapshotFirst
    BY DEF RotationInv, RunInv, SnapshotFirst
  <1> QED
    BY <1>1, RotationInvAlways, PTL

\* A session that is told of a handoff note has one: it was written on the request of
\* this rotation, in this run or before a restart, unless rotation.json has outlived its
\* rotation (Tracker::event, HandoffWatch).
THEOREM HandoffsAreTrue == Spec => []HandoffIsTrue
PROOF
  <1>1. RotationInv => HandoffIsTrue
    BY DEF RotationInv, DiskInv, PlanInv, Clearing, HandoffIsTrue, Steps, Normal
  <1> QED
    BY <1>1, RotationInvAlways, PTL

\* The steps that give the session another id.
LEMMA NewIdStep ==
    ASSUME RotationInv, [Next]_vars, savedId' # savedId
    PROVE  \/ PlanStart \/ FreshId
           \/ ClaudeExits /\ savedId' = NoId /\ ~OneShot
PROOF
  <1>1. ~UNCHANGED disk
    BY DEF disk
  <1>2. CASE StartUnit \/ Failures \/ EmergencyCap \/ Shutdown \/ Crash
    BY <1>1, <1>2 DEF StartUnit, Failures, WriteIdFails, SpawnFails, FatalFallback,
       EmergencyCap,
                      Shutdown, Crash
  <1>3. CASE LoseTranscript \/ TouchMarker \/ UNCHANGED vars
    BY <1>3 DEF LoseTranscript, TouchMarker, vars, disk
  <1>4. CASE CapExpires
    BY <1>4 DEF CapExpires, Cut, Record
  <1>5. CASE Supervisor
    BY <1>1, <1>5 DEF Supervisor, PlanEmergency, StopBetweenRuns, ClearMarker, ClearNext,
       Spawn,
                      WindowCheck, ShutdownSeen, PauseOver, Threshold, MarkerAppeared, MarkerGone
  <1>6. CASE Claude
    BY <1>1, <1>6 DEF Claude, TurnEvent, ContextEvent, BackgroundTasks, CompactionEvent,
       WriteNote,
                      FirstTurnFails, ResultIdle, ResultAwait, ResultHandoff, ResultCompacted,
                      ResultFailed, Failed, Record, EmergencyCompaction, EmergencyResult
  <1>7. CASE ClaudeExits
    BY <1>7 DEF ClaudeExits
  <1> QED
    BY <1>2, <1>3, <1>4, <1>5, <1>6, <1>7 DEF Next

\* A conversation that can be resumed is given up only when the rotation has spent all
\* its attempts, however they are shared out over runs, unless rotation.json has
\* outlived its rotation (plan_start).
THEOREM ConversationIsKept == Spec => KeepsConversation
PROOF
  <1>1. RotationInv /\ [Next]_vars => 
            [~stale /\ savedId' > savedId /\ Resumable => spent = HandoffAttempts]_vars
    <2> SUFFICES ASSUME RotationInv, [Next]_vars, ~stale, savedId' > savedId, Resumable
                 PROVE  spent = HandoffAttempts
      OBVIOUS
    <2>0. savedId \in Nat /\ ~(0 > savedId)
      BY DEF RotationInv
    <2>1. savedId' # savedId /\ savedId' # NoId
      BY <2>0 DEF NoId
    <2>2. ~FreshId
      BY DEF FreshId, RotationInv, PlanInv
    <2>3. PlanStart
      BY <2>1, <2>2, NewIdStep
    <2>4. next.next = "Fresh"
      BY <2>1, <2>3 DEF PlanStart
    <2> QED
      BY <2>4 DEF RotationInv, DiskInv
  <1> QED
    BY <1>1, RotationInvAlways, PTL DEF Spec, KeepsConversation

\* The mode is chosen when the unit is started.
LEMMA ModeKept ==
    ASSUME [Next]_vars, pc # "down"
    PROVE  mode' = mode
PROOF
  <1>1. CASE Failures \/ CapExpires \/ EmergencyCap \/ ClaudeExits \/ Shutdown \/ Crash
             \/ LoseTranscript \/ TouchMarker \/ UNCHANGED vars
    BY <1>1 DEF Failures, WriteIdFails, SpawnFails, FatalFallback, CapExpires, EmergencyCap,
                ClaudeExits, Shutdown, Crash, LoseTranscript, TouchMarker, GoDown, Gone, unit, vars
  <1>2. CASE Supervisor
    BY <1>2 DEF Supervisor, PlanStart, PlanEmergency, StopBetweenRuns, ClearMarker, ClearNext,
                FreshId, Spawn, WindowCheck, ShutdownSeen, PauseOver, Threshold, MarkerAppeared,
                MarkerGone, GoDown, Gone, unit
  <1>3. CASE Claude
    BY <1>3 DEF Claude, TurnEvent, ContextEvent, BackgroundTasks, CompactionEvent, WriteNote,
                FirstTurnFails, ResultIdle, ResultAwait, ResultHandoff, ResultCompacted,
                ResultFailed, EmergencyCompaction, EmergencyResult, unit
  <1>4. CASE StartUnit
    BY <1>4 DEF StartUnit
  <1> QED
    BY <1>1, <1>2, <1>3, <1>4 DEF Next

\* The steps that rewrite rotation.json in a one-turn run.
LEMMA OneShotRecord ==
    ASSUME [Next]_vars, OneShot, next' # next
    PROVE  ClearNext
PROOF
  <1>0. ~Feeding /\ ~UNCHANGED disk
    BY DEF Feeding, disk
  <1>1. CASE Failures \/ CapExpires \/ EmergencyCap \/ ClaudeExits \/ Shutdown \/ Crash
             \/ LoseTranscript \/ TouchMarker \/ StartUnit \/ UNCHANGED vars
    BY <1>0, <1>1 DEF Failures, WriteIdFails, SpawnFails, FatalFallback, CapExpires,
       EmergencyCap,
                ClaudeExits, Shutdown, Crash, LoseTranscript, TouchMarker, StartUnit, vars
  <1>2. CASE Supervisor
    BY <1>0, <1>2 DEF Supervisor, PlanStart, PlanEmergency, StopBetweenRuns, ClearMarker,
                FreshId, Spawn, WindowCheck, ShutdownSeen, PauseOver, Threshold, MarkerAppeared,
                MarkerGone
  <1>3. CASE Claude
    BY <1>0, <1>3 DEF Claude, TurnEvent, ContextEvent, BackgroundTasks, CompactionEvent,
       WriteNote,
                FirstTurnFails, ResultIdle, ResultAwait, ResultHandoff, ResultCompacted,
                ResultFailed, EmergencyCompaction, EmergencyResult
  <1> QED
    BY <1>1, <1>2, <1>3 DEF Next

\* Whatever fails in a one-turn run, the saved id and the rotation's step stay, and no
\* message is taken; only a compaction that went through ends a pending rotation.
THEOREM EmergencyKeeps == Spec => EmergencyDropsNothing
PROOF
  <1> DEFINE Kept ==
        OneShot /\ pc # "down" =>
            /\ savedId' = savedId
            /\ next' # next => shot = "compacted"
            /\ pc' = "run" => ~ready'
  <1>1. RotationInv /\ RotationInv' /\ [Next]_vars => [Kept]_vars
    <2> SUFFICES ASSUME RotationInv, RotationInv', [Next]_vars, OneShot, pc # "down"
                 PROVE  /\ savedId' = savedId
                        /\ next' # next => shot = "compacted"
                        /\ pc' = "run" => ~ready'
      OBVIOUS
    <2>1. savedId' = savedId
      BY NewIdStep DEF PlanStart, FreshId, RotationInv, OneShotInv
    <2>2. next' # next => shot = "compacted"
      BY OneShotRecord DEF ClearNext, RotationInv, OneShotInv, Clearing
    <2>3. OneShot'
      BY ModeKept DEF OneShot
    <2>4. pc' = "run" => ~ready'
      BY <2>3 DEF RotationInv, OneShotInv
    <2> QED
      BY <2>1, <2>2, <2>4
  <1> QED
    BY <1>1, RotationInvAlways, PTL DEF Spec, EmergencyDropsNothing

\* The emergency line goes out again only by the operator's hand or after the
\* supervisor was killed: no exit of a one-turn run has the unit restarted.
THEOREM LineIsSentOnce == Spec => LineSentOnce
PROOF
  <1>1. RotationInv /\ [Next]_vars => [said /\ shot' = "sent" => shot = "sent"]_vars
    <2> SUFFICES ASSUME RotationInv, Next, said, shot' = "sent"
                 PROVE  shot = "sent"
      OBVIOUS
    <2>1. ~Spawn /\ ~WindowCheck
      BY DEF Spawn, WindowCheck, RotationInv, OneShotInv
    <2>2. CASE Failures \/ CapExpires \/ EmergencyCap \/ ClaudeExits \/ Shutdown \/ Crash
               \/ LoseTranscript \/ TouchMarker \/ StartUnit
      BY <2>2 DEF Failures, WriteIdFails, SpawnFails, FatalFallback, CapExpires, EmergencyCap,
                  ClaudeExits, Shutdown, Crash, LoseTranscript, TouchMarker, StartUnit, GoDown,
                  Gone, line
    <2>3. CASE Supervisor
      BY <2>1, <2>3 DEF Supervisor, PlanStart, PlanEmergency, StopBetweenRuns, ClearMarker,
                  ClearNext, FreshId, ShutdownSeen, PauseOver, Threshold, MarkerAppeared,
                  MarkerGone, GoDown, Gone, line
    <2>4. CASE Claude
      BY <2>4 DEF Claude, TurnEvent, ContextEvent, BackgroundTasks, CompactionEvent,
         WriteNote,
                  FirstTurnFails, ResultIdle, ResultAwait, ResultHandoff, ResultCompacted,
                  ResultFailed, EmergencyCompaction, EmergencyResult, line
    <2> QED
      BY <2>2, <2>3, <2>4 DEF Next
  <1> QED
    BY <1>1, RotationInvAlways, PTL DEF Spec, LineSentOnce
-----------------------------------------------------------------------------
(* Types.                                                                  *)

\* A claude that runs, or is about to, has an id; a transcript is one of an id that
\* was handed out.
Ids ==
    /\ savedId \in 0..MaxIds
    /\ transcripts \subseteq 1..MaxIds
    /\ pc \in {"spawn", "window", "run"} \/ (Clearing /\ ret # "fresh") => savedId # NoId

Flags ==
    /\ marker \in BOOLEAN /\ stopping \in BOOLEAN /\ ready \in BOOLEAN /\ note \in BOOLEAN
    /\ shutdown \in BOOLEAN /\ noted \in BOOLEAN /\ stale \in BOOLEAN
    /\ said \in BOOLEAN

Names ==
    /\ snapped \in {"no", "made", "failed"}
    /\ after \in {"none", "Again", "Pause", "Exit", "Ended", "Held"}
    /\ exit \in {"auto", "hand"}
    /\ shot \in {"unsent", "sent", "failed", "compacted"}

Counts == mishaps \in Nat /\ markers \in Nat /\ emergencies \in Nat

\* No step runs claude without an id.
LEMMA IdsKept ==
    ASSUME RotationInv, Ids, [Next]_vars
    PROVE  Ids'
PROOF
  <1>1. CASE StartUnit
    BY <1>1, RotationAssumption DEF StartUnit, disk, run, hist, bounds, Ids, Clearing, NoId
  <1>2. CASE PlanStart
    <2>1. transcripts' \subseteq 1..MaxIds
      BY <1>2 DEF PlanStart, Ids
    <2>2. CASE Rotated(next.handoff)
      <3>1. savedId' \in 0..MaxIds /\ savedId' # NoId
        BY <2>2, RotationAssumption DEF Rotated, Ids, NoId
      <3> QED BY <2>1, <3>1 DEF Ids
    <2>3. CASE savedId' = savedId /\ Resumable
      BY <2>1, <2>3 DEF Ids, Resumable
    <2>4. CASE savedId' = savedId /\ ret' = "fresh" /\ pc' = "clear1"
      BY <2>1, <2>4 DEF Ids
    <2> QED BY <1>2, <2>2, <2>3, <2>4 DEF PlanStart
  <1>3. CASE PlanEmergency
    BY <1>3, RotationAssumption DEF PlanEmergency, GoDown, Gone, disk, hist, bounds, unit,
       line, Resumable, Ids, Clearing, NoId
  <1>4. CASE StopBetweenRuns
    BY <1>4, RotationAssumption DEF StopBetweenRuns, GoDown, Gone, disk, hist, bounds, Ids,
       Clearing, NoId
  <1>5. CASE ClearMarker
    BY <1>5, RotationAssumption DEF ClearMarker, Mishap, run, hist, bounds, unit, line,
       Ids, Clearing,
       NoId
  <1>6. CASE ClearNext
    BY <1>6, RotationAssumption DEF ClearNext, DropNext, Mishap, RotationOver, run, bounds,
       unit, line, Ids,
       Clearing, NoId
  <1>7. CASE FreshId
    BY <1>7, RotationAssumption DEF FreshId, run, hist, bounds, unit, line, Ids, Clearing,
       NoId
  <1>8. CASE Spawn
    BY <1>8, RotationAssumption DEF Spawn, FirstLine, Snapshot, RotationOver, hist, disk,
       bounds, unit, Ids, Clearing, NoId
  <1>9. CASE WindowCheck
    BY <1>9, RotationAssumption DEF WindowCheck, Mishap, FirstLine, End, disk, run, hist,
       unit,
       line, Ids, Clearing, NoId
  <1>10. CASE ShutdownSeen
    BY <1>10, RotationAssumption DEF ShutdownSeen, disk, hist, bounds, unit, line, Ids,
       Clearing, NoId
  <1>11. CASE PauseOver
    BY <1>11, RotationAssumption DEF PauseOver, Act, Snapshot, Feeding, disk, run, bounds,
       unit, line,
       Ids, Clearing, NoId
  <1>12. CASE Threshold
    BY <1>12, RotationAssumption DEF Threshold, Mishap, Act, Snapshot, Feeding, run, unit,
       line, Ids,
       Clearing, NoId
  <1>13. CASE MarkerAppeared
    BY <1>13, RotationAssumption DEF MarkerAppeared, Act, Snapshot, Feeding, disk, run,
       bounds, unit,
       line, Ids, Clearing, NoId
  <1>14. CASE MarkerGone
    BY <1>14, RotationAssumption DEF MarkerGone, DropNext, Mishap, RotationOver, Feeding,
       run, bounds, unit,
       line, Ids, Clearing, NoId
  <1>15. CASE TurnEvent
    BY <1>15, RotationAssumption DEF TurnEvent, Act, Snapshot, Feeding, bounds, unit, line,
       Ids,
       Clearing, NoId
  <1>16. CASE ContextEvent
    BY <1>16, RotationAssumption DEF ContextEvent, Act, Snapshot, Feeding, disk, run,
       bounds, unit, line,
       Ids, Clearing, NoId
  <1>17. CASE BackgroundTasks
    BY <1>17, RotationAssumption DEF BackgroundTasks, Act, Snapshot, Feeding, disk, run,
       bounds, unit,
       line, Ids, Clearing, NoId
  <1>18. CASE CompactionEvent
    BY <1>18, RotationAssumption DEF CompactionEvent, Feeding, disk, run, hist, bounds, unit,
       line, Ids, Clearing, NoId
  <1>19. CASE WriteNote
    BY <1>19, RotationAssumption DEF WriteNote, Feeding, disk, run, hist, bounds, unit, line,
       Ids, Clearing, NoId
  <1>20. CASE FirstTurnFails
    BY <1>20, RotationAssumption DEF FirstTurnFails, Mishap, End, Feeding, disk, hist, unit,
       line, Ids, Clearing, NoId
  <1>21. CASE ResultIdle
    BY <1>21, RotationAssumption DEF ResultIdle, Act, Snapshot, Feeding, disk, run, bounds,
       unit, line,
       Ids, Clearing, NoId
  <1>22. CASE ResultAwait
    BY <1>22, RotationAssumption DEF ResultAwait, Feeding, disk, run, hist, bounds, unit,
       line,
       Ids, Clearing, NoId
  <1>23. CASE ResultHandoff
    BY <1>23, RotationAssumption DEF ResultHandoff, Feeding, disk, run, hist, bounds, unit,
       line,
       Ids, Clearing, NoId
  <1>24. CASE ResultCompacted
    BY <1>24, RotationAssumption DEF ResultCompacted, Feeding, disk, run, hist, bounds, unit,
       line, Ids, Clearing, NoId
  <1>25. CASE ResultFailed
    BY <1>25, RotationAssumption DEF ResultFailed, Mishap, Record, Failed, Feeding, unit,
       line,
       Ids, Clearing, NoId
  <1>26. CASE EmergencyCompaction
    BY <1>26, RotationAssumption DEF EmergencyCompaction, EmergencyTurn, disk, run, hist,
       bounds, unit, Ids, Clearing, NoId
  <1>27. CASE EmergencyResult
    BY <1>27, RotationAssumption DEF EmergencyResult, End, EmergencyTurn, disk, hist, bounds,
       unit, line, Ids, Clearing, NoId
  <1>28. CASE WriteIdFails
    BY <1>28, RotationAssumption DEF WriteIdFails, GoDown, Gone, Mishap, disk, hist,
       Resumable,
       Ids, Clearing, NoId
  <1>29. CASE SpawnFails
    BY <1>29, RotationAssumption DEF SpawnFails, GoDown, Gone, Mishap, disk, hist, Ids,
       Clearing, NoId
  <1>30. CASE FatalFallback
    BY <1>30, RotationAssumption DEF FatalFallback, Mishap, End, disk, hist, unit, line, Ids,
       Clearing, NoId
  <1>31. CASE CapExpires
    BY <1>31, RotationAssumption DEF CapExpires, Mishap, Record, Cut, Feeding, unit, line,
       Ids,
       Clearing, NoId
  <1>32. CASE EmergencyCap
    BY <1>32, RotationAssumption DEF EmergencyCap, End, EmergencyTurn, disk, hist, bounds,
       unit, line, Ids, Clearing, NoId
  <1>33. CASE ClaudeExits
    <2>1. transcripts' = transcripts /\ pc' \in {"plan", "down"}
      BY <1>33 DEF ClaudeExits, GoDown, Gone
    <2>2. savedId' \in {savedId, NoId}
      BY <1>33 DEF ClaudeExits
    <2> QED BY <2>1, <2>2, RotationAssumption DEF Ids, Clearing, NoId
  <1>34. CASE Shutdown
    BY <1>34, RotationAssumption DEF Shutdown, Mishap, disk, run, hist, line, Ids, Clearing,
       NoId
  <1>35. CASE Crash
    BY <1>35, RotationAssumption DEF Crash, Gone, Mishap, disk, hist, Ids, Clearing, NoId
  <1>36. CASE LoseTranscript
    BY <1>36, RotationAssumption DEF LoseTranscript, run, hist, bounds, unit, line, Ids,
       Clearing, NoId
  <1>37. CASE TouchMarker
    BY <1>37, RotationAssumption DEF TouchMarker, run, hist, unit, line, Ids, Clearing, NoId
  <1>38. CASE UNCHANGED vars
    BY <1>38 DEF vars, disk, run, hist, bounds, unit, line, Ids, Clearing, NoId
  <1> QED
    BY <1>1, <1>2, <1>3, <1>4, <1>5, <1>6, <1>7, <1>8, <1>9, <1>10, <1>11, <1>12, <1>13, <1>14,
       <1>15, <1>16, <1>17, <1>18, <1>19, <1>20, <1>21, <1>22, <1>23, <1>24, <1>25, <1>26,
       <1>27, <1>28, <1>29, <1>30, <1>31, <1>32, <1>33, <1>34, <1>35, <1>36, <1>37, <1>38
       DEF Next, Supervisor, Claude, Failures

\* The flags stay Boolean.
LEMMA FlagsKept ==
    ASSUME Flags, [Next]_vars
    PROVE  Flags'
PROOF
  <1>1. CASE StartUnit
    BY <1>1 DEF StartUnit, disk, run, hist, bounds, Flags
  <1>2. CASE PlanStart
    BY <1>2 DEF PlanStart, Rotated, DropNext, Mishap, RotationOver, run, hist, bounds,
       unit, line, Flags
  <1>3. CASE PlanEmergency
    BY <1>3 DEF PlanEmergency, GoDown, Gone, disk, hist, bounds, unit, line, Flags
  <1>4. CASE StopBetweenRuns
    BY <1>4 DEF StopBetweenRuns, GoDown, Gone, disk, hist, bounds, Flags
  <1>5. CASE ClearMarker
    BY <1>5 DEF ClearMarker, Mishap, run, hist, bounds, unit, line, Flags
  <1>6. CASE ClearNext
    BY <1>6 DEF ClearNext, DropNext, Mishap, RotationOver, run, bounds, unit, line, Flags
  <1>7. CASE FreshId
    BY <1>7 DEF FreshId, run, hist, bounds, unit, line, Flags
  <1>8. CASE Spawn
    BY <1>8 DEF Spawn, FirstLine, Snapshot, RotationOver, hist, disk, bounds, unit, Flags
  <1>9. CASE WindowCheck
    BY <1>9 DEF WindowCheck, Mishap, FirstLine, End, disk, run, hist, unit, line, Flags
  <1>10. CASE ShutdownSeen
    BY <1>10 DEF ShutdownSeen, disk, hist, bounds, unit, line, Flags
  <1>11. CASE PauseOver
    BY <1>11 DEF PauseOver, Act, Snapshot, Feeding, disk, run, bounds, unit, line, Flags
  <1>12. CASE Threshold
    BY <1>12 DEF Threshold, Mishap, Act, Snapshot, Feeding, run, unit, line, Flags
  <1>13. CASE MarkerAppeared
    BY <1>13 DEF MarkerAppeared, Act, Snapshot, Feeding, disk, run, bounds, unit, line, Flags
  <1>14. CASE MarkerGone
    BY <1>14 DEF MarkerGone, DropNext, Mishap, RotationOver, Feeding, run, bounds, unit,
       line, Flags
  <1>15. CASE TurnEvent
    BY <1>15 DEF TurnEvent, Act, Snapshot, Feeding, bounds, unit, line, Flags
  <1>16. CASE ContextEvent
    BY <1>16 DEF ContextEvent, Act, Snapshot, Feeding, disk, run, bounds, unit, line, Flags
  <1>17. CASE BackgroundTasks
    BY <1>17 DEF BackgroundTasks, Act, Snapshot, Feeding, disk, run, bounds, unit, line, Flags
  <1>18. CASE CompactionEvent
    BY <1>18 DEF CompactionEvent, Feeding, disk, run, hist, bounds, unit, line, Flags
  <1>19. CASE WriteNote
    BY <1>19 DEF WriteNote, Feeding, disk, run, hist, bounds, unit, line, Flags
  <1>20. CASE FirstTurnFails
    BY <1>20 DEF FirstTurnFails, Mishap, End, Feeding, disk, hist, unit, line, Flags
  <1>21. CASE ResultIdle
    BY <1>21 DEF ResultIdle, Act, Snapshot, Feeding, disk, run, bounds, unit, line, Flags
  <1>22. CASE ResultAwait
    BY <1>22 DEF ResultAwait, Feeding, disk, run, hist, bounds, unit, line, Flags
  <1>23. CASE ResultHandoff
    BY <1>23 DEF ResultHandoff, Feeding, disk, run, hist, bounds, unit, line, Flags
  <1>24. CASE ResultCompacted
    BY <1>24 DEF ResultCompacted, Feeding, disk, run, hist, bounds, unit, line, Flags
  <1>25. CASE ResultFailed
    BY <1>25 DEF ResultFailed, Mishap, Record, Failed, Feeding, unit, line, Flags
  <1>26. CASE EmergencyCompaction
    BY <1>26 DEF EmergencyCompaction, EmergencyTurn, disk, run, hist, bounds, unit, Flags
  <1>27. CASE EmergencyResult
    BY <1>27 DEF EmergencyResult, End, EmergencyTurn, disk, hist, bounds, unit, line, Flags
  <1>28. CASE WriteIdFails
    BY <1>28 DEF WriteIdFails, GoDown, Gone, Mishap, disk, hist, Flags
  <1>29. CASE SpawnFails
    BY <1>29 DEF SpawnFails, GoDown, Gone, Mishap, disk, hist, Flags
  <1>30. CASE FatalFallback
    BY <1>30 DEF FatalFallback, Mishap, End, disk, hist, unit, line, Flags
  <1>31. CASE CapExpires
    BY <1>31 DEF CapExpires, Mishap, Record, Cut, Feeding, unit, line, Flags
  <1>32. CASE EmergencyCap
    BY <1>32 DEF EmergencyCap, End, EmergencyTurn, disk, hist, bounds, unit, line, Flags
  <1>33. CASE ClaudeExits
    BY <1>33 DEF ClaudeExits, GoDown, Gone, Mishap, hist, unit, line, Flags
  <1>34. CASE Shutdown
    BY <1>34 DEF Shutdown, Mishap, disk, run, hist, line, Flags
  <1>35. CASE Crash
    BY <1>35 DEF Crash, Gone, Mishap, disk, hist, Flags
  <1>36. CASE LoseTranscript
    BY <1>36 DEF LoseTranscript, run, hist, bounds, unit, line, Flags
  <1>37. CASE TouchMarker
    BY <1>37 DEF TouchMarker, run, hist, unit, line, Flags
  <1>38. CASE UNCHANGED vars
    BY <1>38 DEF vars, disk, run, hist, bounds, unit, line, Flags
  <1> QED
    BY <1>1, <1>2, <1>3, <1>4, <1>5, <1>6, <1>7, <1>8, <1>9, <1>10, <1>11, <1>12, <1>13, <1>14,
       <1>15, <1>16, <1>17, <1>18, <1>19, <1>20, <1>21, <1>22, <1>23, <1>24, <1>25, <1>26,
       <1>27, <1>28, <1>29, <1>30, <1>31, <1>32, <1>33, <1>34, <1>35, <1>36, <1>37, <1>38
       DEF Next, Supervisor, Claude, Failures

\* What is recorded of a run, of its end and of the emergency line is of its type.
LEMMA NamesKept ==
    ASSUME Names, [Next]_vars
    PROVE  Names'
PROOF
  <1>1. CASE StartUnit
    BY <1>1 DEF StartUnit, disk, run, hist, bounds, Names
  <1>2. CASE PlanStart
    BY <1>2 DEF PlanStart, Rotated, DropNext, Mishap, RotationOver, run, hist, bounds,
       unit, line, Names
  <1>3. CASE PlanEmergency
    BY <1>3 DEF PlanEmergency, GoDown, Gone, disk, hist, bounds, unit, line, Names
  <1>4. CASE StopBetweenRuns
    BY <1>4 DEF StopBetweenRuns, GoDown, Gone, disk, hist, bounds, Names
  <1>5. CASE ClearMarker
    BY <1>5 DEF ClearMarker, Mishap, run, hist, bounds, unit, line, Names
  <1>6. CASE ClearNext
    BY <1>6 DEF ClearNext, DropNext, Mishap, RotationOver, run, bounds, unit, line, Names
  <1>7. CASE FreshId
    BY <1>7 DEF FreshId, run, hist, bounds, unit, line, Names
  <1>8. CASE Spawn
    BY <1>8 DEF Spawn, FirstLine, Snapshot, RotationOver, hist, disk, bounds, unit, Names
  <1>9. CASE WindowCheck
    BY <1>9 DEF WindowCheck, Mishap, FirstLine, End, disk, run, hist, unit, line, Names
  <1>10. CASE ShutdownSeen
    BY <1>10 DEF ShutdownSeen, disk, hist, bounds, unit, line, Names
  <1>11. CASE PauseOver
    BY <1>11 DEF PauseOver, Act, Snapshot, Feeding, disk, run, bounds, unit, line, Names
  <1>12. CASE Threshold
    BY <1>12 DEF Threshold, Mishap, Act, Snapshot, Feeding, run, unit, line, Names
  <1>13. CASE MarkerAppeared
    BY <1>13 DEF MarkerAppeared, Act, Snapshot, Feeding, disk, run, bounds, unit, line, Names
  <1>14. CASE MarkerGone
    BY <1>14 DEF MarkerGone, DropNext, Mishap, RotationOver, Feeding, run, bounds, unit,
       line, Names
  <1>15. CASE TurnEvent
    BY <1>15 DEF TurnEvent, Act, Snapshot, Feeding, bounds, unit, line, Names
  <1>16. CASE ContextEvent
    BY <1>16 DEF ContextEvent, Act, Snapshot, Feeding, disk, run, bounds, unit, line, Names
  <1>17. CASE BackgroundTasks
    BY <1>17 DEF BackgroundTasks, Act, Snapshot, Feeding, disk, run, bounds, unit, line, Names
  <1>18. CASE CompactionEvent
    BY <1>18 DEF CompactionEvent, Feeding, disk, run, hist, bounds, unit, line, Names
  <1>19. CASE WriteNote
    BY <1>19 DEF WriteNote, Feeding, disk, run, hist, bounds, unit, line, Names
  <1>20. CASE FirstTurnFails
    BY <1>20 DEF FirstTurnFails, Mishap, End, Feeding, disk, hist, unit, line, Names
  <1>21. CASE ResultIdle
    BY <1>21 DEF ResultIdle, Act, Snapshot, Feeding, disk, run, bounds, unit, line, Names
  <1>22. CASE ResultAwait
    BY <1>22 DEF ResultAwait, Feeding, disk, run, hist, bounds, unit, line, Names
  <1>23. CASE ResultHandoff
    BY <1>23 DEF ResultHandoff, Feeding, disk, run, hist, bounds, unit, line, Names
  <1>24. CASE ResultCompacted
    BY <1>24 DEF ResultCompacted, Feeding, disk, run, hist, bounds, unit, line, Names
  <1>25. CASE ResultFailed
    BY <1>25 DEF ResultFailed, Mishap, Record, Failed, Feeding, unit, line, Names
  <1>26. CASE EmergencyCompaction
    BY <1>26 DEF EmergencyCompaction, EmergencyTurn, disk, run, hist, bounds, unit, Names
  <1>27. CASE EmergencyResult
    BY <1>27 DEF EmergencyResult, End, EmergencyTurn, disk, hist, bounds, unit, line, Names
  <1>28. CASE WriteIdFails
    BY <1>28 DEF WriteIdFails, GoDown, Gone, Mishap, disk, hist, Names
  <1>29. CASE SpawnFails
    BY <1>29 DEF SpawnFails, GoDown, Gone, Mishap, disk, hist, Names
  <1>30. CASE FatalFallback
    BY <1>30 DEF FatalFallback, Mishap, End, disk, hist, unit, line, Names
  <1>31. CASE CapExpires
    BY <1>31 DEF CapExpires, Mishap, Record, Cut, Feeding, unit, line, Names
  <1>32. CASE EmergencyCap
    BY <1>32 DEF EmergencyCap, End, EmergencyTurn, disk, hist, bounds, unit, line, Names
  <1>33. CASE ClaudeExits
    BY <1>33 DEF ClaudeExits, GoDown, Gone, Mishap, hist, unit, line, Names
  <1>34. CASE Shutdown
    BY <1>34 DEF Shutdown, Mishap, disk, run, hist, line, Names
  <1>35. CASE Crash
    BY <1>35 DEF Crash, Gone, Mishap, disk, hist, Names
  <1>36. CASE LoseTranscript
    BY <1>36 DEF LoseTranscript, run, hist, bounds, unit, line, Names
  <1>37. CASE TouchMarker
    BY <1>37 DEF TouchMarker, run, hist, unit, line, Names
  <1>38. CASE UNCHANGED vars
    BY <1>38 DEF vars, disk, run, hist, bounds, unit, line, Names
  <1> QED
    BY <1>1, <1>2, <1>3, <1>4, <1>5, <1>6, <1>7, <1>8, <1>9, <1>10, <1>11, <1>12, <1>13, <1>14,
       <1>15, <1>16, <1>17, <1>18, <1>19, <1>20, <1>21, <1>22, <1>23, <1>24, <1>25, <1>26,
       <1>27, <1>28, <1>29, <1>30, <1>31, <1>32, <1>33, <1>34, <1>35, <1>36, <1>37, <1>38
       DEF Next, Supervisor, Claude, Failures

\* The counts of the environment's steps are numbers.
LEMMA CountsKept ==
    ASSUME Counts, [Next]_vars
    PROVE  Counts'
PROOF
  <1>1. CASE StartUnit
    BY <1>1 DEF StartUnit, disk, run, hist, bounds, Counts
  <1>2. CASE PlanStart
    <2>1. UNCHANGED <<markers, emergencies>>
      BY <1>2 DEF PlanStart, unit
    <2>2. mishaps' = mishaps \/ mishaps' = mishaps + 1
      BY <1>2 DEF PlanStart, Rotated, DropNext, Mishap
    <2> QED BY <2>1, <2>2 DEF Counts
  <1>3. CASE PlanEmergency
    BY <1>3 DEF PlanEmergency, GoDown, Gone, disk, hist, bounds, unit, line, Counts
  <1>4. CASE StopBetweenRuns
    BY <1>4 DEF StopBetweenRuns, GoDown, Gone, disk, hist, bounds, Counts
  <1>5. CASE ClearMarker
    BY <1>5 DEF ClearMarker, Mishap, run, hist, bounds, unit, line, Counts
  <1>6. CASE ClearNext
    BY <1>6 DEF ClearNext, DropNext, Mishap, RotationOver, run, bounds, unit, line, Counts
  <1>7. CASE FreshId
    BY <1>7 DEF FreshId, run, hist, bounds, unit, line, Counts
  <1>8. CASE Spawn
    BY <1>8 DEF Spawn, FirstLine, Snapshot, RotationOver, hist, disk, bounds, unit, Counts
  <1>9. CASE WindowCheck
    BY <1>9 DEF WindowCheck, Mishap, FirstLine, End, disk, run, hist, unit, line, Counts
  <1>10. CASE ShutdownSeen
    BY <1>10 DEF ShutdownSeen, disk, hist, bounds, unit, line, Counts
  <1>11. CASE PauseOver
    BY <1>11 DEF PauseOver, Act, Snapshot, Feeding, disk, run, bounds, unit, line, Counts
  <1>12. CASE Threshold
    BY <1>12 DEF Threshold, Mishap, Act, Snapshot, Feeding, run, unit, line, Counts
  <1>13. CASE MarkerAppeared
    BY <1>13 DEF MarkerAppeared, Act, Snapshot, Feeding, disk, run, bounds, unit, line, Counts
  <1>14. CASE MarkerGone
    BY <1>14 DEF MarkerGone, DropNext, Mishap, RotationOver, Feeding, run, bounds, unit,
       line, Counts
  <1>15. CASE TurnEvent
    BY <1>15 DEF TurnEvent, Act, Snapshot, Feeding, bounds, unit, line, Counts
  <1>16. CASE ContextEvent
    BY <1>16 DEF ContextEvent, Act, Snapshot, Feeding, disk, run, bounds, unit, line, Counts
  <1>17. CASE BackgroundTasks
    BY <1>17 DEF BackgroundTasks, Act, Snapshot, Feeding, disk, run, bounds, unit, line,
       Counts
  <1>18. CASE CompactionEvent
    BY <1>18 DEF CompactionEvent, Feeding, disk, run, hist, bounds, unit, line, Counts
  <1>19. CASE WriteNote
    BY <1>19 DEF WriteNote, Feeding, disk, run, hist, bounds, unit, line, Counts
  <1>20. CASE FirstTurnFails
    BY <1>20 DEF FirstTurnFails, Mishap, End, Feeding, disk, hist, unit, line, Counts
  <1>21. CASE ResultIdle
    BY <1>21 DEF ResultIdle, Act, Snapshot, Feeding, disk, run, bounds, unit, line, Counts
  <1>22. CASE ResultAwait
    BY <1>22 DEF ResultAwait, Feeding, disk, run, hist, bounds, unit, line, Counts
  <1>23. CASE ResultHandoff
    BY <1>23 DEF ResultHandoff, Feeding, disk, run, hist, bounds, unit, line, Counts
  <1>24. CASE ResultCompacted
    BY <1>24 DEF ResultCompacted, Feeding, disk, run, hist, bounds, unit, line, Counts
  <1>25. CASE ResultFailed
    BY <1>25 DEF ResultFailed, Mishap, Record, Failed, Feeding, unit, line, Counts
  <1>26. CASE EmergencyCompaction
    BY <1>26 DEF EmergencyCompaction, EmergencyTurn, disk, run, hist, bounds, unit, Counts
  <1>27. CASE EmergencyResult
    BY <1>27 DEF EmergencyResult, End, EmergencyTurn, disk, hist, bounds, unit, line, Counts
  <1>28. CASE WriteIdFails
    BY <1>28 DEF WriteIdFails, GoDown, Gone, Mishap, disk, hist, Counts
  <1>29. CASE SpawnFails
    BY <1>29 DEF SpawnFails, GoDown, Gone, Mishap, disk, hist, Counts
  <1>30. CASE FatalFallback
    BY <1>30 DEF FatalFallback, Mishap, End, disk, hist, unit, line, Counts
  <1>31. CASE CapExpires
    BY <1>31 DEF CapExpires, Mishap, Record, Cut, Feeding, unit, line, Counts
  <1>32. CASE EmergencyCap
    BY <1>32 DEF EmergencyCap, End, EmergencyTurn, disk, hist, bounds, unit, line, Counts
  <1>33. CASE ClaudeExits
    <2>1. UNCHANGED <<markers, emergencies>>
      BY <1>33 DEF ClaudeExits, GoDown, Gone, Mishap, unit
    <2>2. mishaps' = mishaps \/ mishaps' = mishaps + 1
      BY <1>33 DEF ClaudeExits, GoDown, Gone, Mishap
    <2> QED BY <2>1, <2>2 DEF Counts
  <1>34. CASE Shutdown
    BY <1>34 DEF Shutdown, Mishap, disk, run, hist, line, Counts
  <1>35. CASE Crash
    BY <1>35 DEF Crash, Gone, Mishap, disk, hist, Counts
  <1>36. CASE LoseTranscript
    BY <1>36 DEF LoseTranscript, run, hist, bounds, unit, line, Counts
  <1>37. CASE TouchMarker
    BY <1>37 DEF TouchMarker, run, hist, unit, line, Counts
  <1>38. CASE UNCHANGED vars
    BY <1>38 DEF vars, disk, run, hist, bounds, unit, line, Counts
  <1> QED
    BY <1>1, <1>2, <1>3, <1>4, <1>5, <1>6, <1>7, <1>8, <1>9, <1>10, <1>11, <1>12, <1>13, <1>14,
       <1>15, <1>16, <1>17, <1>18, <1>19, <1>20, <1>21, <1>22, <1>23, <1>24, <1>25, <1>26,
       <1>27, <1>28, <1>29, <1>30, <1>31, <1>32, <1>33, <1>34, <1>35, <1>36, <1>37, <1>38
       DEF Next, Supervisor, Claude, Failures

\* The supervisor's records, the tracker's and the files' are of their types: with the
\* invariant above, which has the step on disk, the start and the tracker.
THEOREM RotationTyped == Spec => []TypeOK
PROOF
  <1>1. Init => Ids /\ Flags /\ Names /\ Counts
    <2> SUFFICES ASSUME Init PROVE Ids /\ Flags /\ Names /\ Counts
      OBVIOUS
    <2>1. Ids
      BY RotationAssumption DEF Init, Ids, Clearing, NoId
    <2>2. Flags
      <3>1. TRUE \in BOOLEAN /\ FALSE \in BOOLEAN
        BY Zenon
      <3> QED BY <3>1, Zenon DEF Init, Flags
    <2>3. Names
      BY DEF Init, Names
    <2>4. Counts
      BY DEF Init, Counts
    <2> QED BY <2>1, <2>2, <2>3, <2>4
  <1>2. RotationInv /\ Ids /\ Flags /\ Names /\ Counts /\ [Next]_vars
            => Ids' /\ Flags' /\ Names' /\ Counts'
    BY IdsKept, FlagsKept, NamesKept, CountsKept
  <1>3. RotationInv /\ Ids /\ Flags /\ Names /\ Counts => TypeOK
    <2> SUFFICES ASSUME RotationInv, Ids, Flags, Names, Counts PROVE TypeOK
      OBVIOUS
    <2>1. spent \in Nat
      BY DEF RotationInv, DiskInv
    <2>2. next = Normal \/ next \in Steps
      BY DEF RotationInv, DiskInv
    <2>3. {stopping, ready, note, shutdown, noted, stale, said} \subseteq BOOLEAN
      BY DEF Flags
    <2>4. marker \in BOOLEAN
      BY DEF Flags
    <2>5. /\ savedId \in 0..MaxIds /\ transcripts \subseteq 1..MaxIds
      BY DEF Ids
    <2>6. /\ start \in Starts /\ ret \in {"run", "spawn", "fresh"} /\ trk \in Trackers
          /\ pc \in {"down", "plan", "fresh", "clear1", "clear2", "spawn", "window", "run"}
          /\ mode \in {"rotate", "emergency"}
      BY DEF RotationInv, PlanInv, RunInv
    <2>7. {spent, mishaps, markers, emergencies} \subseteq Nat
      BY <2>1 DEF Counts
    <2> QED
      BY <2>2, <2>3, <2>4, <2>5, <2>6, <2>7 DEF TypeOK, Names, Steps, Starts, Trackers
  <1> QED
    BY <1>1, <1>2, <1>3, RotationInvAlways, PTL DEF Spec
=============================================================================
