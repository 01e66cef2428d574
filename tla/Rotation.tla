------------------------------ MODULE Rotation ------------------------------
(***************************************************************************)
(* The supervisor of one session, silta-session: the rotation state        *)
(* machine (Tracker, crates/silta-session/src/rotation.rs), the loop that  *)
(* starts claude, feeds the machine and acts on its answers (supervise,    *)
(* plan_start, run_once and Run of lib.rs), and what it keeps on disk      *)
(* (state.rs), through crashes, unit stops and failed writes, and through  *)
(* runs in the one-turn emergency mode.  (Its prompt kind differs from a   *)
(* plain run in the wording of one line only.)  Rotation is enabled.       *)
(*                                                                         *)
(* Times are abstracted: a cap may expire at any moment of the wait it     *)
(* bounds, the pause after a failed attempt is over at some moment, and    *)
(* the threshold's idle gap is reached at some moment.                     *)
(*                                                                         *)
(*   on disk  savedId (session-id), transcripts (the ids claude has one    *)
(*            of), marker (rotate-requested), next (rotation.json)         *)
(*   pc       the supervisor: "down", "plan", "fresh" (about to write a    *)
(*            new id), "clear1", "clear2" (the two removals of             *)
(*            clear_rotation, after which it goes to ret), "spawn",        *)
(*            "window" (awaiting the window check), "run"                  *)
(*   mode     "rotate", or "emergency" (the one-turn kind), as the unit's  *)
(*            drop-in asks for it                                          *)
(*   exit     who starts the unit that is down: systemd ("auto") or, after *)
(*            a stop and after EXIT_MODEL and EXIT_EMERGENCY, the operator *)
(*            ("hand")                                                     *)
(*   start    the Start that plan_start decided on                         *)
(*   trk      the Tracker; paused stands for now < not_before              *)
(*   after    the Outcome recorded for the end of the run, "none" before;  *)
(*            "Held" is Ended with a code that keeps the unit down         *)
(*   shot     the emergency line: "unsent", "sent", then what its turn has *)
(*            shown, "failed" or "compacted" (the later one prevails)      *)
(*   stopping claude's stdin is closed; the tracker gets no more events    *)
(*   ready    a model has answered in this run, channel-ready is written   *)
(*   note     the handoff note was written since the last request          *)
(*   shutdown the unit is being stopped                                    *)
(* and, since the present rotation began:                                  *)
(*   spent      the attempts recorded on disk                              *)
(*   snapped    what became of the before-handoff snapshot: "no" before    *)
(*              it is tried, "made" or "failed"                            *)
(*   noted      the note was written on this rotation's request            *)
(*   stale      rotation.json has outlived the rotation it is about        *)
(* and, since the operator started the unit or the supervisor was killed:  *)
(*   said       the emergency line was sent                                *)
(***************************************************************************)
EXTENDS Naturals

CONSTANTS
    HandoffAttempts,  \* HANDOFF_ATTEMPTS
    MaxIds,           \* bound on the session ids
    MaxMishaps,       \* bound on crashes, stops, own exits, failed writes, lost files
    MaxMarkers,       \* bound on the markers written and removed from outside
    MaxEmergencies    \* bound on the stops for the sake of emergency mode

ASSUME RotationAssumption ==
    /\ HandoffAttempts \in Nat \ {0}
    /\ MaxIds \in Nat
    /\ MaxMishaps \in Nat
    /\ MaxMarkers \in Nat
    /\ MaxEmergencies \in Nat

VARIABLES savedId, transcripts, marker, next, pc, ret, start, trk, after, stopping,
          ready, note, shutdown, spent, snapped, noted, stale, mishaps, markers,
          mode, exit, shot, said, emergencies

disk == <<savedId, transcripts, marker, next>>
run == <<after, stopping, ready>>
hist == <<spent, snapped, noted, stale>>
bounds == <<mishaps, markers>>
unit == <<mode, exit, emergencies>>
line == <<shot, said>>
vars == <<disk, pc, ret, start, trk, run, note, shutdown, hist, bounds, unit, line>>

OneShot == mode = "emergency"

NoId == 0
Normal == [next |-> "Normal"]
Retry(snapshot, attempts, handoff) ==
    [next |-> "Retry", snapshot |-> snapshot, attempts |-> attempts, handoff |-> handoff]
Postponed(attempts, handoff) ==
    [next |-> "Postponed", attempts |-> attempts, handoff |-> handoff]
Fresh(handoff) == [next |-> "Fresh", handoff |-> handoff]

\* told is the handoff of Kind::AfterRotation.
Start(kind, attempts, handoff, snapshot) ==
    [kind |-> kind, attempts |-> attempts, handoff |-> handoff, snapshot |-> snapshot,
     told |-> FALSE]

\* Tracker::new: the start line is in flight, so a turn is in progress.
NewTracker ==
    [phase |-> "Idle", turn |-> TRUE, agents |-> FALSE, big |-> FALSE, pending |-> FALSE,
     paused |-> FALSE, attempts |-> 0, handoff |-> FALSE, boundary |-> FALSE, failed |-> FALSE]

Init ==
    /\ savedId = NoId
    /\ transcripts = {}
    /\ marker = FALSE
    /\ next = Normal
    /\ pc = "down"
    /\ ret = "run"
    /\ start = Start("Fresh", 0, FALSE, FALSE)
    /\ trk = NewTracker
    /\ after = "none"
    /\ stopping = FALSE
    /\ ready = FALSE
    /\ note = FALSE
    /\ shutdown = FALSE
    /\ spent = 0
    /\ snapped = "no"
    /\ noted = FALSE
    /\ stale = FALSE
    /\ mishaps = 0
    /\ markers = 0
    /\ mode = "rotate"
    /\ exit = "auto"
    /\ emergencies = 0
    /\ shot = "unsent"
    /\ said = FALSE

Mishap ==
    /\ mishaps < MaxMishaps
    /\ mishaps' = mishaps + 1

\* The rotation is over, and the next one starts from nothing; what rotation.json
\* still says of the one that is over is stale.
RotationOver ==
    /\ spent' = 0
    /\ snapped' = "no"
    /\ noted' = FALSE
    /\ stale' = (next' # Normal)

\* write_next(Normal) removes rotation.json; the callers ignore that it failed.
DropNext ==
    \/ next' = Normal /\ UNCHANGED mishaps
    \/ next # Normal /\ Mishap /\ UNCHANGED next
-----------------------------------------------------------------------------
(* The Tracker: each operator gives the machine after a call.              *)

Quiet(t) == ~t.turn /\ ~t.agents

\* advance, where no cap has expired: the quiet moment of a waiting rotation.
Requests(t) == t.phase = "Waiting" /\ ~t.paused /\ Quiet(t)
Advance(t) == IF Requests(t) THEN [t EXCEPT !.phase = "Handoff"] ELSE t

SetPending(t) ==
    IF t.pending THEN t ELSE [t EXCEPT !.pending = TRUE, !.phase = "Waiting"]

\* Mutation: done leaves the rotation pending.
DoneStaysPending(t) ==
    [t EXCEPT !.paused = FALSE, !.attempts = 0, !.handoff = FALSE, !.phase = "Idle"]

Done(t) ==
    [t EXCEPT !.pending = FALSE, !.paused = FALSE, !.attempts = 0,
              !.handoff = FALSE, !.phase = "Idle"]

\* cut and failed spend an attempt.
Spend(t) == [t EXCEPT !.phase = "Idle", !.attempts = @ + 1]

\* Tracker::pending and Tracker::retrying, on a tracker that is new.
PendingTracker(paused, s) ==
    [NewTracker EXCEPT !.pending = TRUE, !.phase = "Waiting", !.paused = paused,
                       !.attempts = s.attempts, !.handoff = s.handoff]
RetryingTracker(s) ==
    [NewTracker EXCEPT !.pending = TRUE, !.phase = "Handoff",
                       !.attempts = s.attempts, !.handoff = s.handoff]
-----------------------------------------------------------------------------
(* Run::act.                                                               *)

\* Run::snapshot of the moment before the handoff: one that fails is only logged.
Snapshot(due) == snapped' \in IF due THEN {"made", "failed"} ELSE {snapped}

\* The tracker goes to Advance(t); a request for the handoff is preceded by the
\* snapshot on the first attempt and starts the watch on the note.
Act(t) ==
    /\ trk' = Advance(t)
    /\ Snapshot(Requests(t) /\ t.attempts = 0)
    /\ note' = (note /\ ~Requests(t))
    /\ UNCHANGED <<spent, noted, stale>>

\* The step an attempt leaves behind is recorded, or the write fails; either way
\* claude is stopped and started again.
Record(step) ==
    /\ \/ next' = step /\ spent' = spent + 1 /\ UNCHANGED mishaps
       \/ Mishap /\ UNCHANGED <<next, spent>>
    /\ stopping' = TRUE
    /\ UNCHANGED <<snapped, noted, stale, savedId, transcripts, marker>>

\* Mutation: a cut forgets that the before-handoff snapshot is still due.
CutNoSnapshot(t, waiting) ==
    /\ trk' = Spend(t)
    /\ Record(IF t.attempts + 1 < HandoffAttempts
              THEN Retry(FALSE, t.attempts + 1, t.handoff)
              ELSE Fresh(t.handoff))
    /\ after' = "Again"

\* A cap expired in t at a step.
Cut(t, waiting) ==
    /\ trk' = Spend(t)
    /\ Record(IF t.attempts + 1 < HandoffAttempts
              THEN Retry(waiting, t.attempts + 1, t.handoff)
              ELSE Fresh(t.handoff))
    /\ after' = "Again"

\* Mutation: a failure gives up with one attempt left.
FailedEarly(t) ==
    /\ trk' = Spend(t)
    /\ Record(IF t.attempts + 2 < HandoffAttempts
              THEN Postponed(t.attempts + 1, t.handoff)
              ELSE Fresh(t.handoff))
    /\ after' = IF t.attempts + 2 < HandoffAttempts THEN "Pause" ELSE "Again"

\* A handoff turn or a compaction failed in t.
Failed(t) ==
    /\ trk' = Spend(t)
    /\ Record(IF t.attempts + 1 < HandoffAttempts
              THEN Postponed(t.attempts + 1, t.handoff)
              ELSE Fresh(t.handoff))
    /\ after' = IF t.attempts + 1 < HandoffAttempts THEN "Pause" ELSE "Again"

\* Run::end and Run::done: the run is over, unless it is ending already.
End(outcome) ==
    /\ after' = IF after = "none" THEN outcome ELSE after
    /\ stopping' = TRUE

\* The supervisor's process is gone, and what it had in memory.
Gone ==
    /\ pc' = "down"
    /\ ret' = "run"
    /\ start' = Start("Fresh", 0, FALSE, FALSE)
    /\ trk' = NewTracker
    /\ after' = "none"
    /\ stopping' = FALSE
    /\ note' = FALSE
    /\ shutdown' = FALSE
    /\ shot' = "unsent"
    /\ UNCHANGED <<mode, emergencies>>

\* Mutation: a one-turn run that fails exits with claude's code.
GoDownRestarts ==
    /\ Gone
    /\ exit' = IF shutdown \/ after = "Held" THEN "hand" ELSE "auto"
    /\ UNCHANGED said

\* The supervisor exits.  The unit restarts it, but for EXIT_MODEL, EXIT_EMERGENCY
\* (every exit of a one-turn run but that of a stop) and a stop.
GoDown ==
    /\ Gone
    /\ exit' = IF shutdown \/ OneShot \/ after = "Held" THEN "hand" ELSE "auto"
    /\ UNCHANGED said
-----------------------------------------------------------------------------
(* supervise and plan_start.                                               *)

\* systemd, or the operator, starts the unit; the operator may have edited the
\* drop-in.
StartUnit ==
    /\ pc = "down"
    /\ pc' = "plan"
    /\ mode' \in IF exit = "hand" /\ emergencies > 0 THEN {"rotate", "emergency"} ELSE {mode}
    /\ exit' = "auto"
    /\ said' = (said /\ exit = "auto")
    /\ UNCHANGED <<disk, ret, start, trk, run, note, shutdown, hist, bounds, emergencies, shot>>

Resumable == savedId # NoId /\ savedId \in transcripts

\* A session is started under a new id in place of one that is rotated out.
Rotated(handoff) ==
    /\ savedId < MaxIds
    /\ savedId' = savedId + 1
    /\ start' = [Start("AfterRotation", 0, FALSE, FALSE) EXCEPT !.told = handoff]
    /\ pc' = "clear1"
    /\ ret' = "spawn"
    /\ UNCHANGED <<next, hist, mishaps>>

PlanStart ==
    /\ pc = "plan"
    /\ ~shutdown
    /\ ~OneShot
    /\ \/ /\ next.next = "Fresh" \/ (next.next = "Retry" /\ ~Resumable)
          /\ Rotated(next.handoff)
       \/ /\ next.next = "Retry" /\ Resumable
          /\ start' = Start("Retry", next.attempts, next.handoff, next.snapshot)
          /\ pc' = "spawn"
          /\ UNCHANGED <<savedId, next, ret, hist, mishaps>>
       \/ /\ next.next = "Postponed" /\ marker /\ Resumable
          /\ start' = Start("Resumed", next.attempts, next.handoff, FALSE)
          /\ pc' = "spawn"
          /\ UNCHANGED <<savedId, next, ret, hist, mishaps>>
       \/ /\ next.next = "Normal" \/ (next.next = "Postponed" /\ ~marker)
          /\ Resumable
          /\ DropNext
          /\ start' = Start("Resumed", 0, FALSE, FALSE)
          /\ pc' = "spawn"
          /\ IF marker THEN UNCHANGED hist ELSE RotationOver
          /\ UNCHANGED <<savedId, ret>>
       \/ /\ next.next \in {"Normal", "Postponed"} /\ ~Resumable
          /\ pc' = "clear1"
          /\ ret' = "fresh"
          /\ UNCHANGED <<savedId, next, start, hist, mishaps>>
    /\ UNCHANGED <<transcripts, marker, trk, run, note, shutdown, markers, unit, line>>

\* The one-turn emergency mode: the saved conversation or nothing.
PlanEmergency ==
    /\ pc = "plan"
    /\ ~shutdown
    /\ OneShot
    /\ \/ /\ Resumable
          /\ start' = Start("Resumed", 0, FALSE, FALSE)
          /\ pc' = "spawn"
          /\ UNCHANGED <<ret, trk, after, stopping, note, shutdown, unit, line>>
       \/ ~Resumable /\ GoDown
    /\ UNCHANGED <<disk, ready, hist, bounds>>

\* The new id cannot be written: nothing is prepared.
WriteIdFails ==
    /\ \/ pc = "fresh"
       \/ /\ pc = "plan" /\ ~shutdown /\ ~OneShot
          /\ next.next = "Fresh" \/ (next.next = "Retry" /\ ~Resumable)
    /\ Mishap
    /\ GoDown
    /\ UNCHANGED <<disk, ready, hist, markers>>

StopBetweenRuns ==
    /\ pc = "plan"
    /\ shutdown
    /\ GoDown
    /\ UNCHANGED <<disk, ready, hist, bounds>>

\* clear_rotation removes the marker, then rotation.json, and ignores that it cannot.
ClearMarker ==
    /\ pc = "clear1"
    /\ \/ marker' = FALSE /\ UNCHANGED mishaps
       \/ marker /\ Mishap /\ UNCHANGED marker
    /\ pc' = "clear2"
    /\ UNCHANGED <<savedId, transcripts, next, ret, start, trk, run, note, shutdown,
                   hist, markers, unit, line>>

ClearNext ==
    /\ pc = "clear2"
    /\ DropNext
    /\ pc' = ret
    /\ RotationOver
    /\ UNCHANGED <<savedId, transcripts, marker, ret, start, trk, run, note, shutdown,
                   markers, unit, line>>

FreshId ==
    /\ pc = "fresh"
    /\ savedId < MaxIds
    /\ savedId' = savedId + 1
    /\ start' = Start("Fresh", 0, FALSE, FALSE)
    /\ pc' = "spawn"
    /\ UNCHANGED <<transcripts, marker, next, ret, trk, run, note, shutdown, hist, bounds,
                   unit, line>>

\* claude gets the line that starts its first turn, or the control request of the
\* window check; Run::start notes the one-turn emergency line.
FirstLine ==
    /\ pc' \in {"window", "run"}
    /\ shot' = IF OneShot /\ pc' = "run" THEN "sent" ELSE "unsent"
    /\ said' = (said \/ shot' = "sent")

\* run_once up to the loop: channel-ready is cleared, claude spawned, the tracker
\* made; then the window check or the start line.  If the marker was removed since
\* plan_start saw it, nothing is pending and rotation.json stays as it was.
Spawn ==
    /\ pc = "spawn"
    /\ UNCHANGED <<disk, ret, start, shutdown, bounds, unit>>
    /\ FirstLine
    /\ after' = "none"
    /\ stopping' = FALSE
    /\ ready' = FALSE
    /\ \/ /\ start.kind = "Retry"
          /\ trk' = RetryingTracker(start)
          /\ Snapshot(start.snapshot)
          /\ note' = FALSE
          /\ UNCHANGED <<spent, noted, stale>>
       \/ /\ start.kind # "Retry"
          /\ trk' = IF marker /\ ~OneShot THEN PendingTracker(after = "Pause", start)
                    ELSE NewTracker
          /\ IF marker \/ OneShot \/ next = Normal THEN UNCHANGED hist ELSE RotationOver
          /\ UNCHANGED note

\* claude cannot be started.
SpawnFails ==
    /\ pc = "spawn"
    /\ Mishap
    /\ ready' = FALSE
    /\ GoDown
    /\ UNCHANGED <<disk, hist, markers>>

\* The window check: the host line goes out, or the run ends (a window too small or
\* a refusal, no answer in time).
WindowCheck ==
    /\ pc = "window"
    /\ \/ pc' = "run" /\ FirstLine /\ UNCHANGED <<run, mishaps>>
       \/ /\ pc' = "run"
          /\ Mishap
          /\ End("Held") \/ End("Ended")
          /\ UNCHANGED <<ready, line>>
    /\ UNCHANGED <<disk, ret, start, trk, note, shutdown, hist, markers, unit>>

\* A turn is switched to the fallback model for a reason that points at the model.
FatalFallback ==
    /\ pc = "run"
    /\ after = "none"
    /\ Mishap
    /\ End("Held")
    /\ UNCHANGED <<disk, pc, ret, start, trk, ready, note, shutdown, hist, markers,
                   unit, line>>
-----------------------------------------------------------------------------
(* run_once: the turn of the emergency line.  The tracker is fed, but with *)
(* nothing pending and rotation switched off it does nothing.  What claude *)
(* writes while it is being stopped is still read.                         *)

EmergencyTurn == pc = "run" /\ OneShot /\ shot # "unsent"

EmergencyCompaction ==
    /\ EmergencyTurn
    /\ \/ shot' = "compacted"
       \/ shot = "sent" /\ shot' = "failed"
    /\ UNCHANGED <<disk, pc, ret, start, trk, run, note, shutdown, hist, bounds, unit,
                   said>>

\* Mutation: the end of the turn ends the pending rotation, compacted or not.
EmergencyResultAny ==
    /\ EmergencyTurn
    /\ End("Held")
    /\ pc' = "clear1"
    /\ ret' = "run"
    /\ UNCHANGED <<disk, start, trk, ready, note, shutdown, hist, bounds, unit, line>>

\* A result ends the run.  (If the line compacts, one that shows neither a compaction
\* nor a failure nor an error belongs to an earlier turn: nothing happens.)  After a
\* compaction the rotation that was pending, if any, is done by hand.
EmergencyResult ==
    /\ EmergencyTurn
    /\ End("Held")
    /\ \/ shot = "compacted" /\ pc' = "clear1" /\ ret' = "run"
       \/ shot # "compacted" /\ UNCHANGED <<pc, ret>>
    /\ UNCHANGED <<disk, start, trk, ready, note, shutdown, hist, bounds, unit, line>>

\* The compaction's cap bounds the turn, from when the line went out.
EmergencyCap ==
    /\ EmergencyTurn
    /\ ~stopping
    /\ End("Held")
    /\ UNCHANGED <<disk, pc, ret, start, trk, ready, note, shutdown, hist, bounds,
                   unit, line>>
-----------------------------------------------------------------------------
(* run_once: the loop.  The tracker is fed while claude is not stopping.   *)

Feeding == pc = "run" /\ ~stopping /\ ~OneShot

\* An assistant or user line: a turn is in progress.  The first answer of a model
\* opens the channel, and by then claude has a transcript.
TurnEvent ==
    /\ Feeding
    /\ Act([trk EXCEPT !.turn = TRUE])
    /\ \/ ready' = TRUE /\ transcripts' = transcripts \cup {savedId}
       \/ UNCHANGED <<ready, transcripts>>
    /\ UNCHANGED <<savedId, marker, next, pc, ret, start, after, stopping, shutdown,
                   bounds, unit, line>>

\* The context has grown to the threshold, or was compacted by claude itself.
ContextEvent ==
    /\ Feeding
    /\ Act([trk EXCEPT !.big = ~@])
    /\ UNCHANGED <<disk, pc, ret, start, run, shutdown, bounds, unit, line>>

BackgroundTasks ==
    /\ Feeding
    /\ Act([trk EXCEPT !.agents = ~@])
    /\ UNCHANGED <<disk, pc, ret, start, run, shutdown, bounds, unit, line>>

\* The compaction's boundary, or the report that it failed.
CompactionEvent ==
    /\ Feeding
    /\ trk.phase = "Compacting"
    /\ \/ trk' = [trk EXCEPT !.boundary = TRUE, !.big = FALSE]
       \/ trk' = [trk EXCEPT !.failed = TRUE]
    /\ UNCHANGED <<disk, pc, ret, start, run, note, shutdown, hist, bounds, unit, line>>

WriteNote ==
    /\ Feeding
    /\ trk.turn
    /\ ~note
    /\ note' = TRUE
    /\ noted' = (noted \/ trk.phase = "Handoff")
    /\ UNCHANGED <<disk, pc, ret, start, trk, run, shutdown, spent, snapped, stale,
                   bounds, unit, line>>

\* A result before any answer of a model ends the run for a restart.
FirstTurnFails ==
    /\ Feeding
    /\ trk.turn
    /\ ~ready
    /\ Mishap
    /\ End("Ended")
    /\ UNCHANGED <<disk, pc, ret, start, trk, ready, note, shutdown, hist, markers,
                   unit, line>>

Ended == [trk EXCEPT !.turn = FALSE]

\* A result with the rotation not begun, or waiting: the quiet moment may have come.
ResultIdle ==
    /\ Feeding /\ trk.turn /\ ready
    /\ trk.phase \in {"Idle", "Waiting"}
    /\ Act(Ended)
    /\ UNCHANGED <<disk, pc, ret, start, run, shutdown, bounds, unit, line>>

\* A result that is neither the handoff's nor the compaction's: keep waiting.
ResultAwait ==
    /\ Feeding /\ trk.turn /\ ready
    /\ \/ trk.phase = "Handoff" /\ ~note
       \/ trk.phase = "Compacting" /\ ~trk.boundary /\ ~trk.failed
    /\ trk' = Ended
    /\ UNCHANGED <<disk, pc, ret, start, run, note, shutdown, hist, bounds, unit, line>>

\* Mutation: any turn that ends well passes for the handoff turn.
ResultHandoffAny ==
    /\ Feeding /\ trk.turn /\ ready
    /\ trk.phase = "Handoff"
    /\ trk' = [Ended EXCEPT !.phase = "Compacting", !.handoff = TRUE,
                            !.boundary = FALSE, !.failed = FALSE]
    /\ UNCHANGED <<disk, pc, ret, start, run, note, shutdown, hist, bounds, unit, line>>

\* The handoff turn: the note is written, /compact goes out.
ResultHandoff ==
    /\ Feeding /\ trk.turn /\ ready
    /\ trk.phase = "Handoff" /\ note
    /\ trk' = [Ended EXCEPT !.phase = "Compacting", !.handoff = TRUE,
                            !.boundary = FALSE, !.failed = FALSE]
    /\ UNCHANGED <<disk, pc, ret, start, run, note, shutdown, hist, bounds, unit, line>>

\* The compaction went through: the session goes on under its id.
ResultCompacted ==
    /\ Feeding /\ trk.turn /\ ready
    /\ trk.phase = "Compacting" /\ trk.boundary
    /\ trk' = Done(Ended)
    /\ pc' = "clear1"
    /\ ret' = "run"
    /\ UNCHANGED <<disk, start, run, note, shutdown, hist, bounds, unit, line>>

\* An error, or a compaction reported as failed.
ResultFailed ==
    /\ Feeding /\ trk.turn /\ ready
    /\ trk.phase \in {"Handoff", "Compacting"}
    /\ ~(trk.phase = "Compacting" /\ trk.boundary)
    /\ Failed(Ended)
    /\ UNCHANGED <<pc, ret, start, ready, note, shutdown, markers, unit, line>>

\* A tick finds a cap expired.
CapExpires ==
    /\ Feeding
    /\ \/ trk.phase \in {"Handoff", "Compacting"}
       \/ trk.phase = "Waiting" /\ ~trk.paused /\ ~Quiet(trk)
    /\ Cut(trk, trk.phase = "Waiting")
    /\ UNCHANGED <<pc, ret, start, ready, note, shutdown, markers, unit, line>>

\* A tick finds the pause over.
PauseOver ==
    /\ Feeding
    /\ trk.paused
    /\ Act([trk EXCEPT !.paused = FALSE])
    /\ UNCHANGED <<disk, pc, ret, start, run, shutdown, bounds, unit, line>>

\* A tick finds the threshold tripped: the marker is written, or cannot be.
Threshold ==
    /\ Feeding
    /\ ~trk.pending /\ trk.phase = "Idle" /\ ~trk.turn /\ trk.big
    /\ Act(SetPending(trk))
    /\ \/ marker' = TRUE /\ UNCHANGED mishaps
       \/ Mishap /\ UNCHANGED marker
    /\ UNCHANGED <<savedId, transcripts, next, pc, ret, start, run, shutdown, markers,
                   unit, line>>

\* Every fifth tick looks at the marker: one that appeared starts a rotation, one
\* that is gone cancels a rotation that is still waiting.
MarkerAppeared ==
    /\ Feeding
    /\ marker /\ ~trk.pending
    /\ Act(SetPending(trk))
    /\ UNCHANGED <<disk, pc, ret, start, run, shutdown, bounds, unit, line>>

\* Mutation: a cancelled rotation stays recorded in rotation.json.
MarkerGoneRecorded ==
    /\ Feeding
    /\ ~marker /\ trk.pending /\ trk.phase = "Waiting"
    /\ trk' = Done(trk)
    /\ spent' = 0
    /\ UNCHANGED <<disk, pc, ret, start, run, note, shutdown, snapped, noted, stale,
                   bounds, unit, line>>

MarkerGone ==
    /\ Feeding
    /\ ~marker /\ trk.pending /\ trk.phase = "Waiting"
    /\ trk' = Done(trk)
    /\ DropNext
    /\ RotationOver
    /\ UNCHANGED <<savedId, transcripts, marker, pc, ret, start, run, note, shutdown,
                   markers, unit, line>>

\* The shutdown token ends the run, unless it is ending for another reason than a
\* rotation step.
ShutdownSeen ==
    /\ pc \in {"run", "window"}
    /\ shutdown
    /\ after \notin {"Exit", "Ended", "Held"}
    /\ after' = "Exit"
    /\ stopping' = TRUE
    /\ pc' = "run"
    /\ UNCHANGED <<disk, ret, start, trk, ready, note, shutdown, hist, bounds, unit,
                   line>>

Resumes == start.kind \in {"Resumed", "Retry"}

\* claude exits, at EOF, by the kill after the grace, or of its own accord; then
\* an id it does not know is dropped, but not in emergency mode.
ClaudeExits ==
    /\ pc = "run"
    /\ \/ /\ after \in {"Again", "Pause"}
          /\ pc' = "plan"
          /\ trk' = NewTracker
          /\ stopping' = FALSE
          /\ UNCHANGED <<savedId, ret, start, after, note, shutdown, mishaps, unit, line>>
       \/ /\ after \in {"Exit", "Ended", "Held"}
          /\ GoDown
          /\ UNCHANGED <<savedId, mishaps>>
       \/ /\ after = "none"
          /\ Mishap
          /\ GoDown
          /\ savedId' \in {savedId} \cup (IF Resumes /\ ~OneShot THEN {NoId} ELSE {})
    /\ UNCHANGED <<transcripts, marker, next, ready, hist, markers>>
-----------------------------------------------------------------------------
(* The environment.                                                        *)

\* systemctl stop; one that is for the sake of emergency mode has its own bound.
Shutdown ==
    /\ pc # "down"
    /\ ~shutdown
    /\ \/ Mishap /\ UNCHANGED emergencies
       \/ /\ emergencies < MaxEmergencies
          /\ emergencies' = emergencies + 1
          /\ UNCHANGED mishaps
    /\ shutdown' = TRUE
    /\ UNCHANGED <<disk, pc, ret, start, trk, run, note, hist, markers, mode, exit, line>>

\* The supervisor is killed, or the machine goes down.  The unit starts it again.
Crash ==
    /\ pc # "down"
    /\ Mishap
    /\ Gone
    /\ exit' = "auto"
    /\ said' = FALSE
    /\ UNCHANGED <<disk, ready, hist, markers>>

\* The transcript is removed while the unit is down.
LoseTranscript ==
    /\ pc = "down"
    /\ savedId \in transcripts
    /\ transcripts' = transcripts \ {savedId}
    /\ UNCHANGED <<savedId, marker, next, pc, ret, start, trk, run, note, shutdown,
                   hist, bounds, unit, line>>

\* The pre-compaction hook or the operator writes the marker, the operator removes it.
TouchMarker ==
    /\ markers < MaxMarkers
    /\ markers' = markers + 1
    /\ marker' = ~marker
    /\ UNCHANGED <<savedId, transcripts, next, pc, ret, start, trk, run, note,
                   shutdown, hist, mishaps, unit, line>>

Supervisor ==
    \/ PlanStart \/ PlanEmergency \/ StopBetweenRuns
    \/ ClearMarker \/ ClearNext \/ FreshId \/ Spawn \/ WindowCheck \/ ShutdownSeen
    \/ PauseOver \/ Threshold \/ MarkerAppeared \/ MarkerGone

Claude ==
    \/ TurnEvent \/ ContextEvent \/ BackgroundTasks \/ CompactionEvent \/ WriteNote
    \/ FirstTurnFails \/ ResultIdle \/ ResultAwait \/ ResultHandoff \/ ResultCompacted
    \/ ResultFailed \/ EmergencyCompaction \/ EmergencyResult

Failures == WriteIdFails \/ SpawnFails \/ FatalFallback

Next ==
    \/ StartUnit \/ Supervisor \/ Claude \/ Failures
    \/ CapExpires \/ EmergencyCap \/ ClaudeExits
    \/ Shutdown \/ Crash \/ LoseTranscript \/ TouchMarker

Spec == Init /\ [][Next]_vars
-----------------------------------------------------------------------------
\* The tracker's, the supervisor's and the files' values are of their types; a step
\* that is recorded carries its count of attempts.
TypeOK ==
    /\ savedId \in 0..MaxIds
    /\ transcripts \subseteq 1..MaxIds
    /\ marker \in BOOLEAN
    /\ \/ next = Normal
       \/ next \in [next : {"Retry"}, snapshot : BOOLEAN, attempts : Nat, handoff : BOOLEAN]
       \/ next \in [next : {"Postponed"}, attempts : Nat, handoff : BOOLEAN]
       \/ next \in [next : {"Fresh"}, handoff : BOOLEAN]
    /\ pc \in {"down", "plan", "fresh", "clear1", "clear2", "spawn", "window", "run"}
    /\ ret \in {"run", "spawn", "fresh"}
    /\ start \in [kind : {"Fresh", "Resumed", "AfterRotation", "Retry"}, attempts : Nat,
                  handoff : BOOLEAN, snapshot : BOOLEAN, told : BOOLEAN]
    /\ trk \in [phase : {"Idle", "Waiting", "Handoff", "Compacting"}, turn : BOOLEAN,
                agents : BOOLEAN, big : BOOLEAN, pending : BOOLEAN, paused : BOOLEAN,
                attempts : Nat, handoff : BOOLEAN, boundary : BOOLEAN, failed : BOOLEAN]
    /\ after \in {"none", "Again", "Pause", "Exit", "Ended", "Held"}
    /\ {stopping, ready, note, shutdown, noted, stale, said} \subseteq BOOLEAN
    /\ snapped \in {"no", "made", "failed"}
    /\ {spent, mishaps, markers, emergencies} \subseteq Nat
    /\ mode \in {"rotate", "emergency"}
    /\ exit \in {"auto", "hand"}
    /\ shot \in {"unsent", "sent", "failed", "compacted"}

(* The properties of a rotation hold while rotation.json is of the present  *)
(* one.  It has outlived its rotation, and is stale, after a removal of it *)
(* that failed and after a marker that was removed between plan_start's    *)
(* look at it and run_once's.                                              *)

\* A conversation that could be resumed is given up for a new id only when the
\* rotation has spent all its attempts: not sooner, however stops, crashes and cuts
\* share them out over several runs.
KeepsConversation ==
    [][~stale /\ savedId' > savedId /\ Resumable => spent = HandoffAttempts]_vars

\* "One count of attempts [...] survives the restarts they cause" (rotation.rs), and
\* only they: what the tracker has counted is what rotation.json says, so that a
\* restart neither forgives an attempt nor charges the next rotation with one of a
\* rotation that was cancelled; and "HANDOFF_ATTEMPTS of them in all end the rotation".
DiskAttempts == IF next.next \in {"Retry", "Postponed"} THEN next.attempts ELSE 0
CountIsKept ==
    ~stale => /\ Feeding => trk.attempts = DiskAttempts
              /\ spent <= HandoffAttempts

\* "before the handoff is first requested" (rotation.rs): no handoff or compaction is
\* under way before the copy of memory and transcript was tried, on whichever path the
\* rotation came to it.  (A copy that fails is logged, and the rotation goes on.)
SnapshotFirst ==
    ~stale /\ pc = "run" /\ trk.phase \in {"Handoff", "Compacting"} => snapped # "no"

\* Whoever is told that the rotated session's note is in memory is told the truth: it
\* was written after this rotation had asked for it, not in some turn before.
HandoffIsTrue ==
    ~stale => /\ next # Normal => (next.handoff => noted)
              /\ pc \in {"clear1", "clear2"} /\ ret = "spawn" => (start.told => noted)

\* "the rotation's records are left as they are" and "emergency mode drops nothing"
\* (lib.rs): whatever fails in a one-turn run, the saved id and the step a rotation
\* left behind are still there for the run after it, and no message is taken.  Only
\* a compaction that went through ends the pending rotation.
EmergencyDropsNothing ==
    [][OneShot /\ pc # "down" =>
          /\ savedId' = savedId
          /\ next' # next => shot = "compacted"
          /\ pc' = "run" => ~ready']_vars

\* "a restart would send the line again" (lib.rs): after the emergency line has gone
\* out, it goes out again only by the operator's hand or after the supervisor was
\* killed, whichever way the run ended.
LineSentOnce == [][said /\ shot' = "sent" => shot = "sent"]_vars
-----------------------------------------------------------------------------
(* Liveness.  The supervisor's loop runs; caps expire and a stopped claude *)
(* exits or is killed; systemd or the operator starts the unit again; a    *)
(* model answers in the end.                                               *)

FairSpec ==
    /\ Spec
    /\ WF_vars(StartUnit \/ Supervisor \/ (ClaudeExits /\ after # "none"))
    /\ WF_vars(CapExpires)

Rotating == pc = "run" /\ trk.pending

\* "Three caps bound the waits" (rotation.rs): a rotation that is pending comes to an
\* end, by compaction, by a fresh session or by its cancellation, once mishaps cease.
\* (A behaviour that has used up the MaxIds ids is cut off by the bound; the operator
\* may keep the session in emergency mode; and rotation.json may be left behind.)
RotationEnds ==
    Rotating ~> \/ ~Rotating /\ next = Normal /\ spent = 0
                \/ savedId = MaxIds
                \/ OneShot
                \/ stale
=============================================================================
