------------------------------- MODULE Typing -------------------------------
(***************************************************************************)
(* The typing indicator of one room: Daemon::typing_start, typing_stop and *)
(* typing_stop_session and the refresh task they start and cancel          *)
(* (crates/siltad/src/daemon.rs), with their callers acked (daemon.rs),    *)
(* after_send, stop_typing and typing (crates/siltad/src/outbound.rs).     *)
(* The task also is the watch on a silent session: reaching its cap with   *)
(* nothing shown is reported to the alerts (Presence).                     *)
(*                                                                         *)
(* The read loop of the session's connection makes the calls one at a      *)
(* time; the tasks run beside it, and a cancelled one lives on until it    *)
(* has sent its last notice.                                               *)
(*                                                                         *)
(*   entry    the generation of the room's entry in typing, 0: none        *)
(*   at[g]    where the task of generation g is: "none", "notice" (about   *)
(*            to send typing_notice(true)), "sleep", "capped", "ended"     *)
(*            (out of its loop), "off" (about to send its last notice),    *)
(*            "over"                                                       *)
(*   age[g]   the time its loop has run                                    *)
(*   cancelled[g], watch[g]   its token and its flag                       *)
(*   call     where the read loop is: "idle", "chunk" (do_reply between    *)
(*            two messages of a reply), "more_off", "more_on",             *)
(*            "more_start" (after_send with more), "stop", "stop_off"      *)
(*            (stop_typing)                                                *)
(*   on       the indicator as the homeserver shows it                     *)
(* and, a history variable:                                                *)
(*   shown    what the session has shown since the message it was last     *)
(*            handed: "nothing", "something" (a send, a part of one, a     *)
(*            typing request), or "part": the beginning of a reply that    *)
(*            broke off because its next message could not be related      *)
(***************************************************************************)
EXTENDS Naturals, FiniteSets

CONSTANTS
    TypingMax,   \* TYPING_MAX, in polls
    MaxCalls     \* bound on the acknowledgements and sends

ASSUME TypingAssumption == TypingMax \in Nat /\ MaxCalls \in Nat

VARIABLES entry, generation, at, age, cancelled, watch, call, on, shown, reported, calls

task == <<at, age, cancelled>>
vars == <<entry, generation, task, watch, call, on, shown, reported, calls>>

\* A call starts one task at most.
Gen == 1..MaxCalls

Init ==
    /\ entry = 0
    /\ generation = 0
    /\ at = [g \in Gen |-> "none"]
    /\ age = [g \in Gen |-> 0]
    /\ cancelled = [g \in Gen |-> FALSE]
    /\ watch = [g \in Gen |-> FALSE]
    /\ call = "idle"
    /\ on = FALSE
    /\ shown = "something"
    /\ reported = FALSE
    /\ calls = 0
-----------------------------------------------------------------------------
(* The calls.                                                              *)

\* Mutation: a call without watch leaves the running task its watch.
typing_start_keeps_watch(w) ==
    \/ /\ entry # 0
       /\ UNCHANGED <<entry, generation, task, watch>>
    \/ /\ entry = 0
       /\ generation' = generation + 1
       /\ entry' = generation'
       /\ watch' = [watch EXCEPT ![generation'] = w]
       /\ at' = [at EXCEPT ![generation'] = "notice"]
       /\ UNCHANGED <<age, cancelled>>

\* A running task is kept, and loses its watch if the call comes without one.
typing_start(w) ==
    \/ /\ entry # 0
       /\ watch' = IF w THEN watch ELSE [watch EXCEPT ![entry] = FALSE]
       /\ UNCHANGED <<entry, generation, task>>
    \/ /\ entry = 0
       /\ generation' = generation + 1
       /\ entry' = generation'
       /\ watch' = [watch EXCEPT ![generation'] = w]
       /\ at' = [at EXCEPT ![generation'] = "notice"]
       /\ UNCHANGED <<age, cancelled>>

\* typing_stop, and typing_stop_session for the one room there is.
typing_stop ==
    \/ /\ entry # 0
       /\ cancelled' = [cancelled EXCEPT ![entry] = TRUE]
       /\ entry' = 0
       /\ UNCHANGED <<generation, at, age, watch>>
    \/ /\ entry = 0
       /\ UNCHANGED <<entry, generation, task, watch>>

Calling ==
    /\ call = "idle"
    /\ calls < MaxCalls
    /\ calls' = calls + 1

\* The session acknowledges a message.
Acked ==
    /\ Calling
    /\ typing_start(TRUE)
    /\ shown' = "nothing"
    /\ reported' = FALSE
    /\ UNCHANGED <<call, on>>

\* A message goes out: a command's first, or the next one of a reply in several.
Sending ==
    \/ Calling
    \/ call = "chunk" /\ UNCHANGED calls

\* The message is in the room.  The homeserver clears the sender's indicator.
Sent ==
    /\ on' = FALSE
    /\ shown' = "something"
    /\ UNCHANGED <<entry, generation, task, watch, reported>>

\* A message of a reply that has more of them.
SendChunk ==
    /\ Sending
    /\ call' = "chunk"
    /\ Sent

\* The next message of a threaded reply cannot be related to the one before it:
\* do_reply returns, and nothing is told to the indicator.  (If it is the first one,
\* nothing has happened.)
RelateFails ==
    /\ call = "chunk"
    /\ call' = "idle"
    /\ shown' = "part"
    /\ UNCHANGED <<entry, generation, task, watch, on, reported, calls>>

\* The last message of a command with more = true: after_send turns the indicator off
\* and on again, then typing_start.
SendMore ==
    /\ Sending
    /\ call' = "more_off"
    /\ Sent

MoreOff ==
    /\ call = "more_off"
    /\ on' = FALSE
    /\ call' = "more_on"
    /\ UNCHANGED <<entry, generation, task, watch, shown, reported, calls>>

MoreOn ==
    /\ call = "more_on"
    /\ on' = TRUE
    /\ call' = "more_start"
    /\ UNCHANGED <<entry, generation, task, watch, shown, reported, calls>>

MoreStart ==
    /\ call = "more_start"
    /\ typing_start(FALSE)
    /\ call' = "idle"
    /\ UNCHANGED <<on, shown, reported, calls>>

\* A typing request.
Typing ==
    /\ Calling
    /\ typing_start(FALSE)
    /\ shown' = "something"
    /\ UNCHANGED <<call, on, reported>>

\* The last message of a command with nothing more to come: stop_typing.
Send ==
    /\ Sending
    /\ call' = "stop"
    /\ Sent

\* A message of a reply cannot be sent: stop_typing too.  (A reaction, an edit or a
\* file that cannot be sent leaves the indicator as it is.)
SendFails ==
    /\ Sending
    /\ call' = "stop"
    /\ UNCHANGED <<entry, generation, task, watch, on, shown, reported>>

Stop ==
    /\ call = "stop"
    /\ typing_stop
    /\ call' = "stop_off"
    /\ UNCHANGED <<on, shown, reported, calls>>

StopOff ==
    /\ call = "stop_off"
    /\ on' = FALSE
    /\ call' = "idle"
    /\ UNCHANGED <<entry, generation, task, watch, shown, reported, calls>>

\* The connection ends: typing_stop_session.
Disconnect ==
    /\ Calling
    /\ typing_stop
    /\ shown' = "something"
    /\ UNCHANGED <<call, on, reported>>
-----------------------------------------------------------------------------
(* The task of generation g.                                               *)

\* The notice is sent; a task cancelled by then ends at the select.
Notice(g) ==
    /\ at[g] = "notice"
    /\ on' = TRUE
    /\ at' = [at EXCEPT ![g] = IF cancelled[g] THEN "ended" ELSE "sleep"]
    /\ UNCHANGED <<entry, generation, age, cancelled, watch, call, shown, reported, calls>>

\* Mutation: the loop has no cap.
PollForever(g) ==
    /\ at[g] = "sleep"
    /\ at' = [at EXCEPT ![g] = IF cancelled[g] THEN "ended" ELSE "notice"]
    /\ UNCHANGED <<entry, generation, age, cancelled, watch, call, on, shown, reported, calls>>

\* The select is woken by cancelled or by sleep, by either if both are due, and the
\* cap is tested after the sleep.
Poll(g) ==
    /\ at[g] = "sleep"
    /\ \/ /\ cancelled[g]
          /\ at' = [at EXCEPT ![g] = "ended"]
          /\ UNCHANGED age
       \/ /\ age[g] < TypingMax
          /\ age' = [age EXCEPT ![g] = @ + 1]
          /\ at' = [at EXCEPT ![g] = "notice"]
       \/ /\ age[g] >= TypingMax
          /\ at' = [at EXCEPT ![g] = "capped"]
          /\ UNCHANGED age
    /\ UNCHANGED <<entry, generation, cancelled, watch, call, on, shown, reported, calls>>

\* The cap: a task that is still watching reports the silence.
Capped(g) ==
    /\ at[g] = "capped"
    /\ at' = [at EXCEPT ![g] = "ended"]
    /\ reported' = (reported \/ watch[g])
    /\ UNCHANGED <<entry, generation, age, cancelled, watch, call, on, shown, calls>>

\* Mutation: no generation check.
RemoveAnyEntry(g) ==
    /\ at[g] = "ended"
    /\ at' = [at EXCEPT ![g] = "off"]
    /\ entry' = 0
    /\ UNCHANGED <<generation, age, cancelled, watch, call, on, shown, reported, calls>>

\* The entry is removed, unless it is a newer task's by now.
RemoveEntry(g) ==
    /\ at[g] = "ended"
    /\ at' = [at EXCEPT ![g] = "off"]
    /\ entry' = IF entry = g THEN 0 ELSE entry
    /\ UNCHANGED <<generation, age, cancelled, watch, call, on, shown, reported, calls>>

\* Mutation: a cancelled task leaves it to its caller to switch the indicator off.
LastNoticeUnlessCancelled(g) ==
    /\ at[g] = "off"
    /\ at' = [at EXCEPT ![g] = "over"]
    /\ on' = (on /\ cancelled[g])
    /\ UNCHANGED <<entry, generation, age, cancelled, watch, call, shown, reported, calls>>

LastNotice(g) ==
    /\ at[g] = "off"
    /\ at' = [at EXCEPT ![g] = "over"]
    /\ on' = FALSE
    /\ UNCHANGED <<entry, generation, age, cancelled, watch, call, shown, reported, calls>>

Task(g) == Notice(g) \/ Poll(g) \/ Capped(g) \/ RemoveEntry(g) \/ LastNotice(g)

ReadLoop ==
    \/ Acked \/ SendChunk \/ RelateFails \/ SendMore \/ MoreOff \/ MoreOn \/ MoreStart
    \/ Typing \/ Send \/ SendFails \/ Stop \/ StopOff \/ Disconnect

Next == ReadLoop \/ \E g \in Gen : Task(g)

Spec == Init /\ [][Next]_vars
-----------------------------------------------------------------------------
\* Generations are handed out in order and no refresh outlasts TYPING_MAX.
TypeOK ==
    /\ generation \in 0..MaxCalls /\ entry \in 0..generation
    /\ at \in [Gen -> {"none", "notice", "sleep", "capped", "ended", "off", "over"}]
    /\ age \in [Gen -> 0..TypingMax]
    /\ cancelled \in [Gen -> BOOLEAN] /\ watch \in [Gen -> BOOLEAN]
    /\ call \in {"idle", "chunk", "more_off", "more_on", "more_start", "stop", "stop_off"}
    /\ on \in BOOLEAN /\ reported \in BOOLEAN
    /\ shown \in {"nothing", "part", "something"}
    /\ calls \in 0..MaxCalls

Running == {g \in Gen : at[g] \in {"notice", "sleep"}}

\* A room has at most one refresher that nothing has told to stop, and it is the
\* one the map knows: a task that ends takes only its own entry away, never that of
\* the task which followed it (the generation check), so typing_stop reaches it.  The
\* other way round, the entry never outlives its task: it would keep the indicator
\* and the watch of every later message from starting.
OneRefresher ==
    /\ \A g \in Running : cancelled[g] \/ entry = g
    /\ entry # 0 => at[entry] \in {"notice", "sleep", "capped", "ended"}

\* When the tasks are over and no call is under way, the room does not show the bot
\* typing, whichever order the last notices of old tasks and the first of new ones
\* went out in (if the homeserver took them).
QuietWhenOver ==
    (call = "idle" /\ \A g \in Gen : at[g] \in {"none", "over"}) => ~on

\* What is reported is "a delivery that got nothing back" (daemon.rs): nothing was shown
\* since the last message, or what is shown races the cap (its call is under way, or has
\* told the task to stop).  The exception, "part": the session's last word was the
\* beginning of a reply whose next message could not be related.  That error path of
\* do_reply leaves the task its watch, and an answered message is reported.  Every other
\* way a command ends takes the watch away or tells the task to stop, and a later one
\* makes up for a reply that broke off.
ReportIsSilence ==
    [][~reported /\ reported' =>
          \/ shown \in {"nothing", "part"}
          \/ call # "idle"
          \/ \E g \in Gen : at[g] = "capped" /\ cancelled[g]]_vars
-----------------------------------------------------------------------------
(* Liveness.  The runtime runs the tasks and their timers; the requests of *)
(* the read loop come back.                                                *)

FairSpec ==
    /\ Spec
    /\ \A g \in Gen : WF_vars(Task(g))
    /\ WF_vars(call # "idle" /\ ReadLoop)

\* No indicator is left on for ever: every refresher ends by the cap, whatever calls
\* keep it or come between.
IndicatorEnds == on ~> ~on
=============================================================================
