------------------------------ MODULE Presence ------------------------------
(***************************************************************************)
(* The daemon's alerts to the owner about one session: the bookkeeping of  *)
(* crates/silta/src/alert.rs (Watch), the watcher task and the sending of  *)
(* crates/siltad/src/alert.rs, and the calls the connection handler of     *)
(* crates/siltad/src/server.rs makes.  Watch keeps one entry per session   *)
(* and relates none to another, so the module is about one.                *)
(*                                                                         *)
(*   conn     the connection that holds the session: "off", "claimed",     *)
(*            "flush" (welcomed, the backlog is being written), "live"     *)
(*   since, alertedAt, silentAt   the session's State in Watch             *)
(*   absent   since when no connection has held the session; None while    *)
(*            one has                                                      *)
(*   reports  the Silence reports waiting in the watcher's channel         *)
(*   sending  the alerts the watcher is awaiting to be sent                *)
(*   spawned  the Back alerts, each being sent by a task of its own        *)
(*   issued   the alerts decided on so far, with their time                *)
(*   dm       the alerts that are in the owner's DM                        *)
(*   outage   the number of the present outage, or of the last one         *)
(***************************************************************************)
EXTENDS Naturals, Sequences, SequencesExt

CONSTANTS
    Grace,          \* grace_ms
    Repeat,         \* REPEAT_MS
    SilentRepeat,   \* SILENT_REPEAT_MS
    None,
    MaxNow,         \* bound on the clock
    MaxOutages,     \* bound on the outages
    MaxReports      \* bound on the Silence reports

ASSUME PresenceAssumption ==
    /\ {Grace, Repeat, SilentRepeat, MaxNow, MaxOutages, MaxReports} \subseteq Nat
    /\ None \notin Nat

VARIABLES now, conn, since, alertedAt, silentAt, absent, reports, reported,
          sending, spawned, issued, dm, outage

watch == <<since, alertedAt, silentAt>>
posts == <<sending, spawned, issued, dm>>
vars == <<now, conn, watch, absent, reports, reported, posts, outage>>

Alert(kind) == [kind |-> kind, outage |-> outage, at |-> now]

\* Every session starts away, since the daemon's start.
Init ==
    /\ now = 0
    /\ conn = "off"
    /\ since = 0
    /\ alertedAt = None
    /\ silentAt = None
    /\ absent = 0
    /\ reports = 0
    /\ reported = 0
    /\ sending = <<>>
    /\ spawned = {}
    /\ issued = <<>>
    /\ dm = <<>>
    /\ outage = 1
-----------------------------------------------------------------------------
(* server::handle.                                                         *)

Claim ==
    /\ conn = "off"
    /\ conn' = "claimed"
    /\ UNCHANGED <<now, watch, absent, reports, reported, posts, outage>>

\* The welcome could not be written: Watch has not heard of this connection.
WelcomeFails ==
    /\ conn = "claimed"
    /\ conn' = "off"
    /\ UNCHANGED <<now, watch, absent, reports, reported, posts, outage>>

\* Mutation: connected reads disconnected_since without taking it.
ConnectedKeepsSince ==
    /\ conn = "claimed"
    /\ conn' = "flush"
    /\ alertedAt' = None
    /\ absent' = None
    /\ UNCHANGED <<now, since, silentAt, reports, reported, posts, outage>>

\* Mutation: alerted_at is not taken.
ConnectedKeepsAlert ==
    /\ conn = "claimed"
    /\ conn' = "flush"
    /\ since' = None
    /\ absent' = None
    /\ UNCHANGED <<now, alertedAt, silentAt, reports, reported, posts, outage>>

\* Mutation: a Back alert whether or not the owner was told.
ConnectedAlwaysBack ==
    /\ conn = "claimed"
    /\ conn' = "flush"
    /\ since' = None
    /\ alertedAt' = None
    /\ absent' = None
    /\ issued' = Append(issued, Alert("Back"))
    /\ spawned' = spawned \cup {Alert("Back")}
    /\ UNCHANGED <<now, silentAt, reports, reported, sending, dm, outage>>

\* Watch::connected; a Back alert is sent by a task of its own.
Connected ==
    /\ conn = "claimed"
    /\ conn' = "flush"
    /\ since' = None
    /\ alertedAt' = None
    /\ absent' = None
    /\ IF alertedAt # None /\ since # None
       THEN /\ issued' = Append(issued, Alert("Back"))
            /\ spawned' = spawned \cup {Alert("Back")}
       ELSE UNCHANGED <<issued, spawned>>
    /\ UNCHANGED <<now, silentAt, reports, reported, sending, dm, outage>>

\* A queued message could not be written: handle returns at once.
FlushFails ==
    /\ conn = "flush"
    /\ outage < MaxOutages
    /\ outage' = outage + 1
    /\ conn' = "off"
    /\ absent' = now
    /\ UNCHANGED <<now, watch, reports, reported, posts>>

FlushDone ==
    /\ conn = "flush"
    /\ conn' = "live"
    /\ UNCHANGED <<now, watch, absent, reports, reported, posts, outage>>

\* The read loop is over: Watch::disconnected.
Disconnected ==
    /\ conn = "live"
    /\ outage < MaxOutages
    /\ outage' = outage + 1
    /\ conn' = "off"
    /\ absent' = now
    /\ since' = IF since = None THEN now ELSE since
    /\ UNCHANGED <<now, alertedAt, silentAt, reports, reported, posts>>
-----------------------------------------------------------------------------
(* The watcher task.  It starts only if the grace period is not 0.         *)

\* Mutation: one unit of time too early.
AgainEarly(at, gap) == IF at = None THEN TRUE ELSE now + 1 - at >= gap

\* The last alert of a kind, if there was one, is long enough ago.
Again(at, gap) == IF at = None THEN TRUE ELSE now - at >= gap

AwayIsDue == since # None /\ Again(since, Grace) /\ Again(alertedAt, Repeat)

\* Watch::tick: one Away alert, unless it is too early for it.
WatchTick ==
    /\ Grace > 0
    /\ sending = <<>>
    /\ AwayIsDue
    /\ alertedAt' = now
    /\ sending' = <<Alert("Away")>>
    /\ issued' = Append(issued, Alert("Away"))
    /\ UNCHANGED <<now, conn, since, silentAt, absent, reports, reported, spawned, dm, outage>>

\* A typing task reached its cap unanswered (Typing).
ReportSilence ==
    /\ reported < MaxReports
    /\ reported' = reported + 1
    /\ reports' = reports + 1
    /\ UNCHANGED <<now, conn, watch, absent, posts, outage>>

\* The watcher takes a report: Watch::silent.
WatchSilent ==
    /\ Grace > 0
    /\ sending = <<>>
    /\ reports > 0
    /\ reports' = reports - 1
    /\ \/ /\ Again(silentAt, SilentRepeat)
          /\ silentAt' = now
          /\ sending' = <<Alert("Silent")>>
          /\ issued' = Append(issued, Alert("Silent"))
       \/ /\ ~Again(silentAt, SilentRepeat)
          /\ UNCHANGED <<silentAt, sending, issued>>
    /\ UNCHANGED <<now, conn, since, alertedAt, absent, reported, spawned, dm, outage>>

\* alert::send: the message is in the room, or a warning in the log.
WatcherSends ==
    /\ sending # <<>>
    /\ sending' = Tail(sending)
    /\ \/ dm' = Append(dm, Head(sending))
       \/ UNCHANGED dm
    /\ UNCHANGED <<now, conn, watch, absent, reports, reported, spawned, issued, outage>>

SpawnedSends ==
    /\ \E a \in spawned :
          /\ spawned' = spawned \ {a}
          /\ \/ dm' = Append(dm, a)
             \/ UNCHANGED dm
    /\ UNCHANGED <<now, conn, watch, absent, reports, reported, sending, issued, outage>>

Tick ==
    /\ now < MaxNow
    /\ now' = now + 1
    /\ UNCHANGED <<conn, watch, absent, reports, reported, posts, outage>>

Watcher == WatchTick \/ WatchSilent \/ WatcherSends

Next ==
    \/ Claim \/ WelcomeFails \/ Connected \/ FlushFails \/ FlushDone \/ Disconnected
    \/ Watcher \/ SpawnedSends
    \/ ReportSilence
    \/ Tick

Spec == Init /\ [][Next]_vars
-----------------------------------------------------------------------------
Time == Nat \cup {None}

\* The bookkeeping of Watch is of its types and never negative.
TypeOK ==
    /\ now \in Nat
    /\ conn \in {"off", "claimed", "flush", "live"}
    /\ {since, alertedAt, silentAt, absent} \subseteq Time
    /\ reports \in Nat /\ reported \in Nat /\ outage \in Nat
    /\ \A a \in ToSet(sending) \cup spawned \cup ToSet(issued) \cup ToSet(dm) :
          a \in [kind : {"Away", "Back", "Silent"}, outage : Nat, at : Nat]

\* An Away alert is true when it is decided on: the session has been without a
\* welcomed connection for the whole grace period, however often it came and went
\* before.  (Watch learns of connections only through the handler's calls.)
AwayIsReal ==
    [][Len(issued') > Len(issued) /\ issued'[Len(issued')].kind = "Away" =>
          absent # None /\ now - absent >= Grace]_vars

Of(kind, k) == {i \in DOMAIN issued : issued[i].kind = kind /\ issued[i].outage = k}

\* The owner is not flooded: the Away alerts of one outage are REPEAT_MS apart, the
\* Silent ones of all time SILENT_REPEAT_MS, and no alert is sent if the grace is 0.
AlertsAreSpaced ==
    /\ Grace = 0 => issued = <<>>
    /\ \A i, j \in DOMAIN issued : i < j /\ issued[i].kind = issued[j].kind =>
          /\ issued[i].kind = "Away" /\ issued[i].outage = issued[j].outage =>
                issued[j].at - issued[i].at >= Repeat
          /\ issued[i].kind = "Silent" => issued[j].at - issued[i].at >= SilentRepeat

\* The owner hears of a return once, and only from an outage that was reported:
\* every Back alert has an Away alert of the same outage before it.
BackAnswersAway ==
    \A i \in DOMAIN issued : issued[i].kind = "Back" =>
        /\ Of("Back", issued[i].outage) = {i}
        /\ \E j \in Of("Away", issued[i].outage) : j < i
-----------------------------------------------------------------------------
(* What a comment of the code says and its interleavings do not keep.      *)

\* "The away alerts due now: sessions away longer than the grace period and not
\* reported" (alert.rs, tick): a session that is away is away in Watch too, or it
\* would never be reported.
WatchSeesAbsence == absent # None => since # None
-----------------------------------------------------------------------------
(* Liveness.  The runtime runs the watcher, whose interval fires every 30  *)
(* seconds, and the sends come to an end, as the SDK's requests do.        *)

Fairness == WF_vars(Watcher) /\ WF_vars(Tick)

FairSpec == Spec /\ Fairness

\* An outage that Watch knows of, and that lasts, is reported, however busy the
\* watcher is with other alerts.  (Within the bound on the clock.)
AwayIsReported ==
    since # None /\ Grace > 0 /\ now + Grace <= MaxNow
        ~> since = None \/ Of("Away", outage) # {}
=============================================================================
