------------------------------- MODULE Marks -------------------------------
(***************************************************************************)
(* Which inbound messages the daemon delivers across restarts: the         *)
(* admission of crates/siltad/src/matrix.rs, the verdict of                *)
(* crates/silta/src/replay.rs and the delivery watermarks (Marks) of       *)
(* crates/siltad/src/daemon.rs with the file that keeps them.              *)
(*                                                                         *)
(* A watermark is the pair (ts_ms, event_id) of the event it was taken     *)
(* from, so it is that event here.  Acknowledgements are handled by the    *)
(* read loop of the session's connection: one at a time per session, and   *)
(* of different sessions in parallel.                                      *)
(*                                                                         *)
(*   started  started_at_ms of this run                                    *)
(*   stage[e] in this run: sync has not handed e over ("unseen"), the      *)
(*            verdict of admission (after "Deliver" it is on its way to    *)
(*            the session), or its acknowledgement was taken ("acked")     *)
(*   mem      the map under the mutex                                      *)
(*   tmp      the content of delivered.json.tmp, disk that of              *)
(*            delivered.json                                               *)
(*   at[s]    where session s is in set: "idle", "open" (fs::write will    *)
(*            create or truncate), "write", "rename"                       *)
(*   snap[s]  the snapshot s serialised under the lock                     *)
(*   fd[s]    the file its open descriptor is now the content of           *)
(*   setting[s] the event whose mark s is persisting                       *)
(*   acked, durable  the events ever acknowledged; those whose mark set    *)
(*            returned from with the file renamed                          *)
(***************************************************************************)
EXTENDS Naturals, FiniteSets

CONSTANTS
    Event, Room, Session,
    Ts,          \* Ts[e]: origin_server_ts of e
    RoomOf,      \* RoomOf[e]: the room e was sent in
    Owner,       \* Owner[r]: the session r is routed to
    Window,      \* replay_window_ms
    NoMark,      \* no watermark for the room
    NoFile,      \* no file at this path
    Garbage,     \* a content that is not a whole snapshot
    MaxStart     \* bound on the start times

ASSUME MarksAssumption ==
    /\ Ts \in [Event -> Nat]
    /\ RoomOf \in [Event -> Room]
    /\ Owner \in [Room -> Session]
    /\ Window \in Nat
    /\ MaxStart \in Nat
    /\ NoMark \notin Event
    /\ NoFile # Garbage
    /\ {NoFile, Garbage} \cap [Room -> Event \cup {NoMark}] = {}

VARIABLES started, stage, mem, tmp, disk, at, snap, fd, setting, acked, durable

file == <<tmp, disk, fd>>
vars == <<started, stage, mem, file, at, snap, setting, acked, durable>>

Map == [Room -> Event \cup {NoMark}]
Empty == [r \in Room |-> NoMark]

Init ==
    /\ started = 0
    /\ stage = [e \in Event |-> "unseen"]
    /\ mem = Empty
    /\ tmp = NoFile
    /\ disk = NoFile
    /\ at = [s \in Session |-> "idle"]
    /\ snap = [s \in Session |-> Empty]
    /\ fd = [s \in Session |-> "none"]
    /\ setting = [s \in Session |-> NoMark]
    /\ acked = {}
    /\ durable = {}
-----------------------------------------------------------------------------
\* Mutation: the mark's own message is not told from its twins.
verdictByTime(e, mark, start) ==
    IF mark # NoMark /\ Ts[e] < Ts[mark] THEN "AlreadyDelivered"
    ELSE IF Ts[e] + Window < start THEN "TooOld"
    ELSE "Deliver"

verdict(e, mark, start) ==
    IF mark # NoMark /\ (Ts[e] < Ts[mark] \/ e = mark) THEN "AlreadyDelivered"
    ELSE IF Ts[e] + Window < start THEN "TooOld"
    ELSE "Deliver"

\* Mutation: the mark moves when the message is handed over.
AdmitMarks(e) ==
    /\ stage[e] = "unseen"
    /\ stage' = [stage EXCEPT ![e] = verdict(e, mem[RoomOf[e]], started)]
    /\ mem' = IF stage'[e] = "Deliver" THEN [mem EXCEPT ![RoomOf[e]] = e] ELSE mem
    /\ UNCHANGED <<started, file, at, snap, setting, acked, durable>>

\* Sync hands e to its handler and admit looks at the watermark.  A run gets an
\* event once; the first sync after a start replays recent history.  (An event that
\* routing or the member list refuses never gets here.)
Admit(e) ==
    /\ stage[e] = "unseen"
    /\ stage' = [stage EXCEPT ![e] = verdict(e, mem[RoomOf[e]], started)]
    /\ UNCHANGED <<started, mem, file, at, snap, setting, acked, durable>>

\* Mutation: set moves the mark whatever the time of the message.
NewerNever(mark, e) == FALSE

Newer(mark, e) == mark # NoMark /\ Ts[mark] > Ts[e]

\* Daemon::acked enters Marks::set: under the lock the mark moves, unless the room
\* has a newer one, and the map is serialised.  A slow download, the backlog and a
\* redelivery all let acknowledgements come in another order than the timestamps.
Set(s, e) ==
    /\ at[s] = "idle"
    /\ stage[e] = "Deliver"
    /\ Owner[RoomOf[e]] = s
    /\ stage' = [stage EXCEPT ![e] = "acked"]
    /\ acked' = acked \cup {e}
    /\ \/ /\ Newer(mem[RoomOf[e]], e)
          /\ UNCHANGED <<mem, at, snap, setting>>
       \/ /\ ~Newer(mem[RoomOf[e]], e)
          /\ mem' = [mem EXCEPT ![RoomOf[e]] = e]
          /\ snap' = [snap EXCEPT ![s] = mem']
          /\ setting' = [setting EXCEPT ![s] = e]
          /\ at' = [at EXCEPT ![s] = "open"]
    /\ UNCHANGED <<started, file, durable>>

\* Mutation: delivered.json is removed before the new file is written.
OpenRemovesOld(s) ==
    /\ at[s] = "open"
    /\ tmp' = Garbage
    /\ disk' = NoFile
    /\ fd' = [fd EXCEPT ![s] = "tmp"]
    /\ at' = [at EXCEPT ![s] = "write"]
    /\ UNCHANGED <<started, stage, mem, snap, setting, acked, durable>>

\* fs::write: the file is created, or truncated if it is there.
OpenTmp(s) ==
    /\ at[s] = "open"
    /\ tmp' = Garbage
    /\ fd' = [fd EXCEPT ![s] = "tmp"]
    /\ at' = [at EXCEPT ![s] = "write"]
    /\ UNCHANGED <<started, stage, mem, disk, snap, setting, acked, durable>>

\* The snapshot goes to the file the descriptor is open on, wherever a rename has
\* moved it.  Written over another whole snapshot it may leave that one's tail.
Overlay(old, new) == IF old = Garbage THEN {new} ELSE {new, Garbage}

WriteTmp(s) ==
    /\ at[s] = "write"
    /\ \/ fd[s] = "tmp" /\ tmp' \in Overlay(tmp, snap[s]) /\ UNCHANGED disk
       \/ fd[s] = "disk" /\ disk' \in Overlay(disk, snap[s]) /\ UNCHANGED tmp
       \/ fd[s] = "gone" /\ UNCHANGED <<tmp, disk>>
    /\ fd' = [fd EXCEPT ![s] = "none"]
    /\ at' = [at EXCEPT ![s] = "rename"]
    /\ UNCHANGED <<started, stage, mem, snap, setting, acked, durable>>

\* fs::rename replaces delivered.json; it fails if another session has renamed the file
\* away.  Descriptors follow the file they are open on.
RenameTmp(s) ==
    /\ at[s] = "rename"
    /\ \/ /\ tmp # NoFile
          /\ disk' = tmp
          /\ tmp' = NoFile
          /\ fd' = [t \in Session |-> CASE fd[t] = "tmp" -> "disk"
                                        [] fd[t] = "disk" -> "gone"
                                        [] OTHER -> fd[t]]
          /\ durable' = durable \cup {setting[s]}
       \/ tmp = NoFile /\ UNCHANGED <<file, durable>>
    /\ at' = [at EXCEPT ![s] = "idle"]
    /\ setting' = [setting EXCEPT ![s] = NoMark]
    /\ snap' = [snap EXCEPT ![s] = Empty]
    /\ UNCHANGED <<started, stage, mem, acked>>

\* An I/O error in any of the three: set warns and returns.
PersistFails(s) ==
    /\ at[s] # "idle"
    /\ at' = [at EXCEPT ![s] = "idle"]
    /\ fd' = [fd EXCEPT ![s] = "none"]
    /\ setting' = [setting EXCEPT ![s] = NoMark]
    /\ snap' = [snap EXCEPT ![s] = Empty]
    /\ UNCHANGED <<started, stage, mem, tmp, disk, acked, durable>>

\* What a process that ends takes with it: whatever was in flight, queued or being
\* written.
Forgotten ==
    /\ stage' = [e \in Event |-> "unseen"]
    /\ at' = [s \in Session |-> "idle"]
    /\ snap' = [s \in Session |-> Empty]
    /\ fd' = [s \in Session |-> "none"]
    /\ setting' = [s \in Session |-> NoMark]

\* The daemon stops or dies at any point and starts again: Marks::load, where an
\* unreadable file is an empty map.
Restart ==
    /\ started' \in (started + 1)..MaxStart
    /\ mem' = IF disk \in Map THEN disk ELSE Empty
    /\ Forgotten
    /\ UNCHANGED <<tmp, disk, acked, durable>>

\* What a running daemon does.
Running ==
    \/ \E e \in Event : Admit(e)
    \/ \E s \in Session :
          \/ \E e \in Event : Set(s, e)
          \/ OpenTmp(s) \/ WriteTmp(s) \/ RenameTmp(s) \/ PersistFails(s)

Next == Running \/ Restart

Spec == Init /\ [][Next]_vars
-----------------------------------------------------------------------------
\* The marks are marks and the files hold a snapshot or are known not to: what load
\* accepts is a map (Marks::load).
TypeOK ==
    /\ started \in Nat
    /\ stage \in [Event -> {"unseen", "Deliver", "AlreadyDelivered", "TooOld", "acked"}]
    /\ mem \in Map
    /\ tmp \in Map \cup {NoFile, Garbage}
    /\ disk \in Map \cup {NoFile, Garbage}
    /\ at \in [Session -> {"idle", "open", "write", "rename"}]
    /\ snap \in [Session -> Map]
    /\ fd \in [Session -> {"none", "tmp", "disk", "gone"}]
    /\ setting \in [Session -> Event \cup {NoMark}]
    /\ acked \in SUBSET Event
    /\ durable \in SUBSET Event

Covers(map, e) ==
    /\ map[RoomOf[e]] # NoMark
    /\ Ts[map[RoomOf[e]]] >= Ts[e]

\* No watermark, in memory or on disk, names a message the session has not
\* acknowledged: one that was only handed over and is lost in a crash must come
\* again with the next run (Daemon::acked, not dispatch, moves the mark).
MarksMeanAcked ==
    \A m \in {mem} \cup ({tmp, disk} \cap Map) :
        \A r \in Room : m[r] # NoMark => m[r] \in acked /\ RoomOf[m[r]] = r

\* "Watermarks only move forward: an attachment delivered after a newer text message
\* must not pull the mark back" (Marks::set): whatever the order of the
\* acknowledgements of a run, the room's mark is not behind any of them.
AckedStaysCovered == \A e \in Event : stage[e] = "acked" => Covers(mem, e)

\* Once set has persisted the mark of an event, the file on disk is readable and its
\* mark of that room is never behind the event again: not after a crash at any
\* point, nor after a failed or a slower, older write ("Watermarks only move
\* forward").
MarksStayOnDisk == \A e \in durable : disk \in Map /\ Covers(disk, e)

\* No message whose mark was persisted is delivered again by a later run, except
\* one sent in the same millisecond as the message the room's mark now names: the
\* verdict tells equal timestamps apart by the mark's event_id alone.
NoRedelivery ==
    [][\A e \in durable : stage[e] = "unseen" /\ stage'[e] = "Deliver" =>
          \E d \in acked \ {e} : RoomOf[d] = RoomOf[e] /\ Ts[d] = Ts[e]]_vars
=============================================================================
