------------------------------ MODULE Registry ------------------------------
(***************************************************************************)
(* Delivery of inbound messages to one session of siltad: the session      *)
(* registry of crates/siltad/src/daemon.rs and the connection handler of   *)
(* crates/siltad/src/server.rs that claims, feeds and releases it.         *)
(*                                                                         *)
(* The registry keeps three maps, each under a mutex of its own, keyed by  *)
(* session name.  Sessions share nothing in them, so the module is about   *)
(* one session: inner, backlog and inflight are the three entries.  The    *)
(* daemon runs on a multi-threaded tokio runtime; one step of the model is *)
(* one critical section (or one await), and everything between two of them *)
(* interleaves.                                                            *)
(*                                                                         *)
(*   task[e]    the handler task of event e: admission has let it through  *)
(*              ("new"), an attachment is in the spool or explained away   *)
(*              ("deliver"), deliver said NotConnected ("enqueue"), the    *)
(*              dispatch is over ("done")                                  *)
(*   pc[c]      where handle() is on connection c, in the order of ConnPc  *)
(*   rx[c]      the receiving end of c's queue: held by handle() ("idle"), *)
(*              by write_loop ("writing"), dropped ("closed"), or not made *)
(*              yet ("none")                                               *)
(*   hand[c]    the backlog items in handle()'s hands, not written yet     *)
(*   back[c]    the in-flight items a dying claim is putting back          *)
(*   sent       the events some connection has written to the plugin       *)
(*   fate[e]    how e ended: "acked", "lost" (logged as permanently lost)  *)
(*   fetched[e] when e's attachment was put into the spool (0: never; the  *)
(*              clock starts at 1)                                         *)
(*                                                                         *)
(* Everything but the spool is memory: a daemon restart is Init again.     *)
(* The plugin is the environment: it may acknowledge on the open           *)
(* connection any event it was ever sent, as often as it likes.            *)
(***************************************************************************)
EXTENDS Backlog, SequencesExt

CONSTANTS
    Conn,            \* slots for concurrent connections that name the session
    NoConn,          \* inner when no connection holds the session
    Media,           \* the events with an attachment
    SessionQueue,    \* SESSION_QUEUE, the capacity of a connection's queue
    LeftoverMaxAge,  \* LEFTOVER_MAX_AGE of the spool sweeper
    Result,          \* the queue's other kind of item: the answer to a command
    MaxNow,          \* bound on the clock
    MaxCommands      \* bound on the commands the plugin sends

ASSUME RegistryAssumption ==
    /\ NoConn \notin Conn
    /\ Media \subseteq Event
    /\ Result \notin Event
    /\ SessionQueue \in Nat \ {0}
    /\ LeftoverMaxAge \in Nat
    /\ MaxNow \in Nat
    /\ MaxCommands \in Nat

VARIABLES
    now, task, inner, pc, rx, queue, hand, back, backlog, inflight,
    sent, fate, spool, fetched, commands

conns == <<pc, rx, queue, hand, back, sent>>
vars == <<now, task, inner, conns, backlog, inflight, fate, spool, fetched, commands>>

ConnPc == {"off", "claimed", "welcomed", "extend", "flush", "live", "reply",
           "leaving", "released", "restore"}

Init ==
    /\ now = 1
    /\ task = [e \in Event |-> "new"]
    /\ inner = NoConn
    /\ pc = [c \in Conn |-> "off"]
    /\ rx = [c \in Conn |-> "none"]
    /\ queue = [c \in Conn |-> <<>>]
    /\ hand = [c \in Conn |-> <<>>]
    /\ back = [c \in Conn |-> <<>>]
    /\ sent = {}
    /\ backlog = <<>>
    /\ inflight = <<>>
    /\ fate = [e \in Event |-> "none"]
    /\ spool = {}
    /\ fetched = [e \in Event |-> 0]
    /\ commands = 0

Goto(c, l) == pc' = [pc EXCEPT ![c] = l]

\* The fates after the items of gone have been evicted or refused.
Losing(gone) == [e \in Event |-> IF e \in gone THEN "lost" ELSE fate[e]]
-----------------------------------------------------------------------------
(* The event handlers of matrix.rs and Daemon::dispatch.                   *)

\* The spawned task downloads the attachment, or gives up and says so in the
\* text: the message goes on either way.
FetchAttachment(e) ==
    /\ task[e] = "new"
    /\ e \in Media
    /\ task' = [task EXCEPT ![e] = "deliver"]
    /\ \/ /\ spool' = spool \cup {e}
          /\ fetched' = [fetched EXCEPT ![e] = now]
       \/ UNCHANGED <<spool, fetched>>
    /\ UNCHANGED <<now, inner, conns, backlog, inflight, fate, commands>>

\* Text is dispatched by the handler itself, media once it was fetched.
Dispatching(e) == task[e] = IF e \in Media THEN "deliver" ELSE "new"

\* The sender deliver finds in inner, while its receiver is still there.
Open(c) == inner = c /\ rx[c] # "closed"

\* Registry::deliver: pushed to in flight and to the queue under both locks,
\* popped again when the queue is full (the event is lost) or its receiver is
\* gone (the backlog takes it).
Deliver(e) ==
    /\ Dispatching(e)
    /\ \/ \E c \in Conn :
             /\ Open(c)
             /\ Len(queue[c]) < SessionQueue
             /\ inflight' = Append(inflight, e)
             /\ queue' = [queue EXCEPT ![c] = Append(@, e)]
             /\ task' = [task EXCEPT ![e] = "done"]
             /\ UNCHANGED fate
       \/ \E c \in Conn :
             /\ Open(c)
             /\ Len(queue[c]) >= SessionQueue
             /\ task' = [task EXCEPT ![e] = "done"]
             /\ fate' = Losing({e})
             /\ UNCHANGED <<inflight, queue>>
       \/ /\ \A c \in Conn : ~Open(c)
          /\ task' = [task EXCEPT ![e] = "enqueue"]
          /\ UNCHANGED <<inflight, queue, fate>>
    /\ UNCHANGED <<now, inner, pc, rx, hand, back, sent, backlog, spool, fetched, commands>>

\* Registry::enqueue, a critical section of its own after deliver gave up.
Enqueue(e) ==
    /\ task[e] = "enqueue"
    /\ task' = [task EXCEPT ![e] = "done"]
    /\ backlog' = push(backlog, e, now)
    /\ fate' = Losing(ToSet(backlog) \ ToSet(backlog'))
    /\ UNCHANGED <<now, inner, conns, inflight, spool, fetched, commands>>
-----------------------------------------------------------------------------
(* server::handle on connection c, past the checks of the handshake.       *)

\* Mutation: a session that is held can be claimed.
ClaimBusy(c) ==
    /\ pc[c] = "off"
    /\ rx[c] \in {"none", "closed"}
    /\ inner' = c
    /\ Goto(c, "claimed")
    /\ rx' = [rx EXCEPT ![c] = "idle"]
    /\ queue' = [queue EXCEPT ![c] = <<>>]
    /\ UNCHANGED <<now, task, hand, back, sent, backlog, inflight, fate, spool, fetched, commands>>

\* Registry::claim; a connection refused with SessionBusy takes no step.
Claim(c) ==
    /\ pc[c] = "off"
    /\ rx[c] \in {"none", "closed"}
    /\ inner = NoConn
    /\ inner' = c
    /\ Goto(c, "claimed")
    /\ rx' = [rx EXCEPT ![c] = "idle"]
    /\ queue' = [queue EXCEPT ![c] = <<>>]
    /\ UNCHANGED <<now, task, hand, back, sent, backlog, inflight, fate, spool, fetched, commands>>

\* The welcome is written, or the write fails and handle returns.
Welcome(c) ==
    /\ pc[c] = "claimed"
    /\ Goto(c, "welcomed") \/ Goto(c, "leaving")
    /\ UNCHANGED <<now, task, inner, rx, queue, hand, back, sent, backlog, inflight,
                   fate, spool, fetched, commands>>

\* take_backlog, first critical section: drain the backlog.
TakeBacklog(c) ==
    /\ pc[c] = "welcomed"
    /\ hand' = [hand EXCEPT ![c] = drain(backlog, now)]
    /\ backlog' = <<>>
    /\ fate' = Losing(ToSet(backlog) \ ToSet(drain(backlog, now)))
    /\ Goto(c, "extend")
    /\ UNCHANGED <<now, task, inner, rx, queue, back, sent, inflight, spool, fetched, commands>>

\* Mutation: what was drained does not become in flight.
ExtendForgets(c) ==
    /\ pc[c] = "extend"
    /\ Goto(c, "flush")
    /\ UNCHANGED <<now, task, inner, rx, queue, hand, back, sent, backlog, inflight, fate,
                   spool, fetched, commands>>

\* take_backlog, second critical section: what was drained is in flight.
ExtendInFlight(c) ==
    /\ pc[c] = "extend"
    /\ inflight' = inflight \o hand[c]
    /\ Goto(c, "flush")
    /\ UNCHANGED <<now, task, inner, rx, queue, hand, back, sent, backlog, fate,
                   spool, fetched, commands>>

\* handle writes the queued events one by one; a failed write ends it.
FlushBacklog(c) ==
    /\ pc[c] = "flush"
    /\ hand[c] # <<>>
    /\ \/ /\ sent' = sent \cup {Head(hand[c])}
          /\ hand' = [hand EXCEPT ![c] = Tail(@)]
          /\ UNCHANGED pc
       \/ /\ Goto(c, "leaving")
          /\ hand' = [hand EXCEPT ![c] = <<>>]
          /\ UNCHANGED sent
    /\ UNCHANGED <<now, task, inner, rx, queue, back, backlog, inflight, fate, spool, fetched, commands>>

\* The writer task is spawned with the receiving end of the queue.
SpawnWriter(c) ==
    /\ pc[c] = "flush"
    /\ hand[c] = <<>>
    /\ Goto(c, "live")
    /\ rx' = [rx EXCEPT ![c] = "writing"]
    /\ UNCHANGED <<now, task, inner, queue, hand, back, sent, backlog, inflight, fate,
                   spool, fetched, commands>>

\* Mutation: the attachment is deleted once it was written to the socket.
WriteDeletes(c) ==
    /\ rx[c] = "writing"
    /\ queue[c] # <<>>
    /\ queue' = [queue EXCEPT ![c] = Tail(@)]
    /\ sent' = sent \cup ({Head(queue[c])} \ {Result})
    /\ spool' = spool \ {Head(queue[c])}
    /\ UNCHANGED <<now, task, inner, pc, rx, hand, back, backlog, inflight, fate, fetched, commands>>

\* write_loop: one item off the queue and onto the socket.
WriteLoop(c) ==
    /\ rx[c] = "writing"
    /\ queue[c] # <<>>
    /\ queue' = [queue EXCEPT ![c] = Tail(@)]
    /\ sent' = sent \cup ({Head(queue[c])} \ {Result})
    /\ UNCHANGED <<now, task, inner, pc, rx, hand, back, backlog, inflight, fate, spool, fetched, commands>>

\* write_loop ends: a write failed, or the abort of a connection that ended
\* its read loop took effect.  The receiver goes, and the queue with it.
WriterEnds(c) ==
    /\ rx[c] = "writing"
    /\ rx' = [rx EXCEPT ![c] = "closed"]
    /\ queue' = [queue EXCEPT ![c] = <<>>]
    /\ UNCHANGED <<now, task, inner, pc, hand, back, sent, backlog, inflight, fate,
                   spool, fetched, commands>>

\* The read loop takes a command and awaits a place for its answer in the
\* queue: nothing else is read from the socket until there is one.
Command(c) ==
    /\ pc[c] = "live"
    /\ commands < MaxCommands
    /\ commands' = commands + 1
    /\ Goto(c, "reply")
    /\ UNCHANGED <<now, task, inner, rx, queue, hand, back, sent, backlog, inflight,
                   fate, spool, fetched>>

SendResult(c) ==
    /\ pc[c] = "reply"
    /\ \/ /\ rx[c] = "writing"
          /\ Len(queue[c]) < SessionQueue
          /\ queue' = [queue EXCEPT ![c] = Append(@, Result)]
          /\ Goto(c, "live")
       \/ /\ rx[c] = "closed"
          /\ Goto(c, "leaving")
          /\ UNCHANGED queue
    /\ UNCHANGED <<now, task, inner, rx, hand, back, sent, backlog, inflight, fate,
                   spool, fetched, commands>>

\* The position Registry::ack removes: the first entry with this event_id.
AckAt(e) == CHOOSE i \in DOMAIN inflight :
    inflight[i] = e /\ \A j \in 1..(i - 1) : inflight[j] # e

\* Mutation: an acknowledged event stays in flight.
AckKeeps(c, e) ==
    /\ pc[c] = "live"
    /\ e \in sent
    /\ e \in ToSet(inflight)
    /\ fate' = [fate EXCEPT ![e] = "acked"]
    /\ spool' = spool \ {e}
    /\ UNCHANGED <<now, task, inner, conns, backlog, inflight, fetched, commands>>

\* The read loop takes an acknowledgement: Registry::ack, then Daemon::acked
\* for an event that was in flight.  (Marks models the watermark it moves.)
Ack(c, e) ==
    /\ pc[c] = "live"
    /\ e \in sent
    /\ e \in ToSet(inflight)
    /\ inflight' = RemoveAt(inflight, AckAt(e))
    /\ fate' = [fate EXCEPT ![e] = "acked"]
    /\ spool' = spool \ {e}
    /\ UNCHANGED <<now, task, inner, conns, backlog, fetched, commands>>

\* The read loop breaks: the plugin closed, a bad line, the daemon stops, or
\* the writer is gone.
ReadLoopEnds(c) ==
    /\ pc[c] = "live"
    /\ Goto(c, "leaving")
    /\ UNCHANGED <<now, task, inner, rx, queue, hand, back, sent, backlog, inflight,
                   fate, spool, fetched, commands>>

\* Claim::drop, first critical section: the name is free.
ReleaseName(c) ==
    /\ pc[c] = "leaving"
    /\ inner' = NoConn
    /\ Goto(c, "released")
    /\ UNCHANGED <<now, task, rx, queue, hand, back, sent, backlog, inflight, fate,
                   spool, fetched, commands>>

\* Claim::drop, restore: take the session's in-flight list, ...
TakeInFlight(c) ==
    /\ pc[c] = "released"
    /\ back' = [back EXCEPT ![c] = inflight]
    /\ inflight' = <<>>
    /\ Goto(c, "restore")
    /\ UNCHANGED <<now, task, inner, rx, queue, hand, sent, backlog, fate, spool,
                   fetched, commands>>

\* Mutation: the in-flight events of a dead connection are not kept.
RestoreForgets(c) ==
    /\ pc[c] = "restore"
    /\ back' = [back EXCEPT ![c] = <<>>]
    /\ rx' = [rx EXCEPT ![c] = IF @ = "idle" THEN "closed" ELSE @]
    /\ queue' = [queue EXCEPT ![c] = IF rx[c] = "idle" THEN <<>> ELSE @]
    /\ Goto(c, "off")
    /\ UNCHANGED <<now, task, inner, hand, sent, backlog, inflight, fate, spool, fetched, commands>>

\* ... and put it in front of the backlog.  handle is over; a receiver no
\* writer took is dropped.
RestoreBacklog(c) ==
    /\ pc[c] = "restore"
    /\ backlog' = IF back[c] = <<>> THEN backlog ELSE restore(backlog, back[c], now)
    /\ fate' = Losing((ToSet(backlog) \cup ToSet(back[c])) \ ToSet(backlog'))
    /\ back' = [back EXCEPT ![c] = <<>>]
    /\ rx' = [rx EXCEPT ![c] = IF @ = "idle" THEN "closed" ELSE @]
    /\ queue' = [queue EXCEPT ![c] = IF rx[c] = "idle" THEN <<>> ELSE @]
    /\ Goto(c, "off")
    /\ UNCHANGED <<now, task, inner, hand, sent, inflight, spool, fetched, commands>>
-----------------------------------------------------------------------------
\* The sweeper of spool.rs removes files older than a day.
Sweep ==
    /\ \E e \in spool : now - fetched[e] > LeftoverMaxAge
    /\ spool' = {e \in spool : now - fetched[e] <= LeftoverMaxAge}
    /\ UNCHANGED <<now, task, inner, conns, backlog, inflight, fate, fetched, commands>>

Tick ==
    /\ now < MaxNow
    /\ now' = now + 1
    /\ UNCHANGED <<task, inner, conns, backlog, inflight, fate, spool, fetched, commands>>

Dispatcher(e) == FetchAttachment(e) \/ Deliver(e) \/ Enqueue(e)

\* The steps handle() takes by itself, whatever the plugin does.
Handler(c) ==
    \/ TakeBacklog(c) \/ ExtendInFlight(c) \/ SpawnWriter(c)
    \/ SendResult(c) \/ ReleaseName(c) \/ TakeInFlight(c) \/ RestoreBacklog(c)

\* The steps that depend on the other end of the socket.
Socket(c) ==
    \/ Claim(c) \/ Welcome(c) \/ FlushBacklog(c) \/ WriteLoop(c) \/ WriterEnds(c)
    \/ Command(c) \/ ReadLoopEnds(c) \/ \E e \in Event : Ack(c, e)

Next ==
    \/ \E e \in Event : Dispatcher(e)
    \/ \E c \in Conn : Handler(c) \/ Socket(c)
    \/ Sweep
    \/ Tick

Spec == Init /\ [][Next]_vars
-----------------------------------------------------------------------------
(* Safety.                                                                 *)

\* The registry's maps, the handlers' and the spool hold what their types say; in
\* particular the spool holds attachments of media messages only.
TypeOK ==
    /\ now \in Nat
    /\ task \in [Event -> {"new", "deliver", "enqueue", "done"}]
    /\ inner \in Conn \cup {NoConn}
    /\ pc \in [Conn -> ConnPc]
    /\ rx \in [Conn -> {"none", "idle", "writing", "closed"}]
    /\ queue \in [Conn -> Seq(Event \cup {Result})]
    /\ hand \in [Conn -> Seq(Event)]
    /\ back \in [Conn -> Seq(Event)]
    /\ backlog \in Seq(Event)
    /\ inflight \in Seq(Event)
    /\ sent \in SUBSET Event
    /\ fate \in [Event -> {"none", "acked", "lost"}]
    /\ spool \in SUBSET Media
    /\ fetched \in [Event -> Nat]
    /\ commands \in Nat

\* A connection holds the session from Claim to ReleaseName.
Owning == {"claimed", "welcomed", "extend", "flush", "live", "reply", "leaving"}

\* The session is claimed by at most one connection, and the registry's entry is
\* that connection's queue: however claims and releases interleave, no handler
\* works on a session that another one holds (Registry::claim, Claim::drop).
OneOwner == \A c \in Conn : pc[c] \in Owning <=> inner = c

\* The five places a dispatched event can be in.  hand[c] is a place only between
\* the two critical sections of take_backlog: from then on it is in flight.
Drained == UNION {ToSet(hand[c]) : c \in {d \in Conn : pc[d] = "extend"}}
PuttingBack == UNION {ToSet(back[c]) : c \in Conn}
Settled == {e \in Event : fate[e] # "none"}

\* No event vanishes: once its dispatch is over, an event waits in the backlog, is
\* in flight, is in the hands of a handler moving it between the two, was
\* acknowledged, or was logged as permanently lost.  The registry moves events
\* between its maps with no lock held in between, so every move could drop one.
NothingVanishes ==
    \A e \in Event : task[e] = "done" =>
        e \in ToSet(backlog) \cup ToSet(inflight) \cup Drained \cup PuttingBack \cup Settled

\* And it is in one place only, once: no event is both waiting and in flight, and
\* none that was acknowledged or given up is kept for another delivery.
OnePlace ==
    /\ IsInjective(backlog) /\ IsInjective(inflight)
    /\ \A c \in Conn : IsInjective(hand[c]) /\ IsInjective(back[c])
    /\ \A c, d \in Conn : c # d => ToSet(back[c]) \cap ToSet(back[d]) = {}
    /\ ToSet(backlog) \cap (ToSet(inflight) \cup Drained \cup PuttingBack \cup Settled) = {}
    /\ ToSet(inflight) \cap (Drained \cup PuttingBack \cup Settled) = {}
    /\ Drained \cap (PuttingBack \cup Settled) = {}
    /\ PuttingBack \cap Settled = {}
    /\ \A e \in Event : task[e] # "done" =>
          e \notin ToSet(backlog) \cup ToSet(inflight) \cup Drained \cup PuttingBack \cup Settled

\* However deliveries, restores and answers interleave, neither queue outgrows its
\* limit: BACKLOG_MAX waiting messages, SESSION_QUEUE items to a connection.
WithinLimits ==
    /\ Len(backlog) <= Capacity
    /\ \A c \in Conn : Len(queue[c]) <= SessionQueue

\* An attachment outlives every delivery of its event: the file stays in the spool
\* while the event can still be delivered (again), unless the daily sweep took it
\* for a leftover (write_event, Daemon::acked, spool::sweep).
SpoolKept ==
    \A e \in Event :
        /\ fetched[e] > 0
        /\ e \in ToSet(backlog) \cup ToSet(inflight) \cup Drained \cup PuttingBack
        /\ e \notin spool
        => now - fetched[e] > LeftoverMaxAge

\* A message is given up only at a limit: its age, a full backlog or a full
\* outbound queue.
LostOnlyAtALimit ==
    [][\A e \in Event : fate[e] # "lost" /\ fate'[e] = "lost" =>
          \/ Expired(e, now)
          \/ Len(backlog') >= Capacity
          \/ \E c \in Conn : Open(c) /\ Len(queue[c]) >= SessionQueue]_vars
-----------------------------------------------------------------------------
(* The refinement: what a session may rely on, whatever happens inside.    *)

\* The places deliveries are made from.
Kept == ToSet(backlog) \cup ToSet(inflight) \cup Drained \cup PuttingBack

Promise == INSTANCE Delivery WITH
    kept <- Kept,
    acked <- {e \in Event : fate[e] = "acked"},
    lost <- {e \in Event : fate[e] = "lost"},
    given <- sent

\* The registry implements Delivery: through every interleaving of dispatch, claim,
\* flush and restore an event that was taken on stays deliverable until it is
\* acknowledged or given up, neither is ever undone, nothing is acknowledged that no
\* connection wrote, and no connection writes what was not taken on first.
ImplementsDelivery == Promise!Spec
-----------------------------------------------------------------------------
(* What a comment of the code says and its interleavings do not keep.      *)

\* "Keep a message for a session that is away" (daemon.rs, enqueue): nothing waits
\* in the backlog of a session whose connection has already flushed it.
WaitsOnlyWhileAway == \A c \in Conn : pc[c] = "live" => backlog = <<>>
-----------------------------------------------------------------------------
(* Liveness.  The runtime schedules every task, so handlers and dispatches *)
(* finish what they can.  Of the plugin it is assumed that it reads its    *)
(* socket, reconnects after its backoff, acknowledges in the end what it   *)
(* is sent again and again, and that a session is restarted now and then   *)
(* (its rotations see to that).                                            *)

Welcomes(c) == Welcome(c) /\ pc'[c] = "welcomed"

\* From some time on no connection breaks while it is being handed the backlog,
\* and none claims the session while the claim before it is still being undone
\* (the plugin waits at least a second before it reconnects).
Calm ==
    <>[][\A c \in Conn :
            /\ pc[c] = "flush" => pc'[c] # "leaving"
            /\ pc[c] = "off" /\ pc'[c] = "claimed" =>
                  \A d \in Conn \ {c} : pc[d] = "off"]_vars

Fairness ==
    /\ \A e \in Event : WF_vars(Dispatcher(e))
    /\ \A c \in Conn :
          /\ WF_vars(Handler(c))
          /\ WF_vars(Claim(c))
          /\ WF_vars(WriteLoop(c))
          /\ SF_vars(Welcomes(c))
          /\ WF_vars(FlushBacklog(c))
          /\ SF_vars(ReadLoopEnds(c))
          /\ WF_vars(WriterEnds(c) /\ pc[c] \notin {"live", "reply"})
    /\ \A e \in Event : SF_vars(\E c \in Conn : Ack(c, e))

FairSpec == Spec /\ Fairness

\* As long as the session keeps coming back, every message dispatched to it is
\* acknowledged or given up in the end, whichever races stranded it or handed it
\* out twice on the way.
EventuallySettled ==
    Calm => \A e \in Event : task[e] = "done" ~> fate[e] # "none"
=============================================================================
