-------------------------------- MODULE Link --------------------------------
(***************************************************************************)
(* One session's plugin and the connection handler it talks to: tool calls *)
(* submitted to the plugin's connection task (silta-claude/src/daemon.rs), *)
(* the two directions of the socket, the read loop and the writer of       *)
(* siltad/src/server.rs, and the files streamed for send_file              *)
(* (silta/src/transfer.rs).                                                *)
(*                                                                         *)
(* A line on the socket is one message.  A file is a sequence of chunks,   *)
(* each named by the call that sent it.  What an executed command does in  *)
(* Matrix is a success or a failure.  An event from the daemon may have an *)
(* attachment, of one chunk, streamed from the spool before the event      *)
(* line and kept in the plugin's inbox under a path made from its transfer *)
(* id, so the same one at every delivery.  Limits on the events that wait  *)
(* are the subject of Registry.                                            *)
(***************************************************************************)
EXTENDS Integers, Sequences, FiniteSets

LOCAL INSTANCE TLC

CONSTANTS
    Calls,          \* tool calls, each made once
    none,
    TxCap,          \* the channel of the connection task (32)
    EventsCap,      \* the channel of the notification pump (256)
    QueueCap,       \* SESSION_QUEUE of the daemon
    WireCap,        \* lines a direction of the socket holds
    Sizes,          \* chunks of a file when its call is made
    MaxSize,        \* and at most when it is streamed
    MaxBytes,       \* chunks of the largest file the daemon takes
    MaxStops,       \* bound: ends of either process
    MaxEvents       \* events for the session

ASSUME LinkAssumption ==
    /\ IsFiniteSet(Calls)
    /\ {TxCap, EventsCap, QueueCap, WireCap} \subseteq Nat \ {0}
    /\ Sizes \subseteq Nat
    /\ {MaxSize, MaxBytes, MaxStops, MaxEvents} \subseteq Nat

VARIABLES
    call,       \* per call: "new", "sending" (waits for room in tx), "waiting", or how
                \* it returned: "ok", "refused", "local", "unsent", "lost", "timeout",
                \* "gone" (with its process)
    size,       \* per call: none, or for send_file the size in its header, taken
                \* when the call is made
    media,      \* the events with an attachment
    tx,         \* the connection task's channel: calls and acknowledgements
    serve,      \* the connection task: "start", "down", "select", "write", "deliver"
    out,        \* the lines it is writing, or the event it is delivering
    cur,        \* the call they are for
    pending,    \* id -> call that waits for the result of this id
    nextId,
    evs,        \* events in the pump's channel, each with its attachment's path or not
    inbox,      \* per event: the chunks in its attachment's file, or none
    receiving,  \* Receiver.open: the events whose attachment is being received
    paths,      \* `received`: the attachments that wait for their event
    handed,     \* events the model was told with the path of their attachment
    pump,       \* none, or the acknowledgement it waits to send
    up, down,   \* the socket, to the daemon and to the plugin
    pEnd, dEnd, \* its ends, open or closed
    handler,    \* "none", "flush", "read", "exec", "result", "cleanup"
    job,        \* the command or the result in its hands
    writer,     \* its writer task is alive
    flushing,   \* events taken from the backlog and not written yet
    dout,       \* the lines being written to the plugin
    queue,      \* the outbound queue
    open,       \* Receiver.open: id -> [size, got]
    received,   \* ids of the files that wait for their command
    failed,     \* ids of the transfers that failed
    cleanup,    \* files the ended handler still has to delete
    disk,       \* the spool's outbox: id -> chunks
    orphans,    \* files that a daemon's crash left there
    backlog, inflight, \* events waiting, and handed over and not acknowledged
    acked,      \* events acknowledged
    seen,       \* events the daemon got from Matrix in this run, or in an earlier one
                \* whose watermark covers them
    stale,      \* events acknowledged for a delivery over an earlier connection
    verdict,    \* per call: what the daemon decided, "ok", "err" or none
    ran,        \* per call: how often it was executed
    stops

plugin == <<call, size, media, tx, serve, out, cur, pending, nextId, evs, pump>>
files == <<inbox, receiving, paths, handed>>
socket == <<up, down, pEnd, dEnd>>
spool == <<open, received, failed, cleanup, disk, orphans>>
waiting == <<backlog, inflight, acked, seen, stale>>
daemon == <<handler, job, writer, flushing, dout, queue, waiting>>
results == <<verdict, ran>>
bounds == stops
vars == <<plugin, files, socket, spool, daemon, results, bounds>>

(***************************************************************************)
(* The numbers a connection gives its commands, from 1 again on every      *)
(* connection; a file's transfer is named after its command's.             *)
(***************************************************************************)
Ids == 1..Cardinality(Calls)

Events == 1..MaxEvents

(***************************************************************************)
(* old: of a delivery over an earlier connection, which nobody can tell.   *)
(***************************************************************************)
Acks == [k : {"ack"}, ev : Events, old : BOOLEAN]
Inbounds == [k : {"inbound"}, ev : Events, path : BOOLEAN, old : BOOLEAN]
ack(e, old) == [k |-> "ack", ev |-> e, old |-> old]
inbound(e, path) == [k |-> "inbound", ev |-> e, path |-> path, old |-> FALSE]
cmd(id, c) == [k |-> "cmd", id |-> id, call |-> c]
file(id, n) == [k |-> "file", id |-> id, size |-> n]
chunk(id, c) == [k |-> "chunk", id |-> id, call |-> c]
file_end(id) == [k |-> "end", id |-> id]
piece(p, e) == [k |-> p, ev |-> e]
event(e) == [k |-> "event", ev |-> e]
result(id, ok) == [k |-> "result", id |-> id, ok |-> ok]

Transfers == {o \in [size : 0..MaxBytes, got : Nat] : o.got <= o.size}

(***************************************************************************)
(* A call is not taken for an acknowledgement, and none for no value.      *)
(***************************************************************************)
ASSUME KindsApart ==
    /\ \A x \in Calls \cup {none} : x \notin Acks \cup Inbounds
    /\ none \notin Calls \cup Transfers \cup {"ok", "err"}
    /\ none \notin Seq(Calls)

Whole(c) == [i \in 1..size[c] |-> c]

Init ==
    /\ call = [c \in Calls |-> "new"]
    /\ size \in [Calls -> {none} \cup Sizes]
    /\ media \in SUBSET Events
    /\ tx = <<>> /\ serve = "start" /\ out = <<>> /\ cur = none
    /\ pending = [i \in Ids |-> none] /\ nextId = 1
    /\ evs = <<>> /\ pump = none
    /\ inbox = [e \in Events |-> none] /\ receiving = {}
    /\ paths = {} /\ handed = {}
    /\ up = <<>> /\ down = <<>> /\ pEnd = FALSE /\ dEnd = FALSE
    /\ handler = "none" /\ job = none /\ writer = FALSE
    /\ flushing = {} /\ dout = <<>> /\ queue = <<>>
    /\ open = [i \in Ids |-> none] /\ received = {} /\ failed = {}
    /\ cleanup = {} /\ disk = [i \in Ids |-> none] /\ orphans = {}
    /\ backlog = {} /\ inflight = {} /\ acked = {} /\ seen = {} /\ stale = {}
    /\ verdict = [c \in Calls |-> none] /\ ran = [c \in Calls |-> 0]
    /\ stops = 0

----------------------------------------------------------------------------
(* The plugin. *)

(***************************************************************************)
(* A oneshot answers its call if the call still waits.                     *)
(***************************************************************************)
Resolved(C, r) ==
    [c \in Calls |-> IF c \in C /\ call[c] = "waiting" THEN r ELSE call[c]]

SendsFile(c) == size[c] # none

Pending == {c \in Calls : \E i \in Ids : pending[i] = c}

(***************************************************************************)
(* submit: into tx, or waiting for room there, for which there is no       *)
(* timeout.  send_file looks at the file first.                            *)
(***************************************************************************)
Submit(c) ==
    /\ call[c] = "new"
    /\ \/ IF Len(tx) < TxCap
          THEN call' = [call EXCEPT ![c] = "waiting"] /\ tx' = Append(tx, c)
          ELSE call' = [call EXCEPT ![c] = "sending"] /\ UNCHANGED tx
       \/ /\ SendsFile(c)                         \* not a regular file
          /\ call' = [call EXCEPT ![c] = "local"]
          /\ UNCHANGED tx
    /\ UNCHANGED <<size, media, serve, out, cur, pending, nextId, evs, pump>>
    /\ UNCHANGED <<files, socket, spool, daemon, results, bounds>>

EnterTx(c) ==
    /\ call[c] = "sending" /\ Len(tx) < TxCap
    /\ tx' = Append(tx, c)
    /\ call' = [call EXCEPT ![c] = "waiting"]
    /\ UNCHANGED <<size, media, serve, out, cur, pending, nextId, evs, pump>>
    /\ UNCHANGED <<files, socket, spool, daemon, results, bounds>>

TimeOut(c) ==
    /\ call[c] = "waiting"
    /\ call' = [call EXCEPT ![c] = "timeout"]
    /\ UNCHANGED <<size, media, tx, serve, out, cur, pending, nextId, evs, pump>>
    /\ UNCHANGED <<files, socket, spool, daemon, results, bounds>>

(***************************************************************************)
(* write_event: the attachment from the spool, a header and the data with  *)
(* its end, unless it is gone from there, then the event.                  *)
(***************************************************************************)
EventLines(e, gone) ==
    IF gone \/ e \notin media THEN <<event(e)>>
    ELSE <<piece("in_file", e), piece("in_data", e), event(e)>>

(***************************************************************************)
(* Mutation: the daemon frees the session's name before it has deleted the *)
(* files of the connection.                                                *)
(***************************************************************************)
ConnectEarly ==
    /\ serve \in {"start", "down"} /\ handler \in {"none", "cleanup"}
    /\ serve' = "select" /\ nextId' = 1
    /\ up' = <<>> /\ down' = <<>> /\ pEnd' = TRUE /\ dEnd' = TRUE
    /\ handler' = "flush"
    /\ flushing' = backlog
    /\ inflight' = inflight \cup backlog /\ backlog' = {}
    /\ UNCHANGED <<call, size, media, tx, out, cur, pending, evs, pump, files>>
    /\ UNCHANGED <<job, writer, dout, queue, acked, seen, stale, spool, results, bounds>>

(***************************************************************************)
(* connect, and the handler's claim, welcome and take_backlog.  While a    *)
(* handler holds the session the attempt is refused as session_busy, and   *)
(* the plugin is where it was.                                             *)
(***************************************************************************)
Connect ==
    /\ serve \in {"start", "down"} /\ handler = "none"
    /\ serve' = "select" /\ nextId' = 1
    /\ up' = <<>> /\ down' = <<>> /\ pEnd' = TRUE /\ dEnd' = TRUE
    /\ handler' = "flush"
    /\ flushing' = backlog
    /\ inflight' = inflight \cup backlog /\ backlog' = {}
    /\ UNCHANGED <<call, size, media, tx, out, cur, pending, evs, pump, files>>
    /\ UNCHANGED <<job, writer, dout, queue, acked, seen, stale, spool, results, bounds>>

(***************************************************************************)
(* Only the wait after a failed attempt, or after a connection, looks into *)
(* tx: before the first attempt commands stay there.                       *)
(***************************************************************************)
ConnectFails ==
    /\ serve = "start"
    /\ serve' = "down"
    /\ UNCHANGED <<call, size, media, tx, out, cur, pending, nextId, evs, pump>>
    /\ UNCHANGED <<files, socket, spool, daemon, results, bounds>>

FailFast ==
    /\ serve = "down" /\ tx # <<>>
    /\ tx' = Tail(tx)
    /\ call' = IF Head(tx) \notin Calls THEN call ELSE Resolved({Head(tx)}, "unsent")
    /\ UNCHANGED <<size, media, serve, out, cur, pending, nextId, evs, pump>>
    /\ UNCHANGED <<files, socket, spool, daemon, results, bounds>>

(***************************************************************************)
(* The lines of a command.  A file is read when it is streamed, and has    *)
(* then the size it has then, whatever its header says.                    *)
(***************************************************************************)
Stream(c, n) ==
    <<file(nextId, size[c])>> \o [i \in 1..n |-> chunk(nextId, c)]
        \o <<file_end(nextId), cmd(nextId, c)>>

ServeTake ==
    /\ serve = "select" /\ tx # <<>>
    /\ tx' = Tail(tx)
    /\ \/ /\ Head(tx) \notin Calls
          /\ out' = <<Head(tx)>> /\ cur' = none /\ serve' = "write"
          /\ UNCHANGED <<call, nextId>>
       \/ /\ Head(tx) \in Calls
          /\ nextId' = nextId + 1
          /\ \/ /\ ~SendsFile(Head(tx))
                /\ out' = <<cmd(nextId, Head(tx))>>
                /\ cur' = Head(tx) /\ serve' = "write"
                /\ UNCHANGED call
             \/ /\ SendsFile(Head(tx))
                /\ \E n \in 0..MaxSize : out' = Stream(Head(tx), n)
                /\ cur' = Head(tx) /\ serve' = "write"
                /\ UNCHANGED call
             \/ /\ SendsFile(Head(tx))         \* is_local: gone by now
                /\ call' = Resolved({Head(tx)}, "local")
                /\ UNCHANGED <<out, cur, serve>>
    /\ UNCHANGED <<size, media, pending, evs, pump>>
    /\ UNCHANGED <<files, socket, spool, daemon, results, bounds>>

(***************************************************************************)
(* Mutation: the waiting call is entered under the next command's number.  *)
(***************************************************************************)
ServeWriteOffByOne ==
    /\ serve = "write" /\ dEnd /\ Len(up) < WireCap
    /\ up' = Append(up, Head(out))
    /\ out' = Tail(out)
    /\ IF Len(out) > 1
       THEN UNCHANGED <<serve, pending, cur>>
       ELSE /\ serve' = "select" /\ cur' = none
            /\ pending' = IF cur = none THEN pending
                          ELSE [pending EXCEPT ![nextId] = cur]
    /\ UNCHANGED <<call, size, media, tx, nextId, evs, pump>>
    /\ UNCHANGED <<files, down, pEnd, dEnd, spool, daemon, results, bounds>>

(***************************************************************************)
(* A line of a command or an acknowledgement.  The call waits for its      *)
(* result from the last line on, and serve reads nothing before that.      *)
(***************************************************************************)
ServeWrite ==
    /\ serve = "write" /\ dEnd /\ Len(up) < WireCap
    /\ up' = Append(up, Head(out))
    /\ out' = Tail(out)
    /\ IF Len(out) > 1
       THEN UNCHANGED <<serve, pending, cur>>
       ELSE /\ serve' = "select" /\ cur' = none
            /\ pending' = IF cur = none THEN pending
                          ELSE [pending EXCEPT ![Head(out).id] = cur]
    /\ UNCHANGED <<call, size, media, tx, nextId, evs, pump>>
    /\ UNCHANGED <<files, down, pEnd, dEnd, spool, daemon, results, bounds>>

(***************************************************************************)
(* What is left of an earlier delivery when a connection ends: its         *)
(* acknowledgement still comes.                                            *)
(***************************************************************************)
Aged(x) == IF x \in Calls \cup {none} THEN x ELSE [x EXCEPT !.old = TRUE]

(***************************************************************************)
(* abort_all deletes the files that are being received.                    *)
(***************************************************************************)
Aborted ==
    /\ out' = <<>> /\ cur' = none /\ serve' = "down"
    /\ pEnd' = FALSE /\ down' = <<>>
    /\ evs' = [i \in 1..Len(evs) |-> Aged(evs[i])] /\ pump' = Aged(pump)
    /\ inbox' = [e \in Events |-> IF e \in receiving THEN none ELSE inbox[e]]
    /\ receiving' = {} /\ paths' = {}
    /\ UNCHANGED handed

(***************************************************************************)
(* Mutation: the calls without an answer are kept for the next connection, *)
(* whose numbers start again.                                              *)
(***************************************************************************)
EndServeKeepsPending ==
    /\ call' = Resolved({cur} \ {none}, "lost")
    /\ pending' = pending
    /\ tx' = [i \in 1..Len(tx) |-> Aged(tx[i])]
    /\ Aborted

(***************************************************************************)
(* Mutation: the calls without an answer are sent again on the next        *)
(* connection.                                                             *)
(***************************************************************************)
EndServeRetries ==
    /\ call' = call
    /\ tx' = IF \E i \in Ids : pending[i] # none
             THEN <<pending[CHOOSE i \in Ids : pending[i] # none]>> \o tx
             ELSE tx
    /\ pending' = [i \in Ids |-> none]
    /\ Aborted

(***************************************************************************)
(* The end of serve: whoever waits for a result is told that the           *)
(* connection is lost.                                                     *)
(***************************************************************************)
EndServe ==
    /\ call' = Resolved((Pending \cup {cur}) \ {none}, "lost")
    /\ pending' = [i \in Ids |-> none]
    /\ tx' = [i \in 1..Len(tx) |-> Aged(tx[i])]
    /\ Aborted

ServeWriteFails ==
    /\ serve = "write" /\ ~dEnd
    /\ EndServe
    /\ UNCHANGED <<size, media, nextId>>
    /\ UNCHANGED <<up, dEnd, spool, daemon, results, bounds>>

(***************************************************************************)
(* The file cannot be opened or read to its end, for a reason that is not  *)
(* is_local: the connection is given up with the transfer half way.        *)
(***************************************************************************)
ServeFileFails ==
    /\ serve = "write" /\ cur # none
    /\ SendsFile(cur) /\ Head(out).k # "cmd"
    /\ EndServe
    /\ UNCHANGED <<size, media, nextId>>
    /\ UNCHANGED <<up, dEnd, spool, daemon, results, bounds>>

ServeEof ==
    /\ serve = "select" /\ down = <<>> /\ ~dEnd
    /\ EndServe
    /\ UNCHANGED <<size, media, nextId>>
    /\ UNCHANGED <<up, dEnd, spool, daemon, results, bounds>>

(***************************************************************************)
(* The attachment's transfer.  begin truncates a file that an earlier      *)
(* delivery left.                                                          *)
(***************************************************************************)
ReceiveHeader(e) ==
    /\ receiving' = receiving \cup {e}
    /\ inbox' = [inbox EXCEPT ![e] = 0]
    /\ UNCHANGED paths

(***************************************************************************)
(* Mutation: the end of a transfer that failed counts as its arrival.      *)
(***************************************************************************)
ReceiveDataAnyway(e) ==
    /\ receiving' = receiving \ {e}
    /\ inbox' \in {[inbox EXCEPT ![e] = 1], [inbox EXCEPT ![e] = none]}
    /\ paths' = paths \cup {e}

(***************************************************************************)
(* Its chunks and its end.  A failed write is logged and deletes the file, *)
(* and what follows is of an unknown transfer.                             *)
(***************************************************************************)
ReceiveData(e) ==
    /\ receiving' = receiving \ {e}
    /\ \/ inbox' = [inbox EXCEPT ![e] = 1] /\ paths' = paths \cup {e}
       \/ inbox' = [inbox EXCEPT ![e] = none] /\ UNCHANGED paths

ServeRead ==
    /\ serve = "select" /\ down # <<>>
    /\ down' = Tail(down)
    /\ LET line == Head(down) IN
       \/ /\ \/ line.k = "in_file" /\ ReceiveHeader(line.ev)
             \/ line.k = "in_data" /\ ReceiveData(line.ev)
          /\ UNCHANGED <<call, pending, serve, out>>
       \/ /\ line.k = "event"
          /\ serve' = "deliver" /\ out' = <<inbound(line.ev, line.ev \in paths)>>
          /\ paths' = paths \ {line.ev}
          /\ UNCHANGED <<call, pending, receiving, inbox>>
       \/ /\ line.k = "result"
          /\ call' = Resolved({pending[line.id]} \ {none},
                              IF line.ok THEN "ok" ELSE "refused")
          /\ pending' = [pending EXCEPT ![line.id] = none]
          /\ UNCHANGED <<serve, out, receiving, inbox, paths>>
    /\ UNCHANGED <<size, media, tx, cur, nextId, evs, pump, handed>>
    /\ UNCHANGED <<up, pEnd, dEnd, spool, daemon, results, bounds>>

Deliver ==
    /\ serve = "deliver" /\ Len(evs) < EventsCap
    /\ evs' = Append(evs, Head(out)) /\ out' = <<>> /\ serve' = "select"
    /\ UNCHANGED <<call, size, media, tx, cur, pending, nextId, pump>>
    /\ UNCHANGED <<files, socket, spool, daemon, results, bounds>>

(***************************************************************************)
(* The pump hands an event to the model, with the path of its attachment   *)
(* or the word that it was not received, and acknowledges it.              *)
(***************************************************************************)
Notify ==
    /\ pump = none /\ evs # <<>>
    /\ evs' = Tail(evs)
    /\ LET it == Head(evs)  a == ack(it.ev, it.old) IN
       /\ handed' = IF it.path THEN handed \cup {it.ev} ELSE handed \ {it.ev}
       /\ IF Len(tx) < TxCap
          THEN tx' = Append(tx, a) /\ UNCHANGED pump
          ELSE pump' = a /\ UNCHANGED tx
    /\ UNCHANGED <<call, size, media, serve, out, cur, pending, nextId, inbox, receiving, paths>>
    /\ UNCHANGED <<socket, spool, daemon, results, bounds>>

PumpAck ==
    /\ pump # none /\ Len(tx) < TxCap
    /\ tx' = Append(tx, pump) /\ pump' = none
    /\ UNCHANGED <<call, size, media, serve, out, cur, pending, nextId, evs>>
    /\ UNCHANGED <<files, socket, spool, daemon, results, bounds>>

(***************************************************************************)
(* The session's process ends, as at every rotation, and another starts.   *)
(***************************************************************************)
PluginStops ==
    /\ serve # "start" /\ stops < MaxStops
    /\ stops' = stops + 1
    /\ call' = [c \in Calls |->
                   IF call[c] \in {"sending", "waiting"} THEN "gone" ELSE call[c]]
    /\ tx' = <<>> /\ serve' = "start" /\ out' = <<>> /\ cur' = none
    /\ pending' = [i \in Ids |-> none] /\ nextId' = 1
    /\ evs' = <<>> /\ pump' = none /\ pEnd' = FALSE /\ down' = <<>>
    /\ \/ inbox' = [e \in Events |-> IF e \in receiving THEN none ELSE inbox[e]]
       \/ UNCHANGED inbox                  \* killed
    /\ receiving' = {} /\ paths' = {}
    /\ UNCHANGED <<size, media, handed, up, dEnd, spool, daemon, results>>

----------------------------------------------------------------------------
(* The receiving side of a transfer. *)

Discard(id) ==
    /\ open' = [open EXCEPT ![id] = none]
    /\ disk' = [disk EXCEPT ![id] = none]

(***************************************************************************)
(* The byte count at the end of a transfer is not the declared one.        *)
(***************************************************************************)
EndsWrong(id) == open[id].got # open[id].size

(***************************************************************************)
(* A chunk goes to the open file, which has no name any more if someone    *)
(* deleted it.                                                             *)
(***************************************************************************)
Written(content, c) == IF content = none THEN none ELSE Append(content, c)

Begin(id, n) ==
    \/ /\ open[id] = none /\ n <= MaxBytes
       /\ open' = [open EXCEPT ![id] = [size |-> n, got |-> 0]]
       /\ disk' = [disk EXCEPT ![id] = <<>>]
       /\ orphans' = orphans \ {id}
       /\ UNCHANGED failed
    \/ /\ failed' = failed \cup {id}        \* Duplicate, TooLarge, or an I/O error
       /\ UNCHANGED <<open, disk, orphans>>

Chunk(id, c) ==
    /\ UNCHANGED orphans
    /\ \/ /\ open[id] = none                \* Unknown: after a failure
          /\ failed' = failed \cup {id}
          /\ UNCHANGED <<open, disk>>
       \/ /\ open[id] # none /\ open[id].got < open[id].size
          /\ open' = [open EXCEPT ![id].got = @ + 1]
          /\ disk' = [disk EXCEPT ![id] = Written(@, c)]
          /\ UNCHANGED failed
       \/ /\ open[id] # none                \* SizeMismatch, or the write failed
          /\ Discard(id)
          /\ failed' = failed \cup {id}

End(id) ==
    /\ UNCHANGED orphans
    /\ open' = [open EXCEPT ![id] = none]
    /\ \/ /\ open[id] = none
          /\ failed' = failed \cup {id}
          /\ UNCHANGED <<disk, received>>
       \/ /\ open[id] # none /\ ~EndsWrong(id)
          /\ received' = received \cup {id}
          /\ UNCHANGED <<disk, failed>>
       \/ /\ open[id] # none                \* SizeMismatch, or the flush failed
          /\ disk' = [disk EXCEPT ![id] = none]
          /\ failed' = failed \cup {id}
          /\ UNCHANGED received

----------------------------------------------------------------------------
(* The daemon. *)

Claimed == handler \in {"flush", "read", "exec", "result"}

(***************************************************************************)
(* dispatch: into the connection's queue, lost if that is full, into the   *)
(* backlog if there is no connection.                                      *)
(***************************************************************************)
Dispatch(e) ==
    /\ e \notin seen
    /\ seen' = seen \cup {e}
    /\ \/ /\ Claimed /\ Len(queue) < QueueCap
          /\ queue' = Append(queue, event(e))
          /\ inflight' = inflight \cup {e}
          /\ UNCHANGED backlog
       \/ /\ Claimed /\ Len(queue) = QueueCap
          /\ UNCHANGED <<queue, inflight, backlog>>
       \/ /\ ~Claimed
          /\ backlog' = backlog \cup {e}
          /\ UNCHANGED <<queue, inflight>>
    /\ UNCHANGED <<plugin, files, socket, spool, results, bounds>>
    /\ UNCHANGED <<handler, job, writer, flushing, dout, acked, stale>>

(***************************************************************************)
(* A line of the backlog while it is flushed, of an event or of a result   *)
(* afterwards.                                                             *)
(***************************************************************************)
WriteDown ==
    /\ handler = "flush" \/ writer
    /\ dout # <<>> /\ pEnd /\ Len(down) < WireCap
    /\ down' = Append(down, Head(dout))
    /\ dout' = Tail(dout)
    /\ UNCHANGED <<plugin, files, up, pEnd, dEnd, spool>>
    /\ UNCHANGED <<handler, job, writer, flushing, queue, waiting, results, bounds>>

(***************************************************************************)
(* The handler takes the events of the backlog one by one before it reads  *)
(* anything (in the order Registry models), and then starts its writer.    *)
(***************************************************************************)
FlushEvent ==
    /\ handler = "flush" /\ dout = <<>>
    /\ \E e \in flushing, gone \in BOOLEAN :
          dout' = EventLines(e, gone) /\ flushing' = flushing \ {e}
    /\ UNCHANGED <<plugin, files, socket, spool, results, bounds>>
    /\ UNCHANGED <<handler, job, writer, queue, waiting>>

FlushDone ==
    /\ handler = "flush" /\ dout = <<>> /\ flushing = {}
    /\ handler' = "read" /\ writer' = TRUE
    /\ UNCHANGED <<plugin, files, socket, spool, results, bounds>>
    /\ UNCHANGED <<job, flushing, dout, queue, waiting>>

WriterTakes ==
    /\ writer /\ dout = <<>> /\ queue # <<>>
    /\ \/ Head(queue).k = "event" /\ \E gone \in BOOLEAN : dout' = EventLines(Head(queue).ev, gone)
       \/ Head(queue).k # "event" /\ dout' = <<Head(queue)>>
    /\ queue' = Tail(queue)
    /\ UNCHANGED <<plugin, files, socket, spool, results, bounds>>
    /\ UNCHANGED <<handler, job, writer, flushing, waiting>>

WriterFails ==
    /\ writer /\ dout # <<>> /\ ~pEnd
    /\ writer' = FALSE
    /\ UNCHANGED <<plugin, files, socket, spool, results, bounds>>
    /\ UNCHANGED <<handler, job, flushing, dout, queue, waiting>>

(***************************************************************************)
(* One line of the read loop.  Registry::ack takes an acknowledgement of   *)
(* an event that is in flight, and no other.                               *)
(***************************************************************************)
ReadLine ==
    /\ handler = "read" /\ up # <<>>
    /\ up' = Tail(up)
    /\ LET line == Head(up) IN
       \/ /\ line.k = "ack"
          /\ inflight' = inflight \ {line.ev} /\ acked' = acked \cup ({line.ev} \cap inflight)
          /\ stale' = IF line.old THEN stale \cup ({line.ev} \cap inflight)
                      ELSE stale \ {line.ev}
          /\ UNCHANGED <<handler, job, verdict>>
          /\ UNCHANGED <<open, received, failed, disk, orphans>>
       \/ /\ line.k = "file"
          /\ Begin(line.id, line.size)
          /\ UNCHANGED <<handler, job, verdict, inflight, acked, stale, received>>
       \/ /\ line.k = "chunk"
          /\ Chunk(line.id, line.call)
          /\ UNCHANGED <<handler, job, verdict, inflight, acked, stale, received>>
       \/ /\ line.k = "end"
          /\ End(line.id)
          /\ UNCHANGED <<handler, job, verdict, inflight, acked, stale>>
       \/ /\ line.k = "cmd"
          /\ SendsFile(line.call) => line.id \in received
          /\ handler' = "exec" /\ job' = line
          /\ received' = received \ {line.id}
          /\ UNCHANGED <<verdict, inflight, acked, stale, open, failed, disk, orphans>>
       \/ /\ line.k = "cmd"
          /\ SendsFile(line.call) /\ line.id \notin received
          /\ handler' = "result" /\ job' = result(line.id, FALSE)
          /\ failed' = failed \ {line.id}
          /\ verdict' = [verdict EXCEPT ![line.call] = "err"]
          /\ UNCHANGED <<inflight, acked, stale, open, received, disk, orphans>>
    /\ UNCHANGED <<plugin, files, down, pEnd, dEnd, cleanup>>
    /\ UNCHANGED <<writer, flushing, dout, queue, backlog, seen, ran, bounds>>

(***************************************************************************)
(* execute, or send_file, whose spooled copy is deleted whatever happened. *)
(***************************************************************************)
Execute ==
    /\ handler = "exec"
    /\ handler' = "result"
    /\ \E ok \in BOOLEAN :
          /\ job' = result(job.id, ok)
          /\ verdict' = [verdict EXCEPT ![job.call] = IF ok THEN "ok" ELSE "err"]
    /\ ran' = [ran EXCEPT ![job.call] = @ + 1]
    /\ disk' = IF SendsFile(job.call) THEN [disk EXCEPT ![job.id] = none] ELSE disk
    /\ UNCHANGED <<plugin, files, socket, open, received, failed, cleanup, orphans>>
    /\ UNCHANGED <<writer, flushing, dout, queue, waiting, bounds>>

SendResult ==
    /\ handler = "result" /\ writer /\ Len(queue) < QueueCap
    /\ queue' = Append(queue, job)
    /\ handler' = "read" /\ job' = none
    /\ UNCHANGED <<plugin, files, socket, spool, results, bounds>>
    /\ UNCHANGED <<writer, flushing, dout, waiting>>

Files == {i \in Ids : open[i] # none} \cup received

(***************************************************************************)
(* Mutation: files received and not yet named by a command are forgotten.  *)
(***************************************************************************)
LeavesReceived == {i \in Ids : open[i] # none}

(***************************************************************************)
(* What abort_all and the drain of received delete.                        *)
(***************************************************************************)
ToDelete == Files

HandlerEnds ==
    /\ handler' = "cleanup" /\ job' = none
    /\ writer' = FALSE /\ flushing' = {} /\ dout' = <<>> /\ queue' = <<>>
    /\ dEnd' = FALSE /\ up' = <<>>
    /\ cleanup' = cleanup \cup ToDelete
    /\ open' = [i \in Ids |-> none] /\ received' = {} /\ failed' = {}
    /\ UNCHANGED <<plugin, files, down, pEnd, disk, orphans>>
    /\ UNCHANGED <<waiting, results>>

(***************************************************************************)
(* The ways out of the flush and of the read loop: a failed write, the end *)
(* of the stream, the end of the writer, a result that cannot be queued.   *)
(***************************************************************************)
EndHandler ==
    /\ \/ handler = "flush" /\ dout # <<>> /\ ~pEnd
       \/ handler = "read" /\ up = <<>> /\ ~pEnd
       \/ handler \in {"read", "result"} /\ ~writer
    /\ HandlerEnds
    /\ UNCHANGED stops

Shutdown ==
    /\ handler = "read" /\ stops < MaxStops
    /\ stops' = stops + 1
    /\ HandlerEnds

DeleteFile ==
    /\ \E i \in cleanup :
          /\ cleanup' = cleanup \ {i}
          /\ disk' = [disk EXCEPT ![i] = none]
    /\ UNCHANGED <<plugin, files, socket, daemon, results, bounds>>
    /\ UNCHANGED <<open, received, failed, orphans>>

(***************************************************************************)
(* The claim is dropped last.                                              *)
(***************************************************************************)
Release ==
    /\ handler = "cleanup" /\ cleanup = {}
    /\ handler' = "none"
    /\ backlog' = backlog \cup inflight /\ inflight' = {}
    /\ UNCHANGED <<plugin, files, socket, spool, results, bounds>>
    /\ UNCHANGED <<job, writer, flushing, dout, queue, acked, seen, stale>>

(***************************************************************************)
(* The daemon dies without any of that; its files stay, what it kept in    *)
(* memory is gone, and what was not acknowledged comes from Matrix again   *)
(* (Marks).                                                                *)
(***************************************************************************)
Crash ==
    /\ handler # "none" /\ stops < MaxStops
    /\ stops' = stops + 1
    /\ handler' = "none" /\ job' = none
    /\ writer' = FALSE /\ flushing' = {} /\ dout' = <<>> /\ queue' = <<>>
    /\ dEnd' = FALSE /\ up' = <<>>
    /\ open' = [i \in Ids |-> none] /\ received' = {} /\ failed' = {}
    /\ cleanup' = {}
    /\ orphans' = {i \in Ids : disk[i] # none}
    /\ backlog' = {} /\ inflight' = {} /\ seen' = acked
    /\ UNCHANGED <<plugin, files, down, pEnd, disk, acked, stale, results>>

(***************************************************************************)
(* The daily sweep of the outbox.                                          *)
(***************************************************************************)
Sweep ==
    /\ orphans # {}
    /\ orphans' = {}
    /\ disk' = [i \in Ids |-> IF i \in orphans THEN none ELSE disk[i]]
    /\ UNCHANGED <<plugin, files, socket, daemon, results, bounds>>
    /\ UNCHANGED <<open, received, failed, cleanup>>

----------------------------------------------------------------------------
Caller == \E c \in Calls : Submit(c) \/ EnterTx(c) \/ TimeOut(c)

Next ==
    \/ Caller
    \/ Connect \/ ConnectFails \/ FailFast
    \/ ServeTake \/ ServeWrite \/ ServeWriteFails
    \/ ServeFileFails \/ ServeEof \/ ServeRead
    \/ Deliver \/ Notify \/ PumpAck \/ PluginStops
    \/ (\E e \in Events : Dispatch(e)) \/ WriteDown \/ FlushEvent \/ FlushDone \/ WriterTakes \/ WriterFails
    \/ ReadLine \/ Execute \/ SendResult \/ EndHandler \/ Shutdown \/ DeleteFile \/ Release
    \/ Crash \/ Sweep

Spec == Init /\ [][Next]_vars

(***************************************************************************)
(* Nothing tells one call from another.                                    *)
(***************************************************************************)
CallsAlike == Permutations(Calls)

----------------------------------------------------------------------------
TypeOK ==
    /\ call \in [Calls -> {"new", "sending", "waiting", "ok", "refused", "local",
                           "unsent", "lost", "timeout", "gone"}]
    /\ size \in [Calls -> {none} \cup Sizes]
    /\ media \subseteq Events
    /\ Len(tx) <= TxCap
    /\ serve \in {"start", "down", "select", "write", "deliver"}
    /\ (serve \in {"write", "deliver"}) = (out # <<>>)
    /\ cur \in Calls \cup {none}
    /\ pending \in [Ids -> Calls \cup {none}] /\ nextId \in 1..(Cardinality(Calls) + 1)
    /\ Len(evs) <= EventsCap
    /\ inbox \in [Events -> {none, 0, 1}]
    /\ UNION {receiving, paths, handed, flushing, backlog, inflight, acked, seen, stale} \subseteq Events
    /\ Len(up) <= WireCap /\ Len(down) <= WireCap
    /\ pEnd \in BOOLEAN /\ dEnd \in BOOLEAN
    /\ handler \in {"none", "flush", "read", "exec", "result", "cleanup"}
    /\ writer \in BOOLEAN /\ Len(queue) <= QueueCap
    /\ open \in [Ids -> {none} \cup Transfers]
    /\ received \subseteq Ids /\ failed \subseteq Ids
    /\ cleanup \subseteq Ids /\ orphans \subseteq Ids
    /\ disk \in [Ids -> {none} \cup Seq(Calls)]
    /\ verdict \in [Calls -> {"ok", "err", none}] /\ ran \in [Calls -> Nat]
    /\ stops \in 0..MaxStops

(***************************************************************************)
(* What a call is told is what became of it: a success was executed        *)
(* successfully, a refusal was not.  Numbers start again with every        *)
(* connection and callers outlive connections, so the pairing of results   *)
(* with calls in `pending` is what this rests on.                          *)
(***************************************************************************)
AnswerIsOwn == \A c \in Calls :
    /\ call[c] = "ok" => verdict[c] = "ok"
    /\ call[c] = "refused" => verdict[c] = "err"

(***************************************************************************)
(* No call is executed twice, whatever connections it waited through, and  *)
(* one that was refused for want of a connection or of a readable file is  *)
(* not executed at all: the model may repeat it.                           *)
(***************************************************************************)
RunsOnce == \A c \in Calls :
    ran[c] <= IF call[c] \in {"new", "sending", "unsent", "local"} THEN 0 ELSE 1

(***************************************************************************)
(* When send_file reads the spooled file, it is there, and is the whole    *)
(* file of this call: not a short one, not another connection's under the  *)
(* same transfer id, and not deleted by the end of an earlier connection.  *)
(***************************************************************************)
FileIsWhole ==
    handler = "exec" /\ SendsFile(job.call) => disk[job.id] = Whole(job.call)

(***************************************************************************)
(* The path the model was last told with an event names the whole          *)
(* attachment once that delivery is acknowledged, whatever deliveries of   *)
(* it broke off before, each of which truncated or deleted the file of the *)
(* one before.  (An acknowledgement left in tx when a connection broke is  *)
(* written on the next one, where the daemon takes it for the second       *)
(* delivery's: those are not covered.)                                     *)
(***************************************************************************)
PathIsWhole == \A e \in (handed \cap acked) \ stale : inbox[e] = 1

(***************************************************************************)
(* A file in the outbox has someone who will delete it: the transfer, the  *)
(* command that waits for it, the end of the connection, or the sweep if   *)
(* the daemon died.                                                        *)
(***************************************************************************)
SpoolAccounted == \A i \in Ids :
    disk[i] # none =>
        \/ i \in Files \cup cleanup \cup orphans
        \/ handler = "exec" /\ job.id = i

(***************************************************************************)
(* Nobody waits for an answer that cannot come.  A call that waits is      *)
(* still in tx, or being written, or has an entry in `pending`; and then   *)
(* its command or its result is somewhere on the way, or the daemon's end  *)
(* is closed, which ends the connection and answers the call.              *)
(***************************************************************************)
NoneForgotten == \A c \in Calls : call[c] = "waiting" =>
    \/ cur = c
    \/ \E i \in 1..Len(tx) : tx[i] = c
    \/ \E id \in Ids :
          /\ pending[id] = c
          /\ \/ ~dEnd
             \/ \E i \in 1..Len(up) : up[i] = cmd(id, c)
             \/ job = cmd(id, c)
             \/ \E ok \in BOOLEAN :
                   \/ job = result(id, ok)
                   \/ \E i \in 1..Len(queue) : queue[i] = result(id, ok)
                   \/ dout = <<result(id, ok)>>
                   \/ \E i \in 1..Len(down) : down[i] = result(id, ok)

(***************************************************************************)
(* Both sides write and neither reads: the plugin streams a file while the *)
(* daemon flushes the backlog, or waits for room for a result behind an    *)
(* event.                                                                  *)
(***************************************************************************)
BothWrite ==
    /\ serve = "write" /\ Len(up) = WireCap /\ dEnd
    /\ dout # <<>> /\ Len(down) = WireCap /\ pEnd
    /\ handler = "flush" \/ (handler = "result" /\ Len(queue) = QueueCap)

(***************************************************************************)
(* What the comment on the writer task says cannot happen: "a file         *)
(* crossing each way at the same moment would fill both socket buffers     *)
(* with neither side reading, and the connection would hang".              *)
(***************************************************************************)
NeverHangs == ~BothWrite
============================================================================
