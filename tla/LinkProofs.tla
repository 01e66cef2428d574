----------------------------- MODULE LinkProofs -----------------------------
(***************************************************************************)
(* Link for any calls, events, sizes and limits.                           *)
(***************************************************************************)
EXTENDS Link, FiniteSetTheorems, SequenceTheorems, TLAPS

Cmds == [k : {"cmd"}, id : Ids, call : Calls]
FileLines == [k : {"file"}, id : Ids, size : Nat]
Chunks == [k : {"chunk"}, id : Ids, call : Calls]
Ends == [k : {"end"}, id : Ids]
Pieces == [k : {"in_file", "in_data"}, ev : Events]
Notices == [k : {"event"}, ev : Events]
Results == [k : {"result"}, id : Ids, ok : BOOLEAN]

FileParts == FileLines \cup Chunks \cup Ends
UpLines == Acks \cup Cmds \cup FileParts
DownLines == Pieces \cup Notices \cup Results

CallStates == {"new", "sending", "waiting", "ok", "refused", "local",
               "unsent", "lost", "timeout", "gone"}

Left == {c \in Calls : call[c] \in {"new", "sending"} \/ \E i \in 1..Len(tx) : tx[i] = c}

PluginTyped ==
    /\ call \in [Calls -> CallStates]
    /\ size \in [Calls -> {none} \cup Sizes]
    /\ tx \in Seq(Calls \cup Acks)
    /\ evs \in Seq(Inbounds)
    /\ pump \in Acks \cup {none}
    /\ serve \in {"start", "down", "select", "write", "deliver"}
    /\ pending \in [Ids -> Calls \cup {none}]
    /\ nextId \in Nat \ {0}
    /\ cur \in Calls \cup {none}

DaemonTyped ==
    /\ queue \in Seq(Notices \cup Results)
    /\ dout \in Seq(DownLines) /\ down \in Seq(DownLines)
    /\ flushing \in SUBSET Events /\ backlog \in SUBSET Events
    /\ inflight \in SUBSET Events /\ acked \in SUBSET Events
    /\ handler \in {"none", "flush", "read", "exec", "result", "cleanup"}
    /\ handler = "exec" => job \in Cmds
    /\ handler = "result" => job \in Results
    /\ up \in Seq(UpLines)
    /\ ran \in [Calls -> Nat]
    /\ verdict \in [Calls -> {"ok", "err", none}]
    /\ inbox \in [Events -> {none, 0, 1}]

SpoolTyped ==
    /\ open \in [Ids -> {none} \cup Transfers]
    /\ disk \in [Ids -> {none} \cup Seq(Calls)]
    /\ received \in SUBSET Ids /\ cleanup \in SUBSET Ids /\ orphans \in SUBSET Ids

Counted ==
    /\ \A i, j \in 1..Len(tx) : tx[i] \in Calls /\ tx[i] = tx[j] => i = j
    /\ \A i \in 1..Len(tx) : tx[i] \in Calls => call[tx[i]] \notin {"new", "sending"}
    /\ nextId + Cardinality(Left) <= Cardinality(Calls) + 1

Connected == {"select", "write", "deliver"}

Writing ==
    /\ serve = "write" /\ cur = none => \E a \in Acks : out = <<a>>
    /\ serve = "write" /\ cur # none =>
          /\ out \in Seq(UpLines) /\ Len(out) > 0
          /\ nextId - 1 \in Ids
          /\ out[Len(out)] = cmd(nextId - 1, cur)
          /\ \A i \in 1..(Len(out) - 1) : out[i] \in FileParts /\ out[i].id = nextId - 1
    /\ serve = "deliver" => cur = none /\ \E m \in Inbounds : out = <<m>> /\ ~m.old
    /\ serve \notin {"write", "deliver"} => cur = none /\ out = <<>>

SocketEnds ==
    /\ pEnd <=> serve \in Connected
    /\ dEnd <=> Claimed
    /\ ~pEnd => down = <<>> /\ \A i \in Ids : pending[i] = none
    /\ ~dEnd => /\ up = <<>> /\ queue = <<>> /\ dout = <<>> /\ flushing = {}
                /\ \A i \in Ids : open[i] = none
                /\ received = {}
                /\ ~writer
    /\ handler = "flush" => ~writer
    /\ handler # "cleanup" => cleanup = {}
    /\ Claimed => backlog = {}
    /\ handler \in {"none"} => inflight = {}


Base == PluginTyped /\ DaemonTyped /\ SpoolTyped /\ Counted /\ Writing /\ SocketEnds

\* What ageing does to the items of the plugin's channels.
LEMMA AgedTyped ==
    /\ \A x \in Calls \cup {none} : Aged(x) = x
    /\ \A x \in Acks : Aged(x) \in Acks /\ Aged(x).ev = x.ev /\ Aged(x).old = TRUE
    /\ \A x \in Inbounds : /\ Aged(x) \in Inbounds /\ Aged(x).ev = x.ev
                            /\ Aged(x).path = x.path /\ Aged(x).old = TRUE
BY KindsApart DEF Aged, Acks, Inbounds

\* Every constructor makes a line of its kind.
LEMMA Constructors ==
    /\ \A e \in Events, old \in BOOLEAN : ack(e, old) \in Acks
    /\ \A e \in Events, path \in BOOLEAN : inbound(e, path) \in Inbounds
    /\ \A id \in Ids, c \in Calls : cmd(id, c) \in Cmds /\ chunk(id, c) \in Chunks
    /\ \A id \in Ids, n \in Nat : file(id, n) \in FileLines
    /\ \A id \in Ids : file_end(id) \in Ends
    /\ \A p \in {"in_file", "in_data"}, e \in Events : piece(p, e) \in Pieces
    /\ \A e \in Events : event(e) \in Notices
    /\ \A id \in Ids, ok \in BOOLEAN : result(id, ok) \in Results
BY DEF ack, inbound, cmd, chunk, file, file_end, piece, event, result, Acks, Inbounds,
       Cmds, Chunks, FileLines, Ends, Pieces, Notices, Results

\* The kind of a line tells which it is.
LEMMA UpKinds ==
    ASSUME NEW l \in UpLines
    PROVE  /\ l.k = "ack" => l \in Acks /\ l.ev \in Events /\ l.old \in BOOLEAN
           /\ l.k = "cmd" => l \in Cmds /\ l.call \in Calls /\ l = cmd(l.id, l.call)
           /\ l.k = "file" => l \in FileLines /\ l.size \in Nat
           /\ l.k = "chunk" => l \in Chunks /\ l.call \in Calls
           /\ l.k = "end" => l \in Ends
           /\ l.k \in {"ack", "cmd", "file", "chunk", "end"}
           /\ l.k # "ack" => l.id \in Ids
BY DEF UpLines, FileParts, Acks, Cmds, Chunks, FileLines, Ends, cmd

\* The same towards the plugin.
LEMMA DownKinds ==
    ASSUME NEW l \in DownLines
    PROVE  /\ l.k \in {"in_file", "in_data"} => l \in Pieces /\ l = piece(l.k, l.ev)
           /\ l.k = "event" => l \in Notices /\ l = event(l.ev)
           /\ l.k = "result" => /\ l \in Results /\ l.id \in Ids /\ l.ok \in BOOLEAN
                                /\ l = result(l.id, l.ok)
           /\ l.k \in {"in_file", "in_data", "event", "result"}
           /\ l.k # "result" => l.ev \in Events
BY DEF DownLines, Pieces, Notices, Results, piece, event, result

\* The first line of a nonempty sequence, and the rest.
LEMMA HeadAndTail ==
    ASSUME NEW S, NEW s \in Seq(S), s # <<>>
    PROVE  /\ Head(s) \in S /\ Head(s) = s[1] /\ 1 \in 1..Len(s)
           /\ Tail(s) \in Seq(S) /\ Len(Tail(s)) = Len(s) - 1
           /\ \A i \in 1..Len(Tail(s)) : i + 1 \in 1..Len(s) /\ Tail(s)[i] = s[i + 1]
<1>1. Len(s) \in Nat /\ Len(s) # 0
  BY EmptySeq, LenProperties
<1>2. Head(s) = s[1] /\ Tail(s) \in Seq(S) /\ Len(Tail(s)) = Len(s) - 1
      /\ \A i \in 1..(Len(s) - 1) : Tail(s)[i] = s[i + 1]
  BY HeadTailProperties
<1>3. s[1] \in S
  BY <1>1, ElementOfSeq
<1> QED BY <1>1, <1>2, <1>3

(***************************************************************************)
(* The steps of the plugin's process and of the daemon's.  They meet in    *)
(* Connect, and otherwise only on the socket.                              *)
(***************************************************************************)
PluginSide ==
    \/ Caller \/ ConnectFails \/ FailFast \/ ServeTake \/ ServeWrite
    \/ ServeWriteFails \/ ServeFileFails \/ ServeEof \/ ServeRead
    \/ Deliver \/ Notify \/ PumpAck \/ PluginStops

DaemonSide ==
    \/ (\E e \in Events : Dispatch(e)) \/ WriteDown \/ FlushEvent \/ FlushDone
    \/ WriterTakes \/ WriterFails \/ ReadLine \/ Execute \/ SendResult
    \/ EndHandler \/ Shutdown \/ DeleteFile \/ Release \/ Crash \/ Sweep

\* Neither side touches the other's state.
LEMMA Sides ==
    /\ Next => Connect \/ PluginSide \/ DaemonSide
    /\ DaemonSide => UNCHANGED <<plugin, files, pEnd>>
    /\ PluginSide => UNCHANGED <<spool, daemon, results, dEnd>>
<1>1. Next => Connect \/ PluginSide \/ DaemonSide
  BY DEF Next, PluginSide, DaemonSide
<1>2. DaemonSide => UNCHANGED <<plugin, files, pEnd>>
  BY DEF DaemonSide, Dispatch, WriteDown, FlushEvent, FlushDone, WriterTakes, WriterFails,
         ReadLine, Execute, SendResult, EndHandler, Shutdown, HandlerEnds, DeleteFile,
         Release, Crash, Sweep, socket
<1>3. PluginSide => UNCHANGED <<spool, daemon, results, dEnd>>
  BY DEF PluginSide, Caller, Submit, EnterTx, TimeOut, ConnectFails, FailFast, ServeTake,
         ServeWrite, ServeWriteFails, ServeFileFails, ServeEof, ServeRead, Deliver, Notify,
         PumpAck, PluginStops, socket
<1> QED BY <1>1, <1>2, <1>3

\* A command queued in the plugin ages nothing; an acknowledgement or event does.
LEMMA AgedSeqs ==
    ASSUME Base
    PROVE  /\ [i \in 1..Len(tx) |-> Aged(tx[i])] \in Seq(Calls \cup Acks)
           /\ Len([i \in 1..Len(tx) |-> Aged(tx[i])]) = Len(tx)
           /\ [i \in 1..Len(evs) |-> Aged(evs[i])] \in Seq(Inbounds)
           /\ Len([i \in 1..Len(evs) |-> Aged(evs[i])]) = Len(evs)
           /\ Aged(pump) \in Acks \cup {none}
<1>1. tx \in Seq(Calls \cup Acks) /\ evs \in Seq(Inbounds) /\ pump \in Acks \cup {none}
  BY DEF Base, PluginTyped
<1>2. Len(tx) \in Nat /\ Len(evs) \in Nat
  BY <1>1
<1>3. \A i \in 1..Len(tx) : Aged(tx[i]) \in Calls \cup Acks
  BY <1>1, AgedTyped
<1>4. \A i \in 1..Len(evs) : Aged(evs[i]) \in Inbounds
  BY <1>1, AgedTyped
<1>5. Aged(pump) \in Acks \cup {none}
  BY <1>1, AgedTyped
<1> QED BY <1>2, <1>3, <1>4, <1>5

\* The plugin's half keeps its types.
LEMMA PluginStep ==
    ASSUME Base, [Next]_vars
    PROVE  PluginTyped'
<1> USE DEF PluginTyped, CallStates
<1>0. /\ \A C, r : r \in CallStates => Resolved(C, r) \in [Calls -> CallStates]
      /\ tx # <<>> => Tail(tx) \in Seq(Calls \cup Acks)
  BY DEF Base, Resolved
<1>1. CASE \E c \in Calls : Submit(c) \/ EnterTx(c) \/ TimeOut(c)
  <2>1. PICK c \in Calls : Submit(c) \/ EnterTx(c) \/ TimeOut(c)
    BY <1>1
  <2>2. Append(tx, c) \in Seq(Calls \cup Acks)
    BY DEF Base
  <2> QED BY <2>1, <2>2 DEF Base, Submit, EnterTx, TimeOut
<1>2. CASE Connect \/ ConnectFails
  BY <1>2 DEF Base, Connect, ConnectFails
<1>3. CASE FailFast
  BY <1>0, <1>3 DEF Base, FailFast
<1>4. CASE ServeTake
  <2>1. Head(tx) \in Calls \cup Acks
    BY <1>4, HeadAndTail DEF Base, ServeTake
  <2> QED BY <1>0, <1>4, <2>1 DEF Base, ServeTake
<1>5. CASE ServeWrite
  <2>1. pending' \in [Ids -> Calls \cup {none}]
    BY <1>5 DEF Base, ServeWrite
  <2> QED BY <1>5, <2>1 DEF Base, ServeWrite
<1>6. CASE ServeWriteFails \/ ServeFileFails \/ ServeEof
  <2>1. EndServe /\ UNCHANGED <<size, media, nextId>>
    BY <1>6 DEF ServeWriteFails, ServeFileFails, ServeEof
  <2> QED BY <1>0, <2>1, AgedSeqs DEF Base, EndServe, Aborted
<1>7. CASE ServeRead
  <2>1. call' = call \/ \E C, r : r \in {"ok", "refused"} /\ call' = Resolved(C, r)
    BY <1>7 DEF ServeRead
  <2>2. call' \in [Calls -> CallStates]
    BY <1>0, <2>1 DEF Base
  <2>3. pending' \in [Ids -> Calls \cup {none}]
    BY <1>7 DEF Base, ServeRead
  <2>4. /\ serve' \in {"start", "down", "select", "write", "deliver"}
        /\ UNCHANGED <<size, tx, cur, nextId, evs, pump>>
    BY <1>7 DEF Base, ServeRead
  <2> QED BY <2>2, <2>3, <2>4 DEF Base
<1>8. CASE Deliver
  <2>1. PICK m \in Inbounds : out = <<m>>
    BY <1>8 DEF Base, Writing, Deliver
  <2>2. Append(evs, Head(out)) \in Seq(Inbounds)
    BY <2>1 DEF Base
  <2> QED BY <1>8, <2>2 DEF Base, Deliver
<1>9. CASE Notify
  <2> DEFINE it == Head(evs)
  <2>1. it \in Inbounds /\ Tail(evs) \in Seq(Inbounds)
    BY <1>9, HeadAndTail DEF Base, Notify
  <2>2. ack(it.ev, it.old) \in Acks
    BY <2>1, Constructors DEF Inbounds
  <2>3. Append(tx, ack(it.ev, it.old)) \in Seq(Calls \cup Acks)
    BY <2>2 DEF Base
  <2> QED BY <1>9, <2>1, <2>2, <2>3 DEF Base, Notify
<1>10. CASE PumpAck
  <2>1. Append(tx, pump) \in Seq(Calls \cup Acks)
    BY <1>10 DEF Base, PumpAck
  <2> QED BY <1>10, <2>1 DEF Base, PumpAck
<1>11. CASE PluginStops
  BY <1>11 DEF Base, PluginStops
<1>12. CASE DaemonSide \/ UNCHANGED vars
  <2>1. UNCHANGED plugin
    BY <1>12, Sides DEF vars
  <2> QED BY <2>1 DEF Base, plugin
<1> QED
  BY <1>1, <1>2, <1>3, <1>4, <1>5, <1>6, <1>7, <1>8, <1>9, <1>10, <1>11, <1>12, Sides
     DEF PluginSide, Caller

\* The lines of an event, with its attachment before it or without.
LEMMA EventLinesTyped ==
    ASSUME NEW e \in Events, NEW gone \in BOOLEAN
    PROVE  /\ EventLines(e, gone) \in Seq(DownLines)
           /\ \/ EventLines(e, gone) = <<event(e)>>
              \/ EventLines(e, gone)
                     = <<piece("in_file", e), piece("in_data", e), event(e)>>
<1>1. /\ event(e) \in DownLines
      /\ piece("in_file", e) \in DownLines /\ piece("in_data", e) \in DownLines
  BY Constructors DEF DownLines
<1> QED BY <1>1 DEF EventLines

\* The lines that each process holds or has on the socket keep their types.
LEMMA LinesStep ==
    ASSUME Base, [Next]_vars
    PROVE  /\ queue' \in Seq(Notices \cup Results)
           /\ dout' \in Seq(DownLines) /\ down' \in Seq(DownLines)
           /\ up' \in Seq(UpLines)
<1>0. /\ queue \in Seq(Notices \cup Results)
      /\ dout \in Seq(DownLines) /\ down \in Seq(DownLines) /\ up \in Seq(UpLines)
  BY DEF Base, DaemonTyped
<1>t. /\ dout # <<>> => Head(dout) \in DownLines /\ Tail(dout) \in Seq(DownLines)
      /\ down # <<>> => Tail(down) \in Seq(DownLines)
      /\ up # <<>> => Tail(up) \in Seq(UpLines)
      /\ queue # <<>> => /\ Head(queue) \in Notices \cup Results
                         /\ Tail(queue) \in Seq(Notices \cup Results)
  BY <1>0, HeadAndTail
<1>e. \A S : <<>> \in Seq(S)
  OBVIOUS
<1>1. CASE Connect
  BY <1>0, <1>1, <1>e DEF Connect
<1>2. CASE PluginSide
  <2>1. UNCHANGED <<queue, dout>>
    BY <1>2, Sides DEF daemon
  <2>2. down' = down \/ down' = <<>> \/ (down # <<>> /\ down' = Tail(down))
    BY <1>2 DEF PluginSide, Caller, Submit, EnterTx, TimeOut, ConnectFails, FailFast,
         ServeTake, ServeWrite, ServeWriteFails, ServeFileFails, ServeEof, EndServe, Aborted,
         ServeRead, Deliver, Notify, PumpAck, PluginStops, socket
  <2>3. up' = up \/ (ServeWrite /\ up' = Append(up, Head(out)))
    BY <1>2 DEF PluginSide, Caller, Submit, EnterTx, TimeOut, ConnectFails, FailFast,
         ServeTake, ServeWrite, ServeWriteFails, ServeFileFails, ServeEof,
         ServeRead, Deliver, Notify, PumpAck, PluginStops, socket
  <2>4. ServeWrite => Head(out) \in UpLines
    <3>1. ASSUME ServeWrite, cur = none PROVE Head(out) \in UpLines
      BY <3>1 DEF Base, Writing, ServeWrite, UpLines
    <3>2. ASSUME ServeWrite, cur # none PROVE Head(out) \in UpLines
      <4>1. out \in Seq(UpLines) /\ Len(out) > 0
        BY <3>2 DEF Base, Writing, ServeWrite
      <4> QED BY <4>1, HeadAndTail, EmptySeq
    <3> QED BY <3>1, <3>2
  <2>5. up' \in Seq(UpLines)
    <3>1. ServeWrite => Append(up, Head(out)) \in Seq(UpLines)
      BY <1>0, <2>4, AppendProperties
    <3> QED BY <1>0, <2>3, <3>1
  <2>6. down' \in Seq(DownLines)
    BY <1>0, <1>t, <1>e, <2>2
  <2> QED BY <1>0, <2>1, <2>5, <2>6
<1>3. CASE DaemonSide
  <2>1. CASE \E e \in Events : Dispatch(e)
    <3>1. PICK e \in Events : Dispatch(e)
      BY <2>1
    <3>2. UNCHANGED <<dout, down, up>> /\ (queue' = queue \/ queue' = Append(queue, event(e)))
      BY <3>1 DEF Dispatch, socket
    <3>3. event(e) \in Notices \cup Results
      BY Constructors
    <3>4. Append(queue, event(e)) \in Seq(Notices \cup Results)
      BY <1>0, <3>3, AppendProperties
    <3> QED BY <1>0, <3>2, <3>4
  <2>2. CASE WriteDown
    BY <1>0, <1>t, <2>2 DEF WriteDown
  <2>3. CASE FlushEvent \/ WriterTakes
    <3>1. UNCHANGED <<down, up>> /\ (queue' = queue \/ (queue # <<>> /\ queue' = Tail(queue)))
      BY <2>3 DEF FlushEvent, WriterTakes, socket
    <3>2. CASE FlushEvent
      <4>1. PICK e \in flushing, gone \in BOOLEAN : dout' = EventLines(e, gone)
        BY <3>2 DEF FlushEvent
      <4>2. e \in Events
        BY DEF Base, DaemonTyped
      <4> QED BY <1>0, <1>t, <3>1, <4>1, <4>2, EventLinesTyped
    <3>3. CASE WriterTakes
      <4>1. Head(queue) \in DownLines
        BY <1>t, <3>3 DEF WriterTakes, DownLines
      <4>2. CASE Head(queue).k = "event"
        <5>1. Head(queue) \in Notices
          BY <4>1, <4>2, DownKinds
        <5>2. Head(queue).ev \in Events
          BY <5>1 DEF Notices
        <5>3. PICK gone \in BOOLEAN : dout' = EventLines(Head(queue).ev, gone)
          BY <3>3, <4>2 DEF WriterTakes
        <5>4. dout' \in Seq(DownLines)
          BY <5>2, <5>3, EventLinesTyped
        <5> QED BY <1>0, <1>t, <3>1, <5>4
      <4>3. CASE Head(queue).k # "event"
        <5>1. dout' = <<Head(queue)>>
          BY <3>3, <4>3 DEF WriterTakes
        <5>2. <<Head(queue)>> \in Seq(DownLines)
          BY <4>1
        <5>3. dout' \in Seq(DownLines)
          BY <5>1, <5>2
        <5> QED BY <1>0, <1>t, <3>1, <5>3
      <4> QED BY <4>2, <4>3
    <3> QED BY <2>3, <3>2, <3>3
  <2>4. CASE SendResult
    <3>1. job \in Results
      BY <2>4 DEF Base, DaemonTyped, SendResult
    <3> QED BY <1>0, <2>4, <3>1 DEF SendResult, socket
  <2>5. CASE ReadLine
    BY <1>0, <1>t, <2>5 DEF ReadLine
  <2>6. CASE \/ EndHandler \/ Shutdown \/ Crash \/ FlushDone \/ WriterFails \/ Execute
             \/ DeleteFile \/ Release \/ Sweep
    BY <1>0, <1>e, <2>6 DEF EndHandler, Shutdown, HandlerEnds, Crash, FlushDone, WriterFails,
         Execute, DeleteFile, Release, Sweep, daemon, socket
  <2> QED BY <1>3, <2>1, <2>2, <2>3, <2>4, <2>5, <2>6 DEF DaemonSide
<1>4. CASE UNCHANGED vars
  BY <1>0, <1>4 DEF vars, daemon, socket
<1> QED BY <1>1, <1>2, <1>3, <1>4, Sides

\* The daemon's half keeps its types, and so do the plugin's inbox and the verdicts.
LEMMA DaemonStep ==
    ASSUME Base, [Next]_vars
    PROVE  DaemonTyped'
<1>l. /\ queue' \in Seq(Notices \cup Results)
      /\ dout' \in Seq(DownLines) /\ down' \in Seq(DownLines)
      /\ up' \in Seq(UpLines)
  BY LinesStep
<1> DEFINE Events1 == /\ flushing \in SUBSET Events /\ backlog \in SUBSET Events
                      /\ inflight \in SUBSET Events /\ acked \in SUBSET Events
           Hands == /\ handler \in {"none", "flush", "read", "exec", "result", "cleanup"}
                    /\ handler = "exec" => job \in Cmds
                    /\ handler = "result" => job \in Results
           Outcome == /\ ran \in [Calls -> Nat]
                      /\ verdict \in [Calls -> {"ok", "err", none}]
           Inbox == inbox \in [Events -> {none, 0, 1}]
<1>0. Events1 /\ Hands /\ Outcome /\ Inbox
  BY DEF Base, DaemonTyped
<1>q. Events1' /\ Hands' /\ Outcome' /\ Inbox' => DaemonTyped'
  BY <1>l DEF DaemonTyped
<1>1. CASE Connect
  BY <1>0, <1>1, <1>q DEF Connect, files, results
<1>2. CASE PluginSide
  <2>1. Events1' /\ Hands' /\ Outcome'
    BY <1>0, <1>2, Sides DEF daemon, waiting, results
  <2>2. CASE ServeRead
    <3>1. down # <<>> /\ down \in Seq(DownLines)
      BY <2>2 DEF Base, DaemonTyped, ServeRead
    <3>2. Head(down) \in DownLines
      BY <3>1, HeadAndTail
    <3>3. \/ inbox' = inbox
          \/ \E b \in {none, 0, 1} : inbox' = [inbox EXCEPT ![Head(down).ev] = b]
      BY <2>2 DEF ServeRead, ReceiveHeader, ReceiveData
    <3>4. Inbox'
      BY <1>0, <3>3
    <3> QED BY <1>q, <2>1, <3>4
  <2>3. CASE ~ServeRead
    <3>1. \/ inbox' = inbox
          \/ inbox' = [e \in Events |-> IF e \in receiving THEN none ELSE inbox[e]]
      BY <1>2, <2>3 DEF PluginSide, Caller, Submit, EnterTx, TimeOut, ConnectFails, FailFast,
         ServeTake, ServeWrite, ServeWriteFails, ServeFileFails, ServeEof, EndServe, Aborted,
         Deliver, Notify, PumpAck, PluginStops, files
    <3>2. Inbox'
      BY <1>0, <3>1
    <3> QED BY <1>q, <2>1, <3>2
  <2> QED BY <2>2, <2>3
<1>3. CASE DaemonSide
  <2>0. Inbox'
    BY <1>0, <1>3, Sides DEF files
  <2>1. CASE \E e \in Events : Dispatch(e)
    BY <1>0, <1>q, <2>0, <2>1 DEF Dispatch, results
  <2>2. CASE WriteDown \/ FlushDone \/ WriterTakes \/ WriterFails \/ DeleteFile \/ Sweep
             \/ SendResult \/ Release
    BY <1>0, <1>q, <2>0, <2>2 DEF WriteDown, FlushDone, WriterTakes, WriterFails, DeleteFile,
         Sweep, SendResult, Release, results, waiting, daemon
  <2>3. CASE FlushEvent
    BY <1>0, <1>q, <2>0, <2>3 DEF FlushEvent, results, waiting
  <2>4. CASE ReadLine
    <3> DEFINE line == Head(up)
    <3>1. line \in UpLines
      BY <2>4, HeadAndTail DEF Base, DaemonTyped, ReadLine
    <3>2. /\ line.k = "cmd" => line \in Cmds /\ line.id \in Ids /\ line.call \in Calls
      BY <3>1, UpKinds
    <3> HIDE DEF line
    <3>3. Events1'
      BY <1>0, <2>4 DEF ReadLine, line
    <3>4. ran' = ran /\ (verdict' = verdict \/ verdict' = [verdict EXCEPT ![line.call] = "err"])
      BY <2>4 DEF ReadLine, line
    <3>5. Outcome'
      BY <1>0, <3>4
    <3>6. \/ handler' = handler /\ job' = job
          \/ handler' = "exec" /\ line.k = "cmd" /\ job' = line
          \/ handler' = "result" /\ line.k = "cmd" /\ job' = result(line.id, FALSE)
      BY <2>4 DEF ReadLine, line
    <3>7. Hands'
      BY <1>0, <3>2, <3>6, Constructors
    <3> QED BY <1>q, <2>0, <3>3, <3>5, <3>7
  <2>5. CASE Execute
    <3>1. job \in Cmds
      BY <1>0, <2>5 DEF Execute
    <3>2. job.id \in Ids /\ job.call \in Calls
      BY <3>1 DEF Cmds
    <3>3. PICK ok \in BOOLEAN : /\ job' = result(job.id, ok)
                                /\ verdict' = [verdict EXCEPT ![job.call] = IF ok THEN "ok" ELSE "err"]
      BY <2>5 DEF Execute
    <3>4. Hands'
      BY <2>5, <3>2, <3>3, Constructors DEF Execute
    <3>5. ran' = [ran EXCEPT ![job.call] = @ + 1]
      BY <2>5 DEF Execute
    <3>6. Outcome'
      <4>1. ran' \in [Calls -> Nat]
        BY <1>0, <3>2, <3>5
      <4>2. (IF ok THEN "ok" ELSE "err") \in {"ok", "err", none}
        OBVIOUS
      <4>3. verdict' \in [Calls -> {"ok", "err", none}]
        BY <1>0, <3>3, <4>2
      <4> QED BY <4>1, <4>3
    <3>7. Events1'
      BY <1>0, <2>5 DEF Execute, waiting
    <3> QED BY <1>q, <2>0, <3>4, <3>6, <3>7
  <2>6. CASE EndHandler \/ Shutdown
    <3>1. HandlerEnds
      BY <2>6 DEF EndHandler, Shutdown
    <3> QED BY <1>0, <1>q, <2>0, <3>1 DEF HandlerEnds, waiting, results
  <2>7. CASE Crash
    BY <1>0, <1>q, <2>0, <2>7 DEF Crash, results
  <2> QED BY <1>3, <2>1, <2>2, <2>3, <2>4, <2>5, <2>6, <2>7 DEF DaemonSide
<1>4. CASE UNCHANGED vars
  BY <1>0, <1>4, <1>q DEF vars, daemon, waiting, results, files
<1> QED BY <1>1, <1>2, <1>3, <1>4, Sides

\* The spool keeps its types.
LEMMA SpoolStep ==
    ASSUME Base, [Next]_vars
    PROVE  SpoolTyped'
<1>0. SpoolTyped
  BY DEF Base
<1>1. CASE Connect \/ PluginSide \/ UNCHANGED vars
  <2>1. UNCHANGED spool
    BY <1>1, Sides DEF Connect, vars
  <2> QED BY <1>0, <2>1 DEF spool, SpoolTyped
<1>2. CASE DaemonSide
  <2>1. CASE ReadLine
    <3> DEFINE line == Head(up)
    <3>1. line \in UpLines
      BY <2>1, HeadAndTail DEF Base, DaemonTyped, ReadLine
    <3>2. /\ line.k # "ack" => line.id \in Ids
          /\ line.k = "file" => line.size \in Nat
          /\ line.k = "chunk" => line.call \in Calls
      BY <3>1, UpKinds
    <3> HIDE DEF line
    <3>3. CASE line.k = "file" /\ Begin(line.id, line.size)
               /\ UNCHANGED <<received, cleanup>>
      <4>1. line.size <= MaxBytes => [size |-> line.size, got |-> 0] \in Transfers
        BY <3>2, <3>3, LinkAssumption DEF Transfers
      <4>2. <<>> \in Seq(Calls)
        OBVIOUS
      <4>3. open' \in [Ids -> {none} \cup Transfers]
        BY <1>0, <3>2, <3>3, <4>1 DEF Begin, SpoolTyped
      <4>4. disk' \in [Ids -> {none} \cup Seq(Calls)]
        <5>1. disk' = disk \/ disk' = [disk EXCEPT ![line.id] = <<>>]
          BY <3>3 DEF Begin
        <5> QED BY <1>0, <4>2, <5>1 DEF SpoolTyped
      <4> QED BY <1>0, <3>3, <4>3, <4>4 DEF Begin, SpoolTyped
    <3>4. CASE line.k = "chunk" /\ Chunk(line.id, line.call)
               /\ UNCHANGED <<received, cleanup>>
      <4> DEFINE i == line.id
      <4>1. i \in Ids /\ line.call \in Calls
        BY <3>2, <3>4
      <4>2. /\ open[i] # none /\ open[i].got < open[i].size =>
                 [open[i] EXCEPT !.got = @ + 1] \in Transfers
        <5>1. SUFFICES ASSUME open[i] # none, open[i].got < open[i].size
                       PROVE  [open[i] EXCEPT !.got = @ + 1] \in Transfers
          OBVIOUS
        <5>2. open[i] \in Transfers
          BY <1>0, <4>1, <5>1 DEF SpoolTyped
        <5>3. open[i] \in [size : 0..MaxBytes, got : Nat] /\ open[i].size \in Nat
          BY <5>2, LinkAssumption DEF Transfers
        <5> QED BY <5>1, <5>3 DEF Transfers
      <4>3. Written(disk[i], line.call) \in {none} \cup Seq(Calls)
        <5>1. disk[i] \in {none} \cup Seq(Calls)
          BY <1>0, <4>1 DEF SpoolTyped
        <5> QED BY <4>1, <5>1, AppendProperties DEF Written
      <4>4. open' \in [Ids -> {none} \cup Transfers]
        BY <1>0, <3>4, <4>1, <4>2 DEF Chunk, Discard, SpoolTyped
      <4>5. disk' = disk \/ (\E x \in {none, Written(disk[i], line.call)} :
                disk' = [disk EXCEPT ![i] = x])
        BY <3>4 DEF Chunk, Discard
      <4>6. disk' \in [Ids -> {none} \cup Seq(Calls)]
        BY <1>0, <4>1, <4>3, <4>5 DEF SpoolTyped
      <4> QED BY <1>0, <3>4, <4>4, <4>6 DEF Chunk, SpoolTyped
    <3>5. CASE line.k = "end" /\ End(line.id) /\ UNCHANGED cleanup
      BY <1>0, <3>2, <3>5 DEF End, SpoolTyped
    <3>6. CASE line.k = "cmd" /\ UNCHANGED <<open, disk, orphans, cleanup>>
               /\ received' \in {received, received \ {line.id}}
      BY <1>0, <3>6 DEF SpoolTyped
    <3>7. CASE line.k = "ack" /\ UNCHANGED <<open, received, disk, orphans, cleanup>>
      BY <1>0, <3>7 DEF SpoolTyped
    <3> QED BY <2>1, <3>3, <3>4, <3>5, <3>6, <3>7 DEF ReadLine, line
  <2>2. CASE Execute
    <3>1. job.id \in Ids
      BY <2>2 DEF Base, DaemonTyped, Execute, Cmds
    <3> QED BY <1>0, <2>2, <3>1 DEF Execute, SpoolTyped
  <2>3. CASE EndHandler \/ Shutdown
    <3>1. HandlerEnds
      BY <2>3 DEF EndHandler, Shutdown
    <3> QED BY <1>0, <3>1 DEF HandlerEnds, ToDelete, Files, SpoolTyped
  <2>4. CASE DeleteFile
    BY <1>0, <2>4 DEF DeleteFile, SpoolTyped
  <2>5. CASE Crash \/ Sweep
    BY <1>0, <2>5 DEF Crash, Sweep, SpoolTyped
  <2>6. CASE ~(ReadLine \/ Execute \/ EndHandler \/ Shutdown \/ DeleteFile \/ Crash \/ Sweep)
    <3>1. UNCHANGED spool
      BY <1>2, <2>6 DEF DaemonSide, Dispatch, WriteDown, FlushEvent, FlushDone, WriterTakes,
           WriterFails, SendResult, Release
    <3> QED BY <1>0, <3>1 DEF spool, SpoolTyped
  <2> QED BY <2>1, <2>2, <2>3, <2>4, <2>5, <2>6
<1> QED BY <1>1, <1>2, Sides

\* What a step does to the plugin's channel.
LEMMA ChannelStep ==
    ASSUME Base, [Next]_vars
    PROVE  \/ tx' = tx \/ tx' = <<>>
           \/ tx # <<>> /\ tx' = Tail(tx)
           \/ /\ \E c \in Calls : call[c] \in {"new", "sending"} /\ tx' = Append(tx, c)
                                  /\ call' = [call EXCEPT ![c] = "waiting"]
              /\ nextId' = nextId
           \/ (\E a \in Acks : tx' = Append(tx, a)) /\ UNCHANGED <<call, nextId>>
           \/ tx' = [i \in 1..Len(tx) |-> Aged(tx[i])] /\ nextId' = nextId
<1>1. CASE \E c \in Calls : Submit(c) \/ EnterTx(c) \/ TimeOut(c)
  BY <1>1 DEF Submit, EnterTx, TimeOut
<1>2. CASE ServeWriteFails \/ ServeFileFails \/ ServeEof
  BY <1>2 DEF ServeWriteFails, ServeFileFails, ServeEof, EndServe
<1>3. CASE Notify
  <2>1. Head(evs) \in Inbounds
    BY <1>3, HeadAndTail DEF Base, PluginTyped, Notify
  <2>2. ack(Head(evs).ev, Head(evs).old) \in Acks
    BY <2>1, Constructors DEF Inbounds
  <2> QED BY <1>3, <2>2 DEF Notify
<1>4. CASE PumpAck
  BY <1>4 DEF Base, PluginTyped, PumpAck
<1>5. CASE Connect \/ ConnectFails \/ FailFast \/ ServeTake \/ ServeWrite \/ ServeRead
           \/ Deliver \/ PluginStops
  BY <1>5 DEF Connect, ConnectFails, FailFast, ServeTake, ServeWrite, ServeRead, Deliver,
       PluginStops
<1>6. CASE DaemonSide \/ UNCHANGED vars
  BY <1>6, Sides DEF vars, plugin
<1> QED BY <1>1, <1>2, <1>3, <1>4, <1>5, <1>6, Sides DEF PluginSide, Caller

\* A call that has been given up or answered does not wait again, and only a call that
\* was not made yet enters the channel.
LEMMA CallsStep ==
    ASSUME Base, [Next]_vars, NEW c \in Calls
    PROVE  /\ call[c] \notin {"new", "sending"} => call'[c] \notin {"new", "sending"}
           /\ call[c] = "timeout" => call'[c] = "timeout"
<1>0. call \in [Calls -> CallStates]
  BY DEF Base, PluginTyped
<1>r. \A C, r : r \in {"ok", "refused", "unsent", "lost", "local"} /\ call' = Resolved(C, r) =>
          call'[c] = call[c] \/ (call[c] = "waiting" /\ call'[c] = r)
  BY DEF Resolved
<1>1. CASE \E d \in Calls : Submit(d) \/ EnterTx(d) \/ TimeOut(d)
  BY <1>0, <1>1 DEF Submit, EnterTx, TimeOut
<1>2. CASE ServeWriteFails \/ ServeFileFails \/ ServeEof
  <2>1. call' = Resolved((Pending \cup {cur}) \ {none}, "lost")
    BY <1>2 DEF ServeWriteFails, ServeFileFails, ServeEof, EndServe
  <2> QED BY <1>r, <2>1
<1>3. CASE FailFast
  <2>1. call' = call \/ call' = Resolved({Head(tx)}, "unsent")
    BY <1>3 DEF FailFast
  <2> QED BY <1>r, <2>1
<1>4. CASE ServeTake
  <2>1. call' = call \/ call' = Resolved({Head(tx)}, "local")
    BY <1>4 DEF ServeTake
  <2> QED BY <1>r, <2>1
<1>5. CASE ServeRead
  <2>1. call' = call \/ \E C, r : r \in {"ok", "refused"} /\ call' = Resolved(C, r)
    BY <1>5 DEF ServeRead
  <2> QED BY <1>r, <2>1
<1>6. CASE PluginStops
  BY <1>0, <1>6 DEF PluginStops
<1>7. CASE Connect \/ ConnectFails \/ ServeWrite \/ Deliver \/ Notify \/ PumpAck
  BY <1>7 DEF Connect, ConnectFails, ServeWrite, Deliver, Notify, PumpAck
<1>8. CASE DaemonSide \/ UNCHANGED vars
  BY <1>8, Sides DEF vars, plugin
<1> QED BY <1>1, <1>2, <1>3, <1>4, <1>5, <1>6, <1>7, <1>8, Sides DEF PluginSide, Caller

\* Every call is in the channel at most once, and the numbers do not run out: a call has
\* left the channel for each number that was given out.
LEMMA CountedStep ==
    ASSUME Base, [Next]_vars
    PROVE  Counted'
<1>0. /\ tx \in Seq(Calls \cup Acks) /\ nextId \in Nat /\ nextId >= 1
      /\ call \in [Calls -> CallStates]
  BY DEF Base, PluginTyped
<1>1. Len(tx) \in Nat /\ \A i \in 1..Len(tx) : tx[i] \in Calls \cup Acks
  BY <1>0
<1>c. Counted
  BY DEF Base
<1>k. \A a \in Acks : a \notin Calls
  BY KindsApart
<1>t. tx # <<>> => /\ Len(Tail(tx)) = Len(tx) - 1 /\ Head(tx) = tx[1] /\ 1 \in 1..Len(tx)
                   /\ \A i \in 1..Len(Tail(tx)) : i + 1 \in 1..Len(tx) /\ Tail(tx)[i] = tx[i + 1]
  BY <1>0, HeadAndTail
<1>o. \A c \in Calls : call[c] \notin {"new", "sending"} => call'[c] \notin {"new", "sending"}
  BY CallsStep
<1>p. \A x : /\ Len(Append(tx, x)) = Len(tx) + 1 /\ Append(tx, x)[Len(tx) + 1] = x
             /\ \A i \in 1..Len(tx) : Append(tx, x)[i] = tx[i]
  BY <1>0, AppendProperties
<1>a. /\ Len([i \in 1..Len(tx) |-> Aged(tx[i])]) = Len(tx)
      /\ \A i \in 1..Len(tx) :
            /\ Aged(tx[i]) \in Calls => Aged(tx[i]) = tx[i]
            /\ tx[i] \in Calls => Aged(tx[i]) = tx[i]
  BY <1>1, <1>k, AgedTyped, AgedSeqs
<1>2. \A i, j \in 1..Len(tx') : tx'[i] \in Calls /\ tx'[i] = tx'[j] => i = j
  <2>1. CASE tx' = tx \/ tx' = <<>>
    BY <1>c, <2>1 DEF Counted
  <2>2. CASE tx # <<>> /\ tx' = Tail(tx)
    BY <1>c, <1>t, <1>1, <2>2 DEF Counted
  <2>3. ASSUME NEW c \in Calls, call[c] \in {"new", "sending"}, tx' = Append(tx, c)
        PROVE  \A i, j \in 1..Len(tx') : tx'[i] \in Calls /\ tx'[i] = tx'[j] => i = j
    <3>1. \A i \in 1..Len(tx) : tx[i] # c
      BY <1>c, <2>3 DEF Counted
    <3> QED BY <1>c, <1>1, <1>p, <2>3, <3>1 DEF Counted
  <2>4. ASSUME NEW a \in Acks, tx' = Append(tx, a)
        PROVE  \A i, j \in 1..Len(tx') : tx'[i] \in Calls /\ tx'[i] = tx'[j] => i = j
    <3>1. a \notin Calls
      BY <1>k
    <3> QED BY <1>c, <1>1, <1>p, <2>4, <3>1 DEF Counted
  <2>5. CASE tx' = [i \in 1..Len(tx) |-> Aged(tx[i])]
    BY <1>c, <1>a, <2>5 DEF Counted
  <2> QED BY <2>1, <2>2, <2>3, <2>4, <2>5, ChannelStep
<1>3. \A i \in 1..Len(tx') : tx'[i] \in Calls => call'[tx'[i]] \notin {"new", "sending"}
  <2>1. CASE tx' = tx \/ tx' = <<>>
    BY <1>c, <1>o, <2>1 DEF Counted
  <2>2. CASE tx # <<>> /\ tx' = Tail(tx)
    BY <1>c, <1>o, <1>t, <2>2 DEF Counted
  <2>3. ASSUME NEW c \in Calls, tx' = Append(tx, c), call' = [call EXCEPT ![c] = "waiting"]
        PROVE  \A i \in 1..Len(tx') : tx'[i] \in Calls => call'[tx'[i]] \notin {"new", "sending"}
    BY <1>0, <1>c, <1>o, <1>1, <1>p, <2>3 DEF Counted
  <2>4. ASSUME NEW a \in Acks, tx' = Append(tx, a)
        PROVE  \A i \in 1..Len(tx') : tx'[i] \in Calls => call'[tx'[i]] \notin {"new", "sending"}
    <3>1. a \notin Calls
      BY <1>k
    <3> QED BY <1>c, <1>1, <1>o, <1>p, <2>4, <3>1 DEF Counted
  <2>5. CASE tx' = [i \in 1..Len(tx) |-> Aged(tx[i])]
    BY <1>c, <1>a, <1>o, <2>5 DEF Counted
  <2> QED BY <2>1, <2>2, <2>3, <2>4, <2>5, ChannelStep
<1>4. Left' \subseteq Left
  <2> SUFFICES ASSUME NEW c \in Calls,
                      call'[c] \in {"new", "sending"} \/ \E i \in 1..Len(tx') : tx'[i] = c
               PROVE  c \in Left
    BY DEF Left
  <2>1. CASE call'[c] \in {"new", "sending"}
    BY <1>o, <2>1 DEF Left
  <2>2. ASSUME NEW i \in 1..Len(tx'), tx'[i] = c
        PROVE  c \in Left
    <3>1. CASE tx' = tx \/ tx' = <<>>
      BY <2>2, <3>1 DEF Left
    <3>2. CASE tx # <<>> /\ tx' = Tail(tx)
      BY <1>t, <2>2, <3>2 DEF Left
    <3>3. ASSUME NEW d \in Calls, tx' = Append(tx, d), call[d] \in {"new", "sending"}
          PROVE  c \in Left
      <4>1. CASE i = Len(tx) + 1
        BY <1>p, <2>2, <3>3, <4>1 DEF Left
      <4>2. CASE i # Len(tx) + 1
        <5>1. i \in 1..Len(tx) /\ tx[i] = c
          BY <1>1, <1>p, <2>2, <3>3, <4>2
        <5> QED BY <5>1 DEF Left
      <4> QED BY <4>1, <4>2
    <3>4. ASSUME NEW a \in Acks, tx' = Append(tx, a)
          PROVE  c \in Left
      <4>1. i # Len(tx) + 1
        BY <1>k, <1>p, <2>2, <3>4
      <4>2. i \in 1..Len(tx) /\ tx[i] = c
        BY <1>1, <1>p, <2>2, <3>4, <4>1
      <4> QED BY <4>2 DEF Left
    <3>5. CASE tx' = [j \in 1..Len(tx) |-> Aged(tx[j])]
      BY <1>a, <2>2, <3>5 DEF Left
    <3> QED BY <3>1, <3>2, <3>3, <3>4, <3>5, ChannelStep
  <2> QED BY <2>1, <2>2
<1>5. /\ IsFiniteSet(Left) /\ IsFiniteSet(Left')
      /\ Cardinality(Left) \in Nat /\ Cardinality(Left') \in Nat /\ Cardinality(Calls) \in Nat
      /\ Cardinality(Left') <= Cardinality(Left)
  <2>1. Left \subseteq Calls
    BY DEF Left
  <2>2. IsFiniteSet(Calls)
    BY LinkAssumption
  <2>3. IsFiniteSet(Left)
    BY <2>1, <2>2, FS_Subset
  <2>4. IsFiniteSet(Left') /\ Cardinality(Left') <= Cardinality(Left)
    BY <1>4, <2>3, FS_Subset
  <2> QED BY <2>2, <2>3, <2>4, FS_CardinalityType
<1>6. nextId' + Cardinality(Left') <= Cardinality(Calls) + 1
  <2>1. CASE nextId' = nextId
    BY <1>0, <1>c, <1>5, <2>1 DEF Counted
  <2>2. CASE nextId' = 1
    BY <1>0, <1>c, <1>5, <2>2 DEF Counted
  <2>3. CASE ServeTake /\ Head(tx) \in Calls
    <3> DEFINE c == Head(tx)
    <3>1. nextId' = nextId + 1 /\ tx # <<>> /\ tx' = Tail(tx) /\ c \in Calls /\ c = tx[1]
      BY <1>t, <2>3 DEF ServeTake
    <3> HIDE DEF c
    <3>2. c \in Left
      BY <1>t, <3>1 DEF Left
    <3>3. call'[c] \notin {"new", "sending"}
      BY <1>c, <1>o, <1>t, <3>1 DEF Counted
    <3>4. \A i \in 1..Len(tx') : tx'[i] # c
      <4> SUFFICES ASSUME NEW i \in 1..Len(tx'), tx'[i] = c
                   PROVE  FALSE
        OBVIOUS
      <4>1. i + 1 \in 1..Len(tx) /\ tx[i + 1] = c /\ i \in Nat /\ i >= 1
        BY <1>1, <1>t, <3>1
      <4>2. 1 = i + 1
        BY <1>c, <1>t, <3>1, <4>1 DEF Counted
      <4> QED BY <4>1, <4>2
    <3>5. Left' \subseteq Left \ {c}
      BY <1>4, <3>3, <3>4 DEF Left
    <3>6. /\ IsFiniteSet(Left \ {c}) /\ Cardinality(Left \ {c}) = Cardinality(Left) - 1
      BY <1>5, <3>2, FS_RemoveElement
    <3>7. Cardinality(Left') <= Cardinality(Left) - 1
      BY <3>5, <3>6, FS_Subset
    <3> QED BY <1>0, <1>c, <1>5, <3>1, <3>7 DEF Counted
  <2>4. nextId' = nextId \/ nextId' = 1 \/ (ServeTake /\ Head(tx) \in Calls)
    <3>1. CASE DaemonSide \/ UNCHANGED vars
      BY <3>1, Sides DEF vars, plugin
    <3>2. CASE Connect \/ PluginSide
      BY <3>2 DEF Connect, PluginSide, Caller, Submit, EnterTx, TimeOut, ConnectFails, FailFast,
         ServeTake, ServeWrite, ServeWriteFails, ServeFileFails, ServeEof,
         ServeRead, Deliver, Notify, PumpAck, PluginStops
    <3> QED BY <3>1, <3>2, Sides
  <2> QED BY <2>1, <2>2, <2>3, <2>4
<1> QED BY <1>2, <1>3, <1>6 DEF Counted

\* Two sequences one after the other.
LEMMA Joined ==
    ASSUME NEW S, NEW s \in Seq(S), NEW t \in Seq(S)
    PROVE  /\ s \o t \in Seq(S)
           /\ Len(s) \in Nat /\ Len(t) \in Nat /\ Len(s \o t) = Len(s) + Len(t)
           /\ \A i \in 1..Len(s) : (s \o t)[i] = s[i]
           /\ \A i \in 1..Len(t) : (s \o t)[Len(s) + i] = t[i]
           /\ \A i \in 1..Len(s \o t) : i \notin 1..Len(s) =>
                  i - Len(s) \in 1..Len(t) /\ (s \o t)[i] = t[i - Len(s)]
<1>1. Len(s) \in Nat /\ Len(t) \in Nat
  BY LenProperties
<1>2. /\ s \o t \in Seq(S) /\ Len(s \o t) = Len(s) + Len(t)
      /\ \A i \in 1..(Len(s) + Len(t)) :
            (s \o t)[i] = IF i <= Len(s) THEN s[i] ELSE t[i - Len(s)]
  BY ConcatProperties
<1> QED BY <1>1, <1>2

\* The lines of a command with a file: the header, the chunks, the end and the command.
LEMMA StreamLines ==
    ASSUME Base, NEW c \in Calls, SendsFile(c), nextId \in Ids, NEW n \in Nat
    PROVE  /\ Stream(c, n) \in Seq(UpLines) /\ Len(Stream(c, n)) = n + 3
           /\ Stream(c, n)[1] = file(nextId, size[c])
           /\ \A i \in 2..(n + 1) : Stream(c, n)[i] = chunk(nextId, c)
           /\ Stream(c, n)[n + 2] = file_end(nextId)
           /\ Stream(c, n)[n + 3] = cmd(nextId, c)
           /\ \A i \in 1..(n + 2) : Stream(c, n)[i] \in FileParts /\ Stream(c, n)[i].id = nextId
<1> DEFINE h == <<file(nextId, size[c])>>
           m == [i \in 1..n |-> chunk(nextId, c)]
           t == <<file_end(nextId), cmd(nextId, c)>>
<1>1. size[c] \in Nat
  BY LinkAssumption DEF Base, PluginTyped, SendsFile
<1>2. /\ file(nextId, size[c]) \in FileLines /\ chunk(nextId, c) \in Chunks
      /\ file_end(nextId) \in Ends /\ cmd(nextId, c) \in Cmds
  BY <1>1, Constructors
<1>3. h \in Seq(UpLines) /\ Len(h) = 1 /\ h[1] = file(nextId, size[c])
  BY <1>2 DEF UpLines, FileParts
<1>4. m \in Seq(UpLines) /\ Len(m) = n /\ \A i \in 1..n : m[i] = chunk(nextId, c)
  <2>1. chunk(nextId, c) \in UpLines
    BY <1>2 DEF UpLines, FileParts
  <2> QED BY <2>1
<1>5. t \in Seq(UpLines) /\ Len(t) = 2 /\ t[1] = file_end(nextId) /\ t[2] = cmd(nextId, c)
  BY <1>2 DEF UpLines, FileParts
<1> HIDE DEF h, m, t
<1>6. /\ (h \o m) \in Seq(UpLines) /\ Len(h \o m) = n + 1
      /\ (h \o m)[1] = file(nextId, size[c])
      /\ \A i \in 2..(n + 1) : (h \o m)[i] = chunk(nextId, c)
  <2>2. h \in Seq(UpLines) /\ m \in Seq(UpLines)
    BY <1>3, <1>4
  <2>0. /\ (h \o m) \in Seq(UpLines) /\ Len(h \o m) = Len(h) + Len(m)
        /\ \A i \in 1..Len(h) : (h \o m)[i] = h[i]
        /\ \A i \in 1..Len(m) : (h \o m)[Len(h) + i] = m[i]
    BY <2>2, Joined
  <2>1. (h \o m) \in Seq(UpLines) /\ Len(h \o m) = n + 1
    BY <1>3, <1>4, <2>0
  <2>3. (h \o m)[1] = file(nextId, size[c])
    BY <1>3, <2>0
  <2>4. \A i \in 2..(n + 1) : (h \o m)[i] = chunk(nextId, c)
    <3> SUFFICES ASSUME NEW i \in 2..(n + 1)
                 PROVE  (h \o m)[i] = chunk(nextId, c)
      OBVIOUS
    <3>1. i - 1 \in 1..Len(m) /\ Len(h) + (i - 1) = i
      BY <1>3, <1>4
    <3>2. (h \o m)[i] = m[i - 1]
      BY <2>0, <3>1
    <3> QED BY <1>4, <3>1, <3>2
  <2> QED BY <2>1, <2>3, <2>4
<1>7. Stream(c, n) = (h \o m) \o t
  BY DEF Stream, h, m, t
<1> DEFINE k == h \o m
<1> HIDE DEF k
<1>k. /\ k \in Seq(UpLines) /\ Len(k) = n + 1 /\ k[1] = file(nextId, size[c])
      /\ \A i \in 2..(n + 1) : k[i] = chunk(nextId, c)
  BY <1>6 DEF k
<1>j. /\ k \o t \in Seq(UpLines) /\ Len(k \o t) = Len(k) + Len(t)
      /\ \A i \in 1..Len(k) : (k \o t)[i] = k[i]
      /\ \A i \in 1..Len(t) : (k \o t)[Len(k) + i] = t[i]
  <2>1. k \in Seq(UpLines) /\ t \in Seq(UpLines)
    BY <1>5, <1>k
  <2> QED BY <2>1, Joined
<1>s. Stream(c, n) = k \o t
  BY <1>7 DEF k
<1>8. Stream(c, n) \in Seq(UpLines) /\ Len(Stream(c, n)) = n + 3
  BY <1>5, <1>k, <1>j, <1>s
<1>9. /\ Stream(c, n)[1] = file(nextId, size[c])
      /\ \A i \in 2..(n + 1) : Stream(c, n)[i] = chunk(nextId, c)
      /\ Stream(c, n)[n + 2] = file_end(nextId)
      /\ Stream(c, n)[n + 3] = cmd(nextId, c)
  <2>1. /\ 1 \in 1..Len(k) /\ \A i \in 2..(n + 1) : i \in 1..Len(k)
        /\ Len(k) + 1 = n + 2 /\ Len(k) + 2 = n + 3 /\ 1 \in 1..Len(t) /\ 2 \in 1..Len(t)
    BY <1>5, <1>k
  <2>2. (k \o t)[1] = k[1] /\ \A i \in 2..(n + 1) : (k \o t)[i] = k[i]
    BY <1>j, <2>1
  <2>3. (k \o t)[n + 2] = t[1] /\ (k \o t)[n + 3] = t[2]
    BY <1>j, <2>1
  <2> QED BY <1>5, <1>k, <1>s, <2>2, <2>3
<1>10. \A i \in 1..(n + 2) : Stream(c, n)[i] \in FileParts /\ Stream(c, n)[i].id = nextId
  <2> SUFFICES ASSUME NEW i \in 1..(n + 2)
               PROVE  Stream(c, n)[i] \in FileParts /\ Stream(c, n)[i].id = nextId
    OBVIOUS
  <2>1. i = 1 \/ i \in 2..(n + 1) \/ i = n + 2
    OBVIOUS
  <2>2. /\ file(nextId, size[c]).id = nextId /\ chunk(nextId, c).id = nextId
        /\ file_end(nextId).id = nextId
    BY DEF file, chunk, file_end
  <2> QED BY <1>2, <1>9, <2>1, <2>2 DEF FileParts
<1> QED BY <1>8, <1>9, <1>10

\* A number is left for a call that is taken from the channel.
LEMMA NumberLeft ==
    ASSUME Base, tx # <<>>, Head(tx) \in Calls
    PROVE  nextId \in Ids
<1>1. tx \in Seq(Calls \cup Acks) /\ nextId \in Nat \ {0}
  BY DEF Base, PluginTyped
<1>2. Head(tx) = tx[1] /\ 1 \in 1..Len(tx)
  BY <1>1, HeadAndTail
<1>3. Head(tx) \in Left /\ Left \subseteq Calls
  BY <1>2 DEF Left
<1>4. IsFiniteSet(Left) /\ Cardinality(Left) \in Nat /\ Cardinality(Calls) \in Nat
  BY <1>3, LinkAssumption, FS_Subset, FS_CardinalityType
<1>5. Cardinality(Left) # 0
  BY <1>3, <1>4, FS_EmptySet
<1>6. nextId + Cardinality(Left) <= Cardinality(Calls) + 1
  BY DEF Base, Counted
<1> QED BY <1>1, <1>4, <1>5, <1>6 DEF Ids

\* The lines in the plugin's hands are those of one command, or an acknowledgement, or
\* the event it delivers.
LEMMA WritingStep ==
    ASSUME Base, [Next]_vars
    PROVE  Writing'
<1>0. /\ Writing /\ nextId \in Nat \ {0} /\ cur \in Calls \cup {none}
      /\ tx \in Seq(Calls \cup Acks) /\ none \notin Calls
  BY KindsApart DEF Base, PluginTyped
<1>1. CASE ServeTake
  <2>1. Head(tx) \in Calls \cup Acks
    BY <1>0, <1>1, HeadAndTail DEF ServeTake
  <2>2. CASE Head(tx) \notin Calls
    BY <1>1, <2>1, <2>2 DEF ServeTake, Writing
  <2>3. CASE Head(tx) \in Calls /\ serve' = serve
    BY <1>0, <1>1, <2>3 DEF ServeTake, Writing
  <2>4. CASE Head(tx) \in Calls /\ serve' # serve
    <3> DEFINE c == Head(tx)
    <3>1. /\ c \in Calls /\ cur' = c /\ serve' = "write" /\ nextId' = nextId + 1
          /\ \/ out' = <<cmd(nextId, c)>>
             \/ SendsFile(c) /\ \E n \in 0..MaxSize : out' = Stream(c, n)
      BY <1>1, <2>4 DEF ServeTake
    <3>2. nextId \in Ids /\ nextId' - 1 = nextId
      BY <1>0, <1>1, <2>4, <3>1, NumberLeft DEF ServeTake
    <3> HIDE DEF c
    <3>3. CASE out' = <<cmd(nextId, c)>>
      <4>1. cmd(nextId, c) \in UpLines
        BY <3>1, <3>2, Constructors DEF UpLines
      <4> QED BY <1>0, <3>1, <3>2, <3>3, <4>1 DEF Writing
    <3>4. ASSUME SendsFile(c), NEW n \in 0..MaxSize, out' = Stream(c, n)
          PROVE  Writing'
      <4>1. n \in Nat
        BY LinkAssumption
      <4>2. /\ out' \in Seq(UpLines) /\ Len(out') = n + 3 /\ out'[n + 3] = cmd(nextId, c)
            /\ \A i \in 1..(n + 2) : out'[i] \in FileParts /\ out'[i].id = nextId
        BY <3>1, <3>2, <3>4, <4>1, StreamLines
      <4> QED BY <1>0, <3>1, <3>2, <4>1, <4>2 DEF Writing
    <3> QED BY <3>1, <3>3, <3>4
  <2> QED BY <2>2, <2>3, <2>4
<1>2. CASE ServeWrite
  <2>1. CASE cur = none
    <3>1. PICK a \in Acks : out = <<a>>
      BY <1>0, <1>2, <2>1 DEF ServeWrite, Writing
    <3>2. Len(out) = 1 /\ Tail(out) = <<>>
      BY <3>1
    <3> QED BY <1>2, <2>1, <3>2 DEF ServeWrite, Writing
  <2>2. CASE cur # none
    <3>1. /\ out \in Seq(UpLines) /\ Len(out) > 0 /\ nextId - 1 \in Ids
          /\ out[Len(out)] = cmd(nextId - 1, cur) /\ serve = "write" /\ Len(out) \in Nat
          /\ \A i \in 1..(Len(out) - 1) : out[i] \in FileParts /\ out[i].id = nextId - 1
      BY <1>0, <1>2, <2>2, LenProperties DEF ServeWrite, Writing
    <3>2. out' = Tail(out) /\ nextId' = nextId
      BY <1>2 DEF ServeWrite
    <3>3. /\ Tail(out) \in Seq(UpLines) /\ Len(Tail(out)) = Len(out) - 1
          /\ \A i \in 1..Len(Tail(out)) : i + 1 \in 1..Len(out) /\ Tail(out)[i] = out[i + 1]
      BY <3>1, EmptySeq, HeadAndTail
    <3>4. CASE Len(out) > 1
      <4>1. serve' = "write" /\ cur' = cur
        BY <1>2, <3>1, <3>4 DEF ServeWrite
      <4>2. /\ Len(out') > 0 /\ Len(out') \in 1..Len(out')
            /\ out'[Len(out')] = cmd(nextId - 1, cur)
        BY <3>1, <3>2, <3>3, <3>4
      <4>3. \A i \in 1..(Len(out') - 1) : out'[i] \in FileParts /\ out'[i].id = nextId - 1
        BY <3>1, <3>2, <3>3
      <4> QED BY <2>2, <3>1, <3>2, <3>3, <4>1, <4>2, <4>3 DEF Writing
    <3>5. CASE ~(Len(out) > 1)
      <4>1. Tail(out) = <<>>
        BY <3>1, <3>3, <3>5, EmptySeq
      <4> QED BY <1>2, <3>2, <3>5, <4>1 DEF ServeWrite, Writing
    <3> QED BY <3>4, <3>5
  <2> QED BY <2>1, <2>2
<1>3. CASE ServeWriteFails \/ ServeFileFails \/ ServeEof
  <2>1. Aborted
    BY <1>3 DEF ServeWriteFails, ServeFileFails, ServeEof, EndServe
  <2> QED BY <2>1 DEF Aborted, Writing
<1>4. CASE ServeRead
  <2>0. serve = "select" /\ down # <<>> /\ cur' = cur /\ cur = none /\ out = <<>>
    BY <1>0, <1>4 DEF ServeRead, Writing
  <2>1. CASE serve' = serve /\ out' = out
    BY <2>0, <2>1 DEF Writing
  <2>2. CASE ~(serve' = serve /\ out' = out)
    <3> DEFINE line == Head(down)
    <3>1. line \in DownLines
      BY <2>0, HeadAndTail DEF Base, DaemonTyped
    <3>2. /\ line.k = "event" /\ serve' = "deliver"
          /\ out' = <<inbound(line.ev, line.ev \in paths)>>
      BY <1>4, <2>2 DEF ServeRead
    <3>3. line.ev \in Events
      BY <3>1, <3>2, DownKinds
    <3>4. (line.ev \in paths) \in BOOLEAN
      OBVIOUS
    <3>5. /\ inbound(line.ev, line.ev \in paths) \in Inbounds
          /\ ~inbound(line.ev, line.ev \in paths).old
      BY <3>3, <3>4, Constructors DEF inbound
    <3> QED BY <2>0, <3>2, <3>5 DEF Writing
  <2> QED BY <2>1, <2>2
<1>5. CASE Deliver \/ PluginStops \/ Connect \/ ConnectFails
  BY <1>0, <1>5 DEF Deliver, PluginStops, Connect, ConnectFails, Writing
<1>6. CASE Caller \/ FailFast \/ Notify \/ PumpAck
  BY <1>0, <1>6 DEF Caller, Submit, EnterTx, TimeOut, FailFast, Notify, PumpAck, Writing
<1>7. CASE DaemonSide \/ UNCHANGED vars
  BY <1>0, <1>7, Sides DEF vars, plugin, Writing
<1> QED BY <1>1, <1>2, <1>3, <1>4, <1>5, <1>6, <1>7, Sides DEF PluginSide

\* What is empty when an end of the socket is closed.
LEMMA SocketStep ==
    ASSUME Base, [Next]_vars
    PROVE  SocketEnds'
<1>0. SocketEnds
  BY DEF Base
<1>1. CASE Connect
  BY <1>0, <1>1 DEF Connect, SocketEnds, Connected, Claimed, spool
<1>2. CASE PluginSide
  <2>1. UNCHANGED <<queue, dout, flushing, open, received, writer, handler, cleanup,
                    backlog, inflight, dEnd>>
    BY <1>2, Sides DEF spool, daemon, waiting
  <2>2. /\ pEnd' <=> serve' \in Connected
        /\ ~pEnd' => down' = <<>> /\ \A i \in Ids : pending'[i] = none
        /\ ~dEnd => up' = up
    <3>1. CASE Caller \/ FailFast \/ Notify \/ PumpAck \/ ConnectFails
      BY <1>0, <3>1 DEF Caller, Submit, EnterTx, TimeOut, FailFast, Notify, PumpAck,
           ConnectFails, SocketEnds, Connected, socket
    <3>2. CASE ServeTake \/ Deliver
      BY <1>0, <3>2 DEF ServeTake, Deliver, SocketEnds, Connected, socket
    <3>3. CASE ServeWrite
      BY <1>0, <3>3 DEF ServeWrite, SocketEnds, Connected
    <3>4. CASE ServeRead
      BY <1>0, <3>4 DEF ServeRead, SocketEnds, Connected
    <3>5. CASE ServeWriteFails \/ ServeFileFails \/ ServeEof \/ PluginStops
      BY <1>0, <3>5 DEF ServeWriteFails, ServeFileFails, ServeEof, EndServe, Aborted,
           PluginStops, Connected
    <3> QED BY <1>2, <3>1, <3>2, <3>3, <3>4, <3>5 DEF PluginSide
  <2> QED BY <1>0, <2>1, <2>2 DEF SocketEnds, Claimed
<1>3. CASE DaemonSide
  <2>1. UNCHANGED <<pEnd, serve, pending>> /\ (~pEnd => down' = down)
    <3>1. UNCHANGED <<pEnd, serve, pending>>
      BY <1>3, Sides DEF plugin
    <3>2. ~pEnd => down' = down
      BY <1>3 DEF DaemonSide, Dispatch, WriteDown, FlushEvent, FlushDone, WriterTakes,
         WriterFails, ReadLine, Execute, SendResult, EndHandler, Shutdown, HandlerEnds,
         DeleteFile, Release, Crash, Sweep, socket
    <3> QED BY <3>1, <3>2
  <2> DEFINE Q == /\ dEnd <=> Claimed
                  /\ ~dEnd => /\ up = <<>> /\ queue = <<>> /\ dout = <<>> /\ flushing = {}
                              /\ \A i \in Ids : open[i] = none
                              /\ received = {}
                              /\ ~writer
                  /\ handler = "flush" => ~writer
                  /\ handler # "cleanup" => cleanup = {}
                  /\ Claimed => backlog = {}
                  /\ handler \in {"none"} => inflight = {}
  <2>2. SUFFICES Q'
    BY <1>0, <2>1 DEF SocketEnds
  <2>q. Q
    BY <1>0 DEF SocketEnds
  <2>3. CASE \E e \in Events : Dispatch(e)
    BY <2>q, <2>3 DEF Dispatch, Claimed, socket, spool
  <2>4. CASE WriteDown \/ FlushEvent \/ FlushDone
    BY <2>q, <2>4 DEF WriteDown, FlushEvent, FlushDone, Claimed, socket, spool, waiting
  <2>5. CASE WriterTakes \/ WriterFails \/ SendResult
    BY <2>q, <2>5 DEF WriterTakes, WriterFails, SendResult, Claimed, socket, spool, waiting
  <2>6. CASE ReadLine
    BY <2>q, <2>6 DEF ReadLine, Claimed
  <2>7. CASE Execute
    BY <2>q, <2>7 DEF Execute, Claimed, socket, waiting
  <2>8. CASE EndHandler \/ Shutdown
    <3>1. HandlerEnds
      BY <2>8 DEF EndHandler, Shutdown
    <3> QED BY <3>1 DEF HandlerEnds, Claimed
  <2>9. CASE Release \/ Crash
    BY <2>q, <2>9 DEF Release, Crash, Claimed, socket, spool
  <2>10. CASE DeleteFile \/ Sweep
    BY <2>q, <2>10 DEF DeleteFile, Sweep, Claimed, socket, daemon, waiting
  <2> QED BY <1>3, <2>3, <2>4, <2>5, <2>6, <2>7, <2>8, <2>9, <2>10 DEF DaemonSide
<1>4. CASE UNCHANGED vars
  BY <1>0, <1>4 DEF vars, plugin, socket, spool, daemon, waiting, SocketEnds, Claimed
<1> QED BY <1>1, <1>2, <1>3, <1>4, Sides

\* The types and the shapes of everything the two processes hold.
LEMMA BaseStep ==
    ASSUME Base, [Next]_vars
    PROVE  Base'
BY PluginStep, DaemonStep, SpoolStep, CountedStep, WritingStep, SocketStep DEF Base

\* The types and counts hold at first,
LEMMA BaseInit ==
    ASSUME Init
    PROVE  Base
<1>1. PluginTyped
  BY DEF Init, PluginTyped, CallStates
<1>2. DaemonTyped
  BY DEF Init, DaemonTyped
<1>3. SpoolTyped
  BY DEF Init, SpoolTyped
<1>4. Counted
  <2>1. Left = Calls /\ Cardinality(Calls) \in Nat
    BY LinkAssumption, FS_CardinalityType DEF Init, Left
  <2> QED BY <2>1 DEF Init, Counted
<1>5. Writing
  BY DEF Init, Writing
<1>6. SocketEnds
  BY DEF Init, SocketEnds, Connected, Claimed
<1> QED BY <1>1, <1>2, <1>3, <1>4, <1>5, <1>6 DEF Base

\* and, each conjunct being preserved by every step, always.
LEMMA BaseAlways == Spec => []Base
<1>1. Init => Base
  BY BaseInit
<1>2. Base /\ [Next]_vars => Base'
  BY BaseStep
<1> QED BY <1>1, <1>2, PTL DEF Spec

----------------------------------------------------------------------------
(* Where a call is, from the channel to its execution. *)

In(s, x) == \E i \in 1..Len(s) : s[i] = x

\* A sequence holds its head and what its tail holds.
LEMMA InTail ==
    ASSUME NEW S, NEW s \in Seq(S), s # <<>>
    PROVE  /\ In(s, Head(s))
           /\ \A x : In(s, x) <=> x = Head(s) \/ In(Tail(s), x)
<1>0. Len(s) \in Nat
  BY LenProperties
<1>1. /\ Head(s) = s[1] /\ 1 \in 1..Len(s) /\ Len(Tail(s)) = Len(s) - 1
      /\ \A i \in 1..Len(Tail(s)) : i + 1 \in 1..Len(s) /\ Tail(s)[i] = s[i + 1]
  BY HeadAndTail
<1>2. ASSUME NEW x, In(s, x), x # Head(s)
      PROVE  In(Tail(s), x)
  <2>1. PICK i \in 1..Len(s) : s[i] = x
    BY <1>2 DEF In
  <2>2. i # 1
    BY <1>1, <1>2, <2>1
  <2>3. i - 1 \in 1..Len(Tail(s)) /\ (i - 1) + 1 = i
    BY <1>0, <1>1, <2>2
  <2>4. Tail(s)[i - 1] = x
    BY <1>1, <2>1, <2>3
  <2> QED BY <2>3, <2>4 DEF In
<1>3. In(s, Head(s)) /\ \A x : In(Tail(s), x) => In(s, x)
  BY <1>1 DEF In
<1> QED BY <1>2, <1>3

\* After an append a sequence holds what it held, and the new item.
LEMMA InAppend ==
    ASSUME NEW S, NEW s \in Seq(S), NEW y \in S
    PROVE  \A x : In(Append(s, y), x) <=> In(s, x) \/ x = y
<1>1. /\ Len(s) \in Nat /\ Len(Append(s, y)) = Len(s) + 1
      /\ \A i \in 1..Len(s) : Append(s, y)[i] = s[i]
      /\ Append(s, y)[Len(s) + 1] = y
  BY LenProperties, AppendProperties
<1>2. \A i \in 1..(Len(s) + 1) : i \in 1..Len(s) \/ i = Len(s) + 1
  BY <1>1
<1> QED BY <1>1, <1>2 DEF In

\* What the empty sequence and a sequence of one item hold.
LEMMA InShort == \A x : ~In(<<>>, x) /\ \A y : In(<<y>>, x) <=> x = y
BY DEF In

AtTx(c) == In(tx, c)
AtUp(c) == \E id \in Ids : In(up, cmd(id, c))
AtExec(c) == handler = "exec" /\ job.call = c

(***************************************************************************)
(* No two commands on the socket are of one call.                          *)
(***************************************************************************)
OneEach(s) == \A i, j \in 1..Len(s) :
    s[i].k = "cmd" /\ s[j].k = "cmd" /\ s[i].call = s[j].call => i = j

(***************************************************************************)
(* A call moves from the channel to serve's hands, to the socket, to the   *)
(* daemon's hands, and is then executed; it is in one place at a time, and *)
(* not yet decided or executed while it is in any of them.                 *)
(***************************************************************************)
Stage(c) ==
    /\ ran[c] \in {0, 1}
    /\ call[c] \in {"new", "sending", "unsent", "local"} =>
          ~AtTx(c) /\ cur # c /\ ~AtUp(c) /\ ~AtExec(c) /\ ran[c] = 0
    /\ call[c] \in {"new", "sending"} => verdict[c] = none
    /\ AtTx(c) \/ cur = c \/ AtUp(c) \/ AtExec(c) => verdict[c] = none /\ ran[c] = 0
    /\ AtTx(c) => cur # c /\ ~AtUp(c) /\ ~AtExec(c)
    /\ cur = c => ~AtUp(c) /\ ~AtExec(c)
    /\ AtUp(c) => ~AtExec(c)

StageInv == OneEach(up) /\ \A c \in Calls : Stage(c)

(***************************************************************************)
(* The steps of a call.                                                    *)
(***************************************************************************)
Kept(c) ==
    /\ AtTx(c)' => AtTx(c)
    /\ cur' = c => cur = c
    /\ AtUp(c)' => AtUp(c)
    /\ AtExec(c)' => AtExec(c)
    /\ ran'[c] = ran[c] /\ verdict'[c] = verdict[c]
    /\ \/ call'[c] = call[c]
       \/ /\ call[c] \in {"sending", "waiting"}
          /\ call'[c] \in {"timeout", "lost", "gone", "ok", "refused"}
       \/ call[c] = "new" /\ call'[c] \in {"sending", "local"}
       \/ /\ call[c] = "waiting" /\ call'[c] \in {"unsent", "local"}
          /\ AtTx(c) /\ ~AtTx(c)'

Entered(c) ==
    /\ call[c] \in {"new", "sending"} /\ call'[c] = "waiting"
    /\ cur' = cur
    /\ AtUp(c)' => AtUp(c)
    /\ AtExec(c)' => AtExec(c)
    /\ ran'[c] = ran[c] /\ verdict'[c] = verdict[c]

Taken(c) ==
    /\ AtTx(c) /\ ~AtTx(c)' /\ cur' = c
    /\ AtUp(c)' => AtUp(c)
    /\ AtExec(c)' => AtExec(c)
    /\ ran'[c] = ran[c] /\ verdict'[c] = verdict[c] /\ call'[c] = call[c]

Sent(c) ==
    /\ cur = c /\ cur' # c
    /\ AtTx(c)' => AtTx(c)
    /\ AtExec(c)' => AtExec(c)
    /\ ran'[c] = ran[c] /\ verdict'[c] = verdict[c] /\ call'[c] = call[c]

Read(c) ==
    /\ AtUp(c) /\ ~AtUp(c)' /\ ~AtExec(c)
    /\ AtExec(c)' => verdict'[c] = verdict[c]
    /\ AtTx(c)' => AtTx(c)
    /\ cur' = cur
    /\ ran'[c] = ran[c] /\ call'[c] = call[c]

Executed(c) ==
    /\ AtExec(c) /\ ~AtExec(c)' /\ ran'[c] = ran[c] + 1
    /\ AtTx(c)' => AtTx(c)
    /\ AtUp(c)' => AtUp(c)
    /\ cur' = cur
    /\ call'[c] = call[c]

\* Those are all its steps, and they keep the call in one place.
LEMMA StageKept ==
    ASSUME NEW c \in Calls, Stage(c),
           Kept(c) \/ Entered(c) \/ Taken(c) \/ Sent(c) \/ Read(c) \/ Executed(c)
    PROVE  Stage(c)'
<1> USE DEF Stage
<1>1. CASE Kept(c)
  BY <1>1 DEF Kept
<1>2. CASE Entered(c)
  BY <1>2 DEF Entered
<1>3. CASE Taken(c)
  BY <1>3 DEF Taken
<1>4. CASE Sent(c)
  BY <1>4 DEF Sent
<1>5. CASE Read(c)
  BY <1>5 DEF Read
<1>6. CASE Executed(c)
  BY <1>6 DEF Executed
<1> QED BY <1>1, <1>2, <1>3, <1>4, <1>5, <1>6

\* The first line that serve still has to write: the command itself is the last one.
LEMMA FirstLine ==
    ASSUME Base, serve = "write"
    PROVE  /\ out # <<>> /\ Head(out) \in UpLines /\ Head(out) = out[1] /\ Len(out) \in Nat
           /\ Len(out) >= 1
           /\ cur = none => Len(out) = 1 /\ Head(out) \in Acks
           /\ cur # none /\ Len(out) > 1 => /\ Head(out) \in FileParts
                                            /\ Head(out).k \in {"file", "chunk", "end"}
                                            /\ Head(out).id = nextId - 1
           /\ cur # none /\ ~(Len(out) > 1) => Head(out) = cmd(nextId - 1, cur)
           /\ cur # none => nextId - 1 \in Ids
<1>1. CASE cur = none
  <2>1. PICK a \in Acks : out = <<a>>
    BY <1>1 DEF Base, Writing
  <2> QED BY <1>1, <2>1 DEF UpLines
<1>2. CASE cur # none
  <2>1. /\ out \in Seq(UpLines) /\ Len(out) > 0 /\ nextId - 1 \in Ids
        /\ out[Len(out)] = cmd(nextId - 1, cur)
        /\ \A i \in 1..(Len(out) - 1) : out[i] \in FileParts /\ out[i].id = nextId - 1
    BY <1>2 DEF Base, Writing
  <2>2. Len(out) \in Nat /\ out # <<>>
    BY <2>1, LenProperties, EmptySeq
  <2>3. Head(out) \in UpLines /\ Head(out) = out[1]
    BY <2>1, <2>2, HeadAndTail
  <2>4. CASE Len(out) > 1
    <3>1. 1 \in 1..(Len(out) - 1)
      BY <2>2, <2>4
    <3>2. out[1] \in FileParts /\ out[1].id = nextId - 1
      BY <2>1, <3>1
    <3>3. out[1].k \in {"file", "chunk", "end"}
      BY <3>2 DEF FileParts, FileLines, Chunks, Ends
    <3> QED BY <1>2, <2>1, <2>2, <2>3, <2>4, <3>2, <3>3
  <2>5. CASE ~(Len(out) > 1)
    <3> DEFINE n == Len(out)
    <3>0. n \in Nat /\ n > 0 /\ ~(n > 1)
      BY <2>1, <2>2, <2>5
    <3> HIDE DEF n
    <3>2. n = 1
      BY <3>0
    <3>1. Len(out) = 1
      BY <3>2 DEF n
    <3> QED BY <1>2, <2>1, <2>2, <2>3, <2>5, <3>1
  <2> QED BY <2>4, <2>5
<1> QED BY <1>1, <1>2

\* The line the handler reads, and the commands that are left behind it.
LEMMA FirstRead ==
    ASSUME Base, OneEach(up), ReadLine
    PROVE  /\ up # <<>> /\ Head(up) \in UpLines /\ up' = Tail(up)
           /\ \A x : In(up, x) <=> x = Head(up) \/ In(up', x)
           /\ \A c \in Calls : Head(up).k = "cmd" /\ Head(up).call = c => ~AtUp(c)'
           /\ \A c \in Calls : AtUp(c)' => AtUp(c)
<1>1. up # <<>> /\ up \in Seq(UpLines) /\ up' = Tail(up)
  BY DEF Base, DaemonTyped, ReadLine
<1>2. /\ Head(up) \in UpLines /\ Head(up) = up[1] /\ 1 \in 1..Len(up)
      /\ \A i \in 1..Len(Tail(up)) : i + 1 \in 1..Len(up) /\ Tail(up)[i] = up[i + 1]
  BY <1>1, HeadAndTail
<1>3. \A x : In(up, x) <=> x = Head(up) \/ In(up', x)
  BY <1>1, InTail
<1>4. ASSUME NEW c \in Calls, Head(up).k = "cmd", Head(up).call = c, AtUp(c)'
      PROVE  FALSE
  <2>1. PICK id \in Ids : In(up', cmd(id, c))
    BY <1>4 DEF AtUp
  <2>2. PICK i \in 1..Len(Tail(up)) : Tail(up)[i] = cmd(id, c)
    BY <1>1, <2>1 DEF In
  <2>3. i + 1 \in 1..Len(up) /\ up[i + 1] = cmd(id, c) /\ i \in Nat /\ i >= 1
    BY <1>2, <2>2
  <2>4. up[i + 1].k = "cmd" /\ up[i + 1].call = c
    BY <2>3 DEF cmd
  <2>5. i + 1 = 1
    BY <1>2, <1>4, <2>3, <2>4 DEF OneEach
  <2> QED BY <2>3, <2>5
<1>5. \A c \in Calls : AtUp(c)' => AtUp(c)
  BY <1>3 DEF AtUp
<1> QED BY <1>1, <1>2, <1>3, <1>4, <1>5

\* Every step of the two processes is one of those steps of each call.
LEMMA Moves ==
    ASSUME Base, OneEach(up), [Next]_vars, NEW c \in Calls
    PROVE  Kept(c) \/ Entered(c) \/ Taken(c) \/ Sent(c) \/ Read(c) \/ Executed(c)
<1>0. /\ tx \in Seq(Calls \cup Acks) /\ up \in Seq(UpLines) /\ call \in [Calls -> CallStates]
      /\ cur \in Calls \cup {none} /\ none \notin Calls /\ c # none
      /\ ran \in [Calls -> Nat] /\ verdict \in [Calls -> {"ok", "err", none}]
  BY KindsApart DEF Base, PluginTyped, DaemonTyped
<1>t. tx # <<>> => /\ Head(tx) \in Calls \cup Acks /\ In(tx, Head(tx))
                   /\ \A x : In(tx, x) <=> x = Head(tx) \/ In(Tail(tx), x)
  BY <1>0, HeadAndTail, InTail
<1>n. tx # <<>> /\ Head(tx) = c => ~In(Tail(tx), c)
  <2> SUFFICES ASSUME tx # <<>>, Head(tx) = c, NEW i \in 1..Len(Tail(tx)), Tail(tx)[i] = c
               PROVE  FALSE
    BY DEF In
  <2>1. /\ Head(tx) = tx[1] /\ 1 \in 1..Len(tx) /\ i + 1 \in 1..Len(tx) /\ Tail(tx)[i] = tx[i + 1]
        /\ i \in Nat /\ i >= 1
    BY <1>0, HeadAndTail
  <2>2. 1 = i + 1
    BY <2>1 DEF Base, Counted
  <2> QED BY <2>1, <2>2
<1>a. \A x \in Acks : In(Append(tx, x), c) => In(tx, c)
  BY <1>0, InAppend, KindsApart
<1>1. ASSUME NEW d \in Calls, Submit(d) \/ EnterTx(d) \/ TimeOut(d)
      PROVE  Kept(c) \/ Entered(c)
  <2>0. UNCHANGED <<cur, up, handler, job, ran, verdict>>
    BY <1>1 DEF Submit, EnterTx, TimeOut, socket, daemon, results
  <2>1. /\ cur' = cur /\ (AtUp(c)' => AtUp(c)) /\ (AtExec(c)' => AtExec(c))
        /\ ran'[c] = ran[c] /\ verdict'[c] = verdict[c]
    BY <2>0 DEF AtUp, AtExec
  <2>2. CASE d # c
    <3>1. call'[c] = call[c] /\ (tx' = tx \/ tx' = Append(tx, d))
      BY <1>0, <1>1, <2>2 DEF Submit, EnterTx, TimeOut
    <3>2. In(Append(tx, d), c) => In(tx, c)
      BY <1>0, <2>2, InAppend
    <3>3. AtTx(c)' => AtTx(c)
      BY <3>1, <3>2 DEF AtTx
    <3> QED BY <2>1, <3>1, <3>3 DEF Kept
  <2>3. CASE d = c
    <3>1. \/ call[c] \in {"new", "sending"} /\ call'[c] = "waiting"
          \/ tx' = tx /\ call[c] = "new" /\ call'[c] \in {"sending", "local"}
          \/ tx' = tx /\ call[c] = "waiting" /\ call'[c] = "timeout"
      BY <1>0, <1>1, <2>3 DEF Submit, EnterTx, TimeOut
    <3>2. tx' = tx => (AtTx(c)' => AtTx(c))
      BY DEF AtTx
    <3> QED BY <2>1, <3>1, <3>2 DEF Kept, Entered
  <2> QED BY <2>2, <2>3
<1>2. CASE FailFast
  <2>0. /\ UNCHANGED <<cur, up, handler, job, ran, verdict>> /\ tx # <<>> /\ tx' = Tail(tx)
        /\ call' = IF Head(tx) \notin Calls THEN call ELSE Resolved({Head(tx)}, "unsent")
    BY <1>2 DEF FailFast, socket, daemon, results
  <2>1. /\ cur' = cur /\ (AtUp(c)' => AtUp(c)) /\ (AtExec(c)' => AtExec(c))
        /\ ran'[c] = ran[c] /\ verdict'[c] = verdict[c]
    BY <2>0 DEF AtUp, AtExec
  <2>2. AtTx(c)' => AtTx(c)
    BY <1>t, <2>0 DEF AtTx
  <2>3. \/ call'[c] = call[c]
        \/ Head(tx) = c /\ call[c] = "waiting" /\ call'[c] = "unsent"
    BY <2>0 DEF Resolved
  <2>4. Head(tx) = c => AtTx(c) /\ ~AtTx(c)'
    BY <1>t, <1>n, <2>0 DEF AtTx
  <2> QED BY <2>1, <2>2, <2>3, <2>4 DEF Kept
<1>3. CASE ServeTake
  <2>0. UNCHANGED <<up, handler, job, ran, verdict>> /\ tx # <<>> /\ tx' = Tail(tx)
    BY <1>3 DEF ServeTake, socket, daemon, results
  <2>1. /\ (AtUp(c)' => AtUp(c)) /\ (AtExec(c)' => AtExec(c))
        /\ ran'[c] = ran[c] /\ verdict'[c] = verdict[c]
    BY <2>0 DEF AtUp, AtExec
  <2>2. AtTx(c)' => AtTx(c)
    BY <1>t, <2>0 DEF AtTx
  <2>3. Head(tx) = c => AtTx(c) /\ ~AtTx(c)'
    BY <1>t, <1>n, <2>0 DEF AtTx
  <2>4. \/ call' = call /\ cur' = none
        \/ call' = call /\ Head(tx) \in Calls /\ cur' = Head(tx)
        \/ cur' = cur /\ call' = Resolved({Head(tx)}, "local")
    BY <1>3 DEF ServeTake
  <2>5. \/ call'[c] = call[c] /\ cur' = none
        \/ call'[c] = call[c] /\ cur' = Head(tx)
        \/ cur' = cur /\ call'[c] = call[c]
        \/ cur' = cur /\ Head(tx) = c /\ call[c] = "waiting" /\ call'[c] = "local"
    BY <2>4 DEF Resolved
  <2> QED BY <1>0, <2>1, <2>2, <2>3, <2>5 DEF Kept, Taken
<1>4. CASE ServeWrite
  <2>0. /\ UNCHANGED <<tx, call, handler, job, ran, verdict>>
        /\ serve = "write" /\ up' = Append(up, Head(out))
    BY <1>4 DEF ServeWrite, daemon, results
  <2>1. /\ (AtTx(c)' => AtTx(c)) /\ (AtExec(c)' => AtExec(c))
        /\ ran'[c] = ran[c] /\ verdict'[c] = verdict[c] /\ call'[c] = call[c]
    BY <2>0 DEF AtTx, AtExec
  <2>2. Head(out) \in UpLines
    BY <2>0, FirstLine
  <2>3. \A x : In(up', x) <=> In(up, x) \/ x = Head(out)
    BY <1>0, <2>0, <2>2, InAppend
  <2>4. CASE cur # c \/ Len(out) > 1
    <3>1. \A id \in Ids : Head(out) # cmd(id, c)
      <4>1. CASE cur = none
        <5>1. Head(out).k = "ack"
          BY <2>0, <4>1, FirstLine DEF Acks
        <5> QED BY <5>1 DEF cmd
      <4>2. CASE cur # none /\ Len(out) > 1
        <5>1. Head(out).k \in {"file", "chunk", "end"}
          BY <2>0, <4>2, FirstLine
        <5> QED BY <5>1 DEF cmd
      <4>3. CASE cur # none /\ cur # c /\ ~(Len(out) > 1)
        <5>1. Head(out) = cmd(nextId - 1, cur)
          BY <2>0, <4>3, FirstLine
        <5> QED BY <4>3, <5>1 DEF cmd
      <4> QED BY <2>4, <4>1, <4>2, <4>3
    <3>2. AtUp(c)' => AtUp(c)
      BY <2>3, <3>1 DEF AtUp
    <3>3. cur' = c => cur = c
      BY <1>0, <1>4 DEF ServeWrite
    <3> QED BY <2>1, <3>2, <3>3 DEF Kept
  <2>5. CASE cur = c /\ ~(Len(out) > 1)
    <3>1. cur' # c
      BY <1>0, <1>4, <2>5 DEF ServeWrite
    <3> QED BY <2>1, <2>5, <3>1 DEF Sent
  <2> QED BY <2>4, <2>5
<1>5. CASE ServeWriteFails \/ ServeFileFails \/ ServeEof
  <2>0. /\ UNCHANGED <<up, handler, job, ran, verdict>>
        /\ cur' = none /\ call' = Resolved((Pending \cup {cur}) \ {none}, "lost")
        /\ tx' = [i \in 1..Len(tx) |-> Aged(tx[i])]
    BY <1>5 DEF ServeWriteFails, ServeFileFails, ServeEof, EndServe, Aborted, daemon, results
  <2>1. /\ (AtUp(c)' => AtUp(c)) /\ (AtExec(c)' => AtExec(c))
        /\ ran'[c] = ran[c] /\ verdict'[c] = verdict[c]
    BY <2>0 DEF AtUp, AtExec
  <2>2. call'[c] = call[c] \/ (call[c] = "waiting" /\ call'[c] = "lost")
    BY <2>0 DEF Resolved
  <2>3. AtTx(c)' => AtTx(c)
    <3> SUFFICES ASSUME NEW i \in 1..Len(tx'), tx'[i] = c
                 PROVE  AtTx(c)
      BY DEF AtTx, In
    <3>1. i \in 1..Len(tx) /\ tx[i] \in Calls \cup Acks /\ Aged(tx[i]) = c
      BY <1>0, <2>0, AgedSeqs
    <3>2. tx[i] = c
      BY <1>0, <3>1, AgedTyped, KindsApart
    <3> QED BY <3>1, <3>2 DEF AtTx, In
  <2> QED BY <1>0, <2>0, <2>1, <2>2, <2>3 DEF Kept
<1>6. CASE ServeRead
  <2>0. UNCHANGED <<tx, cur, up, handler, job, ran, verdict>>
    BY <1>6 DEF ServeRead, daemon, results
  <2>1. /\ (AtTx(c)' => AtTx(c)) /\ (AtUp(c)' => AtUp(c)) /\ (AtExec(c)' => AtExec(c))
        /\ ran'[c] = ran[c] /\ verdict'[c] = verdict[c] /\ cur' = cur
    BY <2>0 DEF AtTx, AtUp, AtExec
  <2>2. call' = call \/ \E C, r : r \in {"ok", "refused"} /\ call' = Resolved(C, r)
    BY <1>6 DEF ServeRead
  <2>3. call'[c] = call[c] \/ (call[c] = "waiting" /\ call'[c] \in {"ok", "refused"})
    BY <2>2 DEF Resolved
  <2> QED BY <2>1, <2>3 DEF Kept
<1>7. CASE Notify \/ PumpAck
  <2>0. UNCHANGED <<call, cur, up, handler, job, ran, verdict, nextId>>
    BY <1>7 DEF Notify, PumpAck, socket, daemon, results
  <2>1. tx' = tx \/ \E x \in Acks : tx' = Append(tx, x)
    <3>1. CASE Notify
      <4>1. Head(evs) \in Inbounds
        BY <3>1, HeadAndTail DEF Base, PluginTyped, Notify
      <4>2. ack(Head(evs).ev, Head(evs).old) \in Acks
        BY <4>1, Constructors DEF Inbounds
      <4> QED BY <3>1, <4>2 DEF Notify
    <3>2. CASE PumpAck
      BY <3>2 DEF Base, PluginTyped, PumpAck
    <3> QED BY <1>7, <3>1, <3>2
  <2>2. AtTx(c)' => AtTx(c)
    BY <1>a, <2>1 DEF AtTx
  <2>3. /\ (AtUp(c)' => AtUp(c)) /\ (AtExec(c)' => AtExec(c))
        /\ ran'[c] = ran[c] /\ verdict'[c] = verdict[c] /\ cur' = cur /\ call'[c] = call[c]
    BY <2>0 DEF AtUp, AtExec
  <2> QED BY <2>2, <2>3 DEF Kept
<1>8. CASE PluginStops
  <2>0. UNCHANGED <<up, handler, job, ran, verdict>> /\ tx' = <<>> /\ cur' = none
    BY <1>8 DEF PluginStops, daemon, results
  <2>1. /\ (AtUp(c)' => AtUp(c)) /\ (AtExec(c)' => AtExec(c)) /\ ~AtTx(c)'
        /\ ran'[c] = ran[c] /\ verdict'[c] = verdict[c]
    BY <2>0, InShort DEF AtTx, AtUp, AtExec
  <2>2. call'[c] = call[c] \/ (call[c] \in {"sending", "waiting"} /\ call'[c] = "gone")
    BY <1>8 DEF PluginStops
  <2> QED BY <1>0, <2>0, <2>1, <2>2 DEF Kept
<1>9. CASE Connect
  <2>0. UNCHANGED <<tx, cur, call, job, ran, verdict>> /\ up' = <<>> /\ handler' = "flush"
    BY <1>9 DEF Connect, results
  <2> QED BY <2>0, InShort DEF Kept, AtTx, AtUp, AtExec
<1>10. CASE ConnectFails \/ Deliver
  <2>0. UNCHANGED <<tx, cur, call, up, handler, job, ran, verdict>>
    BY <1>10 DEF ConnectFails, Deliver, socket, daemon, results
  <2> QED BY <2>0 DEF Kept, AtTx, AtUp, AtExec
<1>11. CASE DaemonSide /\ ~ReadLine /\ ~Execute
  <2>0. UNCHANGED <<tx, cur, call>>
    BY <1>11, Sides DEF plugin
  <2>1. /\ (up' = up \/ up' = <<>>) /\ UNCHANGED <<ran, verdict>>
        /\ (handler' # "exec" \/ UNCHANGED <<handler, job>>)
    BY <1>11 DEF DaemonSide, Dispatch, WriteDown, FlushEvent, FlushDone, WriterTakes,
         WriterFails, SendResult, EndHandler, Shutdown, HandlerEnds,
         DeleteFile, Release, Crash, Sweep, socket, daemon, results
  <2>2. /\ (AtTx(c)' => AtTx(c)) /\ (AtUp(c)' => AtUp(c)) /\ (AtExec(c)' => AtExec(c))
    BY <2>0, <2>1, InShort DEF AtTx, AtUp, AtExec
  <2> QED BY <2>0, <2>1, <2>2 DEF Kept
<1>12. CASE ReadLine
  <2>0. UNCHANGED <<tx, cur, call, ran>> /\ handler = "read"
    BY <1>12, Sides DEF plugin, DaemonSide, ReadLine
  <2>1. AtTx(c)' => AtTx(c)
    BY <2>0 DEF AtTx
  <2>2. (AtUp(c)' => AtUp(c)) /\ Head(up) \in UpLines
    BY <1>12, FirstRead
  <2>3. CASE Head(up).k = "cmd" /\ Head(up).call = c
    <3>1. ~AtUp(c)'
      BY <1>12, <2>3, FirstRead
    <3>2. AtUp(c)
      <4>1. Head(up) = cmd(Head(up).id, c) /\ Head(up).id \in Ids
        BY <2>2, <2>3, UpKinds
      <4>2. In(up, Head(up))
        BY <1>12, FirstRead
      <4> QED BY <4>1, <4>2 DEF AtUp
    <3>3. AtExec(c)' => verdict'[c] = verdict[c]
      BY <1>12, <2>3 DEF ReadLine, AtExec
    <3>4. ~AtExec(c)
      BY <2>0 DEF AtExec
    <3> QED BY <2>0, <2>1, <3>1, <3>2, <3>3, <3>4 DEF Read
  <2>4. CASE ~(Head(up).k = "cmd" /\ Head(up).call = c)
    <3>1. verdict'[c] = verdict[c] /\ ~AtExec(c)'
      <4>1. CASE Head(up).k # "cmd"
        BY <1>12, <2>0, <4>1 DEF ReadLine, AtExec
      <4>2. CASE Head(up).k = "cmd"
        <5>1. Head(up).call \in Calls /\ Head(up).call # c
          BY <2>2, <2>4, <4>2, UpKinds
        <5>2. verdict' = verdict \/ verdict' = [verdict EXCEPT ![Head(up).call] = "err"]
          BY <1>12 DEF ReadLine
        <5>3. handler' # "exec" \/ job' = Head(up)
          BY <1>12, <2>0 DEF ReadLine
        <5>4. verdict'[c] = verdict[c]
          BY <1>0, <5>1, <5>2
        <5> QED BY <5>1, <5>3, <5>4 DEF AtExec
      <4> QED BY <4>1, <4>2
    <3> QED BY <2>0, <2>1, <2>2, <3>1 DEF Kept
  <2> QED BY <2>3, <2>4
<1>13. CASE Execute
  <2>0. /\ UNCHANGED <<tx, cur, call, up>> /\ handler = "exec" /\ handler' = "result"
        /\ job.call \in Calls
        /\ ran' = [ran EXCEPT ![job.call] = @ + 1]
        /\ \E v : verdict' = [verdict EXCEPT ![job.call] = v]
    BY <1>13, Sides DEF Base, DaemonTyped, Cmds, plugin, DaemonSide, Execute, socket
  <2>1. /\ (AtTx(c)' => AtTx(c)) /\ (AtUp(c)' => AtUp(c)) /\ ~AtExec(c)'
    BY <2>0 DEF AtTx, AtUp, AtExec
  <2>2. CASE job.call = c
    BY <1>0, <2>0, <2>1, <2>2 DEF AtExec, Executed
  <2>3. CASE job.call # c
    <3>1. ran'[c] = ran[c] /\ verdict'[c] = verdict[c]
      BY <1>0, <2>0, <2>3
    <3> QED BY <2>0, <2>1, <3>1 DEF Kept
  <2> QED BY <2>2, <2>3
<1>14. CASE UNCHANGED vars
  BY <1>14 DEF vars, plugin, socket, daemon, results, Kept, AtTx, AtUp, AtExec
<1> QED
  BY <1>1, <1>2, <1>3, <1>4, <1>5, <1>6, <1>7, <1>8, <1>9, <1>10, <1>11, <1>12, <1>13, <1>14,
     Sides DEF PluginSide, Caller

\* What a step does to the lines towards the daemon.
LEMMA UpStep ==
    ASSUME Base, [Next]_vars
    PROVE  \/ up' = up
           \/ up' = <<>>
           \/ ServeWrite /\ up' = Append(up, Head(out)) /\ Head(out) \in UpLines
           \/ ReadLine /\ up # <<>> /\ up' = Tail(up)
<1>1. CASE PluginSide
  <2>1. up' = up \/ (ServeWrite /\ up' = Append(up, Head(out)))
    BY <1>1 DEF PluginSide, Caller, Submit, EnterTx, TimeOut, ConnectFails, FailFast,
         ServeTake, ServeWrite, ServeWriteFails, ServeFileFails, ServeEof,
         ServeRead, Deliver, Notify, PumpAck, PluginStops, socket
  <2>2. ServeWrite => Head(out) \in UpLines
    BY FirstLine DEF ServeWrite
  <2> QED BY <2>1, <2>2
<1>2. CASE DaemonSide
  BY <1>2 DEF DaemonSide, Dispatch, WriteDown, FlushEvent, FlushDone, WriterTakes,
       WriterFails, ReadLine, Execute, SendResult, EndHandler, Shutdown, HandlerEnds,
       DeleteFile, Release, Crash, Sweep, socket
<1>3. CASE Connect \/ UNCHANGED vars
  BY <1>3 DEF Connect, vars, socket
<1> QED BY <1>1, <1>2, <1>3, Sides

\* The commands on the socket stay of different calls.
LEMMA OneEachStep ==
    ASSUME Base, StageInv, [Next]_vars
    PROVE  OneEach(up)'
<1>0. up \in Seq(UpLines) /\ Len(up) \in Nat
  BY LenProperties DEF Base, DaemonTyped
<1>o. OneEach(up)
  BY DEF StageInv
<1>1. CASE up' = up \/ up' = <<>>
  BY <1>o, <1>1 DEF OneEach
<1>2. CASE ReadLine /\ up # <<>> /\ up' = Tail(up)
  <2>1. /\ Len(Tail(up)) \in Nat
        /\ \A i \in 1..Len(Tail(up)) : i + 1 \in 1..Len(up) /\ Tail(up)[i] = up[i + 1]
    BY <1>0, <1>2, HeadAndTail, LenProperties
  <2> SUFFICES ASSUME NEW i \in 1..Len(Tail(up)), NEW j \in 1..Len(Tail(up)),
                      Tail(up)[i].k = "cmd", Tail(up)[j].k = "cmd",
                      Tail(up)[i].call = Tail(up)[j].call
               PROVE  i = j
    BY <1>2 DEF OneEach
  <2>2. i + 1 = j + 1
    BY <1>o, <2>1 DEF OneEach
  <2> QED BY <2>1, <2>2
<1>3. CASE ServeWrite /\ up' = Append(up, Head(out)) /\ Head(out) \in UpLines
  <2> DEFINE l == Head(out)
  <2>1. /\ Len(up') = Len(up) + 1 /\ up'[Len(up) + 1] = l
        /\ \A i \in 1..Len(up) : up'[i] = up[i]
    BY <1>0, <1>3, AppendProperties
  <2>2. l.k = "cmd" => \A i \in 1..Len(up) : up[i].k = "cmd" => up[i].call # l.call
    <3> SUFFICES ASSUME l.k = "cmd", NEW i \in 1..Len(up), up[i].k = "cmd", up[i].call = l.call
                 PROVE  FALSE
      OBVIOUS
    <3>1. cur # none /\ ~(Len(out) > 1)
      BY <1>3, FirstLine DEF ServeWrite, Acks
    <3>2. l = cmd(nextId - 1, cur)
      BY <1>3, <3>1, FirstLine DEF ServeWrite
    <3>3. l.call = cur /\ cur \in Calls
      BY <3>1, <3>2 DEF cmd, Base, PluginTyped
    <3>4. up[i] \in UpLines
      BY <1>0
    <3>5. up[i] = cmd(up[i].id, cur) /\ up[i].id \in Ids
      BY <3>3, <3>4, UpKinds
    <3>6. AtUp(cur)
      BY <3>5 DEF AtUp, In
    <3>7. Stage(cur)
      BY <3>3 DEF StageInv
    <3> QED BY <3>6, <3>7 DEF Stage
  <2> HIDE DEF l
  <2>3. \A i \in 1..Len(up') : i \in 1..Len(up) \/ i = Len(up) + 1
    BY <1>0, <2>1
  <2> QED BY <1>o, <2>1, <2>2, <2>3 DEF OneEach
<1> QED BY <1>1, <1>2, <1>3, UpStep

\* Every call keeps its one place, from tx to its execution, in every step.
LEMMA StageStep ==
    ASSUME Base, StageInv, [Next]_vars
    PROVE  StageInv'
<1>1. OneEach(up)'
  BY OneEachStep
<1>2. ASSUME NEW c \in Calls
      PROVE  Stage(c)'
  <2>1. OneEach(up) /\ Stage(c)
    BY DEF StageInv
  <2>2. Kept(c) \/ Entered(c) \/ Taken(c) \/ Sent(c) \/ Read(c) \/ Executed(c)
    BY <2>1, Moves
  <2> QED BY <2>1, <2>2, StageKept
<1> QED BY <1>1, <1>2 DEF StageInv

\* At first every call is new.
LEMMA StageInit ==
    ASSUME Init
    PROVE  StageInv
<1>1. tx = <<>> /\ up = <<>> /\ handler = "none" /\ cur = none
  BY DEF Init
<1>2. \A c \in Calls : ~AtTx(c) /\ ~AtUp(c) /\ ~AtExec(c) /\ cur # c
  BY <1>1, InShort, KindsApart DEF AtTx, AtUp, AtExec
<1>3. \A c \in Calls : ran[c] = 0 /\ verdict[c] = none
  BY DEF Init
<1>4. OneEach(up)
  BY <1>1 DEF OneEach
<1> QED BY <1>2, <1>3, <1>4 DEF StageInv, Stage

(***************************************************************************)
(* Whatever connections come and go, however many calls wait and whichever *)
(* time out, no call is executed twice, and none that its caller was told  *)
(* was not sent (is_local, or no connection): the entry in tx leaves it    *)
(* once, its command is on one connection only, and serve never sends it   *)
(* again.                                                                  *)
(***************************************************************************)
THEOREM NoCallRunsTwice == Spec => []RunsOnce
<1>1. Init => Base /\ StageInv
  BY BaseInit, StageInit
<1>2. Base /\ StageInv /\ [Next]_vars => Base' /\ StageInv'
  BY BaseStep, StageStep
<1>3. Base /\ StageInv => RunsOnce
  <2> SUFFICES ASSUME StageInv, NEW c \in Calls
               PROVE  ran[c] <= IF call[c] \in {"new", "sending", "unsent", "local"} THEN 0 ELSE 1
    BY DEF RunsOnce
  <2>1. Stage(c)
    BY DEF StageInv
  <2> QED BY <2>1 DEF Stage
<1> QED BY <1>1, <1>2, <1>3, PTL DEF Spec

----------------------------------------------------------------------------
(* Which result belongs to which call. *)

Found(r) ==
    \/ handler = "result" /\ job = r
    \/ In(queue, r) \/ In(dout, r) \/ In(down, r)

Asked(id, c) == In(up, cmd(id, c)) \/ (handler = "exec" /\ job = cmd(id, c))

(***************************************************************************)
(* A number this connection has given out and whose command is written.    *)
(***************************************************************************)
Under(id) == id < nextId /\ (cur # none => id < nextId - 1)

Outcome(r) == IF r.ok THEN "ok" ELSE "err"

(***************************************************************************)
(* While the plugin is connected, a result on its way has the outcome of   *)
(* the call that waits under its number, and a command on its way that of  *)
(* the call under which it was entered, unless nobody waits there.         *)
(***************************************************************************)
ResultsPaired == \A r \in Results : Found(r) =>
    Under(r.id) /\ (pending[r.id] # none => verdict[pending[r.id]] = Outcome(r))
CommandsPaired == \A id \in Ids, c \in Calls : Asked(id, c) =>
    Under(id) /\ pending[id] \in {c, none}
PendingUnder == \A id \in Ids : pending[id] # none => Under(id)

AnswerInv ==
    /\ AnswerIsOwn
    /\ pEnd => ResultsPaired /\ CommandsPaired
    /\ PendingUnder

\* An event's lines are no result.
LEMMA NoResultInEvent ==
    ASSUME NEW e \in Events, NEW gone \in BOOLEAN, NEW r \in Results
    PROVE  ~In(EventLines(e, gone), r)
<1>1. r.k = "result"
  BY DEF Results
<1>2. event(e) # r /\ piece("in_file", e) # r /\ piece("in_data", e) # r
  BY <1>1 DEF event, piece
<1>3. CASE EventLines(e, gone) = <<event(e)>>
  BY <1>2, <1>3, InShort
<1>4. CASE EventLines(e, gone) = <<piece("in_file", e), piece("in_data", e), event(e)>>
  <2>1. \A i \in 1..3 : EventLines(e, gone)[i] # r
    BY <1>2, <1>4
  <2>2. Len(EventLines(e, gone)) = 3
    BY <1>4
  <2> QED BY <2>1, <2>2 DEF In
<1> QED BY <1>3, <1>4, EventLinesTyped

\* A result is made by the handler and then passed on, to the queue, the writer and the
\* socket.
LEMMA FoundStep ==
    ASSUME Base, [Next]_vars, NEW r \in Results, Found(r)'
    PROVE  Found(r) \/ (handler' = "result" /\ job' = r /\ (ReadLine \/ Execute))
<1>0. /\ queue \in Seq(Notices \cup Results) /\ dout \in Seq(DownLines)
      /\ down \in Seq(DownLines) /\ flushing \in SUBSET Events
      /\ r \in DownLines /\ r \in Notices \cup Results
  BY DEF Base, DaemonTyped, DownLines
<1>1. CASE PluginSide
  <2>1. UNCHANGED <<handler, job, queue, dout>>
    BY <1>1, Sides DEF daemon
  <2>2. down' = down \/ down' = <<>> \/ (down # <<>> /\ down' = Tail(down))
    BY <1>1 DEF PluginSide, Caller, Submit, EnterTx, TimeOut, ConnectFails, FailFast,
         ServeTake, ServeWrite, ServeWriteFails, ServeFileFails, ServeEof, EndServe, Aborted,
         ServeRead, Deliver, Notify, PumpAck, PluginStops, socket
  <2>3. In(down', r) => In(down, r)
    <3>1. down # <<>> => (In(Tail(down), r) => In(down, r))
      BY <1>0, InTail
    <3>2. ~In(<<>>, r)
      BY InShort
    <3> QED BY <2>2, <3>1, <3>2
  <2> QED BY <2>1, <2>3 DEF Found
<1>2. CASE Connect
  BY <1>2, InShort DEF Connect, Found
<1>3. CASE \E e \in Events : Dispatch(e)
  <2>1. PICK e \in Events : Dispatch(e)
    BY <1>3
  <2>2. UNCHANGED <<dout, down, handler, job>> /\ (queue' = queue \/ queue' = Append(queue, event(e)))
    BY <2>1 DEF Dispatch, socket
  <2>3. event(e) \in Notices \cup Results /\ event(e) # r
    BY Constructors DEF event, Results
  <2>4. In(queue', r) => In(queue, r)
    <3>1. In(Append(queue, event(e)), r) => In(queue, r)
      BY <1>0, <2>3, InAppend
    <3> QED BY <2>2, <3>1
  <2> QED BY <2>2, <2>4 DEF Found
<1>4. CASE WriteDown
  <2>1. /\ UNCHANGED <<queue, handler, job>> /\ dout # <<>>
        /\ down' = Append(down, Head(dout)) /\ dout' = Tail(dout)
    BY <1>4 DEF WriteDown
  <2>2. Head(dout) \in DownLines
    BY <1>0, <2>1, HeadAndTail
  <2>3. In(dout', r) => In(dout, r)
    BY <1>0, <2>1, InTail
  <2>4. In(down', r) => In(down, r) \/ In(dout, r)
    <3>1. In(down', r) => In(down, r) \/ r = Head(dout)
      BY <1>0, <2>1, <2>2, InAppend
    <3>2. In(dout, Head(dout))
      BY <1>0, <2>1, InTail
    <3> QED BY <3>1, <3>2
  <2> QED BY <2>1, <2>3, <2>4 DEF Found
<1>5. CASE FlushEvent
  <2>1. PICK e \in flushing, gone \in BOOLEAN : dout' = EventLines(e, gone)
    BY <1>5 DEF FlushEvent
  <2>2. e \in Events
    BY <1>0
  <2>3. ~In(dout', r)
    BY <2>1, <2>2, NoResultInEvent
  <2> QED BY <1>5, <2>3 DEF FlushEvent, Found, socket
<1>6. CASE WriterTakes
  <2>1. /\ UNCHANGED <<down, handler, job>> /\ queue # <<>> /\ queue' = Tail(queue)
    BY <1>6 DEF WriterTakes, socket
  <2>2. In(queue', r) => In(queue, r)
    BY <1>0, <2>1, InTail
  <2>3. In(queue, Head(queue)) /\ Head(queue) \in DownLines
    BY <1>0, <2>1, InTail, HeadAndTail DEF DownLines
  <2>4. In(dout', r) => In(queue, r)
    <3>1. CASE Head(queue).k = "event"
      <4>1. Head(queue).ev \in Events
        BY <2>3, <3>1, DownKinds
      <4>2. PICK gone \in BOOLEAN : dout' = EventLines(Head(queue).ev, gone)
        BY <1>6, <3>1 DEF WriterTakes
      <4> QED BY <4>1, <4>2, NoResultInEvent
    <3>2. CASE Head(queue).k # "event"
      <4>1. dout' = <<Head(queue)>>
        BY <1>6, <3>2 DEF WriterTakes
      <4> QED BY <2>3, <4>1, InShort
    <3> QED BY <3>1, <3>2
  <2> QED BY <2>1, <2>2, <2>4 DEF Found
<1>7. CASE SendResult
  <2>1. /\ UNCHANGED <<dout, down>> /\ handler = "result" /\ handler' = "read"
        /\ queue' = Append(queue, job)
    BY <1>7 DEF SendResult, socket
  <2>2. job \in Notices \cup Results
    BY <2>1 DEF Base, DaemonTyped
  <2>3. In(queue', r) => In(queue, r) \/ job = r
    BY <1>0, <2>1, <2>2, InAppend
  <2> QED BY <2>1, <2>3 DEF Found
<1>8. CASE ReadLine \/ Execute
  BY <1>8 DEF ReadLine, Execute, Found, socket
<1>9. CASE FlushDone \/ WriterFails \/ DeleteFile \/ Release \/ Sweep
  BY <1>9 DEF FlushDone, WriterFails, DeleteFile, Release, Sweep, Found, socket, daemon
<1>10. CASE EndHandler \/ Shutdown \/ Crash
  BY <1>10, InShort DEF EndHandler, Shutdown, HandlerEnds, Crash, Found
<1>11. CASE UNCHANGED vars
  BY <1>11 DEF vars, daemon, socket, Found
<1> QED BY <1>1, <1>2, <1>3, <1>4, <1>5, <1>6, <1>7, <1>8, <1>9, <1>10, <1>11, Sides DEF DaemonSide

\* A command is written by serve with its last line, and then read by the handler.
LEMMA AskedStep ==
    ASSUME Base, [Next]_vars, NEW id \in Ids, NEW c \in Calls, Asked(id, c)'
    PROVE  \/ Asked(id, c)
           \/ /\ ServeWrite /\ cur = c /\ cur' = none /\ id = nextId - 1
              /\ pending' = [pending EXCEPT ![id] = c]
<1>0. up \in Seq(UpLines)
  BY DEF Base, DaemonTyped
<1>x. cmd(id, c).k = "cmd" /\ cmd(id, c).id = id /\ cmd(id, c).call = c
  BY DEF cmd
<1>1. CASE up' = up \/ up' = <<>>
  <2>1. In(up', cmd(id, c)) => In(up, cmd(id, c))
    BY <1>1, InShort
  <2>2. handler' = "exec" => UNCHANGED <<handler, job>> \/ ReadLine
    <3>1. CASE DaemonSide
      BY <3>1 DEF DaemonSide, Dispatch, WriteDown, FlushEvent, FlushDone, WriterTakes,
         WriterFails, Execute, SendResult, EndHandler, Shutdown, HandlerEnds,
         DeleteFile, Release, Crash, Sweep, daemon
    <3>2. CASE PluginSide
      BY <3>2, Sides DEF daemon
    <3>3. CASE Connect \/ UNCHANGED vars
      BY <3>3 DEF Connect, vars, daemon
    <3> QED BY <3>1, <3>2, <3>3, Sides
  <2>3. ReadLine => In(up, Head(up)) /\ (handler' = "exec" => job' = Head(up))
    <3>1. ReadLine => up # <<>>
      BY DEF ReadLine
    <3>2. ReadLine => In(up, Head(up))
      BY <1>0, <3>1, InTail
    <3>3. ReadLine => (handler' = "exec" => job' = Head(up))
      BY DEF ReadLine
    <3> QED BY <3>2, <3>3
  <2> QED BY <2>1, <2>2, <2>3 DEF Asked
<1>2. CASE ReadLine /\ up # <<>> /\ up' = Tail(up)
  <2>1. In(up', cmd(id, c)) => In(up, cmd(id, c))
    BY <1>0, <1>2, InTail
  <2>2. In(up, Head(up))
    BY <1>0, <1>2, InTail
  <2>3. handler' = "exec" => job' = Head(up)
    BY <1>2 DEF ReadLine
  <2> QED BY <2>1, <2>2, <2>3 DEF Asked
<1>3. CASE ServeWrite /\ up' = Append(up, Head(out)) /\ Head(out) \in UpLines
  <2>1. In(up', cmd(id, c)) <=> In(up, cmd(id, c)) \/ cmd(id, c) = Head(out)
    BY <1>0, <1>3, InAppend
  <2>2. UNCHANGED <<handler, job>>
    BY <1>3 DEF ServeWrite, daemon
  <2>3. CASE cmd(id, c) # Head(out)
    BY <2>1, <2>2, <2>3 DEF Asked
  <2>4. CASE cmd(id, c) = Head(out)
    <3>1. Head(out).k = "cmd"
      BY <1>x, <2>4
    <3>2. cur # none /\ ~(Len(out) > 1)
      BY <1>3, <3>1, FirstLine DEF ServeWrite, Acks
    <3>3. Head(out) = cmd(nextId - 1, cur)
      BY <1>3, <3>2, FirstLine DEF ServeWrite
    <3>4. id = nextId - 1 /\ c = cur
      BY <2>4, <3>3 DEF cmd
    <3>5. cur' = none /\ pending' = [pending EXCEPT ![Head(out).id] = cur]
      BY <1>3, <3>2 DEF ServeWrite
    <3> QED BY <1>3, <1>x, <2>4, <3>4, <3>5
  <2> QED BY <2>3, <2>4
<1> QED BY <1>1, <1>2, <1>3, UpStep

\* What a step does to the calls that wait for a result.
LEMMA PendingStep ==
    ASSUME Base, [Next]_vars
    PROVE  \/ UNCHANGED pending /\ ~ServeRead
           \/ \A id \in Ids : pending'[id] = none
           \/ /\ ServeWrite /\ cur # none /\ cur' = none /\ nextId' = nextId
              /\ pending' = [pending EXCEPT ![nextId - 1] = cur]
           \/ /\ ServeRead /\ Head(down).k = "result"
              /\ pending' = [pending EXCEPT ![Head(down).id] = none]
           \/ ServeRead /\ Head(down).k # "result" /\ pending' = pending
<1>1. CASE ServeWrite
  <2>0. cur # none /\ ~(Len(out) > 1) => Head(out).id = nextId - 1
    BY <1>1, FirstLine DEF ServeWrite, cmd
  <2>1. ~ServeRead
    BY <1>1 DEF ServeWrite, ServeRead
  <2> QED BY <1>1, <2>0, <2>1 DEF ServeWrite
<1>2. CASE ServeRead
  BY <1>2 DEF ServeRead
<1>3. CASE ~ServeWrite /\ ~ServeRead
  <2>1. CASE DaemonSide \/ UNCHANGED vars
    BY <1>3, <2>1, Sides DEF vars, plugin
  <2>2. CASE PluginSide \/ Connect
    BY <1>3, <2>2 DEF PluginSide, Connect, Caller, Submit, EnterTx, TimeOut, ConnectFails,
         FailFast, ServeTake, ServeWriteFails, ServeFileFails, ServeEof, EndServe,
         Deliver, Notify, PumpAck, PluginStops
  <2> QED BY <2>1, <2>2, Sides
<1> QED BY <1>1, <1>2, <1>3

\* The numbers given out stay given out while the plugin is connected.
LEMMA UnderStep ==
    ASSUME Base, [Next]_vars
    PROVE  \/ ~pEnd' /\ \A id \in Ids : pending'[id] = none
           \/ ~pEnd
           \/ pEnd /\ pEnd' /\ \A id \in Ids : Under(id) => Under(id)'
<1>0. nextId \in Nat /\ cur \in Calls \cup {none} /\ none \notin Calls
      /\ \A id \in Ids : id \in Int
  BY KindsApart DEF Base, PluginTyped, Ids
<1>1. CASE ServeTake
  <2>1. \/ nextId' = nextId /\ cur' = none
        \/ nextId' = nextId + 1
    BY <1>1 DEF ServeTake
  <2>2. pEnd' = pEnd
    BY <1>1 DEF ServeTake, socket
  <2>3. \A id \in Ids : Under(id) => Under(id)'
    BY <1>0, <2>1 DEF Under
  <2> QED BY <2>2, <2>3
<1>2. CASE ServeWrite
  <2>1. nextId' = nextId /\ cur' \in {cur, none} /\ pEnd' = pEnd
    BY <1>2 DEF ServeWrite
  <2> QED BY <2>1 DEF Under
<1>3. CASE ServeWriteFails \/ ServeFileFails \/ ServeEof \/ PluginStops
  BY <1>3 DEF ServeWriteFails, ServeFileFails, ServeEof, EndServe, Aborted, PluginStops
<1>4. CASE Connect
  BY <1>4 DEF Connect, Base, SocketEnds, Connected
<1>5. CASE Caller \/ ConnectFails \/ FailFast \/ ServeRead \/ Deliver \/ Notify \/ PumpAck
  <2>1. UNCHANGED <<nextId, cur, pEnd>>
    BY <1>5 DEF Caller, Submit, EnterTx, TimeOut, ConnectFails, FailFast, ServeRead, Deliver,
         Notify, PumpAck, socket
  <2> QED BY <2>1 DEF Under
<1>6. CASE DaemonSide \/ UNCHANGED vars
  <2>1. UNCHANGED <<nextId, cur, pEnd>>
    BY <1>6, Sides DEF vars, plugin, socket
  <2> QED BY <2>1 DEF Under
<1> QED BY <1>1, <1>2, <1>3, <1>4, <1>5, <1>6, Sides DEF PluginSide

\* The numbers that calls wait under stay numbers this connection gave out.
LEMMA PendingUnderStep ==
    ASSUME Base, PendingUnder, [Next]_vars
    PROVE  PendingUnder'
<1>0. /\ nextId \in Nat /\ none \notin Calls /\ \A id \in Ids : id \in Int
      /\ pending \in [Ids -> Calls \cup {none}] /\ cur \in Calls \cup {none}
  BY KindsApart DEF Base, PluginTyped, Ids
<1>1. CASE \A id \in Ids : pending'[id] = none
  BY <1>1 DEF PendingUnder
<1>2. CASE ~pEnd
  <2>1. \A id \in Ids : pending[id] = none
    BY <1>2 DEF Base, SocketEnds
  <2>2. \A id \in Ids : pending'[id] = none
    <3>1. ~ServeWrite /\ ~ServeRead
      BY <1>2 DEF Base, SocketEnds, Connected, ServeWrite, ServeRead
    <3> QED BY <1>1, <2>1, <3>1, PendingStep
  <2> QED BY <1>1, <2>2
<1>3. CASE \A id \in Ids : Under(id) => Under(id)'
  <2>1. CASE ServeWrite /\ cur # none /\ cur' = none /\ nextId' = nextId
             /\ pending' = [pending EXCEPT ![nextId - 1] = cur]
    <3> SUFFICES ASSUME NEW id \in Ids, pending'[id] # none
                 PROVE  Under(id)'
      BY DEF PendingUnder
    <3>1. CASE id = nextId - 1
      BY <1>0, <2>1, <3>1 DEF Under
    <3>2. CASE id # nextId - 1
      BY <1>0, <1>3, <2>1, <3>2 DEF PendingUnder
    <3> QED BY <3>1, <3>2
  <2>2. CASE pending' = pending
    BY <1>3, <2>2 DEF PendingUnder
  <2>3. CASE pending' = [pending EXCEPT ![Head(down).id] = none]
    <3> SUFFICES ASSUME NEW id \in Ids, pending'[id] # none
                 PROVE  Under(id)'
      BY DEF PendingUnder
    <3>1. pending[id] # none
      BY <1>0, <2>3
    <3> QED BY <1>3, <3>1 DEF PendingUnder
  <2> QED BY <1>1, <2>1, <2>2, <2>3, PendingStep
<1> QED BY <1>1, <1>2, <1>3, UnderStep

\* A decided call stays decided as it was.
LEMMA VerdictStays ==
    ASSUME Base, StageInv, [Next]_vars, NEW c \in Calls, verdict[c] # none
    PROVE  verdict'[c] = verdict[c]
<1>1. OneEach(up) /\ Stage(c)
  BY DEF StageInv
<1>2. Kept(c) \/ Entered(c) \/ Taken(c) \/ Sent(c) \/ Read(c) \/ Executed(c)
  BY <1>1, Moves
<1> QED BY <1>1, <1>2 DEF Stage, Kept, Entered, Taken, Sent, Read, Executed

\* Only a result answers a call, and the one that waits under its number.
LEMMA AnsweredBy ==
    ASSUME Base, [Next]_vars, NEW c \in Calls, call'[c] \in {"ok", "refused"},
           call'[c] # call[c]
    PROVE  /\ ServeRead /\ Head(down) \in Results /\ Found(Head(down))
           /\ pending[Head(down).id] = c
           /\ call'[c] = IF Head(down).ok THEN "ok" ELSE "refused"
<1>0. call \in [Calls -> CallStates]
  BY DEF Base, PluginTyped
<1>1. CASE ServeRead
  <2>1. down # <<>> /\ down \in Seq(DownLines)
    BY <1>1 DEF Base, DaemonTyped, ServeRead
  <2>2. Head(down) \in DownLines /\ In(down, Head(down))
    BY <2>1, HeadAndTail, InTail
  <2>3. Head(down).k = "result" /\ call' = Resolved({pending[Head(down).id]} \ {none},
                              IF Head(down).ok THEN "ok" ELSE "refused")
    BY <1>1 DEF ServeRead
  <2>4. Head(down) \in Results
    BY <2>2, <2>3, DownKinds
  <2>5. pending[Head(down).id] = c /\ call'[c] = IF Head(down).ok THEN "ok" ELSE "refused"
    BY <2>3 DEF Resolved
  <2> QED BY <1>1, <2>2, <2>4, <2>5 DEF Found
<1>2. CASE ~ServeRead
  <2>r. \A C, r : r \notin {"ok", "refused"} => call' # Resolved(C, r)
    BY DEF Resolved
  <2>1. CASE DaemonSide \/ UNCHANGED vars
    BY <2>1, Sides DEF vars, plugin
  <2>2. CASE \E d \in Calls : Submit(d) \/ EnterTx(d) \/ TimeOut(d)
    BY <1>0, <2>2 DEF Submit, EnterTx, TimeOut
  <2>3. CASE FailFast \/ ServeTake
    BY <2>3, <2>r DEF FailFast, ServeTake
  <2>4. CASE ServeWriteFails \/ ServeFileFails \/ ServeEof
    BY <2>4, <2>r DEF ServeWriteFails, ServeFileFails, ServeEof, EndServe
  <2>5. CASE Connect \/ ConnectFails \/ ServeWrite \/ Deliver \/ Notify \/ PumpAck \/ PluginStops
    BY <1>0, <2>5 DEF Connect, ConnectFails, ServeWrite, Deliver, Notify, PumpAck, PluginStops
  <2> QED BY <1>2, <2>1, <2>2, <2>3, <2>4, <2>5, Sides DEF PluginSide, Caller
<1> QED BY <1>1, <1>2

\* The plugin's end opens only with a connection, on which nothing is on its way.
LEMMA FreshSocket ==
    ASSUME Base, [Next]_vars, ~pEnd, pEnd'
    PROVE  /\ Connect
           /\ \A r \in Results : ~Found(r)'
           /\ \A id \in Ids, c \in Calls : ~Asked(id, c)'
<1>1. CASE Connect
  <2>1. /\ up' = <<>> /\ down' = <<>> /\ handler' = "flush" /\ queue' = queue /\ dout' = dout
        /\ ~Claimed
    BY <1>1 DEF Connect, Claimed
  <2>2. queue = <<>> /\ dout = <<>>
    BY <2>1 DEF Base, SocketEnds
  <2> QED BY <1>1, <2>1, <2>2, InShort DEF Found, Asked
<1>2. CASE ~Connect
  <2>1. CASE DaemonSide \/ UNCHANGED vars
    BY <2>1, Sides DEF vars, socket
  <2>2. CASE PluginSide
    BY <2>2 DEF PluginSide, Caller, Submit, EnterTx, TimeOut, ConnectFails, FailFast,
         ServeTake, ServeWrite, ServeWriteFails, ServeFileFails, ServeEof, EndServe, Aborted,
         ServeRead, Deliver, Notify, PumpAck, PluginStops, socket
  <2> QED BY <1>2, <2>1, <2>2, Sides
<1> QED BY <1>1, <1>2

\* A number that is given out keeps its call until its result comes.
LEMMA PendingKept ==
    ASSUME Base, PendingUnder, [Next]_vars, NEW id \in Ids, Under(id)
    PROVE  pending'[id] \in {pending[id], none}
<1>0. nextId \in Nat /\ id \in Int /\ pending \in [Ids -> Calls \cup {none}]
  BY DEF Base, PluginTyped, Ids
<1>1. cur # none => id # nextId - 1
  BY <1>0 DEF Under
<1> QED BY <1>0, <1>1, PendingStep

\* The pairing of results with the calls that wait for them is kept by every step.
LEMMA AnswerStep ==
    ASSUME Base, StageInv, AnswerInv, [Next]_vars
    PROVE  AnswerInv'
<1>0. /\ AnswerIsOwn /\ PendingUnder /\ (pEnd => ResultsPaired /\ CommandsPaired)
      /\ none \notin Calls /\ none \notin {"ok", "err"} /\ nextId \in Nat
      /\ pending \in [Ids -> Calls \cup {none}]
      /\ verdict \in [Calls -> {"ok", "err", none}]
      /\ \A r \in Results : r.id \in Ids /\ r.ok \in BOOLEAN
  BY KindsApart DEF AnswerInv, Base, PluginTyped, DaemonTyped, Results
<1>p. PendingUnder'
  BY <1>0, PendingUnderStep
<1>1. AnswerIsOwn'
  <2> SUFFICES ASSUME NEW c \in Calls
               PROVE  /\ call'[c] = "ok" => verdict'[c] = "ok"
                      /\ call'[c] = "refused" => verdict'[c] = "err"
    BY DEF AnswerIsOwn
  <2>1. CASE call'[c] = call[c]
    <3>1. /\ call[c] = "ok" => verdict[c] = "ok"
          /\ call[c] = "refused" => verdict[c] = "err"
      BY <1>0 DEF AnswerIsOwn
    <3>2. verdict[c] # none => verdict'[c] = verdict[c]
      BY VerdictStays
    <3> QED BY <1>0, <2>1, <3>1, <3>2
  <2>2. CASE call'[c] # call[c] /\ call'[c] \in {"ok", "refused"}
    <3> DEFINE r == Head(down)
    <3>1. /\ ServeRead /\ r \in Results /\ Found(r) /\ pending[r.id] = c
          /\ call'[c] = IF r.ok THEN "ok" ELSE "refused"
      BY <2>2, AnsweredBy
    <3>2. pEnd
      BY <3>1 DEF ServeRead, Base, SocketEnds, Connected
    <3>3. verdict' = verdict
      BY <3>1 DEF ServeRead, results
    <3> HIDE DEF r
    <3>4. pending[r.id] # none => verdict[pending[r.id]] = Outcome(r)
      BY <1>0, <3>1, <3>2 DEF ResultsPaired
    <3>5. verdict[c] = Outcome(r)
      BY <1>0, <3>1, <3>4
    <3> QED BY <3>1, <3>3, <3>5 DEF Outcome
  <2> QED BY <2>1, <2>2
<1>2. ASSUME pEnd', NEW r \in Results, Found(r)'
      PROVE  Under(r.id)' /\ (pending'[r.id] # none => verdict'[pending'[r.id]] = Outcome(r))
  <2>0. pEnd
    BY <1>2, FreshSocket
  <2>u. \A id \in Ids : Under(id) => Under(id)'
    BY <1>2, <2>0, UnderStep
  <2>1. CASE Found(r)
    <3>1. Under(r.id) /\ (pending[r.id] # none => verdict[pending[r.id]] = Outcome(r))
      BY <1>0, <2>0, <2>1 DEF ResultsPaired
    <3>2. pending'[r.id] \in {pending[r.id], none}
      BY <1>0, <3>1, PendingKept
    <3>3. pending[r.id] # none => verdict'[pending[r.id]] = verdict[pending[r.id]]
      <4> SUFFICES ASSUME pending[r.id] # none
                   PROVE  verdict'[pending[r.id]] = verdict[pending[r.id]]
        OBVIOUS
      <4>1. pending[r.id] \in Calls
        BY <1>0
      <4>2. verdict[pending[r.id]] # none
        BY <1>0, <3>1 DEF Outcome
      <4> QED BY <4>1, <4>2, VerdictStays
    <3> QED BY <1>0, <2>u, <3>1, <3>2, <3>3
  <2>2. CASE ReadLine /\ handler' = "result" /\ job' = r
    <3> DEFINE l == Head(up)
    <3>0. up # <<>> /\ up \in Seq(UpLines) /\ handler = "read"
      BY <2>2 DEF ReadLine, Base, DaemonTyped
    <3>1. l \in UpLines /\ In(up, l)
      BY <3>0, HeadAndTail, InTail
    <3>2. /\ l.k = "cmd" /\ r = result(l.id, FALSE)
          /\ verdict' = [verdict EXCEPT ![l.call] = "err"]
      BY <2>2, <3>0 DEF ReadLine
    <3>3. l = cmd(l.id, l.call) /\ l.id \in Ids /\ l.call \in Calls
      BY <3>1, <3>2, UpKinds
    <3> HIDE DEF l
    <3>4. Asked(l.id, l.call)
      BY <3>1, <3>3 DEF Asked
    <3>5. Under(l.id) /\ pending[l.id] \in {l.call, none}
      BY <1>0, <2>0, <3>3, <3>4 DEF CommandsPaired
    <3>6. pending'[l.id] \in {l.call, none}
      BY <1>0, <3>3, <3>5, PendingKept
    <3>7. r.id = l.id /\ r.ok = FALSE
      BY <3>2 DEF result
    <3> QED BY <1>0, <2>u, <3>2, <3>3, <3>5, <3>6, <3>7 DEF Outcome
  <2>3. CASE Execute /\ job' = r
    <3>0. handler = "exec" /\ job \in Cmds
      BY <2>3 DEF Execute, Base, DaemonTyped
    <3>1. job = cmd(job.id, job.call) /\ job.id \in Ids /\ job.call \in Calls
      BY <3>0 DEF Cmds, cmd
    <3>2. Asked(job.id, job.call)
      BY <3>0, <3>1 DEF Asked
    <3>3. Under(job.id) /\ pending[job.id] \in {job.call, none}
      BY <1>0, <2>0, <3>1, <3>2 DEF CommandsPaired
    <3>4. pending'[job.id] \in {job.call, none}
      BY <1>0, <3>1, <3>3, PendingKept
    <3>5. PICK ok \in BOOLEAN :
              /\ r = result(job.id, ok)
              /\ verdict' = [verdict EXCEPT ![job.call] = IF ok THEN "ok" ELSE "err"]
      BY <2>3 DEF Execute
    <3>6. r.id = job.id /\ r.ok = ok
      BY <3>5 DEF result
    <3>7. verdict'[job.call] = Outcome(r)
      BY <1>0, <3>1, <3>5, <3>6 DEF Outcome
    <3> QED BY <2>u, <3>1, <3>3, <3>4, <3>6, <3>7
  <2> QED BY <1>2, <2>1, <2>2, <2>3, FoundStep
<1>3. ASSUME pEnd', NEW id \in Ids, NEW c \in Calls, Asked(id, c)'
      PROVE  Under(id)' /\ pending'[id] \in {c, none}
  <2>0. pEnd
    BY <1>3, FreshSocket
  <2>1. CASE Asked(id, c)
    <3>1. Under(id) /\ pending[id] \in {c, none}
      BY <1>0, <2>0, <2>1 DEF CommandsPaired
    <3>2. pending'[id] \in {pending[id], none}
      BY <1>0, <3>1, PendingKept
    <3>3. Under(id)'
      BY <1>3, <2>0, <3>1, UnderStep
    <3> QED BY <3>1, <3>2, <3>3
  <2>2. CASE ServeWrite /\ cur = c /\ cur' = none /\ id = nextId - 1
             /\ pending' = [pending EXCEPT ![id] = c]
    <3>1. nextId' = nextId
      BY <2>2 DEF ServeWrite
    <3> QED BY <1>0, <2>2, <3>1 DEF Under
  <2> QED BY <1>3, <2>1, <2>2, AskedStep
<1>4. (pEnd => ResultsPaired /\ CommandsPaired)'
  BY <1>2, <1>3 DEF ResultsPaired, CommandsPaired
<1> QED BY <1>p, <1>1, <1>4 DEF AnswerInv

\* At first nobody waits and nothing is answered.
LEMMA AnswerInit ==
    ASSUME Init
    PROVE  AnswerInv
BY DEF Init, AnswerInv, AnswerIsOwn, PendingUnder

(***************************************************************************)
(* A call is told what became of its own command, never of another's,      *)
(* although the numbers start again on every connection and a call may     *)
(* have timed out or its connection have ended before the result came.     *)
(***************************************************************************)
THEOREM AnswersAreOwn == Spec => []AnswerIsOwn
<1>1. Init => Base /\ StageInv /\ AnswerInv
  BY BaseInit, StageInit, AnswerInit
<1>2. Base /\ StageInv /\ AnswerInv /\ [Next]_vars => Base' /\ StageInv' /\ AnswerInv'
  BY BaseStep, StageStep, AnswerStep
<1>3. AnswerInv => AnswerIsOwn
  BY DEF AnswerInv
<1> QED BY <1>1, <1>2, <1>3, PTL DEF Spec

----------------------------------------------------------------------------
(* What a waiting call waits for. *)

Ahead(r) ==
    \/ handler = "result" /\ job = r
    \/ In(queue, r) \/ dout = <<r>> \/ In(down, r)

OnWay(id, c) ==
    \/ ~dEnd
    \/ Asked(id, c)
    \/ \E ok \in BOOLEAN : Ahead(result(id, ok))

Waits(c) == call[c] = "waiting" =>
    \/ cur = c
    \/ AtTx(c)
    \/ \E id \in Ids : pending[id] = c /\ OnWay(id, c)

WaitInv == \A c \in Calls : Waits(c)

\* A result does not vanish between the handler and serve, but with a connection.
LEMMA AheadStep ==
    ASSUME Base, [Next]_vars, NEW r \in Results, Ahead(r), pEnd', dEnd'
    PROVE  \/ Ahead(r)'
           \/ ServeRead /\ Head(down) = r
           \/ Connect
<1>0. /\ queue \in Seq(Notices \cup Results) /\ dout \in Seq(DownLines)
      /\ down \in Seq(DownLines)
  BY DEF Base, DaemonTyped
<1>1. CASE ServeRead
  <2>1. UNCHANGED <<handler, job, queue, dout>> /\ down # <<>> /\ down' = Tail(down)
    BY <1>1 DEF ServeRead, daemon
  <2>2. In(down, r) => r = Head(down) \/ In(down', r)
    BY <1>0, <2>1, InTail
  <2> QED BY <1>1, <2>1, <2>2 DEF Ahead
<1>2. CASE PluginSide /\ ~ServeRead
  <2>1. UNCHANGED <<handler, job, queue, dout>>
    BY <1>2, Sides DEF daemon
  <2>2. down' = down
    BY <1>2 DEF PluginSide, Caller, Submit, EnterTx, TimeOut, ConnectFails, FailFast,
         ServeTake, ServeWrite, ServeWriteFails, ServeFileFails, ServeEof, EndServe, Aborted,
         Deliver, Notify, PumpAck, PluginStops, socket
  <2> QED BY <2>1, <2>2 DEF Ahead
<1>3. CASE \E e \in Events : Dispatch(e)
  <2>1. PICK e \in Events : Dispatch(e)
    BY <1>3
  <2>2. UNCHANGED <<dout, down, handler, job>> /\ (queue' = queue \/ queue' = Append(queue, event(e)))
    BY <2>1 DEF Dispatch, socket
  <2>3. event(e) \in Notices \cup Results
    BY Constructors
  <2>4. In(queue, r) => In(Append(queue, event(e)), r)
    BY <1>0, <2>3, InAppend
  <2> QED BY <2>2, <2>4 DEF Ahead
<1>4. CASE WriteDown
  <2>1. /\ UNCHANGED <<queue, handler, job>> /\ dout # <<>>
        /\ down' = Append(down, Head(dout)) /\ dout' = Tail(dout)
    BY <1>4 DEF WriteDown
  <2>2. Head(dout) \in DownLines
    BY <1>0, <2>1, HeadAndTail
  <2>3. In(down', r) <=> In(down, r) \/ r = Head(dout)
    BY <1>0, <2>1, <2>2, InAppend
  <2>4. dout = <<r>> => r = Head(dout)
    OBVIOUS
  <2> QED BY <2>1, <2>3, <2>4 DEF Ahead
<1>5. CASE FlushEvent
  <2>1. UNCHANGED <<queue, down, handler, job>> /\ dout = <<>>
    BY <1>5 DEF FlushEvent, socket
  <2>2. dout # <<r>>
    BY <2>1
  <2> QED BY <2>1, <2>2 DEF Ahead
<1>6. CASE WriterTakes
  <2>1. /\ UNCHANGED <<down, handler, job>> /\ queue # <<>> /\ queue' = Tail(queue) /\ dout = <<>>
    BY <1>6 DEF WriterTakes, socket
  <2>2. In(queue, r) => r = Head(queue) \/ In(queue', r)
    BY <1>0, <2>1, InTail
  <2>3. dout # <<r>>
    BY <2>1
  <2>4. r = Head(queue) => dout' = <<r>>
    BY <1>6 DEF WriterTakes, Results
  <2> QED BY <2>1, <2>2, <2>3, <2>4 DEF Ahead
<1>7. CASE SendResult
  <2>1. /\ UNCHANGED <<dout, down>> /\ handler = "result" /\ queue' = Append(queue, job)
    BY <1>7 DEF SendResult, socket
  <2>2. job \in Notices \cup Results
    BY <2>1 DEF Base, DaemonTyped
  <2>3. In(queue', r) <=> In(queue, r) \/ r = job
    BY <1>0, <2>1, <2>2, InAppend
  <2> QED BY <2>1, <2>3 DEF Ahead
<1>8. CASE ReadLine \/ Execute
  BY <1>8 DEF ReadLine, Execute, Ahead, socket
<1>9. CASE FlushDone \/ WriterFails \/ DeleteFile \/ Release \/ Sweep
  BY <1>9 DEF FlushDone, WriterFails, DeleteFile, Release, Sweep, Ahead, socket, daemon
<1>10. CASE EndHandler \/ Shutdown \/ Crash
  BY <1>10 DEF EndHandler, Shutdown, HandlerEnds, Crash
<1>11. CASE UNCHANGED vars
  BY <1>11 DEF vars, daemon, socket, Ahead
<1> QED BY <1>1, <1>2, <1>3, <1>4, <1>5, <1>6, <1>7, <1>8, <1>9, <1>10, <1>11, Sides DEF DaemonSide

\* A command does not vanish between serve and the handler, which makes a result of it.
LEMMA AskedKept ==
    ASSUME Base, [Next]_vars, NEW id \in Ids, NEW c \in Calls, Asked(id, c), pEnd', dEnd'
    PROVE  \/ Asked(id, c)'
           \/ \E ok \in BOOLEAN : Ahead(result(id, ok))'
           \/ Connect
<1>0. up \in Seq(UpLines)
  BY DEF Base, DaemonTyped
<1>x. cmd(id, c).k = "cmd" /\ cmd(id, c).id = id /\ cmd(id, c).call = c
  BY DEF cmd
<1>1. CASE ReadLine
  <2>1. up # <<>> /\ up' = Tail(up) /\ handler = "read"
    BY <1>1 DEF ReadLine
  <2>2. In(up, cmd(id, c)) => cmd(id, c) = Head(up) \/ In(up', cmd(id, c))
    BY <1>0, <2>1, InTail
  <2>3. CASE In(up', cmd(id, c))
    BY <2>3 DEF Asked
  <2>4. CASE cmd(id, c) = Head(up)
    <3>1. \/ handler' = "exec" /\ job' = cmd(id, c)
          \/ handler' = "result" /\ job' = result(id, FALSE)
      BY <1>1, <1>x, <2>4 DEF ReadLine
    <3> QED BY <3>1 DEF Asked, Ahead
  <2> QED BY <2>1, <2>2, <2>3, <2>4 DEF Asked
<1>2. CASE Execute
  <2>1. UNCHANGED up /\ handler' = "result" /\ \E ok \in BOOLEAN : job' = result(job.id, ok)
    BY <1>2 DEF Execute, socket
  <2>2. CASE In(up, cmd(id, c))
    BY <2>1, <2>2 DEF Asked
  <2>3. CASE job = cmd(id, c)
    <3>1. job.id = id
      BY <1>x, <2>3
    <3> QED BY <2>1, <3>1 DEF Ahead
  <2> QED BY <2>2, <2>3 DEF Asked
<1>3. CASE ServeWrite
  <2>1. up' = Append(up, Head(out)) /\ Head(out) \in UpLines /\ UNCHANGED <<handler, job>>
    BY <1>3, FirstLine DEF ServeWrite, daemon
  <2>2. In(up, cmd(id, c)) => In(up', cmd(id, c))
    BY <1>0, <2>1, InAppend
  <2> QED BY <2>1, <2>2 DEF Asked
<1>4. CASE PluginSide /\ ~ServeWrite
  <2>1. UNCHANGED <<up, handler, job>>
    BY <1>4, Sides DEF daemon, PluginSide, Caller, Submit, EnterTx, TimeOut, ConnectFails,
         FailFast, ServeTake, ServeWriteFails, ServeFileFails, ServeEof, ServeRead,
         Deliver, Notify, PumpAck, PluginStops, socket
  <2> QED BY <2>1 DEF Asked
<1>5. CASE DaemonSide /\ ~ReadLine /\ ~Execute
  <2>1. up' = up /\ (handler = "exec" => UNCHANGED <<handler, job>>)
    BY <1>5 DEF DaemonSide, Dispatch, WriteDown, FlushEvent, FlushDone, WriterTakes,
         WriterFails, SendResult, EndHandler, Shutdown, HandlerEnds,
         DeleteFile, Release, Crash, Sweep, socket, daemon
  <2> QED BY <2>1 DEF Asked
<1>6. CASE UNCHANGED vars
  BY <1>6 DEF vars, socket, daemon, Asked
<1> QED BY <1>1, <1>2, <1>3, <1>4, <1>5, <1>6, Sides

\* Every step keeps, for whoever waits, a command, a result or a closed end.
LEMMA WaitStep ==
    ASSUME Base, StageInv, PendingUnder, WaitInv, [Next]_vars, NEW c \in Calls,
           call'[c] = "waiting"
    PROVE  \/ cur' = c
           \/ AtTx(c)'
           \/ \E id \in Ids : pending'[id] = c /\ OnWay(id, c)'
<1>0. /\ tx \in Seq(Calls \cup Acks) /\ up \in Seq(UpLines) /\ call \in [Calls -> CallStates]
      /\ cur \in Calls \cup {none} /\ none \notin Calls /\ c # none
      /\ pending \in [Ids -> Calls \cup {none}] /\ nextId \in Nat
      /\ \A id \in Ids : id \in Int
  BY KindsApart DEF Base, PluginTyped, DaemonTyped, Ids
<1>s. /\ ~PluginStops
      /\ ServeWriteFails \/ ServeFileFails \/ ServeEof =>
            cur # c /\ \A id \in Ids : pending[id] # c
  <2>1. ~PluginStops
    BY DEF PluginStops
  <2>2. ServeWriteFails \/ ServeFileFails \/ ServeEof =>
           call' = Resolved((Pending \cup {cur}) \ {none}, "lost")
    BY DEF ServeWriteFails, ServeFileFails, ServeEof, EndServe
  <2>3. call' = Resolved((Pending \cup {cur}) \ {none}, "lost") =>
           cur # c /\ \A id \in Ids : pending[id] # c
    BY <1>0 DEF Resolved, Pending
  <2> QED BY <2>1, <2>2, <2>3
<1>1. CASE call[c] # "waiting"
  <2>1. PICK d \in Calls : Submit(d) \/ EnterTx(d)
    <3>r. \A C, r : r # "waiting" => call' # Resolved(C, r)
      BY <1>1 DEF Resolved
    <3>1. CASE DaemonSide \/ UNCHANGED vars
      BY <1>1, <3>1, Sides DEF vars, plugin
    <3>2. CASE \E d \in Calls : Submit(d) \/ EnterTx(d) \/ TimeOut(d)
      BY <1>0, <1>1, <3>2 DEF TimeOut
    <3>3. CASE FailFast \/ ServeTake \/ ServeWriteFails \/ ServeFileFails \/ ServeEof
      BY <1>1, <3>3, <3>r DEF FailFast, ServeTake, ServeWriteFails, ServeFileFails, ServeEof, EndServe
    <3>4. CASE ServeRead
      <4>1. call' = call \/ \E C, r : r \in {"ok", "refused"} /\ call' = Resolved(C, r)
        BY <3>4 DEF ServeRead
      <4> QED BY <1>1, <3>r, <4>1
    <3>5. CASE Connect \/ ConnectFails \/ ServeWrite \/ Deliver \/ Notify \/ PumpAck
      BY <1>1, <3>5 DEF Connect, ConnectFails, ServeWrite, Deliver, Notify, PumpAck
    <3> QED BY <1>s, <3>1, <3>2, <3>3, <3>4, <3>5, Sides DEF PluginSide, Caller
  <2>2. d = c /\ tx' = Append(tx, c)
    BY <1>0, <1>1, <2>1 DEF Submit, EnterTx
  <2>3. In(tx', c)
    BY <1>0, <2>2, InAppend
  <2> QED BY <2>3 DEF AtTx
<1>2. CASE call[c] = "waiting" /\ AtTx(c)
  <2>t. tx # <<>> => (In(tx, c) => c = Head(tx) \/ In(Tail(tx), c))
    BY <1>0, InTail
  <2>1. CASE FailFast
    <3>1. tx # <<>> /\ tx' = Tail(tx) /\ (Head(tx) \in Calls => call' = Resolved({Head(tx)}, "unsent"))
      BY <2>1 DEF FailFast
    <3>2. Head(tx) # c
      BY <1>2, <3>1 DEF Resolved
    <3> QED BY <1>2, <2>t, <3>1, <3>2 DEF AtTx
  <2>2. CASE ServeTake
    <3>1. /\ tx # <<>> /\ tx' = Tail(tx)
          /\ Head(tx) \in Calls => cur' = Head(tx) \/ call' = Resolved({Head(tx)}, "local")
      BY <2>2 DEF ServeTake
    <3>2. Head(tx) = c => cur' = c
      BY <1>2, <3>1 DEF Resolved
    <3> QED BY <1>2, <2>t, <3>1, <3>2 DEF AtTx
  <2>3. CASE ~FailFast /\ ~ServeTake
    <3>0. \/ tx' = tx
          \/ \E x \in Calls \cup Acks : tx' = Append(tx, x)
          \/ tx' = [i \in 1..Len(tx) |-> Aged(tx[i])]
      <4>1. CASE DaemonSide \/ UNCHANGED vars
        BY <4>1, Sides DEF vars, plugin
      <4>2. CASE PluginSide \/ Connect
        <5>1. CASE Notify \/ PumpAck
          <6>2. Notify => ack(Head(evs).ev, Head(evs).old) \in Acks
            <7>1. Notify => Head(evs) \in Inbounds
              BY HeadAndTail DEF Base, PluginTyped, Notify
            <7> QED BY <7>1, Constructors DEF Inbounds
          <6> QED BY <5>1, <6>2 DEF Notify, PumpAck, Base, PluginTyped
        <5>2. CASE (PluginSide \/ Connect) /\ ~Notify /\ ~PumpAck
          BY <1>s, <2>3, <5>2 DEF PluginSide, Connect, Caller, Submit, EnterTx, TimeOut,
             ConnectFails, ServeWrite, ServeWriteFails, ServeFileFails, ServeEof, EndServe,
             ServeRead, Deliver
        <5> QED BY <4>2, <5>1, <5>2
      <4> QED BY <4>1, <4>2, Sides
    <3>1. CASE tx' = tx
      BY <1>2, <3>1 DEF AtTx
    <3>2. ASSUME NEW x \in Calls \cup Acks, tx' = Append(tx, x)
          PROVE  AtTx(c)'
      <4>1. In(Append(tx, x), c)
        BY <1>0, <1>2, InAppend DEF AtTx
      <4> QED BY <3>2, <4>1 DEF AtTx
    <3>3. CASE tx' = [i \in 1..Len(tx) |-> Aged(tx[i])]
      <4>1. PICK i \in 1..Len(tx) : tx[i] = c
        BY <1>2 DEF AtTx, In
      <4>2. Aged(tx[i]) = c
        BY <4>1, AgedTyped
      <4>3. Len(tx') = Len(tx) /\ tx'[i] = c
        BY <3>3, <4>2, AgedSeqs
      <4> QED BY <4>3 DEF AtTx, In
    <3> QED BY <3>0, <3>1, <3>2, <3>3
  <2> QED BY <2>1, <2>2, <2>3
<1>3. CASE call[c] = "waiting" /\ cur = c
  <2>0. serve = "write"
    BY <1>0, <1>3 DEF Base, Writing
  <2>1. CASE ServeWrite
    <3>1. CASE Len(out) > 1
      BY <1>3, <2>1, <3>1 DEF ServeWrite
    <3>2. CASE ~(Len(out) > 1)
      <4>1. /\ Head(out) = cmd(nextId - 1, c) /\ nextId - 1 \in Ids /\ Head(out) \in UpLines
        BY <1>0, <1>3, <2>0, <3>2, FirstLine
      <4>2. /\ pending' = [pending EXCEPT ![nextId - 1] = c] /\ up' = Append(up, Head(out))
        BY <1>0, <1>3, <2>1, <3>2, <4>1 DEF ServeWrite, cmd
      <4>3. In(up', cmd(nextId - 1, c))
        BY <1>0, <4>1, <4>2, InAppend
      <4>4. pending'[nextId - 1] = c
        BY <1>0, <4>1, <4>2
      <4> QED BY <4>1, <4>3, <4>4 DEF OnWay, Asked
    <3> QED BY <3>1, <3>2
  <2>2. CASE ~ServeWrite
    <3>1. cur' = cur
      <4>1. CASE DaemonSide \/ UNCHANGED vars
        BY <4>1, Sides DEF vars, plugin
      <4>2. CASE PluginSide \/ Connect
        BY <1>3, <1>s, <2>0, <2>2, <4>2 DEF PluginSide, Connect, Caller, Submit, EnterTx, TimeOut,
           ConnectFails, FailFast, ServeTake, ServeRead, Deliver, Notify, PumpAck
      <4> QED BY <4>1, <4>2, Sides
    <3> QED BY <1>3, <3>1
  <2> QED BY <2>1, <2>2
<1>4. ASSUME call[c] = "waiting", NEW id \in Ids, pending[id] = c, OnWay(id, c)
      PROVE  pending'[id] = c /\ OnWay(id, c)'
  <2>0. pEnd /\ serve \in Connected /\ Under(id)
    BY <1>0, <1>4 DEF Base, SocketEnds, PendingUnder
  <2>1. ~Connect /\ pEnd'
    <3>1. ~Connect
      BY <2>0 DEF Connect, Connected
    <3>2. CASE DaemonSide \/ UNCHANGED vars
      BY <2>0, <3>1, <3>2, Sides DEF vars, socket
    <3>3. CASE PluginSide
      BY <1>4, <1>s, <2>0, <3>1, <3>3 DEF PluginSide, Caller, Submit, EnterTx, TimeOut,
           ConnectFails, FailFast, ServeTake, ServeWrite, ServeRead, Deliver, Notify, PumpAck, socket
    <3> QED BY <3>1, <3>2, <3>3, Sides
  <2>2. ~(ServeRead /\ Head(down).k = "result" /\ Head(down).id = id)
    <3> SUFFICES ASSUME ServeRead, Head(down).k = "result", Head(down).id = id
                 PROVE  FALSE
      OBVIOUS
    <3>1. call' = Resolved({c} \ {none}, IF Head(down).ok THEN "ok" ELSE "refused")
      BY <1>4 DEF ServeRead
    <3> QED BY <1>0, <1>4, <3>1 DEF Resolved
  <2>3. pending'[id] = c
    <3>1. cur # none => id # nextId - 1
      BY <1>0, <2>0 DEF Under
    <3>2. ~(\A i \in Ids : pending'[i] = none)
      <4>1. CASE DaemonSide \/ UNCHANGED vars
        BY <1>0, <1>4, <4>1, Sides DEF vars, plugin
      <4>2. CASE ServeRead
        <5>1. pending' = pending \/ (Head(down).id # id /\ pending' = [pending EXCEPT ![Head(down).id] = none])
          BY <2>2, <4>2 DEF ServeRead
        <5> QED BY <1>0, <1>4, <5>1
      <4>3. CASE ServeWrite
        <5>1. pending' = pending \/ (cur # none /\ pending' = [pending EXCEPT ![nextId - 1] = cur])
          <6>1. cur # none /\ ~(Len(out) > 1) => Head(out).id = nextId - 1
            BY <4>3, FirstLine DEF ServeWrite, cmd
          <6> QED BY <4>3, <6>1 DEF ServeWrite
        <5> QED BY <1>0, <1>4, <3>1, <5>1
      <4>4. CASE PluginSide /\ ~ServeRead /\ ~ServeWrite
        <5>1. pending' = pending
          BY <1>s, <1>4, <4>4 DEF PluginSide, Caller, Submit, EnterTx, TimeOut,
             ConnectFails, FailFast, ServeTake, Deliver, Notify, PumpAck
        <5> QED BY <1>0, <1>4, <5>1
      <4> QED BY <2>1, <4>1, <4>2, <4>3, <4>4, Sides
    <3> QED BY <1>0, <1>4, <2>2, <3>1, <3>2, PendingStep
  <2>4. OnWay(id, c)'
    <3>1. CASE ~dEnd'
      BY <3>1 DEF OnWay
    <3>2. CASE dEnd'
      <4>0. dEnd
        <5>1. CASE DaemonSide
          BY <3>2, <5>1 DEF DaemonSide, Dispatch, WriteDown, FlushEvent, FlushDone, WriterTakes,
             WriterFails, ReadLine, Execute, SendResult, EndHandler, Shutdown, HandlerEnds,
             DeleteFile, Release, Crash, Sweep, socket
        <5>2. CASE PluginSide \/ UNCHANGED vars
          BY <3>2, <5>2, Sides DEF vars, socket
        <5> QED BY <2>1, <5>1, <5>2, Sides
      <4>1. CASE Asked(id, c)
        BY <2>1, <3>2, <4>1, AskedKept DEF OnWay
      <4>2. ASSUME NEW ok \in BOOLEAN, Ahead(result(id, ok))
            PROVE  OnWay(id, c)'
        <5>1. result(id, ok) \in Results /\ result(id, ok).k = "result" /\ result(id, ok).id = id
          BY Constructors DEF result
        <5>2. Ahead(result(id, ok))'
          BY <2>1, <2>2, <3>2, <4>2, <5>1, AheadStep
        <5> QED BY <5>2 DEF OnWay
      <4> QED BY <1>4, <4>0, <4>1, <4>2 DEF OnWay
    <3> QED BY <3>1, <3>2
  <2> QED BY <2>3, <2>4
<1> QED BY <1>1, <1>2, <1>3, <1>4 DEF WaitInv, Waits

(***************************************************************************)
(* Nobody waits for an answer that cannot come: the command or the result  *)
(* of a waiting call is in the hands of one of the two processes, in one   *)
(* of their queues or on the socket, or the daemon's end of the socket is  *)
(* closed, whose end of file answers the call.                             *)
(***************************************************************************)
THEOREM NobodyIsForgotten == Spec => []NoneForgotten
<1> DEFINE Inv == Base /\ StageInv /\ PendingUnder /\ WaitInv
<1>1. Init => Inv
  <2>1. Init => PendingUnder /\ WaitInv
    BY DEF Init, PendingUnder, WaitInv, Waits
  <2> QED BY <2>1, BaseInit, StageInit
<1>2. Inv /\ [Next]_vars => Inv'
  <2> SUFFICES ASSUME Inv, [Next]_vars
               PROVE  Inv'
    OBVIOUS
  <2>1. WaitInv'
    BY WaitStep DEF WaitInv, Waits
  <2> QED BY <2>1, BaseStep, StageStep, PendingUnderStep
<1>3. Inv => NoneForgotten
  BY DEF WaitInv, Waits, OnWay, Asked, Ahead, AtTx, In, NoneForgotten
<1> QED BY <1>1, <1>2, <1>3, PTL DEF Spec

----------------------------------------------------------------------------
(* The files on their way to the spool. *)

(***************************************************************************)
(* The lines to the daemon, those on the socket and those that serve is    *)
(* writing and can still write.                                            *)
(***************************************************************************)
Lines == IF dEnd /\ serve = "write" THEN Len(up) + Len(out) ELSE Len(up)
Line(i) == IF i <= Len(up) THEN up[i] ELSE out[i - Len(up)]

(***************************************************************************)
(* Those of one number, a file's and its command's.                        *)
(***************************************************************************)
Numbered(i, id) == Line(i).k # "ack" /\ Line(i).id = id
Of(id) == {Line(i) : i \in {j \in 1..Lines : Numbered(j, id)}}

\* The lines to the daemon are lines.
LEMMA LinesTyped ==
    ASSUME Base
    PROVE  /\ Len(up) \in Nat /\ Lines \in Nat /\ Len(up) <= Lines
           /\ \A i \in 1..Lines : Line(i) \in UpLines
<1>1. up \in Seq(UpLines) /\ Len(up) \in Nat
  BY LenProperties DEF Base, DaemonTyped
<1>2. serve = "write" => /\ Len(out) \in Nat /\ Len(out) >= 1
                         /\ out \in Seq(UpLines)
  <2>1. serve = "write" => Len(out) \in Nat /\ Len(out) >= 1
    BY FirstLine
  <2>2. ASSUME serve = "write", cur = none PROVE out \in Seq(UpLines)
    <3>1. PICK a \in Acks : out = <<a>>
      BY <2>2 DEF Base, Writing
    <3>2. a \in UpLines
      BY DEF UpLines
    <3> QED BY <3>1, <3>2
  <2>3. ASSUME serve = "write", cur # none PROVE out \in Seq(UpLines)
    BY <2>3 DEF Base, Writing
  <2> QED BY <2>1, <2>2, <2>3
<1>3. ASSUME NEW i \in 1..Lines
      PROVE  Line(i) \in UpLines
  <2>1. CASE i <= Len(up)
    <3>1. i \in 1..Len(up)
      BY <1>1, <1>2, <2>1 DEF Lines
    <3> QED BY <1>1, <2>1, <3>1 DEF Line
  <2>2. CASE ~(i <= Len(up))
    <3>1. serve = "write" /\ i - Len(up) \in 1..Len(out)
      BY <1>1, <1>2, <2>2 DEF Lines
    <3>2. out[i - Len(up)] \in UpLines
      BY <1>2, <3>1, ElementOfSeq
    <3> QED BY <2>2, <3>2 DEF Line
  <2> QED BY <2>1, <2>2
<1> QED BY <1>1, <1>2, <1>3 DEF Lines

(***************************************************************************)
(* The lines after a step are the lines before it, or the first of them    *)
(* without the one that was read.                                          *)
(***************************************************************************)
Shifted(k) == \A i \in 1..Lines' : i + k \in 1..Lines /\ Line(i)' = Line(i + k)

TakenLines ==
    /\ Lines' = Lines + Len(out')
    /\ \A i \in 1..Lines : Line(i)' = Line(i)
    /\ \A i \in 1..Lines' : i \notin 1..Lines =>
          i - Lines \in 1..Len(out') /\ Line(i)' = out'[i - Lines]

\* What a step does to the lines to the daemon.
LEMMA WireStep ==
    ASSUME Base, [Next]_vars
    PROVE  \/ Shifted(0) /\ ~ReadLine
           \/ ReadLine /\ Shifted(1) /\ 1 \in 1..Lines /\ Line(1) = Head(up)
           \/ ServeTake /\ serve' = "write" /\ TakenLines
<1>0. up \in Seq(UpLines) /\ Len(up) \in Nat /\ Lines \in Nat /\ Len(up) <= Lines
  BY LinesTyped DEF Base, DaemonTyped
<1>w. serve = "write" => Len(out) \in Nat /\ Len(out) >= 1
  BY FirstLine
<1>r. ReadLine => DaemonSide
  BY DEF DaemonSide
<1>n. ReadLine => Len(up') = Len(up) - 1
  <2>1. ReadLine => up # <<>> /\ up' = Tail(up)
    BY DEF ReadLine
  <2>2. up # <<>> => Len(Tail(up)) = Len(up) - 1
    BY <1>0, HeadAndTail
  <2> QED BY <2>1, <2>2
<1>1. CASE UNCHANGED <<up, dEnd>> /\ serve' # "write"
  <2>1. Lines' = Len(up) /\ \A i : i <= Len(up) => Line(i)' = Line(i)
    BY <1>1 DEF Lines, Line
  <2>2. \A i \in 1..Len(up) : i + 0 = i /\ i <= Len(up)
    BY <1>0
  <2>3. ~ReadLine
    BY <1>0, <1>1, <1>n
  <2> QED BY <1>0, <2>1, <2>2, <2>3 DEF Shifted
<1>2. CASE UNCHANGED <<up, dEnd, serve, out>>
  <2>1. Lines' = Lines /\ \A i : Line(i)' = Line(i)
    BY <1>2 DEF Lines, Line
  <2>2. \A i \in 1..Lines : i + 0 = i
    BY <1>0
  <2>3. ~ReadLine
    BY <1>0, <1>2, <1>n
  <2> QED BY <2>1, <2>2, <2>3 DEF Shifted
<1>3. CASE up' = <<>> /\ (~dEnd' \/ serve' # "write") /\ ~ReadLine
  <2>1. Lines' = 0
    BY <1>3 DEF Lines
  <2> QED BY <1>3, <2>1 DEF Shifted
<1>4. CASE ReadLine
  <2>1. up # <<>> /\ up' = Tail(up) /\ UNCHANGED <<dEnd, serve, out>>
    BY <1>4, <1>r, Sides DEF ReadLine, plugin
  <2>2. /\ Head(up) = up[1] /\ 1 \in 1..Len(up) /\ Len(Tail(up)) = Len(up) - 1
        /\ \A i \in 1..Len(Tail(up)) : i + 1 \in 1..Len(up) /\ Tail(up)[i] = up[i + 1]
    BY <1>0, <2>1, HeadAndTail
  <2>3. Lines' = Lines - 1
    BY <1>0, <1>w, <2>1, <2>2 DEF Lines
  <2>4. ASSUME NEW i \in 1..Lines'
        PROVE  i + 1 \in 1..Lines /\ Line(i)' = Line(i + 1)
    <3>1. i + 1 \in 1..Lines
      BY <1>0, <2>3
    <3>2. CASE i <= Len(up) - 1
      <4>1. i \in 1..Len(Tail(up)) /\ i + 1 <= Len(up)
        BY <1>0, <2>2, <3>2
      <4>2. Line(i)' = Tail(up)[i]
        BY <2>1, <2>2, <3>2 DEF Line
      <4> QED BY <2>2, <3>1, <4>1, <4>2 DEF Line
    <3>3. CASE ~(i <= Len(up) - 1)
      <4>1. ~(i + 1 <= Len(up)) /\ i - (Len(up) - 1) = (i + 1) - Len(up)
        BY <1>0, <3>3
      <4>2. Line(i)' = out[i - (Len(up) - 1)]
        BY <2>1, <2>2, <3>3 DEF Line
      <4> QED BY <3>1, <4>1, <4>2 DEF Line
    <3> QED BY <3>2, <3>3
  <2>5. 1 \in 1..Lines /\ Line(1) = Head(up)
    BY <1>0, <2>2 DEF Line
  <2> QED BY <1>4, <2>4, <2>5 DEF Shifted
<1>5. CASE ServeWrite
  <2>1. /\ up' = Append(up, Head(out)) /\ out' = Tail(out) /\ UNCHANGED dEnd /\ dEnd
        /\ serve = "write" /\ (Len(out) > 1 => serve' = "write")
        /\ (~(Len(out) > 1) => serve' = "select")
    BY <1>5 DEF ServeWrite
  <2>2. /\ out # <<>> /\ Head(out) \in UpLines /\ Head(out) = out[1]
        /\ Len(out) \in Nat /\ Len(out) >= 1
    BY <2>1, FirstLine
  <2>s. \E S : out \in Seq(S)
    <3>1. CASE cur = none
      <4>1. PICK a \in Acks : out = <<a>>
        BY <2>1, <3>1 DEF Base, Writing
      <4> QED BY <4>1
    <3>2. CASE cur # none
      BY <2>1, <3>2 DEF Base, Writing
    <3> QED BY <3>1, <3>2
  <2>3. /\ Len(Tail(out)) = Len(out) - 1
        /\ \A i \in 1..Len(Tail(out)) : i + 1 \in 1..Len(out) /\ Tail(out)[i] = out[i + 1]
    BY <2>2, <2>s, HeadAndTail
  <2>4. /\ Len(up') = Len(up) + 1 /\ up'[Len(up) + 1] = Head(out)
        /\ \A i \in 1..Len(up) : up'[i] = up[i]
    BY <1>0, <2>1, <2>2, AppendProperties
  <2>5. Lines' = Lines /\ Lines = Len(up) + Len(out)
    <3>1. CASE Len(out) > 1
      BY <1>0, <2>1, <2>2, <2>3, <2>4, <3>1 DEF Lines
    <3>2. CASE ~(Len(out) > 1)
      <4> DEFINE n == Len(out)
      <4>0. n \in Nat /\ n >= 1 /\ ~(n > 1)
        BY <2>2, <3>2
      <4> HIDE DEF n
      <4>2. n = 1
        BY <4>0
      <4>1. Len(out) = 1
        BY <4>2 DEF n
      <4> QED BY <1>0, <2>1, <2>4, <3>2, <4>1 DEF Lines
    <3> QED BY <3>1, <3>2
  <2>6. ASSUME NEW i \in 1..Lines'
        PROVE  i + 0 \in 1..Lines /\ Line(i)' = Line(i + 0)
    <3>0. i + 0 = i /\ i \in 1..Lines
      BY <1>0, <2>5
    <3>1. CASE i <= Len(up)
      <4>1. i \in 1..Len(up) /\ i <= Len(up')
        BY <1>0, <2>4, <3>1
      <4>2. Line(i)' = up[i] /\ Line(i) = up[i]
        BY <2>4, <3>1, <4>1 DEF Line
      <4> QED BY <3>0, <4>2
    <3>2. CASE i = Len(up) + 1
      <4>1. i <= Len(up') /\ ~(i <= Len(up)) /\ i - Len(up) = 1
        BY <1>0, <2>4, <3>2
      <4>2. Line(i)' = Head(out) /\ Line(i) = out[1]
        BY <2>4, <3>2, <4>1 DEF Line
      <4> QED BY <2>2, <3>0, <4>2
    <3>3. CASE i > Len(up) + 1
      <4>1. /\ ~(i <= Len(up')) /\ ~(i <= Len(up))
            /\ i - Len(up') \in 1..Len(Tail(out)) /\ (i - Len(up')) + 1 = i - Len(up)
        BY <1>0, <2>2, <2>3, <2>4, <2>5, <3>0, <3>3
      <4>2. Line(i)' = Tail(out)[i - Len(up')] /\ Line(i) = out[i - Len(up)]
        BY <2>1, <4>1 DEF Line
      <4> QED BY <2>3, <3>0, <4>1, <4>2
    <3> QED BY <1>0, <3>0, <3>1, <3>2, <3>3
  <2>7. ~ReadLine
    BY <1>0, <1>n, <2>4
  <2> QED BY <2>6, <2>7 DEF Shifted
<1>6. CASE ServeTake /\ serve' = "write"
  <2>1. UNCHANGED <<up, dEnd>> /\ serve = "select"
    BY <1>6 DEF ServeTake, socket
  <2>2. Lines = Len(up)
    BY <2>1 DEF Lines
  <2>3. CASE ~dEnd
    <3>1. Lines' = Len(up) /\ \A i : i <= Len(up) => Line(i)' = Line(i)
      BY <2>1, <2>3 DEF Lines, Line
    <3>2. \A i \in 1..Len(up) : i + 0 = i /\ i <= Len(up)
      BY <1>0
    <3>3. ~ReadLine
      BY <1>6, <1>r, Sides DEF ServeTake, plugin
    <3> QED BY <2>2, <3>1, <3>2, <3>3 DEF Shifted
  <2>4. CASE dEnd
    <3>0. Len(out') \in Nat
      <4>1. Writing'
        BY WritingStep
      <4>2. CASE cur' = none
        <5>1. \E a \in Acks : out' = <<a>>
          BY <1>6, <4>1, <4>2 DEF Writing
        <5> QED BY <5>1
      <4>3. CASE cur' # none
        <5>1. out' \in Seq(UpLines)
          BY <1>6, <4>1, <4>3 DEF Writing
        <5> QED BY <5>1, LenProperties
      <4> QED BY <4>2, <4>3
    <3>1. Lines' = Lines + Len(out')
      BY <1>6, <2>1, <2>2, <2>4 DEF Lines
    <3>2. \A i \in 1..Lines : Line(i)' = Line(i)
      BY <1>0, <2>1, <2>2 DEF Line
    <3>3. \A i \in 1..Lines' : i \notin 1..Lines =>
             i - Lines \in 1..Len(out') /\ Line(i)' = out'[i - Lines]
      <4> SUFFICES ASSUME NEW i \in 1..Lines', i \notin 1..Lines
                   PROVE  i - Lines \in 1..Len(out') /\ Line(i)' = out'[i - Lines]
        OBVIOUS
      <4>1. ~(i <= Len(up)) /\ i - Lines \in 1..Len(out')
        BY <1>0, <2>2, <3>0, <3>1
      <4>2. Line(i)' = out'[i - Len(up)]
        BY <2>1, <4>1 DEF Line
      <4> QED BY <2>2, <4>1, <4>2
    <3> QED BY <1>6, <3>1, <3>2, <3>3 DEF TakenLines
  <2> QED BY <2>3, <2>4
<1>7. CASE PluginSide /\ ~ServeWrite /\ ~(ServeTake /\ serve' = "write")
  <2>1. UNCHANGED dEnd
    BY <1>7, Sides
  <2>2. UNCHANGED up /\ (serve' # "write" \/ UNCHANGED <<serve, out>>)
    BY <1>7 DEF PluginSide, Caller, Submit, EnterTx, TimeOut, ConnectFails, FailFast,
         ServeTake, ServeWriteFails, ServeFileFails, ServeEof, EndServe, Aborted,
         ServeRead, Deliver, Notify, PumpAck, PluginStops, socket
  <2> QED BY <1>1, <1>2, <2>1, <2>2
<1>8. CASE DaemonSide /\ ~ReadLine
  <2>1. UNCHANGED <<serve, out>>
    BY <1>8, Sides DEF plugin
  <2>2. UNCHANGED <<up, dEnd>> \/ (up' = <<>> /\ ~dEnd')
    BY <1>8 DEF DaemonSide, Dispatch, WriteDown, FlushEvent, FlushDone, WriterTakes,
       WriterFails, Execute, SendResult, EndHandler, Shutdown, HandlerEnds,
       DeleteFile, Release, Crash, Sweep, socket
  <2> QED BY <1>2, <1>3, <1>8, <2>1, <2>2
<1>9. CASE Connect
  <2>1. up' = <<>> /\ serve' = "select" /\ ~ReadLine
    BY <1>9, <1>r, Sides DEF Connect, plugin
  <2> QED BY <1>3, <2>1
<1>10. CASE UNCHANGED vars
  BY <1>2, <1>10 DEF vars, plugin, socket
<1> QED BY <1>4, <1>5, <1>6, <1>7, <1>8, <1>9, <1>10, Sides

(***************************************************************************)
(* The order of two lines of one number: a file's header comes first and   *)
(* has the size its command's call has, its chunks are of that call, and   *)
(* after its end only the command comes.                                   *)
(***************************************************************************)
Before(sz, x, y) ==
    x.k # "ack" /\ y.k # "ack" /\ x.id = y.id =>
        /\ x.k # "cmd" /\ y.k # "file"
        /\ x.k = "end" => y.k = "cmd"
        /\ x.k = "file" /\ y.k = "cmd" => sz[y.call] # none /\ x.size = sz[y.call]
        /\ x.k = "chunk" /\ y.k \in {"chunk", "cmd"} => x.call = y.call

WireInv ==
    /\ \A i, j \in 1..Lines : i < j => Before(size, Line(i), Line(j))
    /\ pEnd => \A i \in 1..Lines : Line(i).k # "ack" => Line(i).id < nextId

\* The size in a header is taken when the call is made and stays.
LEMMA SizeStays ==
    ASSUME [Next]_vars
    PROVE  size' = size
<1>1. CASE DaemonSide \/ UNCHANGED vars
  BY <1>1, Sides DEF vars, plugin
<1>2. CASE PluginSide \/ Connect
  BY <1>2 DEF PluginSide, Connect, Caller, Submit, EnterTx, TimeOut, ConnectFails, FailFast,
       ServeTake, ServeWrite, ServeWriteFails, ServeFileFails, ServeEof,
       ServeRead, Deliver, Notify, PumpAck, PluginStops
<1> QED BY <1>1, <1>2, Sides

\* The lines that serve starts to write are in this order, under a new number.
LEMMA TakenOrder ==
    ASSUME Base, ServeTake, serve' = "write"
    PROVE  /\ \A i, j \in 1..Len(out') : i < j => Before(size, out'[i], out'[j])
           /\ \A i \in 1..Len(out') : out'[i].k # "ack" =>
                 out'[i].id = nextId /\ nextId' = nextId + 1 /\ nextId \in Ids
<1>0. /\ tx \in Seq(Calls \cup Acks) /\ tx # <<>> /\ serve # "write"
  BY DEF Base, PluginTyped, ServeTake
<1>1. Head(tx) \in Calls \cup Acks
  BY <1>0, HeadAndTail
<1>2. CASE Head(tx) \notin Calls
  <2>1. out' = <<Head(tx)>> /\ Head(tx) \in Acks
    BY <1>1, <1>2 DEF ServeTake
  <2>2. Len(out') = 1 /\ out'[1].k = "ack"
    BY <2>1 DEF Acks
  <2> QED BY <2>2
<1>3. CASE Head(tx) \in Calls
  <2> DEFINE c == Head(tx)
  <2>1. nextId \in Ids /\ nextId' = nextId + 1
    BY <1>0, <1>3, NumberLeft DEF ServeTake
  <2>2. \/ out' = <<cmd(nextId, c)>>
        \/ SendsFile(c) /\ \E n \in 0..MaxSize : out' = Stream(c, n)
    BY <1>0, <1>3 DEF ServeTake
  <2>c. c \in Calls
    BY <1>3
  <2> HIDE DEF c
  <2>3. CASE out' = <<cmd(nextId, c)>>
    <3>1. Len(out') = 1 /\ out'[1] = cmd(nextId, c) /\ cmd(nextId, c).id = nextId
      BY <2>3 DEF cmd
    <3> QED BY <2>1, <3>1
  <2>4. ASSUME SendsFile(c), NEW n \in 0..MaxSize, out' = Stream(c, n)
        PROVE  /\ \A i, j \in 1..Len(out') : i < j => Before(size, out'[i], out'[j])
               /\ \A i \in 1..Len(out') : out'[i].id = nextId
    <3>1. n \in Nat
      BY LinkAssumption
    <3>2. /\ Len(out') = n + 3
          /\ out'[1] = file(nextId, size[c])
          /\ \A i \in 2..(n + 1) : out'[i] = chunk(nextId, c)
          /\ out'[n + 2] = file_end(nextId)
          /\ out'[n + 3] = cmd(nextId, c)
      BY <2>1, <2>c, <2>4, <3>1, StreamLines
    <3>3. \A i \in 1..Len(out') : i = 1 \/ i \in 2..(n + 1) \/ i = n + 2 \/ i = n + 3
      BY <3>1, <3>2
    <3>4. /\ \A x \in {file(nextId, size[c]), chunk(nextId, c), file_end(nextId), cmd(nextId, c)} :
                x.id = nextId
      BY DEF file, chunk, file_end, cmd
    <3>5. \A i \in 1..Len(out') : out'[i].id = nextId
      BY <3>2, <3>3, <3>4
    <3>6. ASSUME NEW i \in 1..Len(out'), NEW j \in 1..Len(out'), i < j
          PROVE  Before(size, out'[i], out'[j])
      <4>1. /\ file(nextId, size[c]).k = "file" /\ file(nextId, size[c]).size = size[c]
            /\ chunk(nextId, c).k = "chunk" /\ chunk(nextId, c).call = c
            /\ file_end(nextId).k = "end"
            /\ cmd(nextId, c).k = "cmd" /\ cmd(nextId, c).call = c
        BY DEF file, chunk, file_end, cmd
      <4>2. CASE i = 1
        <5>1. j \in 2..(n + 1) \/ j = n + 2 \/ j = n + 3
          BY <3>1, <3>2, <3>3, <3>6, <4>2
        <5> QED BY <2>4, <3>2, <4>1, <4>2, <5>1 DEF Before, SendsFile
      <4>3. CASE i \in 2..(n + 1)
        <5>1. j \in 2..(n + 1) \/ j = n + 2 \/ j = n + 3
          BY <3>1, <3>2, <3>3, <3>6, <4>3
        <5> QED BY <3>2, <4>1, <4>3, <5>1 DEF Before
      <4>4. CASE i = n + 2
        <5>1. j = n + 3
          BY <3>1, <3>2, <3>3, <3>6, <4>4
        <5> QED BY <3>2, <4>1, <4>4, <5>1 DEF Before
      <4>5. i # n + 3
        BY <3>1, <3>2, <3>6
      <4> QED BY <3>3, <4>2, <4>3, <4>4, <4>5
    <3> QED BY <3>5, <3>6
  <2> QED BY <2>1, <2>2, <2>3, <2>4
<1> QED BY <1>2, <1>3

\* The order of the lines is kept by every step.
LEMMA WireInvStep ==
    ASSUME Base, WireInv, [Next]_vars
    PROVE  WireInv'
<1>0. /\ Lines \in Nat /\ nextId \in Nat /\ size' = size
      /\ \A i \in 1..Lines : Line(i) \in UpLines
  BY LinesTyped, SizeStays DEF Base, PluginTyped
<1>i. \A i \in 1..Lines : Line(i).k # "ack" => Line(i).id \in Ids
  BY <1>0, UpKinds
<1>1. ASSUME NEW k \in {0, 1}, Shifted(k)
      PROVE  WireInv'
  <2>1. ASSUME NEW i \in 1..Lines', NEW j \in 1..Lines', i < j
        PROVE  Before(size, Line(i)', Line(j)')
    <3>1. /\ i + k \in 1..Lines /\ j + k \in 1..Lines
          /\ Line(i)' = Line(i + k) /\ Line(j)' = Line(j + k)
      BY <1>1 DEF Shifted
    <3>2. i + k < j + k
      BY <1>1, <2>1
    <3>3. Before(size, Line(i + k), Line(j + k))
      BY <3>1, <3>2 DEF WireInv
    <3> QED BY <3>1, <3>3
  <2>2. ASSUME pEnd', NEW i \in 1..Lines', Line(i)'.k # "ack"
        PROVE  Line(i)'.id < nextId'
    <3>1. pEnd
      <4>1. CASE ~pEnd
        <5>1. Connect
          BY <2>2, <4>1, FreshSocket
        <5>2. Lines' = 0
          BY <5>1 DEF Connect, Lines
        <5> QED BY <5>2
      <4> QED BY <4>1
    <3>2. i + k \in 1..Lines /\ Line(i)' = Line(i + k)
      BY <1>1 DEF Shifted
    <3>3. Line(i + k).id < nextId /\ Line(i + k).id \in Ids
      BY <1>i, <2>2, <3>1, <3>2 DEF WireInv
    <3>4. nextId' = nextId \/ nextId' = nextId + 1
      <4>1. CASE DaemonSide \/ UNCHANGED vars
        BY <4>1, Sides DEF vars, plugin
      <4>2. CASE Connect
        BY <3>1, <4>2 DEF Connect, Base, SocketEnds, Connected
      <4>3. CASE PluginSide
        BY <2>2, <4>3 DEF PluginSide, Caller, Submit, EnterTx, TimeOut, ConnectFails, FailFast,
           ServeTake, ServeWrite, ServeWriteFails, ServeFileFails, ServeEof, EndServe, Aborted,
           ServeRead, Deliver, Notify, PumpAck, PluginStops
      <4> QED BY <4>1, <4>2, <4>3, Sides
    <3> QED BY <1>0, <3>2, <3>3, <3>4 DEF Ids
  <2> QED BY <1>0, <2>1, <2>2 DEF WireInv
<1>2. ASSUME ServeTake, serve' = "write", TakenLines
      PROVE  WireInv'
  <2>0. /\ pEnd /\ pEnd' = pEnd /\ nextId' \in {nextId, nextId + 1}
    BY <1>2 DEF ServeTake, socket, Base, SocketEnds, Connected
  <2>o. \A i \in 1..Lines : Line(i).k # "ack" => Line(i).id < nextId
    BY <2>0 DEF WireInv
  <2>n. \A i \in 1..Len(out') : out'[i].k # "ack" =>
                 out'[i].id = nextId /\ nextId' = nextId + 1
    BY <1>2, TakenOrder
  <2>1. ASSUME NEW i \in 1..Lines', NEW j \in 1..Lines', i < j
        PROVE  Before(size, Line(i)', Line(j)')
    <3>1. CASE i \in 1..Lines /\ j \in 1..Lines
      BY <1>2, <2>1, <3>1 DEF TakenLines, WireInv
    <3>2. CASE i \in 1..Lines /\ j \notin 1..Lines
      <4>1. Line(i)' = Line(i) /\ j - Lines \in 1..Len(out') /\ Line(j)' = out'[j - Lines]
        BY <1>2, <3>2 DEF TakenLines
      <4>2. Line(i).k # "ack" => Line(i).id < nextId /\ Line(i).id \in Ids
        BY <1>i, <2>o, <3>2
      <4>3. Line(j)'.k # "ack" => Line(j)'.id = nextId
        BY <2>n, <4>1
      <4>4. ~(Line(i)'.k # "ack" /\ Line(j)'.k # "ack" /\ Line(i)'.id = Line(j)'.id)
        BY <1>0, <4>1, <4>2, <4>3 DEF Ids
      <4> QED BY <4>4 DEF Before
    <3>3. CASE i \notin 1..Lines
      <4>1. j \notin 1..Lines
        BY <1>0, <2>1, <3>3
      <4>2. /\ i - Lines \in 1..Len(out') /\ Line(i)' = out'[i - Lines]
            /\ j - Lines \in 1..Len(out') /\ Line(j)' = out'[j - Lines]
        BY <1>2, <3>3, <4>1 DEF TakenLines
      <4>3. i - Lines < j - Lines
        BY <1>0, <2>1
      <4> QED BY <1>2, <4>2, <4>3, TakenOrder
    <3> QED BY <3>1, <3>2, <3>3
  <2>2. ASSUME NEW i \in 1..Lines', Line(i)'.k # "ack"
        PROVE  Line(i)'.id < nextId'
    <3>1. CASE i \in 1..Lines
      <4>1. Line(i)' = Line(i)
        BY <1>2, <3>1 DEF TakenLines
      <4>2. Line(i).id < nextId /\ Line(i).id \in Ids
        BY <1>i, <2>2, <2>o, <3>1, <4>1
      <4> QED BY <1>0, <2>0, <4>1, <4>2 DEF Ids
    <3>2. CASE i \notin 1..Lines
      <4>1. i - Lines \in 1..Len(out') /\ Line(i)' = out'[i - Lines]
        BY <1>2, <3>2 DEF TakenLines
      <4>2. Line(i)'.id = nextId /\ nextId' = nextId + 1
        BY <2>2, <2>n, <4>1
      <4> QED BY <1>0, <4>2
    <3> QED BY <3>1, <3>2
  <2> QED BY <1>0, <2>1, <2>2 DEF WireInv
<1> QED BY <1>1, <1>2, WireStep

\* The lines of a number, before and after a step.
LEMMA OfStep ==
    ASSUME Base, WireInv, [Next]_vars, NEW id \in Ids
    PROVE  /\ \A y \in Of(id) : y \in UpLines /\ y.k # "ack" /\ y.id = id
           /\ Of(id)' \subseteq Of(id) \/ (ServeTake /\ id = nextId)
           /\ ReadLine /\ Head(up).k # "ack" /\ Head(up).id = id =>
                 Head(up) \in Of(id) /\ \A y \in Of(id)' : Before(size, Head(up), y)
<1>0. Lines \in Nat /\ \A i \in 1..Lines : Line(i) \in UpLines
  BY LinesTyped
<1>1. \A y \in Of(id) : y \in UpLines /\ y.k # "ack" /\ y.id = id
  BY <1>0 DEF Of, Numbered
<1>2. ASSUME NEW k \in {0, 1}, Shifted(k)
      PROVE  Of(id)' \subseteq Of(id)
  <2> SUFFICES ASSUME NEW i \in 1..Lines', Line(i)'.k # "ack", Line(i)'.id = id
               PROVE  Line(i)' \in Of(id)
    BY DEF Of, Numbered
  <2>1. i + k \in 1..Lines /\ Line(i)' = Line(i + k)
    BY <1>2 DEF Shifted
  <2> QED BY <2>1 DEF Of, Numbered
<1>3. ASSUME ServeTake, serve' = "write", TakenLines, id # nextId
      PROVE  Of(id)' \subseteq Of(id)
  <2> SUFFICES ASSUME NEW i \in 1..Lines', Line(i)'.k # "ack", Line(i)'.id = id
               PROVE  Line(i)' \in Of(id)
    BY DEF Of, Numbered
  <2>1. CASE i \in 1..Lines
    <3>1. Line(i)' = Line(i)
      BY <1>3, <2>1 DEF TakenLines
    <3> QED BY <2>1, <3>1 DEF Of, Numbered
  <2>2. CASE i \notin 1..Lines
    <3>1. i - Lines \in 1..Len(out') /\ Line(i)' = out'[i - Lines]
      BY <1>3, <2>2 DEF TakenLines
    <3>2. Line(i)'.id = nextId
      BY <1>3, <3>1, TakenOrder
    <3> QED BY <1>3, <3>2
  <2> QED BY <2>1, <2>2
<1>4. ASSUME ReadLine, Head(up).k # "ack", Head(up).id = id
      PROVE  Head(up) \in Of(id) /\ \A y \in Of(id)' : Before(size, Head(up), y)
  <2>1. Shifted(1) /\ 1 \in 1..Lines /\ Line(1) = Head(up)
    <3>1. serve' = serve
      BY <1>4, Sides DEF DaemonSide, plugin
    <3>2. ~(ServeTake /\ serve' = "write")
      BY <3>1 DEF ServeTake
    <3> QED BY <1>4, <3>2, WireStep
  <2>2. Head(up) \in Of(id)
    BY <1>4, <2>1 DEF Of, Numbered
  <2>3. ASSUME NEW i \in 1..Lines'
        PROVE  Before(size, Head(up), Line(i)')
    <3>1. i + 1 \in 1..Lines /\ Line(i)' = Line(i + 1) /\ 1 < i + 1
      BY <2>1, <2>3 DEF Shifted
    <3>2. Before(size, Line(1), Line(i + 1))
      BY <2>1, <3>1 DEF WireInv
    <3> QED BY <2>1, <3>1, <3>2
  <2> QED BY <2>2, <2>3 DEF Of
<1> QED BY <1>1, <1>2, <1>3, <1>4, WireStep

(***************************************************************************)
(* A file being received, of the chunks of one call, whose command is on   *)
(* its way behind the rest of it if at all; a file received, whole, and    *)
(* the same; and the file a command is executed with.                      *)
(***************************************************************************)
OpenInv(id) == open[id] # none =>
    /\ id \notin received /\ id \notin orphans
    /\ disk[id] \in Seq(Calls) /\ Len(disk[id]) = open[id].got
    /\ \A y \in Of(id) :
          /\ y.k # "file"
          /\ y.k \in {"chunk", "cmd"} => \A n \in 1..Len(disk[id]) : disk[id][n] = y.call
          /\ y.k = "cmd" => SendsFile(y.call) /\ open[id].size = size[y.call]

ReceivedInv(id) == id \in received =>
    /\ id \notin orphans
    /\ \A y \in Of(id) : y.k = "cmd" /\ SendsFile(y.call) /\ disk[id] = Whole(y.call)

ExecInv == handler = "exec" /\ SendsFile(job.call) =>
    /\ job.id \notin received /\ job.id \notin orphans /\ open[job.id] = none
    /\ disk[job.id] = Whole(job.call)

KeptInv(id) == disk[id] # none =>
    \/ id \in Files \cup cleanup \cup orphans
    \/ handler = "exec" /\ SendsFile(job.call) /\ job.id = id

(***************************************************************************)
(* Files are received under numbers given out.                             *)
(***************************************************************************)
YoungInv(id) == pEnd /\ (open[id] # none \/ id \in received) => id < nextId

FilesInv ==
    /\ ExecInv
    /\ \A id \in Ids : OpenInv(id) /\ ReceivedInv(id) /\ KeptInv(id) /\ YoungInv(id)

\* The numbers in use stay under the next one.
LEMMA YoungStep ==
    ASSUME Base, [Next]_vars, NEW id \in Ids, pEnd /\ (open[id] # none \/ id \in received) => id < nextId,
           open'[id] # none \/ id \in received', pEnd',
           open[id] # none \/ id \in received \/ (pEnd => id < nextId)
    PROVE  id < nextId'
<1>1. CASE ~pEnd
  <2>1. Connect
    BY <1>1, FreshSocket
  <2>2. UNCHANGED <<open, received>> /\ ~Claimed
    BY <2>1 DEF Connect, spool, Claimed
  <2>3. open[id] = none /\ received = {}
    BY <2>2 DEF Base, SocketEnds
  <2> QED BY <2>2, <2>3
<1>2. CASE pEnd
  <2>1. id < nextId
    BY <1>2
  <2>2. nextId \in Nat /\ id \in Int
    BY DEF Base, PluginTyped, Ids
  <2>3. nextId' = nextId \/ nextId' = nextId + 1
    <3>1. CASE DaemonSide \/ UNCHANGED vars
      BY <3>1, Sides DEF vars, plugin
    <3>2. CASE Connect
      BY <1>2, <3>2 DEF Connect, Base, SocketEnds, Connected
    <3>3. CASE PluginSide
      BY <3>3 DEF PluginSide, Caller, Submit, EnterTx, TimeOut, ConnectFails, FailFast,
         ServeTake, ServeWrite, ServeWriteFails, ServeFileFails, ServeEof, EndServe, Aborted,
         ServeRead, Deliver, Notify, PumpAck, PluginStops
    <3> QED BY <3>1, <3>2, <3>3, Sides
  <2> QED BY <2>1, <2>2, <2>3
<1> QED BY <1>1, <1>2

\* Steps that leave a number's file alone.
LEMMA FileAlone ==
    ASSUME Base, WireInv, FilesInv, [Next]_vars, NEW id \in Ids,
           open'[id] = open[id], disk'[id] = disk[id],
           id \in received' <=> id \in received,
           id \in orphans' => id \in orphans
    PROVE  OpenInv(id)' /\ ReceivedInv(id)' /\ YoungInv(id)'
<1>0. size' = size /\ \A c : SendsFile(c)' = SendsFile(c) /\ Whole(c)' = Whole(c)
  BY SizeStays DEF SendsFile, Whole
<1>f. OpenInv(id) /\ ReceivedInv(id) /\ YoungInv(id)
  BY DEF FilesInv
<1>1. open[id] # none \/ id \in received => Of(id)' \subseteq Of(id)
  <2>1. CASE Of(id)' \subseteq Of(id)
    BY <2>1
  <2>2. CASE ServeTake /\ id = nextId
    <3>1. pEnd /\ nextId \in Nat
      BY <2>2 DEF ServeTake, Base, SocketEnds, Connected, PluginTyped
    <3> QED BY <1>f, <2>2, <3>1 DEF YoungInv
  <2> QED BY <2>1, <2>2, OfStep
<1>2. OpenInv(id)'
  BY <1>0, <1>1, <1>f DEF OpenInv, SendsFile
<1>3. ReceivedInv(id)'
  BY <1>0, <1>1, <1>f DEF ReceivedInv, SendsFile, Whole
<1>4. YoungInv(id)'
  BY <1>f, YoungStep DEF YoungInv
<1> QED BY <1>2, <1>3, <1>4

\* The files while the handler reads a line.
LEMMA FilesRead ==
    ASSUME Base, WireInv, FilesInv, ReadLine, [Next]_vars
    PROVE  FilesInv'
<1>p. PICK l : l = Head(up)
  OBVIOUS
<1>d. PICK id : id = l.id
  OBVIOUS
<1> DEFINE Good(i) == OpenInv(i) /\ ReceivedInv(i) /\ KeptInv(i) /\ YoungInv(i)
<1>0. /\ handler = "read" /\ cleanup' = cleanup /\ size' = size /\ none \notin Seq(Calls)
      /\ none \notin Transfers
      /\ open \in [Ids -> {none} \cup Transfers] /\ disk \in [Ids -> {none} \cup Seq(Calls)]
      /\ received \in SUBSET Ids /\ orphans \in SUBSET Ids
  BY KindsApart, SizeStays DEF ReadLine, Base, SpoolTyped
<1>z. \A c : (SendsFile(c)' <=> SendsFile(c)) /\ Whole(c)' = Whole(c)
  BY <1>0 DEF SendsFile, Whole
<1>l. l \in UpLines
  BY <1>p, HeadAndTail DEF ReadLine, Base, DaemonTyped
<1>t. /\ l.k \in {"ack", "cmd", "file", "chunk", "end"}
      /\ l.k # "ack" => id \in Ids
      /\ l.k \in {"cmd", "chunk"} => l.call \in Calls
      /\ l.k = "file" => l.size \in Nat
  BY <1>d, <1>l, UpKinds
<1>y. /\ l.k # "ack" => /\ l \in Of(id)
                        /\ \A y \in Of(id)' : Before(size, l, y) /\ y \in Of(id)
                        /\ Of(id)' \subseteq Of(id)
      /\ \A i \in Ids : \A y \in Of(i) : y \in UpLines /\ y.k # "ack" /\ y.id = i
  <2>1. ~ServeTake
    <3>1. serve' = serve /\ tx' = tx
      BY Sides DEF DaemonSide, plugin
    <3>2. tx # <<>> => Tail(tx) # tx
      <4>1. tx \in Seq(Calls \cup Acks)
        BY DEF Base, PluginTyped
      <4>2. tx # <<>> => Len(Tail(tx)) = Len(tx) - 1 /\ Len(tx) \in Nat
        BY <4>1, HeadAndTail, LenProperties
      <4> QED BY <4>2
    <3> QED BY <3>1, <3>2 DEF ServeTake
  <2>2. \A i \in Ids : \A y \in Of(i) : y \in UpLines /\ y.k # "ack" /\ y.id = i
    BY OfStep
  <2>3. \A i \in Ids : Of(i)' \subseteq Of(i)
    BY <2>1, OfStep
  <2>4. l.k # "ack" => l \in Of(id) /\ \A y \in Of(id)' : Before(size, l, y)
    BY <1>d, <1>p, <1>t, OfStep
  <2> QED BY <1>t, <2>2, <2>3, <2>4
<1>a. ASSUME NEW i \in Ids, open'[i] = open[i], disk'[i] = disk[i],
             i \in received' <=> i \in received, i \in orphans' <=> i \in orphans
      PROVE  Good(i)'
  <2>1. OpenInv(i)' /\ ReceivedInv(i)' /\ YoungInv(i)'
    BY <1>a, FileAlone
  <2>2. KeptInv(i)
    BY DEF FilesInv
  <2>3. KeptInv(i)'
    BY <1>0, <1>a, <2>2 DEF KeptInv, Files
  <2> QED BY <2>1, <2>3
<1>i. l.k # "ack" => Good(id) /\ (pEnd => id < nextId)
  <2>1. l.k # "ack" => Good(id)
    BY <1>t DEF FilesInv
  <2>2. l.k # "ack" => (pEnd => id < nextId)
    <3>1. serve' = serve
      BY Sides DEF DaemonSide, plugin
    <3>2. 1 \in 1..Lines /\ Line(1) = l
      BY <1>p, <3>1, WireStep DEF ServeTake
    <3> QED BY <1>d, <3>2 DEF WireInv
  <2> QED BY <2>1, <2>2
<1>v. ASSUME l.k # "ack"
      PROVE  YoungInv(id)'
  <2>1. Good(id) /\ (pEnd => id < nextId) /\ id \in Ids
    BY <1>i, <1>t, <1>v
  <2> QED BY <2>1, YoungStep DEF YoungInv
<1>b. l.k # "ack" => \A y \in Of(id)' :
          /\ y.k # "file" /\ l.k # "cmd"
          /\ l.k = "end" => y.k = "cmd"
          /\ l.k = "file" /\ y.k = "cmd" => SendsFile(y.call) /\ l.size = size[y.call]
          /\ l.k = "chunk" /\ y.k \in {"chunk", "cmd"} => l.call = y.call
  <2> SUFFICES ASSUME l.k # "ack", NEW y \in Of(id)'
               PROVE  /\ y.k # "file" /\ l.k # "cmd"
                      /\ l.k = "end" => y.k = "cmd"
                      /\ l.k = "file" /\ y.k = "cmd" => SendsFile(y.call) /\ l.size = size[y.call]
                      /\ l.k = "chunk" /\ y.k \in {"chunk", "cmd"} => l.call = y.call
    OBVIOUS
  <2>1. Before(size, l, y) /\ y.k # "ack" /\ y.id = id
    BY <1>t, <1>y
  <2> QED BY <1>d, <2>1 DEF Before, SendsFile
<1>1. CASE l.k = "ack"
  <2>1. UNCHANGED <<open, received, disk, orphans, handler>>
    BY <1>1, <1>p DEF ReadLine
  <2>2. \A i \in Ids : Good(i)'
    BY <1>a, <2>1
  <2> QED BY <1>0, <2>1, <2>2 DEF FilesInv, ExecInv
<1>2. CASE l.k \in {"file", "chunk", "end"}
  <2>0. /\ id \in Ids /\ handler' = "read"
        /\ l.k = "file" => Begin(id, l.size) /\ received' = received
        /\ l.k = "chunk" => Chunk(id, l.call) /\ received' = received
        /\ l.k = "end" => End(id)
    BY <1>0, <1>2, <1>t, <1>d, <1>p DEF ReadLine
  <2>o. ASSUME NEW i \in Ids, i # id
        PROVE  Good(i)'
    <3>1. /\ open'[i] = open[i] /\ disk'[i] = disk[i]
          /\ (i \in received' <=> i \in received) /\ (i \in orphans' <=> i \in orphans)
      BY <1>0, <1>2, <2>0, <2>o DEF Begin, Chunk, End, Discard
    <3> QED BY <1>a, <3>1
  <2>g. Good(id)
    BY <1>2, <1>i
  <2>v. YoungInv(id)'
    BY <1>2, <1>v
  <2>n. id \notin received
    BY <1>2, <1>y, <2>g DEF ReceivedInv
  <2>1. ASSUME l.k = "file"
        PROVE  Good(id)'
    <3>1. CASE UNCHANGED <<open, disk, orphans>>
      BY <1>a, <2>0, <2>1, <3>1
    <3>2. CASE /\ open' = [open EXCEPT ![id] = [size |-> l.size, got |-> 0]]
               /\ disk' = [disk EXCEPT ![id] = <<>>]
               /\ orphans' = orphans \ {id}
               /\ l.size <= MaxBytes
      <4>1. open'[id] = [size |-> l.size, got |-> 0] /\ disk'[id] = <<>> /\ id \notin orphans'
        BY <1>0, <2>0, <3>2
      <4>2. open'[id].got = 0 /\ open'[id].size = l.size
        BY <4>1
      <4>t. open'[id] \in Transfers
        BY <1>t, <2>1, <3>2, <4>1, LinkAssumption DEF Transfers
      <4>3. <<>> \in Seq(Calls) /\ Len(<<>>) = 0
        OBVIOUS
      <4>4. \A y \in Of(id)' : y.k # "file" /\ (y.k = "cmd" => SendsFile(y.call)' /\ l.size = size[y.call])
        BY <1>b, <1>z, <2>1
      <4>5. OpenInv(id)'
        BY <1>0, <2>0, <2>1, <2>n, <4>1, <4>2, <4>3, <4>4 DEF OpenInv
      <4>6. ReceivedInv(id)'
        BY <2>0, <2>1, <2>n DEF ReceivedInv
      <4>7. KeptInv(id)'
        BY <1>0, <2>0, <4>t DEF KeptInv, Files
      <4> QED BY <2>v, <4>5, <4>6, <4>7
    <3> QED BY <2>0, <2>1, <3>1, <3>2 DEF Begin
  <2>2. ASSUME l.k = "chunk"
        PROVE  Good(id)'
    <3>1. CASE UNCHANGED <<open, disk>>
      BY <1>a, <2>0, <2>2, <3>1 DEF Chunk
    <3>2. CASE /\ open[id] # none
               /\ open' = [open EXCEPT ![id].got = @ + 1]
               /\ disk' = [disk EXCEPT ![id] = Written(@, l.call)]
               /\ orphans' = orphans
      <4> DEFINE s == disk[id]
      <4>1. /\ s \in Seq(Calls) /\ Len(s) = open[id].got /\ id \notin orphans
            /\ \A y \in Of(id) :
                  /\ y.k \in {"chunk", "cmd"} => \A n \in 1..Len(s) : s[n] = y.call
                  /\ y.k = "cmd" => SendsFile(y.call) /\ open[id].size = size[y.call]
        BY <2>g, <3>2 DEF OpenInv
      <4>2. disk'[id] = Append(s, l.call)
        BY <1>0, <2>0, <3>2, <4>1 DEF Written
      <4>3. open[id] \in Transfers
        BY <1>0, <2>0, <3>2
      <4>4. open'[id] = [open[id] EXCEPT !.got = @ + 1]
        BY <1>0, <2>0, <3>2
      <4>5. /\ open'[id].got = open[id].got + 1 /\ open'[id].size = open[id].size
            /\ open[id].got \in Nat
        BY <4>3, <4>4 DEF Transfers
      <4> HIDE DEF s
      <4>6. l.call \in Calls
        BY <1>t, <2>2
      <4>7. /\ Append(s, l.call) \in Seq(Calls) /\ Len(Append(s, l.call)) = Len(s) + 1
            /\ \A i \in 1..Len(s) : Append(s, l.call)[i] = s[i]
            /\ Append(s, l.call)[Len(s) + 1] = l.call
            /\ Len(s) \in Nat
        BY <4>1, <4>6, AppendProperties, LenProperties
      <4>8. \A y \in Of(id)' :
               /\ y.k # "file"
               /\ y.k \in {"chunk", "cmd"} =>
                     \A n \in 1..(Len(s) + 1) : Append(s, l.call)[n] = y.call
               /\ y.k = "cmd" => SendsFile(y.call)' /\ open'[id].size = size[y.call]
        <5> SUFFICES ASSUME NEW y \in Of(id)'
                     PROVE  /\ y.k # "file"
                            /\ y.k \in {"chunk", "cmd"} =>
                                  \A n \in 1..(Len(s) + 1) : Append(s, l.call)[n] = y.call
                            /\ y.k = "cmd" => SendsFile(y.call)' /\ open'[id].size = size[y.call]
          OBVIOUS
        <5>1. y \in Of(id) /\ y.k # "file" /\ (y.k \in {"chunk", "cmd"} => l.call = y.call)
          BY <1>b, <1>y, <2>2
        <5>2. \A n \in 1..(Len(s) + 1) : n \in 1..Len(s) \/ n = Len(s) + 1
          BY <4>7
        <5>3. y.k \in {"chunk", "cmd"} =>
                 \A n \in 1..(Len(s) + 1) : Append(s, l.call)[n] = y.call
          BY <4>1, <4>7, <5>1, <5>2
        <5>4. y.k = "cmd" => SendsFile(y.call)' /\ open'[id].size = size[y.call]
          BY <1>z, <4>1, <4>5, <5>1
        <5> QED BY <5>1, <5>3, <5>4
      <4>9. open'[id] # none
        <5>1. SpoolTyped'
          BY SpoolStep
        <5>2. open[id].got < open[id].size => [open[id] EXCEPT !.got = @ + 1] \in Transfers
          BY <4>3, LinkAssumption DEF Transfers
        <5>3. open[id].got < open[id].size \/ open'[id] # none
          BY <1>0, <2>0, <2>2, <3>2, <4>2, <4>7 DEF Chunk, Discard
        <5> QED BY <1>0, <4>4, <5>2, <5>3
      <4>10. OpenInv(id)'
        <5>1. id \notin received' /\ id \notin orphans'
          BY <2>0, <2>2, <2>n, <3>2, <4>1
        <5>2. disk'[id] \in Seq(Calls) /\ Len(disk'[id]) = Len(s) + 1 /\ Len(disk'[id]) = open'[id].got
          BY <4>1, <4>2, <4>5, <4>7
        <5> QED BY <1>0, <4>2, <4>8, <5>1, <5>2 DEF OpenInv
      <4>11. ReceivedInv(id)'
        BY <2>0, <2>2, <2>n DEF ReceivedInv
      <4>12. KeptInv(id)'
        BY <2>0, <4>9 DEF KeptInv, Files
      <4> QED BY <2>v, <4>10, <4>11, <4>12
    <3>3. CASE Discard(id) /\ orphans' = orphans
      <4>1. open'[id] = none /\ disk'[id] = none
        BY <1>0, <2>0, <3>3 DEF Discard
      <4> QED BY <2>0, <2>2, <2>n, <2>v, <4>1 DEF OpenInv, ReceivedInv, KeptInv
    <3> QED BY <2>0, <2>2, <3>1, <3>2, <3>3 DEF Chunk
  <2>3. ASSUME l.k = "end"
        PROVE  Good(id)'
    <3>0. open'[id] = none /\ orphans' = orphans
      BY <1>0, <2>0, <2>3 DEF End
    <3>1. CASE open[id] = none /\ UNCHANGED <<disk, received>>
      BY <1>a, <2>0, <3>0, <3>1
    <3>2. CASE open[id] # none /\ ~EndsWrong(id) /\ received' = received \cup {id} /\ disk' = disk
      <4> DEFINE s == disk[id]
      <4>1. /\ s \in Seq(Calls) /\ Len(s) = open[id].got /\ id \notin orphans
            /\ \A y \in Of(id) :
                  /\ y.k \in {"chunk", "cmd"} => \A n \in 1..Len(s) : s[n] = y.call
                  /\ y.k = "cmd" => SendsFile(y.call) /\ open[id].size = size[y.call]
        BY <2>g, <3>2 DEF OpenInv
      <4>2. Len(s) = open[id].size
        BY <3>2, <4>1 DEF EndsWrong
      <4> HIDE DEF s
      <4>3. ASSUME NEW y \in Of(id)'
            PROVE  y.k = "cmd" /\ SendsFile(y.call)' /\ s = Whole(y.call)
        <5>1. y \in Of(id) /\ y.k = "cmd"
          BY <1>b, <1>y, <2>3
        <5>2. SendsFile(y.call) /\ Len(s) = size[y.call] /\ \A n \in 1..Len(s) : s[n] = y.call
          BY <4>1, <4>2, <5>1
        <5>3. s = [n \in 1..Len(s) |-> s[n]]
          BY <4>1
        <5>4. s = Whole(y.call)
          BY <5>2, <5>3 DEF Whole
        <5> QED BY <1>z, <5>1, <5>2, <5>4
      <4>4. ReceivedInv(id)'
        BY <1>z, <3>0, <3>2, <4>1, <4>3 DEF ReceivedInv, s
      <4>5. OpenInv(id)' /\ KeptInv(id)'
        BY <3>0, <3>2 DEF OpenInv, KeptInv, Files
      <4> QED BY <2>v, <4>4, <4>5
    <3>3. CASE open[id] # none /\ disk' = [disk EXCEPT ![id] = none] /\ received' = received
      <4>1. disk'[id] = none
        BY <1>0, <2>0, <3>3
      <4> QED BY <2>n, <2>v, <3>0, <3>3, <4>1 DEF OpenInv, ReceivedInv, KeptInv
    <3> QED BY <2>0, <2>3, <3>1, <3>2, <3>3 DEF End
  <2>4. \A i \in Ids : Good(i)'
    BY <1>2, <2>o, <2>1, <2>2, <2>3
  <2> QED BY <2>0, <2>4 DEF FilesInv, ExecInv
<1>3. CASE l.k = "cmd"
  <2>0. /\ id \in Ids /\ l.call \in Calls /\ UNCHANGED <<open, disk, orphans>>
        /\ \/ /\ SendsFile(l.call) => id \in received
              /\ handler' = "exec" /\ job' = l /\ received' = received \ {id}
           \/ handler' = "result" /\ received' = received
    BY <1>3, <1>t, <1>d, <1>p DEF ReadLine
  <2>g. Good(id)
    BY <1>3, <1>i
  <2>o. ASSUME NEW i \in Ids, i # id
        PROVE  Good(i)'
    <3>1. /\ open'[i] = open[i] /\ disk'[i] = disk[i]
          /\ (i \in received' <=> i \in received) /\ (i \in orphans' <=> i \in orphans)
      BY <2>0, <2>o
    <3> QED BY <1>a, <3>1
  <2>r. id \in received => SendsFile(l.call) /\ disk[id] = Whole(l.call) /\ id \notin orphans
    BY <1>3, <1>y, <2>g DEF ReceivedInv
  <2>1. CASE handler' = "result" /\ received' = received
    <3>1. \A i \in Ids : Good(i)'
      BY <1>a, <2>0, <2>1
    <3> QED BY <2>1, <3>1 DEF FilesInv, ExecInv
  <2>2. CASE /\ SendsFile(l.call) => id \in received
             /\ handler' = "exec" /\ job' = l /\ received' = received \ {id}
    <3>1. CASE SendsFile(l.call)
      <4>1. open[id] = none
        BY <2>2, <2>g, <3>1 DEF OpenInv
      <4>2. ExecInv'
        BY <1>d, <1>z, <2>0, <2>2, <2>r, <3>1, <4>1 DEF ExecInv
      <4>3. OpenInv(id)' /\ ReceivedInv(id)'
        BY <2>0, <2>2, <4>1 DEF OpenInv, ReceivedInv
      <4>4. KeptInv(id)'
        BY <1>d, <1>z, <2>2, <3>1 DEF KeptInv
      <4>5. YoungInv(id)'
        BY <1>3, <1>v
      <4> QED BY <2>o, <4>2, <4>3, <4>4, <4>5 DEF FilesInv
    <3>2. CASE ~SendsFile(l.call)
      <4>1. id \notin received /\ received' = received
        BY <2>2, <2>r, <3>2
      <4>2. \A i \in Ids : Good(i)'
        BY <1>a, <2>0, <4>1
      <4>3. ExecInv'
        BY <1>z, <2>2, <3>2 DEF ExecInv
      <4> QED BY <4>2, <4>3 DEF FilesInv
    <3> QED BY <3>1, <3>2
  <2> QED BY <2>0, <2>1, <2>2
<1> QED BY <1>t, <1>1, <1>2, <1>3

\* The files in every step: only a line read, an execution, the end of a
\* connection, a deletion, a crash and the sweep touch them.
LEMMA FilesStep ==
    ASSUME Base, WireInv, FilesInv, [Next]_vars
    PROVE  FilesInv'
<1> DEFINE Good(i) == OpenInv(i) /\ ReceivedInv(i) /\ KeptInv(i) /\ YoungInv(i)
<1>0. /\ size' = size /\ none \notin Seq(Calls)
      /\ open \in [Ids -> {none} \cup Transfers] /\ disk \in [Ids -> {none} \cup Seq(Calls)]
      /\ received \in SUBSET Ids /\ cleanup \in SUBSET Ids /\ orphans \in SUBSET Ids
  BY KindsApart, SizeStays DEF Base, SpoolTyped
<1>z. \A c : (SendsFile(c)' <=> SendsFile(c)) /\ Whole(c)' = Whole(c)
  BY <1>0 DEF SendsFile, Whole
<1>g. ExecInv /\ \A i \in Ids : Good(i)
  BY DEF FilesInv
<1>a. ASSUME UNCHANGED spool, UNCHANGED <<handler, job>> \/ (handler # "exec" /\ handler' # "exec")
      PROVE  FilesInv'
  <2>1. \A i \in Ids : OpenInv(i)' /\ ReceivedInv(i)' /\ YoungInv(i)'
    BY <1>a, FileAlone DEF spool
  <2>2. \A i \in Ids : KeptInv(i)'
    BY <1>a, <1>g, <1>z DEF KeptInv, Files, spool
  <2>3. ExecInv'
    BY <1>a, <1>g, <1>z DEF ExecInv, spool
  <2> QED BY <2>1, <2>2, <2>3 DEF FilesInv
<1>e. ASSUME handler' # "exec", \A i \in Ids : open'[i] = none, received' = {},
             \A i \in Ids : KeptInv(i)'
      PROVE  FilesInv'
  BY <1>e DEF FilesInv, ExecInv, OpenInv, ReceivedInv, YoungInv
<1>1. CASE PluginSide \/ UNCHANGED vars
  <2>1. UNCHANGED <<spool, handler, job>>
    BY <1>1, Sides DEF vars, daemon
  <2> QED BY <1>a, <2>1
<1>2. CASE (\E e \in Events : Dispatch(e)) \/ WriteDown \/ FlushEvent \/ WriterTakes \/ WriterFails
  <2>1. UNCHANGED <<spool, handler, job>>
    BY <1>2 DEF Dispatch, WriteDown, FlushEvent, WriterTakes, WriterFails
  <2> QED BY <1>a, <2>1
<1>3. CASE Connect \/ FlushDone \/ SendResult \/ Release
  <2>1. UNCHANGED spool /\ handler # "exec" /\ handler' # "exec"
    BY <1>3 DEF Connect, FlushDone, SendResult, Release
  <2> QED BY <1>a, <2>1
<1>4. CASE ReadLine
  BY <1>4, FilesRead
<1>5. CASE Execute
  <2>1. /\ handler = "exec" /\ handler' = "result"
        /\ UNCHANGED <<open, received, cleanup, orphans>>
        /\ SendsFile(job.call) => disk' = [disk EXCEPT ![job.id] = none]
        /\ ~SendsFile(job.call) => disk' = disk
    BY <1>5 DEF Execute
  <2>2. ASSUME NEW i \in Ids, ~(SendsFile(job.call) /\ i = job.id)
        PROVE  Good(i)'
    <3>1. disk'[i] = disk[i]
      BY <1>0, <2>1, <2>2
    <3>2. OpenInv(i)' /\ ReceivedInv(i)' /\ YoungInv(i)'
      BY <2>1, <3>1, FileAlone
    <3>3. KeptInv(i)'
      BY <1>g, <2>1, <2>2, <3>1 DEF KeptInv, Files
    <3> QED BY <3>2, <3>3
  <2>3. ASSUME NEW i \in Ids, SendsFile(job.call), i = job.id
        PROVE  Good(i)'
    <3>1. disk'[i] = none /\ open'[i] = none /\ i \notin received'
      BY <1>0, <1>g, <2>1, <2>3 DEF ExecInv
    <3> QED BY <3>1 DEF OpenInv, ReceivedInv, KeptInv, YoungInv
  <2>4. \A i \in Ids : Good(i)'
    BY <2>2, <2>3
  <2> QED BY <2>1, <2>4 DEF FilesInv, ExecInv
<1>6. CASE EndHandler \/ Shutdown
  <2>1. HandlerEnds /\ handler # "exec"
    BY <1>6 DEF EndHandler, Shutdown
  <2>2. /\ handler' = "cleanup" /\ open' = [i \in Ids |-> none] /\ received' = {}
        /\ cleanup' = cleanup \cup Files /\ UNCHANGED <<disk, orphans>>
    BY <2>1 DEF HandlerEnds, ToDelete
  <2>3. \A i \in Ids : KeptInv(i)'
    BY <1>g, <2>1, <2>2 DEF KeptInv
  <2> QED BY <1>e, <2>2, <2>3
<1>7. CASE DeleteFile
  <2>1. PICK n \in cleanup : cleanup' = cleanup \ {n} /\ disk' = [disk EXCEPT ![n] = none]
    BY <1>7 DEF DeleteFile
  <2>2. UNCHANGED <<handler, job, open, received, orphans>>
    BY <1>7 DEF DeleteFile, daemon
  <2>3. handler = "cleanup" /\ ~dEnd
    BY <2>1 DEF Base, SocketEnds, Claimed
  <2>4. received = {} /\ \A i \in Ids : open[i] = none
    BY <2>3 DEF Base, SocketEnds
  <2>5. ASSUME NEW i \in Ids
        PROVE  KeptInv(i)'
    <3>1. CASE i = n
      BY <1>0, <2>1, <3>1 DEF KeptInv
    <3>2. CASE i # n
      <4>1. disk'[i] = disk[i] /\ (i \in cleanup => i \in cleanup')
        BY <1>0, <2>1, <3>2
      <4> QED BY <1>g, <2>2, <2>3, <4>1 DEF KeptInv, Files
    <3> QED BY <3>1, <3>2
  <2> QED BY <1>e, <2>2, <2>3, <2>4, <2>5
<1>8. CASE Crash
  <2>1. /\ handler' = "none" /\ open' = [i \in Ids |-> none] /\ received' = {}
        /\ orphans' = {i \in Ids : disk[i] # none} /\ disk' = disk
    BY <1>8 DEF Crash
  <2>2. \A i \in Ids : KeptInv(i)'
    BY <2>1 DEF KeptInv
  <2> QED BY <1>e, <2>1, <2>2
<1>9. CASE Sweep
  <2>1. /\ orphans' = {} /\ UNCHANGED <<handler, job, open, received, cleanup>>
        /\ disk' = [i \in Ids |-> IF i \in orphans THEN none ELSE disk[i]]
    BY <1>9 DEF Sweep, daemon
  <2>2. ASSUME NEW i \in Ids, i \notin orphans
        PROVE  Good(i)'
    <3>1. disk'[i] = disk[i]
      BY <2>1, <2>2
    <3>2. OpenInv(i)' /\ ReceivedInv(i)' /\ YoungInv(i)'
      BY <2>1, <3>1, FileAlone
    <3>3. KeptInv(i)'
      BY <1>g, <1>z, <2>1, <2>2, <3>1 DEF KeptInv, Files
    <3> QED BY <3>2, <3>3
  <2>3. ASSUME NEW i \in Ids, i \in orphans
        PROVE  Good(i)'
    <3>1. disk'[i] = none
      BY <2>1, <2>3
    <3>2. open'[i] = none /\ i \notin received'
      BY <1>g, <2>1, <2>3 DEF OpenInv, ReceivedInv
    <3> QED BY <3>1, <3>2 DEF OpenInv, ReceivedInv, KeptInv, YoungInv
  <2>4. ExecInv'
    <3>1. handler = "exec" => job.id \in Ids
      BY DEF Base, DaemonTyped, Cmds
    <3> QED BY <1>g, <1>z, <2>1, <3>1 DEF ExecInv
  <2> QED BY <2>2, <2>3, <2>4 DEF FilesInv
<1>10. DaemonSide => \/ (\E e \in Events : Dispatch(e)) \/ WriteDown \/ FlushEvent \/ FlushDone
                     \/ WriterTakes \/ WriterFails \/ ReadLine \/ Execute \/ SendResult
                     \/ EndHandler \/ Shutdown \/ DeleteFile \/ Release \/ Crash \/ Sweep
  BY DEF DaemonSide
<1> QED BY <1>1, <1>2, <1>3, <1>4, <1>5, <1>6, <1>7, <1>8, <1>9, <1>10, Sides

\* At first nothing is written and no file is there.
LEMMA FilesInit ==
    ASSUME Init
    PROVE  WireInv /\ FilesInv
<1>1. Lines = 0
  BY DEF Init, Lines
<1>2. WireInv
  BY <1>1 DEF WireInv
<1>3. FilesInv
  BY DEF Init, FilesInv, ExecInv, OpenInv, ReceivedInv, KeptInv, YoungInv
<1> QED BY <1>2, <1>3

\* The order of the lines and the state of the files, in every state.
LEMMA FilesAlways == Spec => [](Base /\ WireInv /\ FilesInv)
<1>1. Init => Base /\ WireInv /\ FilesInv
  BY BaseInit, FilesInit
<1>2. Base /\ WireInv /\ FilesInv /\ [Next]_vars => Base' /\ WireInv' /\ FilesInv'
  BY BaseStep, WireInvStep, FilesStep
<1> QED BY <1>1, <1>2, PTL DEF Spec

(***************************************************************************)
(* The file a send_file command is executed with is the whole file of that *)
(* call, for any number of calls, connections and crashes.                 *)
(***************************************************************************)
THEOREM ExecutesWholeFile == Spec => []FileIsWhole
<1>1. FilesInv => FileIsWhole
  BY DEF FilesInv, ExecInv, FileIsWhole
<1> QED BY <1>1, FilesAlways, PTL

(***************************************************************************)
(* No file in the outbox is forgotten: a transfer, a command, the end of a *)
(* connection or the sweep will delete it.                                 *)
(***************************************************************************)
THEOREM NoFileForgotten == Spec => []SpoolAccounted
<1>1. FilesInv => SpoolAccounted
  BY DEF FilesInv, KeptInv, SpoolAccounted
<1> QED BY <1>1, FilesAlways, PTL

----------------------------------------------------------------------------
(* Where an event and its attachment are on the way to the model. *)

(***************************************************************************)
(* What may come after what: of one event the header, the data and the     *)
(* event line, in this order, once on a connection; and of the inbound     *)
(* messages of one event the one of this connection last.                  *)
(***************************************************************************)
Follows(x, y) ==
    IF x.k = "inbound" THEN x.old \/ y.ev # x.ev
    ELSE x.k # "result" /\ y.k # "result" /\ x.ev = y.ev =>
            /\ x.k # "event" /\ y.k # "in_file"
            /\ x.k = "in_data" => y.k = "event"

Ordered(s) == \A i, j \in 1..Len(s) : i < j => Follows(s[i], s[j])

OrderInv ==
    /\ Ordered(evs)
    /\ pEnd => /\ Ordered(down) /\ Ordered(dout) /\ Ordered(queue)
               /\ \A x, y \in DownLines : In(down, x) /\ In(dout, y) => Follows(x, y)

Header(e) == piece("in_file", e)
Data(e) == piece("in_data", e)

Has(l) == In(down, l) \/ In(dout, l)
Queued(e) == e \in flushing \/ In(queue, event(e))
Coming(e) == Queued(e) \/ Has(Header(e)) \/ Has(Data(e)) \/ Has(event(e)) \/ e \in receiving

Delivered(e, path) == serve = "deliver" /\ out = <<inbound(e, path)>>
Pumped(e, path) == In(evs, inbound(e, path))
AnyPumped(e) == \E m \in Inbounds : m.ev = e /\ In(evs, m)

FreshAck(e) ==
    \/ pump = ack(e, FALSE) \/ In(tx, ack(e, FALSE)) \/ In(up, ack(e, FALSE))
    \/ serve = "write" /\ In(out, ack(e, FALSE))
Settled(e) == FreshAck(e) \/ e \in acked \ stale

Past(e) == Settled(e) \/ \E path \in BOOLEAN : Delivered(e, path) \/ Pumped(e, path)

(***************************************************************************)
(* While the plugin is connected an event is in one of these places at     *)
(* most, the file of one on its way is only touched by its own lines, and  *)
(* nothing is on its way that the daemon has not seen.                     *)
(***************************************************************************)
Live(e) ==
    /\ ~(e \in flushing /\ In(queue, event(e)))
    /\ Queued(e) => /\ ~Has(Header(e)) /\ ~Has(Data(e)) /\ ~Has(event(e))
                    /\ e \notin receiving /\ e \notin paths
    /\ e \in receiving => ~Has(Header(e)) /\ e \notin paths
    /\ e \in paths => inbox[e] = 1 /\ ~Has(Header(e)) /\ ~Has(Data(e))
    /\ (Has(Header(e)) \/ e \in receiving) /\ Has(event(e)) => Has(Data(e))
    /\ Past(e) => ~Coming(e)
    /\ \A path \in BOOLEAN :
          /\ Delivered(e, path) => \A p \in BOOLEAN : ~Pumped(e, p)
          /\ Delivered(e, path) \/ Pumped(e, path) => (path => inbox[e] = 1)
    /\ Claimed /\ e \notin seen => ~Coming(e) /\ e \notin paths /\ ~Past(e)

(***************************************************************************)
(* While it is not, what its channels hold is of earlier connections.      *)
(***************************************************************************)
Away(e) ==
    /\ \A path \in BOOLEAN : ~Pumped(e, path)
    /\ pump # ack(e, FALSE) /\ ~In(tx, ack(e, FALSE))
    /\ e \notin receiving /\ e \notin paths

(***************************************************************************)
(* An event whose acknowledgement is of its last delivery is on its way to *)
(* the model no more, and its file is whole if the model was told of one.  *)
(***************************************************************************)
Held(e) == Settled(e) =>
    /\ ~AnyPumped(e)
    /\ \A path \in BOOLEAN : ~Delivered(e, path)
    /\ e \in handed => inbox[e] = 1

(***************************************************************************)
(* It is not delivered again, and Matrix does not bring it again.          *)
(***************************************************************************)
NotAgain(e) ==
    /\ e \in acked \ stale => e \notin inflight /\ e \notin backlog
    /\ e \in inflight \/ e \in backlog \/ e \in acked => e \in seen

\* The lines of an event and the messages made of it, and what tells them apart.
LEMMA EventItems ==
    ASSUME NEW e \in Events
    PROVE  /\ Header(e) \in DownLines /\ Header(e).k = "in_file" /\ Header(e).ev = e
           /\ Data(e) \in DownLines /\ Data(e).k = "in_data" /\ Data(e).ev = e
           /\ event(e) \in DownLines /\ event(e) \in Notices
           /\ event(e).k = "event" /\ event(e).ev = e
           /\ \A l \in DownLines : l.k # "result" /\ l.ev = e =>
                 l = Header(e) \/ l = Data(e) \/ l = event(e)
<1>1. Header(e) \in Pieces /\ Data(e) \in Pieces /\ event(e) \in Notices
  BY Constructors DEF Header, Data
<1>2. /\ Header(e).k = "in_file" /\ Header(e).ev = e /\ Data(e).k = "in_data" /\ Data(e).ev = e
      /\ event(e).k = "event" /\ event(e).ev = e
  BY DEF Header, Data, piece, event
<1>3. ASSUME NEW l \in DownLines, l.k # "result", l.ev = e
      PROVE  l = Header(e) \/ l = Data(e) \/ l = event(e)
  BY <1>3, DownKinds DEF Header, Data
<1> QED BY <1>1, <1>2, <1>3 DEF DownLines

\* A message of this connection is made of its event and whether it has a path.
LEMMA FreshItems ==
    /\ \A m \in Inbounds : m.ev \in Events /\ (~m.old => \E p \in BOOLEAN : m = inbound(m.ev, p))
    /\ \A e \in Events, p \in BOOLEAN :
          /\ inbound(e, p) \in Inbounds /\ inbound(e, p).k = "inbound"
          /\ inbound(e, p).ev = e /\ inbound(e, p).path = p /\ inbound(e, p).old = FALSE
    /\ \A e \in Events : /\ ack(e, FALSE) \in Acks /\ ack(e, FALSE).ev = e
                         /\ ack(e, FALSE).old = FALSE /\ ack(e, FALSE).k = "ack"
                         /\ ack(e, FALSE) \notin Calls \cup {none}
    /\ \A a \in Acks : /\ a.ev \in Events
                       /\ (~a.old => a = ack(a.ev, FALSE))
                       /\ \A e : Aged(a) # ack(e, FALSE)
<1>1. \A m \in Inbounds : m.ev \in Events /\ (~m.old => \E p \in BOOLEAN : m = inbound(m.ev, p))
  BY DEF Inbounds, inbound
<1>2. \A e \in Events, p \in BOOLEAN :
          /\ inbound(e, p) \in Inbounds /\ inbound(e, p).k = "inbound"
          /\ inbound(e, p).ev = e /\ inbound(e, p).path = p /\ inbound(e, p).old = FALSE
  BY DEF Inbounds, inbound
<1>3. \A e \in Events : /\ ack(e, FALSE) \in Acks /\ ack(e, FALSE).ev = e
                         /\ ack(e, FALSE).old = FALSE /\ ack(e, FALSE).k = "ack"
  BY DEF Acks, ack
<1>4. \A e \in Events : ack(e, FALSE) \notin Calls \cup {none}
  BY <1>3, KindsApart
<1>5. \A a \in Acks : a.ev \in Events /\ (~a.old => a = ack(a.ev, FALSE))
  BY DEF Acks, ack
<1>6. \A a \in Acks : \A e : Aged(a) # ack(e, FALSE)
  <2> SUFFICES ASSUME NEW a \in Acks, NEW e PROVE Aged(a) # ack(e, FALSE)
    OBVIOUS
  <2>1. Aged(a).old = TRUE
    BY AgedTyped
  <2>2. ack(e, FALSE).old = FALSE
    BY DEF ack
  <2> QED BY <2>1, <2>2
<1> QED BY <1>1, <1>2, <1>3, <1>4, <1>5, <1>6

\* The order of a sequence is that of its tail, and the head's with the rest.
LEMMA OrderedTail ==
    ASSUME NEW S, NEW s \in Seq(S), s # <<>>, Ordered(s)
    PROVE  Ordered(Tail(s)) /\ \A y : In(Tail(s), y) => Follows(Head(s), y)
<1>0. /\ Head(s) = s[1] /\ 1 \in 1..Len(s) /\ Len(Tail(s)) = Len(s) - 1
      /\ \A i \in 1..Len(Tail(s)) : i + 1 \in 1..Len(s) /\ Tail(s)[i] = s[i + 1]
  BY HeadAndTail
<1>1. \A i, j \in 1..Len(Tail(s)) : i < j => Follows(Tail(s)[i], Tail(s)[j])
  <2> SUFFICES ASSUME NEW i \in 1..Len(Tail(s)), NEW j \in 1..Len(Tail(s)), i < j
               PROVE  Follows(Tail(s)[i], Tail(s)[j])
    OBVIOUS
  <2>1. i + 1 < j + 1 /\ i + 1 \in 1..Len(s) /\ j + 1 \in 1..Len(s)
    BY <1>0
  <2>2. Follows(s[i + 1], s[j + 1])
    BY <2>1 DEF Ordered
  <2> QED BY <1>0, <2>2
<1>2. ASSUME NEW i \in 1..Len(Tail(s))
      PROVE  Follows(Head(s), Tail(s)[i])
  <2>1. 1 < i + 1 /\ i + 1 \in 1..Len(s)
    BY <1>0
  <2>2. Follows(s[1], s[i + 1])
    BY <1>0, <2>1 DEF Ordered
  <2> QED BY <1>0, <2>2
<1> QED BY <1>1, <1>2 DEF Ordered, In

\* An item that follows all of an ordered sequence may be appended.
LEMMA OrderedAppend ==
    ASSUME NEW S, NEW s \in Seq(S), NEW y \in S, Ordered(s),
           \A x \in S : In(s, x) => Follows(x, y)
    PROVE  Ordered(Append(s, y))
<1>1. /\ Len(s) \in Nat /\ Len(Append(s, y)) = Len(s) + 1
      /\ \A i \in 1..Len(s) : Append(s, y)[i] = s[i]
      /\ Append(s, y)[Len(s) + 1] = y
  BY LenProperties, AppendProperties
<1>2. \A i \in 1..(Len(s) + 1) : i \in 1..Len(s) \/ i = Len(s) + 1
  BY <1>1
<1>e. \A i \in 1..Len(s) : s[i] \in S /\ In(s, s[i])
  BY ElementOfSeq DEF In
<1> SUFFICES ASSUME NEW i \in 1..(Len(s) + 1), NEW j \in 1..(Len(s) + 1), i < j
             PROVE  Follows(Append(s, y)[i], Append(s, y)[j])
  BY <1>1 DEF Ordered
<1>3. i \in 1..Len(s)
  BY <1>1
<1>4. CASE j \in 1..Len(s)
  <2>1. Follows(s[i], s[j])
    BY <1>3, <1>4 DEF Ordered
  <2> QED BY <1>1, <1>3, <1>4, <2>1
<1>5. CASE j = Len(s) + 1
  BY <1>1, <1>3, <1>5, <1>e
<1> QED BY <1>2, <1>4, <1>5

\* No order to keep.
LEMMA OrderedShort == Ordered(<<>>) /\ \A x : Ordered(<<x>>)
BY DEF Ordered

\* What write_event writes, in which order.
LEMMA EventLinesAre ==
    ASSUME NEW e \in Events, NEW gone
    PROVE  /\ Ordered(EventLines(e, gone))
           /\ \A x : In(EventLines(e, gone), x) => x \in {Header(e), Data(e), event(e)}
           /\ In(EventLines(e, gone), event(e))
           /\ In(EventLines(e, gone), Header(e)) => In(EventLines(e, gone), Data(e))
<1>0. /\ Header(e).k = "in_file" /\ Header(e).ev = e /\ Data(e).k = "in_data" /\ Data(e).ev = e
      /\ event(e).k = "event" /\ event(e).ev = e
  BY EventItems
<1>1. CASE EventLines(e, gone) = <<event(e)>>
  <2>0. \A x : In(<<event(e)>>, x) <=> x = event(e)
    BY InShort
  <2>1. \A x : In(EventLines(e, gone), x) <=> x = event(e)
    BY <1>1, <2>0
  <2>2. Header(e) # event(e)
    BY <1>0
  <2> QED BY <1>1, <2>1, <2>2, OrderedShort
<1>2. CASE EventLines(e, gone) = <<Header(e), Data(e), event(e)>>
  <2> DEFINE s == <<Header(e), Data(e), event(e)>>
  <2>1. Len(s) = 3 /\ s[1] = Header(e) /\ s[2] = Data(e) /\ s[3] = event(e)
    OBVIOUS
  <2> HIDE DEF s
  <2>2. \A x : In(s, x) <=> x = Header(e) \/ x = Data(e) \/ x = event(e)
    <3>1. \A i \in 1..3 : i = 1 \/ i = 2 \/ i = 3
      OBVIOUS
    <3> QED BY <2>1, <3>1 DEF In
  <2>3. ASSUME NEW i \in 1..3, NEW j \in 1..3, i < j
        PROVE  Follows(s[i], s[j])
    <3>1. (i = 1 /\ j \in {2, 3}) \/ (i = 2 /\ j = 3)
      BY <2>3
    <3> QED BY <1>0, <2>1, <3>1 DEF Follows
  <2>4. Ordered(s)
    BY <2>1, <2>3 DEF Ordered
  <2>5. EventLines(e, gone) = s
    BY <1>2 DEF s
  <2> QED BY <2>2, <2>4, <2>5
<1> QED BY <1>1, <1>2 DEF EventLines, Header, Data

\* An acknowledgement of this connection, taken for nothing else.
LEMMA FreshAckIs ==
    ASSUME NEW e \in Events
    PROVE  /\ ack(e, FALSE) \in Acks /\ ack(e, FALSE) \in Calls \cup Acks
           /\ ack(e, FALSE).ev = e /\ ack(e, FALSE).old = FALSE /\ ack(e, FALSE).k = "ack"
           /\ ack(e, FALSE) \notin Calls /\ ack(e, FALSE) # none
<1>1. ack(e, FALSE) \in Acks /\ ack(e, FALSE).ev = e /\ ack(e, FALSE).old = FALSE
      /\ ack(e, FALSE).k = "ack" /\ ack(e, FALSE) \notin Calls \cup {none}
  BY FreshItems
<1> QED BY <1>1

\* What the daemon knows of an event, in every step.
LEMMA NotAgainStep ==
    ASSUME Base, [Next]_vars, NEW e \in Events, NotAgain(e)
    PROVE  NotAgain(e)'
<1>1. CASE PluginSide \/ UNCHANGED vars
  <2>1. UNCHANGED waiting
    BY <1>1, Sides DEF vars, daemon
  <2> QED BY <2>1 DEF NotAgain, waiting
<1>2. CASE Connect
  BY <1>2 DEF Connect, NotAgain
<1>3. CASE \E f \in Events : Dispatch(f)
  <2>1. PICK f \in Events : Dispatch(f)
    BY <1>3
  <2>2. /\ f \notin seen /\ seen' = seen \cup {f} /\ UNCHANGED <<acked, stale>>
        /\ inflight' \in {inflight, inflight \cup {f}} /\ backlog' \in {backlog, backlog \cup {f}}
    BY <2>1 DEF Dispatch
  <2> QED BY <2>2 DEF NotAgain
<1>4. CASE ReadLine
  <2>0. backlog = {} /\ UNCHANGED <<backlog, seen>>
    BY <1>4 DEF ReadLine, Base, SocketEnds, Claimed
  <2>1. CASE UNCHANGED <<inflight, acked, stale>>
    BY <2>0, <2>1 DEF NotAgain
  <2>2. CASE Head(up).k = "ack"
    <3>1. PICK f : f = Head(up).ev
      OBVIOUS
    <3>2. /\ inflight' = inflight \ {f} /\ acked' = acked \cup ({f} \cap inflight)
          /\ stale' \in {stale \cup ({f} \cap inflight), stale \ {f}}
      BY <1>4, <2>2, <3>1 DEF ReadLine
    <3> QED BY <2>0, <3>2 DEF NotAgain
  <2> QED BY <1>4, <2>1, <2>2 DEF ReadLine
<1>5. CASE Release
  BY <1>5 DEF Release, NotAgain
<1>6. CASE Crash
  BY <1>6 DEF Crash, NotAgain
<1>7. CASE \/ WriteDown \/ FlushEvent \/ FlushDone \/ WriterTakes \/ WriterFails
           \/ Execute \/ SendResult \/ EndHandler \/ Shutdown \/ DeleteFile \/ Sweep
  <2>1. UNCHANGED waiting
    BY <1>7 DEF WriteDown, FlushEvent, FlushDone, WriterTakes, WriterFails, Execute, SendResult,
         EndHandler, Shutdown, HandlerEnds, DeleteFile, Sweep, daemon
  <2> QED BY <2>1 DEF NotAgain, waiting
<1> QED BY <1>1, <1>2, <1>3, <1>4, <1>5, <1>6, <1>7, Sides DEF DaemonSide

\* What ageing leaves of the channels: nothing of this connection.
LEMMA AgedChannels ==
    ASSUME Base
    PROVE  /\ \A e \in Events : ~In([i \in 1..Len(tx) |-> Aged(tx[i])], ack(e, FALSE))
           /\ \A e \in Events : Aged(pump) # ack(e, FALSE)
           /\ \A e \in Events, p \in BOOLEAN :
                 ~In([i \in 1..Len(evs) |-> Aged(evs[i])], inbound(e, p))
           /\ Ordered([i \in 1..Len(evs) |-> Aged(evs[i])])
           /\ \A m \in Inbounds : In([i \in 1..Len(evs) |-> Aged(evs[i])], m) =>
                 \E n \in Inbounds : n.ev = m.ev /\ In(evs, n)
<1>0. /\ tx \in Seq(Calls \cup Acks) /\ evs \in Seq(Inbounds) /\ pump \in Acks \cup {none}
      /\ Len(tx) \in Nat /\ Len(evs) \in Nat
      /\ \A i \in 1..Len(tx) : tx[i] \in Calls \cup Acks
      /\ \A i \in 1..Len(evs) : evs[i] \in Inbounds
  BY LenProperties, ElementOfSeq DEF Base, PluginTyped
<1>1. \A x \in Calls \cup Acks \cup {none} : \A e \in Events : Aged(x) # ack(e, FALSE)
  <2>1. ASSUME NEW x \in Calls \cup {none}, NEW e \in Events PROVE Aged(x) # ack(e, FALSE)
    <3>1. Aged(x) = x
      BY AgedTyped
    <3> QED BY <3>1, FreshAckIs
  <2>2. ASSUME NEW x \in Acks, NEW e \in Events PROVE Aged(x) # ack(e, FALSE)
    <3>1. Aged(x).old = TRUE
      BY AgedTyped
    <3>2. ack(e, FALSE).old = FALSE
      BY FreshAckIs
    <3> QED BY <3>1, <3>2
  <2> QED BY <2>1, <2>2
<1>2. \A e \in Events : ~In([i \in 1..Len(tx) |-> Aged(tx[i])], ack(e, FALSE))
  <2>1. ASSUME NEW e \in Events, NEW i \in 1..Len(tx)
        PROVE  Aged(tx[i]) # ack(e, FALSE)
    <3>1. tx[i] \in Calls \cup Acks
      BY <1>0
    <3> QED BY <1>1, <3>1
  <2>2. Len([i \in 1..Len(tx) |-> Aged(tx[i])]) = Len(tx)
    BY <1>0
  <2> QED BY <2>1, <2>2 DEF In
<1>3. /\ Len([i \in 1..Len(evs) |-> Aged(evs[i])]) = Len(evs)
      /\ \A i \in 1..Len(evs) : /\ [n \in 1..Len(evs) |-> Aged(evs[n])][i] = Aged(evs[i])
                                /\ Aged(evs[i]) \in Inbounds /\ Aged(evs[i]).old = TRUE
                                /\ Aged(evs[i]).ev = evs[i].ev
  BY <1>0, AgedTyped
<1>4. \A e \in Events, p \in BOOLEAN :
         ~In([i \in 1..Len(evs) |-> Aged(evs[i])], inbound(e, p))
  <2> SUFFICES ASSUME NEW e \in Events, NEW p \in BOOLEAN, NEW i \in 1..Len(evs)
               PROVE  Aged(evs[i]) # inbound(e, p)
    BY <1>3 DEF In
  <2> QED BY <1>3, FreshItems
<1>5. Ordered([i \in 1..Len(evs) |-> Aged(evs[i])])
  <2>1. \A i \in 1..Len(evs) : Aged(evs[i]).k = "inbound"
    BY <1>3 DEF Inbounds
  <2>2. \A i, j \in 1..Len(evs) : Follows(Aged(evs[i]), Aged(evs[j]))
    BY <1>3, <2>1 DEF Follows
  <2> QED BY <1>3, <2>2 DEF Ordered
<1>6. ASSUME NEW m \in Inbounds, In([i \in 1..Len(evs) |-> Aged(evs[i])], m)
      PROVE  \E n \in Inbounds : n.ev = m.ev /\ In(evs, n)
  <2>1. PICK i \in 1..Len(evs) : Aged(evs[i]) = m
    BY <1>3, <1>6 DEF In
  <2>2. evs[i] \in Inbounds /\ evs[i].ev = m.ev /\ In(evs, evs[i])
    BY <1>0, <1>3, <2>1 DEF In
  <2> QED BY <2>2
<1> QED BY <1>0, <1>1, <1>2, <1>4, <1>5, <1>6

\* Without a connection nothing of this connection comes.
LEMMA AwayStep ==
    ASSUME Base, [Next]_vars, NEW e \in Events, ~pEnd => Away(e), ~pEnd'
    PROVE  Away(e)'
<1>1. CASE pEnd
  <2>1. PluginSide /\ (EndServe \/ PluginStops)
    <3>1. PluginSide
      BY <1>1, Sides DEF Connect, vars, socket
    <3>2. EndServe \/ PluginStops
      BY <1>1, <3>1 DEF PluginSide, Caller, Submit, EnterTx, TimeOut, ConnectFails, FailFast,
         ServeTake, ServeWrite, ServeWriteFails, ServeFileFails, ServeEof,
         ServeRead, Deliver, Notify, PumpAck, PluginStops, socket
    <3> QED BY <3>1, <3>2
  <2>2. CASE EndServe
    <3>1. /\ tx' = [i \in 1..Len(tx) |-> Aged(tx[i])] /\ pump' = Aged(pump)
          /\ evs' = [i \in 1..Len(evs) |-> Aged(evs[i])] /\ receiving' = {} /\ paths' = {}
      BY <2>2 DEF EndServe, Aborted
    <3> QED BY <3>1, AgedChannels DEF Away, Pumped
  <2>3. CASE PluginStops
    <3>1. tx' = <<>> /\ evs' = <<>> /\ pump' = none /\ receiving' = {} /\ paths' = {}
      BY <2>3 DEF PluginStops
    <3> QED BY <3>1, InShort, FreshAckIs DEF Away, Pumped
  <2> QED BY <2>1, <2>2, <2>3
<1>2. CASE ~pEnd
  <2>0. /\ Away(e) /\ serve \notin Connected /\ tx \in Seq(Calls \cup Acks)
        /\ evs \in Seq(Inbounds) /\ pump \in Acks \cup {none}
    BY <1>2 DEF Base, SocketEnds, PluginTyped
  <2>1. CASE DaemonSide \/ UNCHANGED vars
    <3>1. UNCHANGED <<tx, evs, pump, receiving, paths>>
      BY <2>1, Sides DEF vars, plugin, files
    <3> QED BY <2>0, <3>1 DEF Away, Pumped
  <2>2. CASE Connect
    BY <2>2 DEF Connect
  <2>3. CASE PluginSide
    <3>1. CASE Caller
      <4>1. UNCHANGED <<evs, pump, receiving, paths>>
        BY <3>1 DEF Caller, Submit, EnterTx, TimeOut, files
      <4>2. tx' = tx \/ \E c \in Calls : tx' = Append(tx, c)
        BY <3>1 DEF Caller, Submit, EnterTx, TimeOut
      <4>3. ~In(tx', ack(e, FALSE))
        <5>1. ASSUME NEW c \in Calls, tx' = Append(tx, c)
              PROVE  ~In(tx', ack(e, FALSE))
          <6>0. c \in Calls \cup Acks
            OBVIOUS
          <6>1. \A x : In(Append(tx, c), x) <=> In(tx, x) \/ x = c
            BY <2>0, <6>0, InAppend
          <6>2. ack(e, FALSE) # c
            BY FreshAckIs
          <6> QED BY <2>0, <5>1, <6>1, <6>2 DEF Away
        <5> QED BY <2>0, <4>2, <5>1 DEF Away
      <4> QED BY <2>0, <4>1, <4>3 DEF Away, Pumped
    <3>2. CASE ConnectFails \/ FailFast
      <4>1. UNCHANGED <<evs, pump, receiving, paths>>
        BY <3>2 DEF ConnectFails, FailFast, files
      <4>2. tx' = tx \/ (tx # <<>> /\ tx' = Tail(tx))
        BY <3>2 DEF ConnectFails, FailFast
      <4>3. ~In(tx', ack(e, FALSE))
        BY <2>0, <4>2, InTail DEF Away
      <4> QED BY <2>0, <4>1, <4>3 DEF Away, Pumped
    <3>3. CASE Notify
      <4>1. UNCHANGED <<receiving, paths>> /\ evs # <<>> /\ evs' = Tail(evs) /\ pump = none
        BY <3>3 DEF Notify
      <4>2. PICK a : a = ack(Head(evs).ev, Head(evs).old)
        OBVIOUS
      <4>3. \/ tx' = Append(tx, a) /\ pump' = pump
            \/ tx' = tx /\ pump' = a
        BY <3>3, <4>2 DEF Notify
      <4>4. Head(evs) \in Inbounds /\ In(evs, Head(evs)) /\ \A x : In(Tail(evs), x) => In(evs, x)
        BY <2>0, <4>1, HeadAndTail, InTail
      <4>5. a \in Acks
        BY <4>2, <4>4 DEF Inbounds, Acks, ack
      <4>6. a # ack(e, FALSE)
        <5>1. CASE Head(evs).ev = e
          <6>1. Head(evs).old
            <7>1. ~Head(evs).old => \E p \in BOOLEAN : Head(evs) = inbound(e, p)
              BY <4>4, <5>1, FreshItems
            <7> QED BY <2>0, <4>4, <7>1 DEF Away, Pumped
          <6>2. a.old
            BY <4>2, <6>1 DEF ack
          <6> QED BY <6>2, FreshAckIs
        <5>2. CASE Head(evs).ev # e
          <6>1. a.ev # e
            BY <4>2, <5>2 DEF ack
          <6> QED BY <6>1, FreshAckIs
        <5> QED BY <5>1, <5>2
      <4>7. ~In(tx', ack(e, FALSE)) /\ pump' # ack(e, FALSE)
        <5>0. a \in Calls \cup Acks
          BY <4>5
        <5>1. \A x : In(Append(tx, a), x) <=> In(tx, x) \/ x = a
          BY <2>0, <5>0, InAppend
        <5> QED BY <2>0, <4>3, <4>6, <5>1 DEF Away
      <4> QED BY <2>0, <4>1, <4>4, <4>7 DEF Away, Pumped
    <3>4. CASE PumpAck
      <4>1. UNCHANGED <<evs, receiving, paths>> /\ tx' = Append(tx, pump) /\ pump' = none
            /\ pump # none
        BY <3>4 DEF PumpAck, files
      <4>0. pump \in Calls \cup Acks
        BY <2>0, <4>1
      <4>2. \A x : In(Append(tx, pump), x) <=> In(tx, x) \/ x = pump
        BY <2>0, <4>0, InAppend
      <4> QED BY <2>0, <4>1, <4>2, FreshAckIs DEF Away, Pumped
    <3>5. CASE PluginStops
      <4>1. tx' = <<>> /\ evs' = <<>> /\ pump' = none /\ receiving' = {} /\ paths' = {}
        BY <3>5 DEF PluginStops
      <4> QED BY <4>1, InShort, FreshAckIs DEF Away, Pumped
    <3>6. ~(\/ ServeTake \/ ServeWrite \/ ServeWriteFails \/ ServeFileFails \/ ServeEof
            \/ ServeRead \/ Deliver)
      BY <2>0 DEF Connected, ServeTake, ServeWrite, ServeWriteFails, ServeFileFails, ServeEof,
         ServeRead, Deliver
    <3> QED BY <2>3, <3>1, <3>2, <3>3, <3>4, <3>5, <3>6 DEF PluginSide
  <2> QED BY <2>1, <2>2, <2>3, Sides
<1> QED BY <1>1, <1>2

(***************************************************************************)
(* The event line of an attachment that is on its way is behind the data.  *)
(***************************************************************************)
Backed(e) == (Has(Header(e)) \/ e \in receiving) /\ Has(event(e)) => Has(Data(e))

(***************************************************************************)
(* A step leaves an event where it was, or takes it from there, or takes   *)
(* it from the connection task to the pump.                                *)
(***************************************************************************)
StillDown(e) ==
    /\ e \in flushing' => e \in flushing
    /\ In(queue', event(e)) => In(queue, event(e))
    /\ Has(Header(e))' => Has(Header(e))
    /\ Has(Data(e))' => Has(Data(e))
    /\ Has(event(e))' => Has(event(e))

StillPlugin(e) ==
    /\ e \in receiving' => e \in receiving
    /\ e \in paths' => e \in paths
    /\ inbox'[e] = inbox[e]

StillPump(e) ==
    /\ \A p \in BOOLEAN : Delivered(e, p)' => Delivered(e, p)
    /\ \A p \in BOOLEAN : Pumped(e, p)' => Pumped(e, p) \/ (Delivered(e, p) /\ serve' # "deliver")
    /\ AnyPumped(e)' => AnyPumped(e) \/ \E p \in BOOLEAN : Delivered(e, p)

StillKnown(e) == Claimed' /\ e \notin seen' => Claimed /\ e \notin seen

\* Then what holds of it holds still.
LEMMA StillLive ==
    ASSUME NEW e \in Events, Live(e), StillDown(e), StillPlugin(e), StillPump(e), StillKnown(e),
           Settled(e)' => Past(e), Backed(e)'
    PROVE  Live(e)'
<1>1. Queued(e)' => Queued(e)
  BY DEF StillDown, Queued
<1>2. Coming(e)' => Coming(e)
  BY <1>1 DEF StillDown, StillPlugin, Coming
<1>3. Past(e)' => Past(e)
  BY DEF StillPump, Past
<1>4. Past(e) => ~Coming(e)
  BY DEF Live
<1>5. ~(e \in flushing' /\ In(queue', event(e)))
  BY DEF StillDown, Live
<1>6. Queued(e)' => /\ ~Has(Header(e))' /\ ~Has(Data(e))' /\ ~Has(event(e))'
                    /\ e \notin receiving' /\ e \notin paths'
  BY <1>1 DEF StillDown, StillPlugin, Live
<1>7. e \in receiving' => ~Has(Header(e))' /\ e \notin paths'
  BY DEF StillDown, StillPlugin, Live
<1>8. e \in paths' => inbox'[e] = 1 /\ ~Has(Header(e))' /\ ~Has(Data(e))'
  BY DEF StillDown, StillPlugin, Live
<1>9. ASSUME NEW path \in BOOLEAN
      PROVE  /\ Delivered(e, path)' => \A p \in BOOLEAN : ~Pumped(e, p)'
             /\ Delivered(e, path)' \/ Pumped(e, path)' => (path => inbox'[e] = 1)
  <2>1. Delivered(e, path)' => serve' = "deliver"
    BY DEF Delivered
  <2>2. Delivered(e, path)' => \A p \in BOOLEAN : ~Pumped(e, p)'
    BY <2>1 DEF StillPump, Live
  <2>3. Delivered(e, path)' \/ Pumped(e, path)' => Delivered(e, path) \/ Pumped(e, path)
    BY DEF StillPump
  <2> QED BY <2>2, <2>3 DEF StillPlugin, Live
<1>10. Claimed' /\ e \notin seen' => ~Coming(e)' /\ e \notin paths' /\ ~Past(e)'
  BY <1>2, <1>3 DEF StillKnown, StillPlugin, Live
<1>11. Past(e)' => ~Coming(e)'
  BY <1>2, <1>3, <1>4
<1> QED BY <1>5, <1>6, <1>7, <1>8, <1>9, <1>10, <1>11 DEF Live, Backed

\* The same of its acknowledgement.
LEMMA StillHeld ==
    ASSUME NEW e \in Events, Held(e), StillPlugin(e), StillPump(e), Settled(e)' => Settled(e),
           e \in handed' => e \in handed
    PROVE  Held(e)'
<1> SUFFICES ASSUME Settled(e)
             PROVE  /\ ~AnyPumped(e)' /\ \A path \in BOOLEAN : ~Delivered(e, path)'
                    /\ e \in handed' => inbox'[e] = 1
  BY DEF Held
<1>1. ~AnyPumped(e) /\ (\A path \in BOOLEAN : ~Delivered(e, path)) /\ (e \in handed => inbox[e] = 1)
  BY DEF Held
<1> QED BY <1>1 DEF StillPlugin, StillPump

Fresh(e) == pump = none /\ evs # <<>> /\ \E p \in BOOLEAN : Head(evs) = inbound(e, p)

\* Only the pump's own step starts a new acknowledgement.
LEMMA SettledStep ==
    ASSUME Base, [Next]_vars, NEW e \in Events, Settled(e)', ~(Notify /\ Fresh(e))
    PROVE  Settled(e)
<1> DEFINE a == ack(e, FALSE)
<1>0. /\ tx \in Seq(Calls \cup Acks) /\ evs \in Seq(Inbounds) /\ pump \in Acks \cup {none}
      /\ up \in Seq(UpLines)
  BY DEF Base, PluginTyped, DaemonTyped
<1>a. /\ a \in Acks /\ a \in Calls \cup Acks /\ a \notin Calls /\ a # none
      /\ a.ev = e /\ a.old = FALSE /\ a.k = "ack"
  BY FreshAckIs
<1>b. Base'
  BY BaseStep
<1>t. /\ \A x : ~In(<<>>, x)
      /\ tx # <<>> => \A x : In(tx, x) <=> x = Head(tx) \/ In(Tail(tx), x)
      /\ up # <<>> => \A x : In(up, x) <=> x = Head(up) \/ In(Tail(up), x)
  BY <1>0, InTail, InShort
<1>s. \/ pump' = a \/ In(tx', a) \/ In(up', a)
      \/ serve' = "write" /\ In(out', a)
      \/ e \in acked' \ stale'
  BY DEF Settled, FreshAck
<1>g. ASSUME pump = a \/ In(tx, a) \/ In(up, a) \/ (serve = "write" /\ In(out, a)) \/ e \in acked \ stale
      PROVE  Settled(e)
  BY <1>g DEF Settled, FreshAck
<1>o. serve' = "write" /\ In(out', a) => out' = <<a>> /\ cur' = none
  <2>1. ASSUME Base', serve' = "write", In(out', a) PROVE out' = <<a>> /\ cur' = none
    <3>1. CASE cur' = none
      <4>1. PICK b \in Acks : out' = <<b>>
        BY <2>1, <3>1 DEF Base, Writing
      <4>2. In(<<b>>, a)
        BY <2>1, <4>1
      <4>3. a = b
        BY <4>2, InShort
      <4> QED BY <3>1, <4>1, <4>3
    <3>2. CASE cur' # none
      <4>1. /\ out' \in Seq(UpLines) /\ out'[Len(out')] = cmd(nextId' - 1, cur')
            /\ \A i \in 1..(Len(out') - 1) : out'[i] \in FileParts
        BY <2>1, <3>2 DEF Base, Writing, UpLines, FileParts, Acks, Cmds, FileLines, Chunks, Ends, Ids, Events
      <4>2. PICK i \in 1..Len(out') : out'[i] = a
        BY <2>1 DEF In
      <4>3. i = Len(out') \/ i \in 1..(Len(out') - 1)
        BY <4>1, LenProperties
      <4>4. out'[i].k # "ack"
        <5>1. CASE i = Len(out')
          BY <4>1, <5>1 DEF cmd
        <5>2. CASE i \in 1..(Len(out') - 1)
          <6>1. out'[i] \in FileParts
            BY <4>1, <5>2
          <6> QED BY <6>1 DEF FileParts, FileLines, Chunks, Ends
        <5> QED BY <4>3, <5>1, <5>2
      <4> QED BY <4>2, <4>4, <1>a
    <3> QED BY <3>1, <3>2
  <2> QED BY <1>b, <2>1
<1> HIDE DEF a
<1>1. CASE DaemonSide \/ UNCHANGED vars
  <2>0. UNCHANGED <<pump, tx, serve, out>>
    BY <1>1, Sides DEF vars, plugin
  <2>1. CASE ReadLine
    <3>0. up # <<>> /\ up' = Tail(up)
      BY <2>1 DEF ReadLine
    <3>1. CASE UNCHANGED <<acked, stale>>
      BY <1>s, <1>g, <1>t, <2>0, <3>0, <3>1
    <3>2. CASE Head(up).k = "ack"
      <4>1. PICK l : l = Head(up)
        OBVIOUS
      <4>2. acked' = acked \cup ({l.ev} \cap inflight)
            /\ stale' = IF l.old THEN stale \cup ({l.ev} \cap inflight) ELSE stale \ {l.ev}
        BY <2>1, <3>2, <4>1 DEF ReadLine
      <4>3. l \in Acks
        <5>1. l \in UpLines
          BY <1>0, <3>0, <4>1, HeadAndTail
        <5> QED BY <3>2, <4>1, <5>1, UpKinds
      <4>4. ~l.old /\ l.ev = e => l = a
        <5>1. ~l.old => l = ack(l.ev, FALSE)
          BY <4>3, FreshItems
        <5> QED BY <5>1 DEF a
      <4>5. e \in acked' \ stale' => e \in acked \ stale \/ l = a
        BY <4>2, <4>4
      <4> QED BY <1>s, <1>g, <1>t, <2>0, <3>0, <4>1, <4>5
    <3> QED BY <2>1, <3>1, <3>2 DEF ReadLine
  <2>2. CASE ~ReadLine
    <3>1. UNCHANGED <<acked, stale>> /\ (up' = up \/ up' = <<>>)
      BY <1>1, <2>2 DEF DaemonSide, vars, Dispatch, WriteDown, FlushEvent, FlushDone, WriterTakes,
         WriterFails, Execute, SendResult, EndHandler, Shutdown, HandlerEnds, DeleteFile,
         Release, Crash, Sweep, socket, daemon, waiting
    <3> QED BY <1>s, <1>g, <1>t, <2>0, <3>1
  <2> QED BY <2>1, <2>2
<1>2. CASE Connect
  <2>1. UNCHANGED <<pump, tx, acked, stale>> /\ up' = <<>> /\ serve' = "select"
    BY <1>2 DEF Connect
  <2> QED BY <1>s, <1>g, <1>t, <2>1
<1>3. CASE PluginSide
  <2>0. UNCHANGED <<acked, stale>>
    BY <1>3, Sides DEF daemon, waiting
  <2>1. CASE Caller
    <3>1. UNCHANGED <<pump, up, serve, out>> /\ (tx' = tx \/ \E c \in Calls : tx' = Append(tx, c))
      BY <2>1 DEF Caller, Submit, EnterTx, TimeOut, socket
    <3>2. ASSUME NEW c \in Calls, tx' = Append(tx, c) PROVE In(tx', a) => In(tx, a)
      <4>0. c \in Calls \cup Acks
        OBVIOUS
      <4>1. \A x : In(Append(tx, c), x) <=> In(tx, x) \/ x = c
        BY <1>0, <4>0, InAppend
      <4> QED BY <1>a, <3>2, <4>1
    <3>3. In(tx', a) => In(tx, a)
      BY <3>1, <3>2
    <3> QED BY <1>s, <1>g, <2>0, <3>1, <3>3
  <2>2. CASE ConnectFails \/ FailFast
    <3>1. /\ UNCHANGED <<pump, up, out>> /\ (tx' = tx \/ (tx # <<>> /\ tx' = Tail(tx)))
          /\ serve' = "down"
      BY <2>2 DEF ConnectFails, FailFast, socket
    <3> QED BY <1>s, <1>g, <1>t, <2>0, <3>1
  <2>3. CASE ServeTake
    <3>1. UNCHANGED <<pump, up>> /\ tx # <<>> /\ tx' = Tail(tx) /\ serve = "select"
      BY <2>3 DEF ServeTake, socket
    <3>2. serve' = "write" /\ cur' = none => out' = <<Head(tx)>>
      <4>1. Head(tx) \in Calls => Head(tx) # none
        BY KindsApart
      <4> QED BY <2>3, <4>1 DEF ServeTake
    <3>3. <<Head(tx)>> = <<a>> => Head(tx) = a
      OBVIOUS
    <3> QED BY <1>s, <1>g, <1>t, <1>o, <2>0, <3>1, <3>2, <3>3
  <2>4. CASE ServeWrite
    <3>1. /\ UNCHANGED <<pump, tx>> /\ serve = "write"
          /\ up' = Append(up, Head(out)) /\ out' = Tail(out)
      BY <2>4 DEF ServeWrite
    <3>2. out \in Seq(UpLines) /\ out # <<>>
      <4>1. CASE cur = none
        <5>1. PICK b \in Acks : out = <<b>>
          BY <3>1, <4>1 DEF Base, Writing
        <5>2. b \in UpLines
          BY DEF UpLines
        <5> QED BY <5>1, <5>2
      <4>2. CASE cur # none
        BY <3>1, <4>2 DEF Base, Writing
      <4> QED BY <4>1, <4>2
    <3>3. Head(out) \in UpLines /\ \A x : In(out, x) <=> x = Head(out) \/ In(Tail(out), x)
      BY <3>2, HeadAndTail, InTail
    <3>4. \A x : In(Append(up, Head(out)), x) <=> In(up, x) \/ x = Head(out)
      BY <1>0, <3>3, InAppend
    <3> QED BY <1>s, <1>g, <2>0, <3>1, <3>3, <3>4
  <2>5. CASE EndServe
    <3>1. /\ tx' = [i \in 1..Len(tx) |-> Aged(tx[i])] /\ pump' = Aged(pump) /\ serve' = "down"
      BY <2>5 DEF EndServe, Aborted
    <3>2. ~In(tx', a) /\ pump' # a
      BY <3>1, AgedChannels DEF a
    <3>3. up' = up
      BY <1>3, <2>5 DEF PluginSide, Caller, Submit, EnterTx, TimeOut, ConnectFails, FailFast,
         ServeTake, ServeWrite, ServeWriteFails, ServeFileFails, ServeEof, EndServe, Aborted,
         ServeRead, Deliver, Notify, PumpAck, PluginStops, socket
    <3> QED BY <1>s, <1>g, <2>0, <3>1, <3>2, <3>3
  <2>6. CASE ServeRead \/ Deliver
    <3>1. UNCHANGED <<pump, tx, up>> /\ serve' # "write"
      BY <2>6 DEF ServeRead, Deliver, socket
    <3> QED BY <1>s, <1>g, <2>0, <3>1
  <2>7. CASE Notify
    <3>1. UNCHANGED <<up, serve, out>> /\ pump = none /\ evs # <<>>
      BY <2>7 DEF Notify, socket
    <3>2. PICK b : b = ack(Head(evs).ev, Head(evs).old)
      OBVIOUS
    <3>3. \/ tx' = Append(tx, b) /\ pump' = pump
          \/ tx' = tx /\ pump' = b
      BY <2>7, <3>2 DEF Notify
    <3>4. Head(evs) \in Inbounds
      BY <1>0, <3>1, HeadAndTail
    <3>5. b \in Acks /\ b.ev = Head(evs).ev /\ b.old = Head(evs).old
      BY <3>2, <3>4 DEF Inbounds, Acks, ack
    <3>6. b # a
      <4>1. ASSUME b = a PROVE Fresh(e)
        <5>1. Head(evs).ev = e /\ ~Head(evs).old
          BY <1>a, <3>5, <4>1
        <5>2. \E p \in BOOLEAN : Head(evs) = inbound(Head(evs).ev, p)
          BY <3>4, <5>1, FreshItems
        <5> QED BY <3>1, <5>1, <5>2 DEF Fresh
      <4> QED BY <2>7, <4>1
    <3>7. \A x : In(Append(tx, b), x) <=> In(tx, x) \/ x = b
      <4>1. b \in Calls \cup Acks
        BY <3>5
      <4> QED BY <1>0, <4>1, InAppend
    <3> QED BY <1>s, <1>g, <2>0, <3>1, <3>3, <3>6, <3>7
  <2>8. CASE PumpAck
    <3>1. UNCHANGED <<up, serve, out>> /\ pump # none /\ tx' = Append(tx, pump) /\ pump' = none
      BY <2>8 DEF PumpAck, socket
    <3>2. pump \in Calls \cup Acks
      BY <1>0, <3>1
    <3>3. \A x : In(Append(tx, pump), x) <=> In(tx, x) \/ x = pump
      BY <1>0, <3>2, InAppend
    <3> QED BY <1>s, <1>g, <1>a, <2>0, <3>1, <3>3
  <2>9. CASE PluginStops
    <3>1. up' = up /\ tx' = <<>> /\ pump' = none /\ serve' = "start"
      BY <2>9 DEF PluginStops
    <3> QED BY <1>s, <1>g, <1>a, <1>t, <2>0, <3>1
  <2> QED BY <1>3, <2>1, <2>2, <2>3, <2>4, <2>5, <2>6, <2>7, <2>8, <2>9
      DEF PluginSide, ServeWriteFails, ServeFileFails, ServeEof
<1> QED BY <1>1, <1>2, <1>3, Sides

\* Lines of two events, or a result and any line, come in any order.
LEMMA Apart ==
    ASSUME NEW x \in DownLines, NEW y \in DownLines,
           x.k = "result" \/ y.k = "result" \/ x.ev # y.ev
    PROVE  Follows(x, y)
<1>1. x.k # "inbound"
  BY DownKinds
<1> QED BY <1>1 DEF Follows

\* The lines of an event the daemon takes from the backlog or the queue.
LEMMA TakenFollow ==
    ASSUME Base, NEW f \in Events, NEW gone, Live(f), Queued(f), NEW x \in DownLines, In(down, x),
           NEW y \in DownLines, In(EventLines(f, gone), y)
    PROVE  Follows(x, y)
<1>1. y.ev = f
  <2>1. y \in {Header(f), Data(f), event(f)}
    BY EventLinesAre
  <2> QED BY <2>1, EventItems
<1>2. x.k = "result" \/ x.ev # f
  <2>1. Has(x)
    BY DEF Has
  <2>2. x # Header(f) /\ x # Data(f) /\ x # event(f)
    BY <2>1 DEF Live
  <2> QED BY <2>2, EventItems
<1> QED BY <1>1, <1>2, Apart

\* The order on the way to the model, in every step.
LEMMA OrderStep ==
    ASSUME Base, [Next]_vars, OrderInv, \A f \in Events : pEnd => Live(f)
    PROVE  OrderInv'
<1>0. /\ evs \in Seq(Inbounds) /\ down \in Seq(DownLines) /\ dout \in Seq(DownLines)
      /\ queue \in Seq(Notices \cup Results)
  BY DEF Base, PluginTyped, DaemonTyped
<1>e. \A S : <<>> \in Seq(S)
  OBVIOUS
<1>n. Notices \cup Results \subseteq DownLines
  BY DEF DownLines
<1>o. /\ Ordered(evs)
      /\ pEnd => /\ Ordered(down) /\ Ordered(dout) /\ Ordered(queue)
                 /\ \A x, y \in DownLines : In(down, x) /\ In(dout, y) => Follows(x, y)
  BY DEF OrderInv
<1>g. ASSUME Ordered(evs'),
             pEnd' => /\ Ordered(down') /\ Ordered(dout') /\ Ordered(queue')
                      /\ \A x, y \in DownLines : In(down', x) /\ In(dout', y) => Follows(x, y)
      PROVE  OrderInv'
  <2>1. DownLines' = DownLines
    BY DEF DownLines, Pieces, Notices, Results, Ids, Events
  <2> QED BY <1>g, <2>1 DEF OrderInv
<1>s. Ordered(<<>>) /\ \A x : ~In(<<>>, x)
  BY OrderedShort, InShort
<1>1. CASE UNCHANGED <<evs, pEnd, down, dout, queue>>
  BY <1>g, <1>o, <1>1
<1>2. CASE Connect
  <2>1. /\ UNCHANGED <<evs, dout, queue>> /\ down' = <<>> /\ handler = "none"
    BY <1>2 DEF Connect
  <2>2. dout = <<>> /\ queue = <<>>
    BY <2>1 DEF Base, SocketEnds, Claimed
  <2> QED BY <1>g, <1>o, <1>s, <2>1, <2>2
<1>3. CASE EndServe
  <2>1. evs' = [i \in 1..Len(evs) |-> Aged(evs[i])] /\ ~pEnd'
    BY <1>3 DEF EndServe, Aborted
  <2>2. Ordered(evs')
    BY <2>1, AgedChannels
  <2> QED BY <1>g, <2>1, <2>2
<1>4. CASE PluginStops
  <2>1. evs' = <<>> /\ ~pEnd'
    BY <1>4 DEF PluginStops
  <2> QED BY <1>g, <1>s, <2>1
<1>5. CASE ServeRead
  <2>1. UNCHANGED <<evs, pEnd, dout, queue>> /\ down # <<>> /\ down' = Tail(down)
    BY <1>5 DEF ServeRead, daemon
  <2>2. \A x : In(Tail(down), x) => In(down, x)
    BY <1>0, <2>1, InTail
  <2>3. pEnd => Ordered(Tail(down))
    BY <1>0, <1>o, <2>1, OrderedTail
  <2> QED BY <1>g, <1>o, <2>1, <2>2, <2>3
<1>6. CASE Deliver
  <2>1. /\ UNCHANGED <<pEnd, down, dout, queue>> /\ serve = "deliver"
        /\ evs' = Append(evs, Head(out))
    BY <1>6 DEF Deliver, daemon, socket
  <2>2. PICK m \in Inbounds : out = <<m>> /\ ~m.old
    BY <2>1 DEF Base, Writing
  <2>3. Head(out) = m
    BY <2>2
  <2>4. ASSUME NEW x \in Inbounds, In(evs, x) PROVE Follows(x, m)
    <3>0. x.k = "inbound"
      BY DEF Inbounds
    <3>1. CASE x.old
      BY <3>0, <3>1 DEF Follows
    <3>2. CASE ~x.old
      <4>1. m.ev \in Events /\ x.ev \in Events
        BY DEF Inbounds
      <4>2. PICK p \in BOOLEAN : m = inbound(m.ev, p)
        BY <2>2, FreshItems
      <4>3. PICK q \in BOOLEAN : x = inbound(x.ev, q)
        BY <3>2, FreshItems
      <4>4. Delivered(m.ev, p)
        BY <2>1, <2>2, <4>2 DEF Delivered
      <4>5. pEnd
        BY <2>1 DEF Base, SocketEnds, Connected
      <4>6. ~Pumped(m.ev, q)
        BY <4>1, <4>4, <4>5 DEF Live
      <4>7. x.ev # m.ev
        BY <2>4, <4>3, <4>6 DEF Pumped
      <4> QED BY <3>0, <4>7 DEF Follows
    <3> QED BY <3>1, <3>2
  <2>5. Ordered(Append(evs, m))
    BY <1>0, <1>o, <2>4, OrderedAppend
  <2> QED BY <1>g, <1>o, <2>1, <2>3, <2>5
<1>7. CASE Notify
  <2>1. UNCHANGED <<pEnd, down, dout, queue>> /\ evs # <<>> /\ evs' = Tail(evs)
    BY <1>7 DEF Notify, daemon, socket
  <2>2. Ordered(Tail(evs))
    BY <1>0, <1>o, <2>1, OrderedTail
  <2> QED BY <1>g, <1>o, <2>1, <2>2
<1>8. ASSUME NEW f \in Events, Dispatch(f) PROVE OrderInv'
  <2>1. /\ UNCHANGED <<evs, pEnd, down, dout>> /\ f \notin seen
        /\ queue' = queue \/ (Claimed /\ queue' = Append(queue, event(f)))
    BY <1>8 DEF Dispatch, plugin, socket
  <2>2. ASSUME pEnd, Claimed PROVE Ordered(Append(queue, event(f)))
    <3>1. ~In(queue, event(f))
      BY <2>1, <2>2 DEF Live, Coming, Queued
    <3>2. event(f) \in Notices \cup Results /\ event(f) \in DownLines /\ event(f).ev = f
      BY EventItems
    <3>3. ASSUME NEW x \in Notices \cup Results, In(queue, x) PROVE Follows(x, event(f))
      <4>1. x \in DownLines /\ (x.k = "result" \/ x = event(x.ev))
        <5>1. x \in DownLines
          BY <1>n
        <5>2. x.k = "result" \/ x.k = "event"
          BY DEF Notices, Results
        <5> QED BY <5>1, <5>2, DownKinds
      <4>2. x.k = "result" \/ x.ev # f
        BY <3>1, <3>3, <4>1
      <4> QED BY <3>2, <4>1, <4>2, Apart
    <3> QED BY <1>0, <1>o, <2>2, <3>2, <3>3, OrderedAppend
  <2>3. pEnd => Ordered(queue')
    BY <1>o, <2>1, <2>2
  <2> QED BY <1>g, <1>o, <2>1, <2>3
<1>9. CASE WriteDown
  <2>1. /\ UNCHANGED <<evs, pEnd, queue>> /\ dout # <<>> /\ pEnd
        /\ down' = Append(down, Head(dout)) /\ dout' = Tail(dout)
    BY <1>9 DEF WriteDown, plugin
  <2>2. PICK h : h = Head(dout)
    OBVIOUS
  <2>3. h \in DownLines /\ In(dout, h)
        /\ \A y : In(Tail(dout), y) => In(dout, y)
    BY <1>0, <2>1, <2>2, HeadAndTail, InTail
  <2>4. Ordered(Tail(dout)) /\ \A y : In(Tail(dout), y) => Follows(h, y)
    BY <1>0, <1>o, <2>1, <2>2, OrderedTail
  <2>5. \A x \in DownLines : In(down, x) => Follows(x, h)
    BY <1>o, <2>1, <2>3
  <2>6. Ordered(Append(down, h))
    BY <1>0, <1>o, <2>1, <2>3, <2>5, OrderedAppend
  <2>7. \A x : In(Append(down, h), x) <=> In(down, x) \/ x = h
    BY <1>0, <2>3, InAppend
  <2>8. \A x, y \in DownLines : In(Append(down, h), x) /\ In(Tail(dout), y) => Follows(x, y)
    BY <1>o, <2>1, <2>3, <2>4, <2>7
  <2> QED BY <1>g, <1>o, <2>1, <2>2, <2>4, <2>6, <2>8
<1>10. CASE FlushEvent
  <2>1. PICK f \in flushing, gone \in BOOLEAN : dout' = EventLines(f, gone)
    BY <1>10 DEF FlushEvent
  <2>2. UNCHANGED <<evs, pEnd, queue, down>>
    BY <1>10 DEF FlushEvent, plugin, socket
  <2>3. f \in Events /\ Queued(f)
    BY <2>1 DEF Base, DaemonTyped, Queued
  <2>4. Ordered(EventLines(f, gone))
    BY <2>3, EventLinesAre
  <2>5. ASSUME pEnd, NEW x \in DownLines, NEW y \in DownLines, In(down, x), In(dout', y)
        PROVE  Follows(x, y)
    BY <2>1, <2>3, <2>5, TakenFollow
  <2> QED BY <1>g, <1>o, <2>1, <2>2, <2>4, <2>5
<1>11. CASE WriterTakes
  <2>0. /\ UNCHANGED <<evs, pEnd, down>> /\ queue # <<>> /\ queue' = Tail(queue)
    BY <1>11 DEF WriterTakes, plugin, socket
  <2>1. PICK h : h = Head(queue)
    OBVIOUS
  <2>2. h \in Notices \cup Results /\ h \in DownLines /\ In(queue, h)
    BY <1>0, <1>n, <2>0, <2>1, HeadAndTail, InTail
  <2>3. pEnd => Ordered(Tail(queue))
    BY <1>0, <1>o, <2>0, OrderedTail
  <2>4. CASE h.k = "event"
    <3>1. PICK gone \in BOOLEAN : dout' = EventLines(h.ev, gone)
      BY <1>11, <2>1, <2>4 DEF WriterTakes
    <3>2. h.ev \in Events /\ Queued(h.ev)
      BY <2>2, <2>4, DownKinds DEF Queued
    <3>3. Ordered(EventLines(h.ev, gone))
      BY <3>2, EventLinesAre
    <3>4. ASSUME pEnd, NEW x \in DownLines, NEW y \in DownLines, In(down, x), In(dout', y)
          PROVE  Follows(x, y)
      BY <3>1, <3>2, <3>4, TakenFollow
    <3> QED BY <1>g, <1>o, <2>0, <2>3, <3>1, <3>3, <3>4
  <2>5. CASE h.k # "event"
    <3>1. dout' = <<h>>
      BY <1>11, <2>1, <2>5 DEF WriterTakes
    <3>2. h.k = "result"
      BY <2>2, <2>5 DEF Notices, Results
    <3>3. \A y : In(<<h>>, y) => y = h
      BY InShort
    <3>4. ASSUME NEW x \in DownLines, NEW y \in DownLines, In(dout', y)
          PROVE  Follows(x, y)
      <4>1. y = h
        BY <3>1, <3>3, <3>4
      <4> QED BY <3>2, <4>1, Apart
    <3>5. Ordered(<<h>>)
      BY OrderedShort
    <3> QED BY <1>g, <1>o, <2>0, <2>3, <3>1, <3>4, <3>5
  <2> QED BY <2>4, <2>5
<1>12. CASE SendResult
  <2>1. UNCHANGED <<evs, pEnd, down, dout>> /\ queue' = Append(queue, job) /\ handler = "result"
    BY <1>12 DEF SendResult, plugin, socket
  <2>2. job \in Results /\ job.k = "result" /\ job \in Notices \cup Results /\ job \in DownLines
    <3>1. job \in Results
      BY <2>1 DEF Base, DaemonTyped
    <3> QED BY <1>n, <3>1 DEF Results
  <2>3. \A x \in Notices \cup Results : In(queue, x) => Follows(x, job)
    BY <1>n, <2>2, Apart
  <2>4. pEnd => Ordered(Append(queue, job))
    BY <1>0, <1>o, <2>2, <2>3, OrderedAppend
  <2> QED BY <1>g, <1>o, <2>1, <2>4
<1>13. CASE HandlerEnds \/ Crash
  <2>1. UNCHANGED <<evs, pEnd, down>> /\ dout' = <<>> /\ queue' = <<>>
    BY <1>13 DEF HandlerEnds, Crash, plugin
  <2> QED BY <1>g, <1>o, <1>s, <2>1
<1>14. CASE \/ Caller \/ ConnectFails \/ FailFast \/ ServeTake \/ ServeWrite \/ PumpAck
            \/ FlushDone \/ WriterFails \/ ReadLine \/ Execute \/ DeleteFile \/ Release \/ Sweep
            \/ UNCHANGED vars
  <2>1. UNCHANGED <<evs, pEnd, down, dout, queue>>
    BY <1>14 DEF Caller, Submit, EnterTx, TimeOut, ConnectFails, FailFast, ServeTake, ServeWrite,
       PumpAck, FlushDone, WriterFails, ReadLine, Execute, DeleteFile, Release, Sweep,
       vars, plugin, socket, daemon
  <2> QED BY <1>1, <2>1
<1> QED BY <1>2, <1>3, <1>4, <1>5, <1>6, <1>7, <1>8, <1>9, <1>10, <1>11, <1>12, <1>13, <1>14, Sides
    DEF PluginSide, DaemonSide, ServeWriteFails, ServeFileFails, ServeEof, EndHandler, Shutdown

(***************************************************************************)
(* What holds of one event before a step.                                  *)
(***************************************************************************)
Known(e) == NotAgain(e) /\ Held(e) /\ (pEnd => Live(e)) /\ (~pEnd => Away(e))

StaysKnown(e) == Held(e)' /\ (pEnd' => Live(e)')

\* The pump takes nothing from a channel that stays the same.
LEMMA EvsStay ==
    ASSUME Base, UNCHANGED evs
    PROVE  ~Notify
<1>1. Notify => evs # <<>> /\ evs' = Tail(evs)
  BY DEF Notify
<1>2. evs # <<>> => Len(Tail(evs)) = Len(evs) - 1 /\ Len(evs) \in Nat
  BY HeadAndTail, LenProperties DEF Base, PluginTyped
<1> QED BY <1>1, <1>2

\* A step that leaves an event where it was, or takes it from there.
LEMMA StillKept ==
    ASSUME Base, [Next]_vars, NEW e \in Events, Known(e), ~Notify,
           StillDown(e), StillPlugin(e), StillPump(e), StillKnown(e),
           e \in handed' => e \in handed, pEnd' => pEnd /\ Backed(e)'
    PROVE  StaysKnown(e)
<1>1. Settled(e)' => Settled(e)
  BY SettledStep
<1>2. Held(e)'
  BY <1>1, StillHeld DEF Known
<1>3. Settled(e)' => Past(e)
  BY <1>1 DEF Past
<1>4. ASSUME pEnd' PROVE Live(e)'
  BY <1>3, <1>4, StillLive DEF Known
<1> QED BY <1>2, <1>4 DEF StaysKnown

\* What the variables of a place say of it.
LEMMA StillFrames ==
    ASSUME NEW e \in Events
    PROVE  /\ UNCHANGED <<flushing, queue, down, dout>> => StillDown(e)
           /\ UNCHANGED <<receiving, down, dout>> /\ Backed(e) => Backed(e)'
           /\ UNCHANGED <<inbox, receiving, paths>> => StillPlugin(e)
           /\ UNCHANGED evs /\ (serve' # "deliver" \/ UNCHANGED <<serve, out>>) => StillPump(e)
           /\ UNCHANGED <<handler, seen>> => StillKnown(e)
<1>1. UNCHANGED <<flushing, queue, down, dout>> => StillDown(e)
  BY DEF StillDown, Has
<1>2. UNCHANGED <<receiving, down, dout>> /\ Backed(e) => Backed(e)'
  BY DEF Backed, Has
<1>3. UNCHANGED <<inbox, receiving, paths>> => StillPlugin(e)
  BY DEF StillPlugin
<1>4. UNCHANGED evs /\ (serve' # "deliver" \/ UNCHANGED <<serve, out>>) => StillPump(e)
  <2>1. ASSUME UNCHANGED evs PROVE /\ \A p \in BOOLEAN : Pumped(e, p)' => Pumped(e, p)
                                   /\ AnyPumped(e)' => AnyPumped(e)
    BY <2>1 DEF Pumped, AnyPumped, Inbounds, Events
  <2>2. ASSUME serve' # "deliver" \/ UNCHANGED <<serve, out>>, NEW p \in BOOLEAN
        PROVE  Delivered(e, p)' => Delivered(e, p)
    BY <2>2 DEF Delivered
  <2> QED BY <2>1, <2>2 DEF StillPump
<1>5. UNCHANGED <<handler, seen>> => StillKnown(e)
  BY DEF StillKnown, Claimed
<1> QED BY <1>1, <1>2, <1>3, <1>4, <1>5

\* The plugin's calls and acknowledgements move no event.
LEMMA CallsKeep ==
    ASSUME Base, [Next]_vars, NEW e \in Events, Known(e),
           \/ Caller \/ ConnectFails \/ FailFast \/ ServeTake \/ ServeWrite \/ PumpAck
           \/ UNCHANGED vars
    PROVE  StaysKnown(e)
<1>1. /\ UNCHANGED <<flushing, queue, down, dout>> /\ UNCHANGED <<inbox, receiving, paths, handed>>
      /\ UNCHANGED <<handler, seen, evs, pEnd>>
      /\ serve' # "deliver" \/ UNCHANGED <<serve, out>>
  BY DEF Caller, Submit, EnterTx, TimeOut, ConnectFails, FailFast, ServeTake, ServeWrite,
     PumpAck, vars, plugin, files, socket, daemon, waiting
<1>2. ~Notify
  BY <1>1, EvsStay
<1>3. pEnd' => pEnd /\ Backed(e)'
  BY <1>1, StillFrames DEF Known, Live, Backed
<1> QED BY <1>1, <1>2, <1>3, StillFrames, StillKept

\* The end of a connection deletes the file of an event that is on its way, and no other.
LEMMA EndKeeps ==
    ASSUME Base, [Next]_vars, NEW e \in Events, Known(e), EndServe \/ PluginStops
    PROVE  StaysKnown(e)
<1>1. /\ ~pEnd' /\ serve' # "deliver" /\ handed' = handed
      /\ evs' = <<>> \/ evs' = [i \in 1..Len(evs) |-> Aged(evs[i])]
      /\ \/ inbox' = inbox
         \/ inbox' = [f \in Events |-> IF f \in receiving THEN none ELSE inbox[f]]
  BY DEF EndServe, Aborted, PluginStops
<1>2. ~Notify
  <2>1. Notify => serve' = serve /\ pEnd' = pEnd
    BY DEF Notify, socket
  <2>2. EndServe => serve' = "down" /\ ~pEnd'
    BY DEF EndServe, Aborted
  <2>3. PluginStops => serve' = "start" /\ serve # "start"
    BY DEF PluginStops
  <2>4. ~pEnd => serve \notin Connected
    BY DEF Base, SocketEnds
  <2>5. Notify => pump = none /\ evs # <<>> /\ evs' = Tail(evs)
    BY DEF Notify
  <2>6. EndServe => Len(evs') = Len(evs)
    <3>1. EndServe => evs' = [i \in 1..Len(evs) |-> Aged(evs[i])]
      BY DEF EndServe, Aborted
    <3> QED BY <3>1, AgedSeqs
  <2>7. evs # <<>> => Len(Tail(evs)) = Len(evs) - 1 /\ Len(evs) \in Nat
    BY HeadAndTail, LenProperties DEF Base, PluginTyped
  <2> QED BY <2>1, <2>3, <2>5, <2>6, <2>7
<1>3. Settled(e)' => Settled(e)
  BY <1>2, SettledStep
<1>4. AnyPumped(e)' => AnyPumped(e)
  <2>1. Inbounds' = Inbounds
    BY DEF Inbounds, Events
  <2>2. \A m \in Inbounds : In(evs', m) => \E n \in Inbounds : n.ev = m.ev /\ In(evs, n)
    BY <1>1, AgedChannels, InShort
  <2> QED BY <2>1, <2>2 DEF AnyPumped
<1>5. Settled(e) => inbox'[e] = inbox[e]
  <2>1. ASSUME Settled(e) PROVE e \notin receiving
    <3>1. CASE pEnd
      BY <2>1, <3>1 DEF Known, Live, Past, Coming
    <3>2. CASE ~pEnd
      BY <3>2 DEF Known, Away
    <3> QED BY <3>1, <3>2
  <2> QED BY <1>1, <2>1
<1>6. \A p \in BOOLEAN : ~Delivered(e, p)'
  BY <1>1 DEF Delivered
<1> QED BY <1>1, <1>3, <1>4, <1>5, <1>6 DEF Known, Held, StaysKnown

\* The connection task hands a message to the pump.
LEMMA DeliverKeeps ==
    ASSUME Base, [Next]_vars, NEW e \in Events, Known(e), Deliver
    PROVE  StaysKnown(e)
<1>1. /\ UNCHANGED <<flushing, queue, down, dout>> /\ UNCHANGED <<inbox, receiving, paths, handed>>
      /\ UNCHANGED <<handler, seen, pEnd>>
      /\ serve = "deliver" /\ serve' = "select" /\ evs' = Append(evs, Head(out))
  BY DEF Deliver, files, socket, daemon, waiting
<1>2. ~Notify
  BY <1>1 DEF Notify
<1>3. PICK m \in Inbounds : out = <<m>> /\ ~m.old
  BY <1>1 DEF Base, Writing
<1>4. Head(out) = m /\ evs \in Seq(Inbounds)
  BY <1>3 DEF Base, PluginTyped
<1>5. \A x : In(Append(evs, m), x) <=> In(evs, x) \/ x = m
  BY <1>4, InAppend
<1>6. m.ev = e => \E p \in BOOLEAN : Delivered(e, p)
  <2>1. PICK p \in BOOLEAN : m = inbound(m.ev, p)
    BY <1>3, FreshItems
  <2> QED BY <1>1, <1>3, <2>1 DEF Delivered
<1>7. \A p \in BOOLEAN : m = inbound(e, p) => Delivered(e, p)
  BY <1>1, <1>3 DEF Delivered
<1>8. \A p \in BOOLEAN : Pumped(e, p)' => Pumped(e, p) \/ Delivered(e, p)
  BY <1>1, <1>4, <1>5, <1>7 DEF Pumped
<1>9. AnyPumped(e)' => AnyPumped(e) \/ \E p \in BOOLEAN : Delivered(e, p)
  <2>1. Inbounds' = Inbounds
    BY DEF Inbounds, Events
  <2> QED BY <1>1, <1>4, <1>5, <1>6, <2>1 DEF AnyPumped
<1>10. StillPump(e)
  <2>1. \A p \in BOOLEAN : ~Delivered(e, p)'
    BY <1>1 DEF Delivered
  <2> QED BY <1>1, <1>8, <1>9, <2>1 DEF StillPump
<1>11. pEnd' => pEnd /\ Backed(e)'
  BY <1>1, StillFrames DEF Known, Live, Backed
<1> QED BY <1>1, <1>2, <1>10, <1>11, StillFrames, StillKept

\* The pump tells the model of an event, and acknowledges it.
LEMMA NotifyKeeps ==
    ASSUME Base, [Next]_vars, OrderInv, NEW e \in Events, Known(e), Notify
    PROVE  StaysKnown(e)
<1>1. /\ UNCHANGED <<flushing, queue, down, dout>> /\ UNCHANGED <<inbox, receiving, paths>>
      /\ UNCHANGED <<handler, seen, pEnd, serve, out>>
      /\ pump = none /\ evs # <<>> /\ evs' = Tail(evs)
  BY DEF Notify, files, socket, daemon, waiting
<1>2. PICK it : it = Head(evs)
  OBVIOUS
<1>3. handed' = IF it.path THEN handed \cup {it.ev} ELSE handed \ {it.ev}
  BY <1>2 DEF Notify
<1>4. evs \in Seq(Inbounds) /\ it \in Inbounds /\ In(evs, it)
      /\ \A x : In(Tail(evs), x) => In(evs, x)
  BY <1>1, <1>2, HeadAndTail, InTail DEF Base, PluginTyped
<1>5. /\ \A p \in BOOLEAN : Pumped(e, p)' => Pumped(e, p)
      /\ \A p \in BOOLEAN : Delivered(e, p)' => Delivered(e, p)
      /\ AnyPumped(e)' => AnyPumped(e)
  <2>1. Inbounds' = Inbounds
    BY DEF Inbounds, Events
  <2> QED BY <1>1, <1>4, <2>1 DEF Pumped, Delivered, AnyPumped
<1>6. StillPump(e) /\ StillDown(e) /\ StillPlugin(e) /\ StillKnown(e)
  BY <1>1, <1>5, StillFrames DEF StillPump
<1>7. pEnd' => pEnd /\ Backed(e)'
  BY <1>1, StillFrames DEF Known, Live, Backed
<1>8. CASE ~Fresh(e)
  <2>1. Settled(e)' => Settled(e)
    BY <1>8, SettledStep
  <2>2. pEnd' => Live(e)'
    BY <1>6, <1>7, <2>1, StillLive DEF Known, Past
  <2>3. CASE it.ev = e
    <3>1. AnyPumped(e)
      BY <1>4, <2>3 DEF AnyPumped
    <3>2. ~Settled(e)
      BY <3>1 DEF Known, Held
    <3> QED BY <2>1, <2>2, <3>2 DEF Held, StaysKnown
  <2>4. CASE it.ev # e
    <3>1. e \in handed' => e \in handed
      BY <1>3, <2>4
    <3>2. Held(e)'
      BY <1>6, <2>1, <3>1, StillHeld DEF Known
    <3> QED BY <2>2, <3>2 DEF StaysKnown
  <2> QED BY <2>3, <2>4
<1>9. CASE Fresh(e)
  <2>1. PICK p \in BOOLEAN : it = inbound(e, p)
    BY <1>2, <1>9 DEF Fresh
  <2>2. Pumped(e, p)
    BY <1>4, <2>1 DEF Pumped
  <2>3. pEnd /\ Live(e) /\ Past(e)
    BY <2>2 DEF Known, Away, Past
  <2>4. Live(e)'
    BY <1>1, <1>6, <1>7, <2>3, StillLive
  <2>5. it.k = "inbound" /\ it.ev = e /\ it.path = p /\ it.old = FALSE
    BY <2>1, FreshItems
  <2>6. ~AnyPumped(e)'
    <3>1. \A y : In(Tail(evs), y) => Follows(it, y)
      BY <1>1, <1>2, <1>4, OrderedTail DEF OrderInv
    <3>2. \A y : In(Tail(evs), y) => y.ev # e
      BY <2>5, <3>1 DEF Follows
    <3> QED BY <1>1, <3>2 DEF AnyPumped
  <2>7. \A path \in BOOLEAN : ~Delivered(e, path)'
    BY <1>5, <2>2, <2>3 DEF Live
  <2>8. e \in handed' => inbox'[e] = 1
    <3>1. e \in handed' => p = TRUE
      BY <1>3, <2>5
    <3> QED BY <1>1, <2>2, <2>3, <3>1 DEF Live
  <2> QED BY <2>4, <2>6, <2>7, <2>8 DEF Held, StaysKnown
<1> QED BY <1>8, <1>9

HasNext(x) == In(down', x) \/ In(dout', x)

\* The lines on their way to the plugin after a step.
LEMMA HasAfter ==
    ASSUME NEW e
    PROVE  /\ Has(Header(e))' <=> HasNext(Header(e))
           /\ Has(Data(e))' <=> HasNext(Data(e))
           /\ Has(event(e))' <=> HasNext(event(e))
BY DEF Has, HasNext, Header, Data, piece, event

\* The lines of an event that the plugin's read takes, or leaves.
LEMMA ReadLines ==
    ASSUME Base, OrderInv, NEW e \in Events, ServeRead
    PROVE  /\ pEnd /\ Head(down) \in DownLines /\ Has(Head(down))
           /\ \A x \in DownLines : HasNext(x) => Has(x)
           /\ \A x \in DownLines : x # Head(down) => (HasNext(x) <=> Has(x))
           /\ \A x \in DownLines : HasNext(x) => Follows(Head(down), x)
<1>1. /\ serve = "select" /\ down # <<>> /\ down' = Tail(down) /\ dout' = dout
  BY DEF ServeRead, daemon
<1>2. pEnd
  BY <1>1 DEF Base, SocketEnds, Connected
<1>3. down \in Seq(DownLines)
  BY DEF Base, DaemonTyped
<1>4. /\ Head(down) \in DownLines /\ In(down, Head(down))
      /\ \A x : In(down, x) <=> x = Head(down) \/ In(Tail(down), x)
  BY <1>1, <1>3, HeadAndTail, InTail
<1>5. /\ \A y : In(Tail(down), y) => Follows(Head(down), y)
      /\ \A x, y \in DownLines : In(down, x) /\ In(dout, y) => Follows(x, y)
  BY <1>1, <1>2, <1>3, OrderedTail DEF OrderInv
<1>6. \A x : HasNext(x) <=> In(Tail(down), x) \/ In(dout, x)
  BY <1>1 DEF HasNext
<1> QED BY <1>2, <1>4, <1>5, <1>6 DEF Has

\* A line of another event, or a result, moves nothing of this one.
LEMMA ReadOther ==
    ASSUME Base, [Next]_vars, OrderInv, NEW e \in Events, Known(e), ServeRead,
           Head(down).k = "result" \/ Head(down).ev # e
    PROVE  StaysKnown(e)
<1>0. PICK l : l = Head(down)
  OBVIOUS
<1>1. /\ UNCHANGED <<flushing, queue, dout, handed, handler, seen, pEnd, evs>>
      /\ serve = "select"
  BY DEF ServeRead, daemon, waiting
<1>2. ~Notify
  BY <1>1, EvsStay
<1>3. /\ Header(e) \in DownLines /\ Data(e) \in DownLines /\ event(e) \in DownLines
      /\ Header(e) # l /\ Data(e) # l /\ event(e) # l
  BY <1>0, EventItems
<1>4. \A x \in DownLines : x # l => (HasNext(x) <=> Has(x))
  BY <1>0, ReadLines
<1>5. /\ Has(Header(e))' <=> Has(Header(e))
      /\ Has(Data(e))' <=> Has(Data(e))
      /\ Has(event(e))' <=> Has(event(e))
  BY <1>3, <1>4, HasAfter
<1>6. StillDown(e)
  BY <1>1, <1>5 DEF StillDown
<1>7. l \in DownLines /\ pEnd
  BY <1>0, ReadLines
<1>8. /\ (e \in receiving' <=> e \in receiving) /\ (e \in paths' => e \in paths)
      /\ inbox'[e] = inbox[e]
      /\ serve' = "deliver" => out' = <<inbound(l.ev, l.ev \in paths)>> /\ l.k = "event"
  <2>0. inbox \in [Events -> {none, 0, 1}]
    BY DEF Base, DaemonTyped
  <2>1. CASE l.k \in {"in_file", "in_data"}
    <3>1. UNCHANGED <<serve, out>> /\ (ReceiveHeader(l.ev) \/ ReceiveData(l.ev)) /\ l.ev # e
      BY <1>0, <2>1 DEF ServeRead
    <3> QED BY <1>1, <2>0, <3>1 DEF ReceiveHeader, ReceiveData
  <2>2. CASE l.k = "event"
    BY <1>0, <2>2 DEF ServeRead
  <2>3. CASE l.k = "result"
    BY <1>0, <1>1, <2>3 DEF ServeRead
  <2> QED BY <1>7, <2>1, <2>2, <2>3, DownKinds
<1>9. StillPlugin(e)
  BY <1>8 DEF StillPlugin
<1>10. \A p \in BOOLEAN : ~Delivered(e, p)'
  <2>1. SUFFICES ASSUME NEW p \in BOOLEAN, Delivered(e, p)' PROVE FALSE
    OBVIOUS
  <2>2. serve' = "deliver" /\ out' = <<inbound(e, p)>>
    BY <2>1 DEF Delivered
  <2>3. PICK q : out' = <<inbound(l.ev, q)>> /\ l.ev # e
    BY <1>0, <1>8, <2>2
  <2>4. inbound(l.ev, q) = inbound(e, p)
    BY <2>2, <2>3
  <2> QED BY <2>3, <2>4 DEF inbound
<1>11. StillPump(e)
  <2>1. /\ \A p \in BOOLEAN : Pumped(e, p)' => Pumped(e, p)
        /\ AnyPumped(e)' => AnyPumped(e)
    BY <1>1 DEF Pumped, AnyPumped, Inbounds, Events
  <2> QED BY <1>10, <2>1 DEF StillPump
<1>12. Backed(e)'
  <2>1. Backed(e)
    BY <1>7 DEF Known, Live, Backed
  <2> QED BY <1>5, <1>8, <2>1 DEF Backed
<1>13. StillKnown(e)
  BY <1>1, StillFrames
<1> QED BY <1>1, <1>2, <1>6, <1>7, <1>9, <1>11, <1>12, <1>13, StillKept

\* A line of the event itself: its file is made, filled, or given to the message.
LEMMA ReadOwn ==
    ASSUME Base, [Next]_vars, OrderInv, NEW e \in Events, Known(e), ServeRead,
           Head(down).k # "result", Head(down).ev = e
    PROVE  StaysKnown(e)
<1>0. PICK l : l = Head(down)
  OBVIOUS
<1>1. /\ UNCHANGED <<flushing, queue, dout, handed, handler, seen, pEnd, evs>>
      /\ serve = "select"
  BY DEF ServeRead, daemon, waiting
<1>2. ~Notify
  BY <1>1, EvsStay
<1>3. /\ Header(e) \in DownLines /\ Data(e) \in DownLines /\ event(e) \in DownLines
      /\ Header(e).k = "in_file" /\ Data(e).k = "in_data" /\ event(e).k = "event"
      /\ Header(e).ev = e /\ Data(e).ev = e /\ event(e).ev = e
  BY EventItems
<1>4. pEnd /\ l \in DownLines /\ Has(l) /\ l.ev = e
      /\ (l = Header(e) \/ l = Data(e) \/ l = event(e))
  BY <1>0, ReadLines, EventItems
<1>5. /\ \A x \in DownLines : HasNext(x) => Has(x)
      /\ \A x \in DownLines : x # l => (HasNext(x) <=> Has(x))
      /\ \A x \in DownLines : HasNext(x) => Follows(l, x)
  BY <1>0, ReadLines
<1>6. Live(e) /\ Coming(e) /\ ~Past(e)
  <2>1. Live(e)
    BY <1>4 DEF Known
  <2>2. Coming(e)
    BY <1>4 DEF Coming
  <2> QED BY <2>1, <2>2 DEF Live
<1>7. ~Queued(e)
  BY <1>4, <1>6 DEF Live
<1>8. ~Settled(e)' /\ Held(e)'
  <2>1. ~Settled(e)'
    BY <1>2, <1>6, SettledStep DEF Past
  <2> QED BY <2>1 DEF Held
<1>9. \A p \in BOOLEAN : ~Pumped(e, p)'
  <2>1. \A p \in BOOLEAN : ~Pumped(e, p)
    BY <1>6 DEF Past
  <2> QED BY <1>1, <2>1 DEF Pumped
<1>10. ~(Claimed' /\ e \notin seen')
  <2>1. Claimed' <=> Claimed
    BY <1>1 DEF Claimed
  <2> QED BY <1>1, <1>6, <2>1 DEF Live
<1>11. ~Queued(e)' /\ ~(e \in flushing' /\ In(queue', event(e)))
  BY <1>1, <1>7 DEF Queued
<1>i. inbox \in [Events -> {none, 0, 1}]
  BY DEF Base, DaemonTyped
<1>12. CASE l = Header(e)
  <2>1. ReceiveHeader(e) /\ serve' = "select"
    BY <1>0, <1>1, <1>3, <1>4, <1>12 DEF ServeRead
  <2>2. e \in receiving' /\ paths' = paths
    BY <2>1 DEF ReceiveHeader
  <2>3. e \notin paths
    BY <1>4, <1>6, <1>12 DEF Live
  <2>4. ~Has(Header(e))'
    <3>1. ~HasNext(Header(e))
      BY <1>3, <1>5, <1>12 DEF Follows
    <3> QED BY <3>1, HasAfter
  <2>5. Has(event(e))' => Has(Data(e))'
    <3>1. HasNext(event(e)) => Has(event(e))
      BY <1>3, <1>5
    <3>2. Has(event(e)) => Has(Data(e))
      BY <1>4, <1>6, <1>12 DEF Live
    <3>3. Has(Data(e)) => HasNext(Data(e))
      BY <1>3, <1>5, <1>12
    <3> QED BY <3>1, <3>2, <3>3, HasAfter
  <2>6. \A p \in BOOLEAN : ~Delivered(e, p)'
    BY <2>1 DEF Delivered
  <2>7. ~Past(e)'
    BY <1>8, <1>9, <2>6 DEF Past
  <2>8. Live(e)'
    BY <1>9, <1>10, <1>11, <2>2, <2>3, <2>4, <2>5, <2>6, <2>7 DEF Live
  <2> QED BY <1>8, <2>8 DEF StaysKnown
<1>13. CASE l = Data(e)
  <2>1. ReceiveData(e) /\ serve' = "select"
    BY <1>0, <1>1, <1>3, <1>4, <1>13 DEF ServeRead
  <2>2. e \notin receiving'
    BY <2>1 DEF ReceiveData
  <2>3. e \notin paths
    BY <1>4, <1>6, <1>13 DEF Live
  <2>4. e \in paths' => inbox'[e] = 1
    BY <1>i, <2>1, <2>3 DEF ReceiveData
  <2>5. ~Has(Header(e))' /\ ~Has(Data(e))'
    <3>1. ~HasNext(Header(e)) /\ ~HasNext(Data(e))
      BY <1>3, <1>5, <1>13 DEF Follows
    <3> QED BY <3>1, HasAfter
  <2>6. \A p \in BOOLEAN : ~Delivered(e, p)'
    BY <2>1 DEF Delivered
  <2>7. ~Past(e)'
    BY <1>8, <1>9, <2>6 DEF Past
  <2>8. Live(e)'
    BY <1>9, <1>10, <1>11, <2>2, <2>4, <2>5, <2>6, <2>7 DEF Live
  <2> QED BY <1>8, <2>8 DEF StaysKnown
<1>14. CASE l = event(e)
  <2>1. /\ serve' = "deliver" /\ out' = <<inbound(e, e \in paths)>> /\ paths' = paths \ {e}
        /\ UNCHANGED <<receiving, inbox>>
    BY <1>0, <1>1, <1>3, <1>4, <1>14 DEF ServeRead
  <2>2. /\ ~HasNext(Header(e)) /\ ~HasNext(Data(e)) /\ ~HasNext(event(e))
    BY <1>3, <1>5, <1>14 DEF Follows
  <2>3. ~Has(Header(e)) /\ ~Has(Data(e))
    BY <1>3, <1>5, <1>14, <2>2
  <2>4. e \notin receiving
    BY <1>4, <1>6, <1>14, <2>3 DEF Live
  <2>5. ~Has(Header(e))' /\ ~Has(Data(e))' /\ ~Has(event(e))'
    BY <2>2, HasAfter
  <2>6. ~Coming(e)'
    BY <1>11, <2>1, <2>4, <2>5 DEF Coming
  <2>7. ASSUME NEW p \in BOOLEAN, Delivered(e, p)' PROVE p => inbox'[e] = 1
    <3>1. out' = <<inbound(e, p)>>
      BY <2>7 DEF Delivered
    <3>2. inbound(e, p) = inbound(e, e \in paths)
      BY <2>1, <3>1
    <3>3. p = (e \in paths)
      BY <3>2 DEF inbound
    <3>4. e \in paths => inbox[e] = 1
      BY <1>6 DEF Live
    <3> QED BY <2>1, <3>3, <3>4
  <2>8. e \notin receiving' /\ e \notin paths'
    BY <2>1, <2>4
  <2>9. Live(e)'
    BY <1>9, <1>10, <1>11, <2>5, <2>6, <2>7, <2>8 DEF Live
  <2> QED BY <1>8, <2>9 DEF StaysKnown
<1> QED BY <1>4, <1>12, <1>13, <1>14

\* A connection starts with what the backlog holds, of which nothing is on its way.
LEMMA ConnectKeeps ==
    ASSUME Base, [Next]_vars, NEW e \in Events, Known(e), Connect
    PROVE  StaysKnown(e)
<1>1. /\ serve \in {"start", "down"} /\ handler = "none" /\ serve' = "select"
      /\ down' = <<>> /\ up' = <<>> /\ flushing' = backlog
      /\ UNCHANGED <<tx, evs, pump, inbox, receiving, paths, handed, dout, queue, acked, seen, stale>>
  BY DEF Connect, files
<1>2. ~pEnd /\ Away(e) /\ NotAgain(e) /\ Held(e) /\ dout = <<>> /\ queue = <<>>
  BY <1>1 DEF Base, SocketEnds, Connected, Claimed, Known
<1>s. \A x : ~In(<<>>, x)
  BY InShort
<1>3. /\ ~Has(Header(e))' /\ ~Has(Data(e))' /\ ~Has(event(e))' /\ ~In(queue', event(e))
  BY <1>1, <1>2, <1>s DEF Has
<1>4. Settled(e)' => e \in acked \ stale
  BY <1>1, <1>2, <1>s DEF Settled, FreshAck, Away
<1>5. e \notin receiving' /\ e \notin paths'
  BY <1>1, <1>2 DEF Away
<1>6. \A p \in BOOLEAN : ~Delivered(e, p)' /\ ~Pumped(e, p)'
  BY <1>1, <1>2 DEF Delivered, Pumped, Away
<1>7. Past(e)' => e \in acked \ stale
  BY <1>4, <1>6 DEF Past
<1>8. Coming(e)' => e \in backlog
  BY <1>1, <1>3, <1>5 DEF Coming, Queued
<1>9. e \in acked \ stale => e \notin backlog
  BY <1>2 DEF NotAgain
<1>10. e \notin seen' => e \notin backlog /\ e \notin acked
  BY <1>1, <1>2 DEF NotAgain
<1>11. Live(e)'
  BY <1>3, <1>5, <1>6, <1>7, <1>8, <1>9, <1>10 DEF Live
<1>12. Held(e)'
  <2>1. Settled(e)' => Settled(e)
    BY <1>4 DEF Settled
  <2>2. AnyPumped(e)' => AnyPumped(e)
    BY <1>1 DEF AnyPumped, Inbounds, Events
  <2> QED BY <1>1, <1>2, <1>6, <2>1, <2>2 DEF Held
<1> QED BY <1>11, <1>12 DEF StaysKnown

\* The daemon's steps leave the plugin alone.
LEMMA DaemonKeeps ==
    ASSUME Base, [Next]_vars, NEW e \in Events, Known(e), DaemonSide,
           StillDown(e), StillKnown(e), pEnd => Backed(e)'
    PROVE  StaysKnown(e)
<1>1. UNCHANGED <<evs, serve, out, inbox, receiving, paths, handed, pEnd>>
  BY Sides DEF plugin, files
<1> QED BY <1>1, EvsStay, StillFrames, StillKept

\* Those that take no event from one place to another.
LEMMA QuietKeeps ==
    ASSUME Base, [Next]_vars, NEW e \in Events, Known(e),
           \/ FlushDone \/ WriterFails \/ ReadLine \/ Execute \/ SendResult
           \/ DeleteFile \/ Release \/ Sweep
    PROVE  StaysKnown(e)
<1>1. DaemonSide
  BY DEF DaemonSide
<1>2. /\ UNCHANGED <<flushing, down, dout, seen>> /\ (Claimed' => Claimed)
      /\ queue' = queue \/ (handler = "result" /\ queue' = Append(queue, job))
  BY DEF FlushDone, WriterFails, ReadLine, Execute, SendResult, DeleteFile, Release, Sweep,
     Claimed, daemon, waiting, socket
<1>3. ASSUME handler = "result"
      PROVE  In(Append(queue, job), event(e)) => In(queue, event(e))
  <2>1. job \in Results /\ queue \in Seq(Notices \cup Results)
    BY <1>3 DEF Base, DaemonTyped
  <2>2. job \in Notices \cup Results /\ job # event(e)
    BY <2>1, EventItems DEF Results
  <2>3. \A x : In(Append(queue, job), x) <=> In(queue, x) \/ x = job
    BY <2>1, <2>2, InAppend
  <2> QED BY <2>2, <2>3
<1>4. In(queue', event(e)) => In(queue, event(e))
  BY <1>2, <1>3
<1>5. StillDown(e)
  BY <1>2, <1>4 DEF StillDown, Has
<1>6. StillKnown(e)
  BY <1>2 DEF StillKnown
<1>7. receiving' = receiving
  BY <1>1, Sides DEF files
<1>8. pEnd => Backed(e)'
  BY <1>2, <1>7, StillFrames DEF Known, Live, Backed
<1> QED BY <1>1, <1>5, <1>6, <1>8, DaemonKeeps

\* A line goes to the socket.
LEMMA WriteKeeps ==
    ASSUME Base, [Next]_vars, NEW e \in Events, Known(e), WriteDown
    PROVE  StaysKnown(e)
<1>1. DaemonSide
  BY DEF DaemonSide
<1>2. /\ UNCHANGED <<flushing, queue, handler, seen>> /\ dout # <<>>
      /\ down' = Append(down, Head(dout)) /\ dout' = Tail(dout)
  BY DEF WriteDown, waiting
<1>3. down \in Seq(DownLines) /\ dout \in Seq(DownLines)
  BY DEF Base, DaemonTyped
<1>4. Head(dout) \in DownLines /\ \A x : In(dout, x) <=> x = Head(dout) \/ In(Tail(dout), x)
  BY <1>2, <1>3, HeadAndTail, InTail
<1>5. \A x : In(Append(down, Head(dout)), x) <=> In(down, x) \/ x = Head(dout)
  BY <1>3, <1>4, InAppend
<1>6. \A x : HasNext(x) <=> Has(x)
  BY <1>2, <1>4, <1>5 DEF HasNext, Has
<1>7. /\ Has(Header(e))' <=> Has(Header(e))
      /\ Has(Data(e))' <=> Has(Data(e))
      /\ Has(event(e))' <=> Has(event(e))
  BY <1>6, HasAfter
<1>8. StillDown(e)
  BY <1>2, <1>7 DEF StillDown
<1>9. StillKnown(e)
  BY <1>2, StillFrames
<1>10. receiving' = receiving
  BY <1>1, Sides DEF files
<1>11. pEnd => Backed(e)'
  BY <1>7, <1>10 DEF Known, Live, Backed
<1> QED BY <1>1, <1>8, <1>9, <1>11, DaemonKeeps

\* The end of the handler loses the lines that are not written.
LEMMA LossKeeps ==
    ASSUME Base, [Next]_vars, OrderInv, NEW e \in Events, Known(e), DaemonSide,
           HandlerEnds \/ Crash
    PROVE  StaysKnown(e)
<1>1. /\ flushing' = {} /\ dout' = <<>> /\ queue' = <<>> /\ down' = down /\ ~Claimed'
  BY DEF HandlerEnds, Crash, Claimed
<1>2. \A x : ~In(<<>>, x)
  BY InShort
<1>3. \A x : HasNext(x) <=> In(down, x)
  BY <1>1, <1>2 DEF HasNext
<1>4. StillDown(e)
  <2>1. \A x : HasNext(x) => Has(x)
    BY <1>3 DEF Has
  <2> QED BY <1>1, <1>2, <2>1, HasAfter DEF StillDown
<1>5. StillKnown(e)
  BY <1>1 DEF StillKnown
<1>6. receiving' = receiving
  BY Sides DEF files
<1>7. ASSUME pEnd PROVE Backed(e)'
  <2>1. SUFFICES ASSUME Has(Header(e))' \/ e \in receiving', Has(event(e))'
                 PROVE  Has(Data(e))'
    BY DEF Backed
  <2>2. Has(Header(e)) \/ e \in receiving
    BY <1>4, <1>6, <2>1 DEF StillDown
  <2>3. In(down, event(e)) /\ Has(event(e))
    BY <1>3, <2>1, HasAfter DEF Has
  <2>4. Has(Data(e))
    BY <1>7, <2>2, <2>3 DEF Known, Live
  <2>5. ~In(dout, Data(e))
    <3>1. /\ event(e) \in DownLines /\ event(e).k = "event" /\ event(e).ev = e
          /\ Data(e) \in DownLines /\ Data(e).k = "in_data" /\ Data(e).ev = e
      BY EventItems
    <3>2. ~Follows(event(e), Data(e))
      BY <3>1 DEF Follows
    <3> QED BY <1>7, <2>3, <3>1, <3>2 DEF OrderInv
  <2>6. HasNext(Data(e))
    BY <1>3, <2>4, <2>5 DEF Has
  <2> QED BY <2>6, HasAfter
<1> QED BY <1>4, <1>5, <1>7, DaemonKeeps

\* An event that the daemon takes from the backlog or the queue to write it.
LEMMA TakenKeeps ==
    ASSUME Base, [Next]_vars, NEW e \in Events, Known(e), DaemonSide, Queued(e), NEW gone,
           dout = <<>>, dout' = EventLines(e, gone), pEnd => ~Queued(e)',
           UNCHANGED <<down, handler, seen>>
    PROVE  StaysKnown(e)
<1>1. UNCHANGED <<evs, serve, out, inbox, receiving, paths, handed, pEnd>>
  BY Sides DEF plugin, files
<1>2. ~Notify
  BY <1>1, EvsStay
<1>3. Settled(e)' => Settled(e)
  BY <1>2, SettledStep
<1>4. StillPlugin(e) /\ StillPump(e) /\ StillKnown(e)
  BY <1>1, StillFrames
<1>5. Held(e)'
  BY <1>1, <1>3, <1>4, StillHeld DEF Known
<1>6. ASSUME pEnd PROVE Live(e)'
  <2>1. Live(e) /\ Coming(e) /\ ~Past(e)
    <3>1. Live(e) /\ Coming(e)
      BY <1>6 DEF Known, Coming
    <3> QED BY <3>1 DEF Live
  <2>2. /\ ~Has(Header(e)) /\ ~Has(Data(e)) /\ ~Has(event(e))
        /\ e \notin receiving /\ e \notin paths
    BY <2>1 DEF Live
  <2>3. HasNext(Header(e)) => HasNext(Data(e))
    <3>1. ~In(down, Header(e)) /\ ~In(down, Data(e))
      BY <2>2 DEF Has
    <3> QED BY <3>1, EventLinesAre DEF HasNext
  <2>4. Has(Header(e))' => Has(Data(e))'
    BY <2>3, HasAfter
  <2>5. ~Past(e)'
    <3>1. \A p \in BOOLEAN : ~Delivered(e, p) /\ ~Pumped(e, p)
      BY <2>1 DEF Past
    <3> QED BY <1>3, <1>4, <2>1, <3>1 DEF Past, StillPump
  <2>6. \A p \in BOOLEAN : ~Delivered(e, p)' /\ ~Pumped(e, p)'
    BY <2>5 DEF Past
  <2>7. ~(Claimed' /\ e \notin seen')
    BY <1>4, <2>1 DEF StillKnown, Live
  <2>8. ~Queued(e)' /\ ~(e \in flushing' /\ In(queue', event(e)))
    BY <1>6 DEF Queued
  <2>9. e \notin receiving' /\ e \notin paths'
    BY <1>1, <2>2
  <2> QED BY <2>4, <2>5, <2>6, <2>7, <2>8, <2>9 DEF Live
<1> QED BY <1>1, <1>5, <1>6 DEF StaysKnown

\* Another event's lines, or a result.
LEMMA OthersKeep ==
    ASSUME Base, [Next]_vars, NEW e \in Events, Known(e), DaemonSide, dout = <<>>,
           \A x : In(dout', x) => x # Header(e) /\ x # Data(e) /\ x # event(e),
           e \in flushing' => e \in flushing, In(queue', event(e)) => In(queue, event(e)),
           UNCHANGED <<down, handler, seen>>
    PROVE  StaysKnown(e)
<1>1. ~In(dout, Header(e)) /\ ~In(dout, Data(e)) /\ ~In(dout, event(e))
  BY InShort
<1>2. /\ Has(Header(e))' <=> Has(Header(e))
      /\ Has(Data(e))' <=> Has(Data(e))
      /\ Has(event(e))' <=> Has(event(e))
  BY <1>1, HasAfter DEF HasNext, Has
<1>3. StillDown(e) /\ StillKnown(e)
  BY <1>2, StillFrames DEF StillDown
<1>4. receiving' = receiving
  BY Sides DEF files
<1>5. pEnd => Backed(e)'
  BY <1>2, <1>4 DEF Known, Live, Backed
<1> QED BY <1>3, <1>5, DaemonKeeps

\* The handler and its writer take one event after the other.
LEMMA TakingKeeps ==
    ASSUME Base, [Next]_vars, OrderInv, NEW e \in Events, Known(e), FlushEvent \/ WriterTakes
    PROVE  StaysKnown(e)
<1>1. DaemonSide /\ dout = <<>> /\ UNCHANGED <<down, handler, seen>>
  BY DEF DaemonSide, FlushEvent, WriterTakes, socket, waiting
<1>2. CASE FlushEvent
  <2>1. PICK f \in flushing, gone \in BOOLEAN :
           dout' = EventLines(f, gone) /\ flushing' = flushing \ {f}
    BY <1>2 DEF FlushEvent
  <2>2. queue' = queue /\ f \in Events
    BY <1>2 DEF FlushEvent, Base, DaemonTyped
  <2>3. CASE f = e
    <3>1. Queued(e)
      BY <2>3 DEF Queued
    <3>2. pEnd => ~Queued(e)'
      BY <2>1, <2>2, <2>3 DEF Known, Live, Queued
    <3> QED BY <1>1, <2>1, <2>3, <3>1, <3>2, TakenKeeps
  <2>4. CASE f # e
    <3>1. \A x : In(dout', x) => x \in {Header(f), Data(f), event(f)}
      BY <2>1, <2>2, EventLinesAre
    <3>2. \A x : In(dout', x) => x.ev = f
      <4>1. Header(f).ev = f /\ Data(f).ev = f /\ event(f).ev = f
        BY <2>2, EventItems
      <4> QED BY <3>1, <4>1
    <3>3. \A x : In(dout', x) => x # Header(e) /\ x # Data(e) /\ x # event(e)
      <4>1. Header(e).ev = e /\ Data(e).ev = e /\ event(e).ev = e
        BY EventItems
      <4> QED BY <2>4, <3>2, <4>1
    <3>4. /\ e \in flushing' => e \in flushing
          /\ In(queue', event(e)) => In(queue, event(e))
      BY <2>1, <2>2
    <3> QED BY <1>1, <3>3, <3>4, OthersKeep
  <2> QED BY <2>3, <2>4
<1>3. CASE WriterTakes
  <2>0. UNCHANGED flushing /\ queue # <<>> /\ queue' = Tail(queue)
    BY <1>3 DEF WriterTakes
  <2>1. PICK h : h = Head(queue)
    OBVIOUS
  <2>2. queue \in Seq(Notices \cup Results)
    BY DEF Base, DaemonTyped
  <2>3. /\ h \in Notices \cup Results
        /\ \A x : In(queue, x) <=> x = h \/ In(Tail(queue), x)
    BY <2>0, <2>1, <2>2, HeadAndTail, InTail
  <2>4. h \in DownLines
    BY <2>3 DEF DownLines
  <2>5. In(queue', event(e)) => In(queue, event(e))
    BY <2>0, <2>3
  <2>6. CASE h.k = "event" /\ h.ev = e
    <3>1. PICK gone \in BOOLEAN : dout' = EventLines(e, gone)
      BY <1>3, <2>1, <2>6 DEF WriterTakes
    <3>2. h = event(e)
      BY <2>4, <2>6, DownKinds
    <3>3. In(queue, event(e)) /\ Queued(e)
      BY <2>3, <3>2 DEF Queued
    <3>4. ASSUME pEnd PROVE ~Queued(e)'
      <4>1. e \notin flushing
        BY <3>3, <3>4 DEF Known, Live
      <4>2. \A y : In(Tail(queue), y) => Follows(h, y)
        BY <2>0, <2>1, <2>2, <3>4, OrderedTail DEF OrderInv
      <4>3. ~Follows(event(e), event(e))
        <5>1. event(e).k = "event"
          BY EventItems
        <5> QED BY <5>1 DEF Follows
      <4> QED BY <2>0, <3>2, <4>1, <4>2, <4>3 DEF Queued
    <3> QED BY <1>1, <3>1, <3>3, <3>4, TakenKeeps
  <2>7. CASE h.k # "event" \/ h.ev # e
    <3>1. \A x : In(dout', x) => x # Header(e) /\ x # Data(e) /\ x # event(e)
      <4>0. /\ Header(e).ev = e /\ Data(e).ev = e /\ event(e).ev = e
            /\ Header(e).k # "result" /\ Data(e).k # "result" /\ event(e).k # "result"
        BY EventItems
      <4>1. CASE h.k = "event"
        <5>1. PICK gone \in BOOLEAN : dout' = EventLines(h.ev, gone)
          BY <1>3, <2>1, <4>1 DEF WriterTakes
        <5>2. h.ev \in Events /\ h.ev # e
          BY <2>4, <2>7, <4>1, DownKinds
        <5>3. \A x : In(dout', x) => x \in {Header(h.ev), Data(h.ev), event(h.ev)}
          BY <5>1, <5>2, EventLinesAre
        <5>4. Header(h.ev).ev = h.ev /\ Data(h.ev).ev = h.ev /\ event(h.ev).ev = h.ev
          BY <5>2, EventItems
        <5> QED BY <4>0, <5>2, <5>3, <5>4
      <4>2. CASE h.k # "event"
        <5>1. dout' = <<h>> /\ h.k = "result"
          <6>1. dout' = <<h>>
            BY <1>3, <2>1, <4>2 DEF WriterTakes
          <6>2. h.k = "result"
            BY <2>3, <4>2 DEF Notices, Results
          <6> QED BY <6>1, <6>2
        <5>2. \A x : In(<<h>>, x) => x = h
          BY InShort
        <5> QED BY <4>0, <5>1, <5>2
      <4> QED BY <4>1, <4>2
    <3> QED BY <1>1, <2>0, <2>5, <3>1, OthersKeep
  <2> QED BY <2>6, <2>7
<1> QED BY <1>2, <1>3

\* Matrix brings an event.
LEMMA DispatchKeeps ==
    ASSUME Base, [Next]_vars, NEW e \in Events, Known(e), NEW f \in Events, Dispatch(f)
    PROVE  StaysKnown(e)
<1>1. DaemonSide
  BY DEF DaemonSide
<1>2. /\ UNCHANGED <<down, dout, flushing, handler>> /\ f \notin seen /\ seen' = seen \cup {f}
      /\ queue' = queue \/ (Claimed /\ queue' = Append(queue, event(f)))
  BY DEF Dispatch, socket
<1>3. UNCHANGED <<evs, serve, out, inbox, receiving, paths, handed, pEnd>>
  BY <1>1, Sides DEF plugin, files
<1>4. event(f) \in Notices \cup Results /\ event(f).ev = f /\ event(e).ev = e
      /\ queue \in Seq(Notices \cup Results)
  BY EventItems DEF Base, DaemonTyped
<1>5. \A x : In(Append(queue, event(f)), x) <=> In(queue, x) \/ x = event(f)
  BY <1>4, InAppend
<1>6. Claimed' <=> Claimed
  BY <1>2 DEF Claimed
<1>7. StillKnown(e)
  BY <1>2, <1>6 DEF StillKnown
<1>8. CASE f # e \/ queue' = queue
  <2>1. In(queue', event(e)) => In(queue, event(e))
    BY <1>2, <1>4, <1>5, <1>8
  <2>2. StillDown(e)
    BY <1>2, <2>1 DEF StillDown, Has
  <2>3. pEnd => Backed(e)'
    BY <1>2, <1>3, StillFrames DEF Known, Live, Backed
  <2> QED BY <1>1, <1>7, <2>2, <2>3, DaemonKeeps
<1>9. CASE f = e /\ queue' # queue
  <2>1. Claimed /\ e \notin seen /\ e \in seen'
    BY <1>2, <1>9
  <2>2. Settled(e)' => Settled(e)
    BY <1>3, EvsStay, SettledStep
  <2>3. StillPlugin(e) /\ StillPump(e)
    BY <1>3, StillFrames
  <2>4. Held(e)'
    BY <1>3, <2>2, <2>3, StillHeld DEF Known
  <2>5. ASSUME pEnd PROVE Live(e)'
    <3>1. ~Coming(e) /\ e \notin paths /\ ~Past(e)
      BY <2>1, <2>5 DEF Known, Live
    <3>2. /\ ~Has(Header(e))' /\ ~Has(Data(e))' /\ ~Has(event(e))'
          /\ e \notin receiving' /\ e \notin paths' /\ e \notin flushing'
      BY <1>2, <1>3, <3>1 DEF Coming, Queued, Has
    <3>3. \A p \in BOOLEAN : ~Delivered(e, p)' /\ ~Pumped(e, p)'
      BY <2>3, <3>1 DEF Past, StillPump
    <3>4. ~Past(e)'
      BY <2>2, <3>1, <3>3 DEF Past
    <3> QED BY <2>1, <3>2, <3>3, <3>4 DEF Live
  <2> QED BY <1>3, <2>4, <2>5 DEF StaysKnown
<1> QED BY <1>8, <1>9

\* Where an event is, in every step.
LEMMA EventStep ==
    ASSUME Base, [Next]_vars, OrderInv, NEW e \in Events, Known(e)
    PROVE  Known(e)'
<1>1. StaysKnown(e)
  <2>1. CASE ServeRead
    BY <2>1, ReadOther, ReadOwn
  <2>2. CASE \E f \in Events : Dispatch(f)
    BY <2>2, DispatchKeeps
  <2>3. CASE EndHandler \/ Shutdown \/ Crash
    <3>1. DaemonSide /\ (HandlerEnds \/ Crash)
      BY <2>3 DEF DaemonSide, EndHandler, Shutdown
    <3> QED BY <3>1, LossKeeps
  <2>4. CASE ServeWriteFails \/ ServeFileFails \/ ServeEof \/ PluginStops
    <3>1. EndServe \/ PluginStops
      BY <2>4 DEF ServeWriteFails, ServeFileFails, ServeEof
    <3> QED BY <3>1, EndKeeps
  <2>5. CASE Connect \/ Deliver \/ Notify \/ WriteDown \/ FlushEvent \/ WriterTakes
    BY <2>5, ConnectKeeps, DeliverKeeps, NotifyKeeps, WriteKeeps, TakingKeeps
  <2>6. CASE \/ Caller \/ ConnectFails \/ FailFast \/ ServeTake \/ ServeWrite \/ PumpAck
             \/ UNCHANGED vars
    BY <2>6, CallsKeep
  <2>7. CASE \/ FlushDone \/ WriterFails \/ ReadLine \/ Execute \/ SendResult
             \/ DeleteFile \/ Release \/ Sweep
    BY <2>7, QuietKeeps
  <2> QED BY <2>1, <2>2, <2>3, <2>4, <2>5, <2>6, <2>7 DEF Next
<1>2. NotAgain(e)'
  BY NotAgainStep DEF Known
<1>3. ~pEnd' => Away(e)'
  BY AwayStep DEF Known
<1> QED BY <1>1, <1>2, <1>3 DEF Known, StaysKnown

PathInv == OrderInv /\ \A e \in Events : Known(e)

\* The path the model was told with an event, once its delivery is acknowledged, names
\* the whole attachment, whatever deliveries of it broke off before.
THEOREM PathsAreWhole == Spec => []PathIsWhole
<1>1. Init => PathInv
  <2> SUFFICES ASSUME Init PROVE PathInv
    OBVIOUS
  <2>1. OrderInv
    BY OrderedShort DEF Init, OrderInv
  <2>2. ASSUME NEW e \in Events PROVE Known(e)
    <3>1. /\ tx = <<>> /\ evs = <<>> /\ up = <<>> /\ pump = none /\ serve = "start"
          /\ acked = {} /\ inflight = {} /\ backlog = {} /\ receiving = {} /\ paths = {}
          /\ pEnd = FALSE
      BY DEF Init
    <3>2. \A x : ~In(<<>>, x)
      BY InShort
    <3>3. ~Settled(e)
      BY <3>1, <3>2, FreshAckIs DEF Settled, FreshAck
    <3>4. Away(e)
      BY <3>1, <3>2, FreshAckIs DEF Away, Pumped
    <3> QED BY <3>1, <3>3, <3>4 DEF Known, Held, NotAgain
  <2> QED BY <2>1, <2>2 DEF PathInv
<1>2. Base /\ PathInv /\ [Next]_vars => PathInv'
  <2> SUFFICES ASSUME Base, PathInv, [Next]_vars PROVE PathInv'
    OBVIOUS
  <2>1. OrderInv'
    BY OrderStep DEF PathInv, Known
  <2>2. \A e \in Events : Known(e)'
    BY EventStep DEF PathInv
  <2>3. Events' = Events
    BY DEF Events
  <2> QED BY <2>1, <2>2, <2>3 DEF PathInv
<1>3. Base /\ PathInv => PathIsWhole
  <2> SUFFICES ASSUME Base, PathInv, NEW e \in (handed \cap acked) \ stale
               PROVE  inbox[e] = 1
    BY DEF PathIsWhole
  <2>1. e \in Events
    BY DEF Base, DaemonTyped
  <2> QED BY <2>1 DEF PathInv, Known, Held, Settled
<1> QED BY <1>1, <1>2, <1>3, BaseAlways, PTL DEF Spec

----------------------------------------------------------------------------
(* The bounds of the channels, and the types. *)

(***************************************************************************)
(* What Base does not say of TypeOK: no channel holds more than it can.    *)
(***************************************************************************)
PluginBounds ==
    /\ media \subseteq Events /\ Len(tx) <= TxCap /\ Len(evs) <= EventsCap
    /\ receiving \subseteq Events /\ paths \subseteq Events /\ handed \subseteq Events
    /\ pEnd \in BOOLEAN

SocketBounds == Len(up) <= WireCap /\ Len(down) <= WireCap

DaemonBounds ==
    /\ seen \subseteq Events /\ stale \subseteq Events
    /\ dEnd \in BOOLEAN /\ writer \in BOOLEAN /\ Len(queue) <= QueueCap
    /\ failed \subseteq Ids

Bounds == PluginBounds /\ SocketBounds /\ DaemonBounds /\ stops \in 0..MaxStops

\* How long a channel is after a step.
LEMMA Lengths ==
    ASSUME NEW S, NEW s \in Seq(S), NEW n \in Nat, Len(s) <= n
    PROVE  /\ Len(<<>>) <= n
           /\ s # <<>> => Len(Tail(s)) <= n
           /\ \A y \in S : Len(s) < n => Len(Append(s, y)) <= n
<1>1. Len(s) \in Nat
  BY LenProperties
<1>2. s # <<>> => Len(Tail(s)) = Len(s) - 1
  BY HeadAndTail
<1>3. \A y \in S : Len(Append(s, y)) = Len(s) + 1
  BY AppendProperties
<1> QED BY <1>1, <1>2, <1>3

\* The caps of the channels are numbers.
LEMMA Caps == {TxCap, EventsCap, QueueCap, WireCap, MaxStops} \subseteq Nat
BY LinkAssumption

\* The plugin's channels stay within their caps.
LEMMA PluginBoundsStep ==
    ASSUME Base, [Next]_vars, PluginBounds
    PROVE  PluginBounds'
<1>0. /\ tx \in Seq(Calls \cup Acks) /\ evs \in Seq(Inbounds) /\ pump \in Acks \cup {none}
      /\ Len(tx) <= TxCap /\ Len(evs) <= EventsCap
  BY DEF Base, PluginTyped, PluginBounds
<1>l. /\ Len(<<>>) <= TxCap /\ Len(<<>>) <= EventsCap
      /\ tx # <<>> => Len(Tail(tx)) <= TxCap
      /\ evs # <<>> => Len(Tail(evs)) <= EventsCap
      /\ \A y \in Calls \cup Acks : Len(tx) < TxCap => Len(Append(tx, y)) <= TxCap
      /\ \A y \in Inbounds : Len(evs) < EventsCap => Len(Append(evs, y)) <= EventsCap
  <2>1. TxCap \in Nat /\ EventsCap \in Nat
    BY Caps
  <2> QED BY <1>0, <2>1, Lengths
<1>e. Events' = Events
  BY DEF Events
<1>1. CASE Len(tx') <= TxCap /\ Len(evs') <= EventsCap /\ pEnd' \in BOOLEAN
           /\ UNCHANGED <<media, handed>> /\ receiving' \subseteq Events /\ paths' \subseteq Events
  BY <1>1, <1>e DEF PluginBounds
<1>2. CASE DaemonSide \/ UNCHANGED vars
  <2>1. UNCHANGED <<media, tx, evs, receiving, paths, handed, pEnd>>
    BY <1>2, Sides DEF vars, plugin, files, socket
  <2> QED BY <2>1, <1>e DEF PluginBounds
<1>3. CASE Connect \/ ConnectFails \/ FailFast \/ ServeTake \/ ServeWrite
  <2>1. /\ UNCHANGED <<media, evs, receiving, paths, handed>> /\ pEnd' \in {pEnd, TRUE}
        /\ tx' = tx \/ (tx # <<>> /\ tx' = Tail(tx))
    BY <1>3 DEF Connect, ConnectFails, FailFast, ServeTake, ServeWrite, files, socket
  <2> QED BY <1>0, <1>1, <1>l, <2>1 DEF PluginBounds
<1>4. CASE Caller \/ PumpAck
  <2>1. /\ UNCHANGED <<media, evs, receiving, paths, handed, pEnd>>
        /\ \/ tx' = tx
           \/ Len(tx) < TxCap /\ \E c \in Calls \cup Acks : tx' = Append(tx, c)
    <3>1. CASE Caller
      BY <3>1 DEF Caller, Submit, EnterTx, TimeOut, files, socket
    <3>2. CASE PumpAck
      <4>1. pump \in Calls \cup Acks
        BY <1>0, <3>2 DEF PumpAck
      <4> QED BY <3>2, <4>1 DEF PumpAck, files, socket
    <3> QED BY <1>4, <3>1, <3>2
  <2> QED BY <1>0, <1>1, <1>l, <2>1 DEF PluginBounds
<1>5. CASE EndServe /\ UNCHANGED media
  <2>1. /\ tx' = [i \in 1..Len(tx) |-> Aged(tx[i])] /\ evs' = [i \in 1..Len(evs) |-> Aged(evs[i])]
        /\ receiving' = {} /\ paths' = {} /\ handed' = handed /\ pEnd' = FALSE
    BY <1>5 DEF EndServe, Aborted
  <2>2. Len(tx') = Len(tx) /\ Len(evs') = Len(evs)
    BY <2>1, AgedSeqs
  <2> QED BY <1>0, <1>1, <1>5, <2>1, <2>2
<1>6. CASE ServeRead
  <2>1. /\ UNCHANGED <<media, tx, evs, handed, pEnd>>
        /\ \/ UNCHANGED <<receiving, paths>>
           \/ receiving' = receiving /\ \E f : paths' = paths \ {f}
           \/ \E f \in Events : ReceiveHeader(f) \/ ReceiveData(f)
    <3>1. Head(down) \in DownLines
      BY <1>6, HeadAndTail DEF Base, DaemonTyped, ServeRead
    <3>2. Head(down).k # "result" => Head(down).ev \in Events
      BY <3>1, DownKinds
    <3> QED BY <1>6, <3>2 DEF ServeRead
  <2>2. receiving' \subseteq Events /\ paths' \subseteq Events
    BY <2>1 DEF PluginBounds, ReceiveHeader, ReceiveData
  <2> QED BY <1>0, <1>1, <2>1, <2>2 DEF PluginBounds
<1>7. CASE Deliver
  <2>1. PICK m \in Inbounds : out = <<m>>
    BY <1>7 DEF Base, Writing, Deliver
  <2>2. /\ UNCHANGED <<media, tx, receiving, paths, handed, pEnd>>
        /\ Len(evs) < EventsCap /\ evs' = Append(evs, m)
    BY <1>7, <2>1 DEF Deliver, files, socket
  <2> QED BY <1>0, <1>1, <1>l, <2>2 DEF PluginBounds
<1>8. CASE Notify
  <2>1. PICK it : it = Head(evs)
    OBVIOUS
  <2>2. it \in Inbounds
    BY <1>0, <1>8, <2>1, HeadAndTail DEF Notify
  <2>3. it.ev \in Events /\ ack(it.ev, it.old) \in Calls \cup Acks
    BY <2>2 DEF Inbounds, Acks, ack
  <2>4. /\ UNCHANGED <<media, receiving, paths, pEnd>> /\ evs # <<>> /\ evs' = Tail(evs)
        /\ handed' = IF it.path THEN handed \cup {it.ev} ELSE handed \ {it.ev}
        /\ tx' = tx \/ (Len(tx) < TxCap /\ tx' = Append(tx, ack(it.ev, it.old)))
    BY <1>8, <2>1 DEF Notify, socket
  <2>5. handed' \subseteq Events
    BY <2>3, <2>4 DEF PluginBounds
  <2>6. Len(tx') <= TxCap
    BY <1>0, <1>l, <2>3, <2>4
  <2> QED BY <1>l, <1>e, <2>4, <2>5, <2>6 DEF PluginBounds
<1>9. CASE PluginStops
  <2>1. /\ tx' = <<>> /\ evs' = <<>> /\ receiving' = {} /\ paths' = {} /\ UNCHANGED <<media, handed>>
        /\ pEnd' = FALSE
    BY <1>9 DEF PluginStops
  <2> QED BY <1>1, <1>l, <2>1
<1> QED BY <1>2, <1>3, <1>4, <1>5, <1>6, <1>7, <1>8, <1>9, Sides
    DEF PluginSide, ServeWriteFails, ServeFileFails, ServeEof

\* So do the two directions of the socket.
LEMMA SocketBoundsStep ==
    ASSUME Base, [Next]_vars, SocketBounds
    PROVE  SocketBounds'
<1>0. /\ up \in Seq(UpLines) /\ down \in Seq(DownLines) /\ dout \in Seq(DownLines)
      /\ Len(up) <= WireCap /\ Len(down) <= WireCap
  BY DEF Base, DaemonTyped, SocketBounds
<1>l. /\ Len(<<>>) <= WireCap
      /\ up # <<>> => Len(Tail(up)) <= WireCap
      /\ down # <<>> => Len(Tail(down)) <= WireCap
      /\ \A y \in UpLines : Len(up) < WireCap => Len(Append(up, y)) <= WireCap
      /\ \A y \in DownLines : Len(down) < WireCap => Len(Append(down, y)) <= WireCap
  <2>1. WireCap \in Nat
    BY Caps
  <2> QED BY <1>0, <2>1, Lengths
<1>1. CASE Connect \/ PluginStops
  <2>1. down' = <<>> /\ (up' = <<>> \/ up' = up)
    BY <1>1 DEF Connect, PluginStops
  <2> QED BY <1>0, <1>l, <2>1 DEF SocketBounds
<1>2. CASE EndServe /\ UNCHANGED up
  <2>1. down' = <<>>
    BY <1>2 DEF EndServe, Aborted
  <2> QED BY <1>0, <1>l, <1>2, <2>1 DEF SocketBounds
<1>3. CASE ServeWrite
  <2>1. serve = "write" /\ Len(up) < WireCap /\ up' = Append(up, Head(out)) /\ down' = down
    BY <1>3 DEF ServeWrite
  <2>2. Head(out) \in UpLines
    <3>1. CASE cur = none
      <4>1. PICK a \in Acks : out = <<a>>
        BY <2>1, <3>1 DEF Base, Writing
      <4> QED BY <4>1 DEF UpLines
    <3>2. CASE cur # none
      <4>1. out \in Seq(UpLines) /\ Len(out) > 0
        BY <2>1, <3>2 DEF Base, Writing
      <4> QED BY <4>1, HeadAndTail, EmptySeq
    <3> QED BY <3>1, <3>2
  <2> QED BY <1>0, <1>l, <2>1, <2>2 DEF SocketBounds
<1>4. CASE ServeRead
  <2>1. down # <<>> /\ down' = Tail(down) /\ up' = up
    BY <1>4 DEF ServeRead
  <2> QED BY <1>0, <1>l, <2>1 DEF SocketBounds
<1>5. CASE WriteDown
  <2>1. dout # <<>> /\ Len(down) < WireCap /\ down' = Append(down, Head(dout)) /\ up' = up
    BY <1>5 DEF WriteDown
  <2>2. Head(dout) \in DownLines
    BY <1>0, <2>1, HeadAndTail
  <2> QED BY <1>0, <1>l, <2>1, <2>2 DEF SocketBounds
<1>6. CASE ReadLine
  <2>1. up # <<>> /\ up' = Tail(up) /\ down' = down
    BY <1>6 DEF ReadLine
  <2> QED BY <1>0, <1>l, <2>1 DEF SocketBounds
<1>7. CASE HandlerEnds \/ Crash
  <2>1. up' = <<>> /\ down' = down
    BY <1>7 DEF HandlerEnds, Crash
  <2> QED BY <1>0, <1>l, <2>1 DEF SocketBounds
<1>8. CASE \/ Caller \/ ConnectFails \/ FailFast \/ ServeTake \/ Deliver \/ Notify \/ PumpAck
           \/ (\E e \in Events : Dispatch(e)) \/ FlushEvent \/ FlushDone \/ WriterTakes
           \/ WriterFails \/ Execute \/ SendResult \/ DeleteFile \/ Release \/ Sweep
           \/ UNCHANGED vars
  <2>1. UNCHANGED <<up, down>>
    BY <1>8 DEF Caller, Submit, EnterTx, TimeOut, ConnectFails, FailFast, ServeTake, Deliver,
       Notify, PumpAck, Dispatch, FlushEvent, FlushDone, WriterTakes, WriterFails, Execute,
       SendResult, DeleteFile, Release, Sweep, vars, socket
  <2> QED BY <1>0, <2>1 DEF SocketBounds
<1> QED BY <1>1, <1>2, <1>3, <1>4, <1>5, <1>6, <1>7, <1>8
    DEF Next, ServeWriteFails, ServeFileFails, ServeEof, EndHandler, Shutdown

\* And the daemon's queue.
LEMMA DaemonBoundsStep ==
    ASSUME Base, [Next]_vars, DaemonBounds
    PROVE  DaemonBounds'
<1>0. queue \in Seq(Notices \cup Results) /\ Len(queue) <= QueueCap
  BY DEF Base, DaemonTyped, DaemonBounds
<1>l. /\ Len(<<>>) <= QueueCap
      /\ queue # <<>> => Len(Tail(queue)) <= QueueCap
      /\ \A y \in Notices \cup Results : Len(queue) < QueueCap => Len(Append(queue, y)) <= QueueCap
  <2>1. QueueCap \in Nat
    BY Caps
  <2> QED BY <1>0, <2>1, Lengths
<1>e. Events' = Events /\ Ids' = Ids
  BY DEF Events, Ids
<1>1. ASSUME seen' \subseteq Events, stale' \subseteq Events, dEnd' \in BOOLEAN,
             writer' \in BOOLEAN, Len(queue') <= QueueCap, failed' \subseteq Ids
      PROVE  DaemonBounds'
  BY <1>1, <1>e DEF DaemonBounds
<1>2. CASE PluginSide \/ UNCHANGED vars
  <2>1. UNCHANGED <<seen, stale, dEnd, writer, queue, failed>>
    BY <1>2, Sides DEF vars, daemon, waiting, spool, socket
  <2> QED BY <1>1, <2>1 DEF DaemonBounds
<1>3. CASE Connect
  <2>1. UNCHANGED <<seen, stale, writer, queue, failed>> /\ dEnd' = TRUE
    BY <1>3 DEF Connect, spool
  <2> QED BY <1>1, <2>1 DEF DaemonBounds
<1>4. ASSUME NEW e \in Events, Dispatch(e) PROVE DaemonBounds'
  <2>1. /\ UNCHANGED <<stale, dEnd, writer, failed>> /\ seen' = seen \cup {e}
        /\ queue' = queue \/ (Len(queue) < QueueCap /\ queue' = Append(queue, event(e)))
    BY <1>4 DEF Dispatch, spool, socket
  <2>2. event(e) \in Notices \cup Results
    BY Constructors
  <2> QED BY <1>0, <1>1, <1>l, <2>1, <2>2 DEF DaemonBounds
<1>5. CASE SendResult
  <2>1. /\ UNCHANGED <<seen, stale, dEnd, writer, failed>> /\ handler = "result"
        /\ Len(queue) < QueueCap /\ queue' = Append(queue, job)
    BY <1>5 DEF SendResult, spool, socket, waiting
  <2>2. job \in Notices \cup Results
    BY <2>1 DEF Base, DaemonTyped
  <2> QED BY <1>1, <1>l, <2>1, <2>2 DEF DaemonBounds
<1>6. CASE WriterTakes
  <2>1. UNCHANGED <<seen, stale, dEnd, writer, failed>> /\ queue # <<>> /\ queue' = Tail(queue)
    BY <1>6 DEF WriterTakes, spool, socket, waiting
  <2> QED BY <1>1, <1>l, <2>1 DEF DaemonBounds
<1>7. CASE ReadLine
  <2>0. PICK line : line = Head(up)
    OBVIOUS
  <2>1. line \in UpLines
    BY <1>7, <2>0, HeadAndTail DEF Base, DaemonTyped, ReadLine
  <2>2. UNCHANGED <<seen, dEnd, writer, queue>>
    BY <1>7 DEF ReadLine
  <2>3. CASE line.k = "ack"
    <3>1. /\ failed' = failed /\ line.ev \in Events
          /\ stale' \in {stale \cup ({line.ev} \cap inflight), stale \ {line.ev}}
      BY <1>7, <2>0, <2>1, <2>3, UpKinds DEF ReadLine
    <3> QED BY <1>1, <2>2, <3>1 DEF DaemonBounds
  <2>4. CASE line.k # "ack"
    <3>1. line.id \in Ids
      BY <2>1, <2>4, UpKinds
    <3>2. stale' = stale /\ failed' \in {failed, failed \cup {line.id}, failed \ {line.id}}
      BY <1>7, <2>0, <2>4 DEF ReadLine, Begin, Chunk, End
    <3> QED BY <1>1, <2>2, <3>1, <3>2 DEF DaemonBounds
  <2> QED BY <2>3, <2>4
<1>8. CASE HandlerEnds \/ Crash
  <2>1. /\ queue' = <<>> /\ failed' = {} /\ writer' = FALSE /\ dEnd' = FALSE /\ stale' = stale
        /\ seen' = seen \/ seen' = acked
    BY <1>8 DEF HandlerEnds, Crash, waiting
  <2>2. acked \subseteq Events
    BY DEF Base, DaemonTyped
  <2> QED BY <1>1, <1>l, <2>1, <2>2 DEF DaemonBounds
<1>9. CASE \/ WriteDown \/ FlushEvent \/ FlushDone \/ WriterFails \/ Execute \/ DeleteFile
           \/ Release \/ Sweep
  <2>1. UNCHANGED <<seen, stale, dEnd, queue, failed>> /\ writer' \in {writer, TRUE, FALSE}
    BY <1>9 DEF WriteDown, FlushEvent, FlushDone, WriterFails, Execute, DeleteFile, Release,
       Sweep, spool, socket, daemon, waiting
  <2> QED BY <1>1, <2>1 DEF DaemonBounds
<1> QED BY <1>2, <1>3, <1>4, <1>5, <1>6, <1>7, <1>8, <1>9, Sides
    DEF DaemonSide, EndHandler, Shutdown

\* Either process stops as often as the bound allows.
LEMMA StopsStep ==
    ASSUME [Next]_vars, stops \in 0..MaxStops
    PROVE  stops' \in 0..MaxStops
<1>1. MaxStops \in Nat
  BY Caps
<1>2. stops' = stops \/ (stops < MaxStops /\ stops' = stops + 1)
  BY DEF Next, Caller, Submit, EnterTx, TimeOut, Connect, ConnectFails, FailFast, ServeTake,
     ServeWrite, ServeWriteFails, ServeFileFails, ServeEof, ServeRead, Deliver, Notify, PumpAck,
     PluginStops, Dispatch, WriteDown, FlushEvent, FlushDone, WriterTakes, WriterFails, ReadLine,
     Execute, SendResult, EndHandler, Shutdown, DeleteFile, Release, Crash, Sweep, vars, bounds
<1> QED BY <1>1, <1>2

\* Every variable of Link keeps its type, and no channel, queue or direction of the
\* socket ever holds more than it can.
THEOREM LinkTyped == Spec => []TypeOK
<1>1. Init => Bounds
  <2> SUFFICES ASSUME Init PROVE Bounds
    OBVIOUS
  <2>1. Len(<<>>) = 0 /\ {TxCap, EventsCap, QueueCap, WireCap, MaxStops} \subseteq Nat
    BY Caps
  <2>2. PluginBounds
    <3>1. pEnd \in BOOLEAN
      BY DEF Init
    <3>2. /\ media \subseteq Events /\ Len(tx) <= TxCap /\ Len(evs) <= EventsCap
          /\ receiving \subseteq Events /\ paths \subseteq Events /\ handed \subseteq Events
      BY <2>1 DEF Init
    <3> QED BY <3>1, <3>2 DEF PluginBounds
  <2>3. SocketBounds
    BY <2>1 DEF Init, SocketBounds
  <2>4. DaemonBounds
    <3>1. dEnd \in BOOLEAN /\ writer \in BOOLEAN
      BY DEF Init
    <3>2. /\ seen \subseteq Events /\ stale \subseteq Events /\ Len(queue) <= QueueCap
          /\ failed \subseteq Ids
      BY <2>1 DEF Init
    <3> QED BY <3>1, <3>2 DEF DaemonBounds
  <2>5. stops \in 0..MaxStops
    BY <2>1 DEF Init
  <2> QED BY <2>2, <2>3, <2>4, <2>5 DEF Bounds
<1>2. Base /\ Bounds /\ [Next]_vars => Bounds'
  BY PluginBoundsStep, SocketBoundsStep, DaemonBoundsStep, StopsStep DEF Bounds
<1>3. Base /\ Bounds => TypeOK
  <2> SUFFICES ASSUME Base, Bounds PROVE TypeOK
    OBVIOUS
  <2>1. (serve \in {"write", "deliver"}) = (out # <<>>)
    <3>1. serve \in {"write", "deliver"} => out # <<>>
      <4>1. serve = "write" /\ cur = none => out # <<>>
        BY DEF Base, Writing
      <4>2. serve = "write" /\ cur # none => out # <<>>
        BY EmptySeq DEF Base, Writing
      <4>3. serve = "deliver" => out # <<>>
        BY DEF Base, Writing
      <4> QED BY <4>1, <4>2, <4>3
    <3>2. serve \notin {"write", "deliver"} => out = <<>>
      BY DEF Base, Writing
    <3> QED BY <3>1, <3>2
  <2>2. nextId \in 1..(Cardinality(Calls) + 1)
    <3>1. Cardinality(Calls) \in Nat /\ Cardinality(Left) \in Nat
      <4>1. IsFiniteSet(Calls) /\ Left \subseteq Calls
        BY LinkAssumption DEF Left
      <4> QED BY <4>1, FS_CardinalityType, FS_Subset
    <3> QED BY <3>1 DEF Base, Counted, PluginTyped
  <2>3. UNION {receiving, paths, handed, flushing, backlog, inflight, acked, seen, stale} \subseteq Events
    BY DEF Base, DaemonTyped, Bounds, PluginBounds, DaemonBounds
  <2>4. /\ call \in [Calls -> {"new", "sending", "waiting", "ok", "refused", "local",
                           "unsent", "lost", "timeout", "gone"}]
        /\ size \in [Calls -> {none} \cup Sizes]
        /\ serve \in {"start", "down", "select", "write", "deliver"}
        /\ cur \in Calls \cup {none} /\ pending \in [Ids -> Calls \cup {none}]
    BY DEF Base, PluginTyped, CallStates
  <2>5. /\ inbox \in [Events -> {none, 0, 1}]
        /\ handler \in {"none", "flush", "read", "exec", "result", "cleanup"}
        /\ verdict \in [Calls -> {"ok", "err", none}] /\ ran \in [Calls -> Nat]
    BY DEF Base, DaemonTyped
  <2>6. /\ open \in [Ids -> {none} \cup Transfers] /\ received \subseteq Ids
        /\ cleanup \subseteq Ids /\ orphans \subseteq Ids /\ disk \in [Ids -> {none} \cup Seq(Calls)]
    BY DEF Base, SpoolTyped
  <2> QED BY <2>1, <2>2, <2>3, <2>4, <2>5, <2>6
      DEF TypeOK, Bounds, PluginBounds, SocketBounds, DaemonBounds
<1> QED BY <1>1, <1>2, <1>3, BaseAlways, PTL DEF Spec
=============================================================================
