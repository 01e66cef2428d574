# Verification of silta

silta connects Matrix rooms to sessions of Claude Code. This directory holds TLA+
models of its core, the TLC runs that check them on small instances, and TLAPS proofs of
every safety property the passing runs check, for any size. Paths below are relative to
`src/crates/`.

## The system

Three programs and a shared library:

- **siltad**, the daemon: one Matrix account, one homeserver connection, a Unix socket
  for the plugins.
- **silta-claude**, the plugin (an MCP server) that each Claude Code session runs. It
  connects to siltad's socket, passes messages to the model and its commands back.
- **silta-session**, the supervisor of one session: starts `claude`, watches its stream,
  and rotates the conversation when its context grows.
- **silta**, the library: protocol, routing, backlog, alert bookkeeping, replay verdict,
  file transfer.

### Inventory

| component | state | operations | what makes it correct |
|---|---|---|---|
| backlog (`silta/src/backlog.rs`) | a deque of (timestamp, event) | push, drain, restore, eviction by count and age | nothing evicted below a limit, order kept |
| registry (`siltad/src/daemon.rs`, Registry, Claim) | three maps under three mutexes: claimed connection, backlog, in flight | claim, deliver, enqueue, take_backlog, ack, restore on drop | one connection per session; an event is somewhere until acknowledged or logged as lost, and only once |
| connection handler (`siltad/src/server.rs`) | per connection: a bounded queue, a writer task, open transfers | hello, flush of the backlog, read loop, end | every exit releases the session and restores what was not acknowledged |
| admission (`silta/src/replay.rs`, `siltad/src/matrix.rs`, Marks) | a watermark per room, in memory and in `delivered.json` | verdict, get, set, load | no message acknowledged is delivered again, none unacknowledged is skipped |
| alerts (`silta/src/alert.rs`, `siltad/src/alert.rs`) | per session: away since, alerted at, silent at | connected, disconnected, tick, silent | an outage that lasts is reported, once per interval, and its end is announced once |
| typing (`siltad/src/daemon.rs`, `outbound.rs`) | per room: generation, cancellation token, watch flag | typing_start, typing_stop, refresh task | one refresher per room, the indicator ends, silence is reported when there was silence |
| spool (`siltad/src/spool.rs`) | files | download, removal at the acknowledgement, daily sweep | the file outlives every delivery of its event |
| rotation (`silta-session`) | tracker in memory; id, marker, `rotation.json`, transcripts on disk | plan_start, run_once, the tracker's events, clear_rotation, the emergency run | the conversation is given up only after the attempts are spent, across restarts; an emergency run sends its line once and drops nothing |
| state directory (`siltad/src/session.rs`, `backup.rs`, `main.rs`) | lock, `session.json`, encryption store, cross-signing keys; stamped copies | start, login or restore, reset-cross-signing, backup, prune | one store is of one device, a reset is not repeated, the kept copies are whole |
| routing (`silta/src/config.rs`) | read-only configuration | inbound, may_send, may_read, owns_room | the rules agree: who gets a room's messages may answer them, nobody else reads them |
| outbound (`siltad/src/outbound.rs`, `silta/src/text.rs`) | none of its own; the room's timeline | reply and its splitting, react, edit, send_file, fetch, search | a split reply stays together and says what its text says, a history read in pages is complete |
| transfers (`silta/src/transfer.rs`) | open incoming files | begin, chunk, end, abort_all | a file is whole or refused, and none is left behind |
| plugin (`silta-claude/src/daemon.rs`) | pending commands, reconnect backoff, an inbox of attachments | serve, command, acknowledgement, receiving files | an answer reaches its own call, no command runs twice, no call waits for ever, a path told to the model names a whole file |

Interactions: a Matrix sync callback admits an event (Marks), downloads its attachment
(spool) and dispatches it (registry). The handler of the session's connection takes the
backlog, writes events to the plugin, and on an acknowledgement removes the event from
the in-flight list, moves the watermark, deletes the spool file and starts the typing
indicator, whose task also watches for silence and reports it to the alerts' watcher.
A send by the session stops the indicator. The supervisor talks to neither: it owns the
`claude` process whose plugin connects to the daemon.

Hard behaviours: the registry's maps are locked one after another, never together, so a
dispatch, a claim and a release interleave between critical sections; connections break
at any write; acknowledgements are repeated or late; `delivered.json` is written outside the
lock and the daemon can stop at any point; refresh tasks live on after their
cancellation; plugin and daemon write to each other through bounded buffers and count
their commands from 1 on every connection; a room's timeline grows while it is read and
answered; the supervisor must count attempts across the restarts they cause; the daemon can
be killed between a login and the record of it, and is copied while it runs. The list with
its lines is under "hazards" in `PROJECT.json`.

## Modules

| module | models | steps |
|---|---|---|
| `Backlog` | `backlog.rs` as operators on sequences: `push`, `drain`, `restore`, `EvictExpired`, `KeepNewest` | pure |
| `Registry` (extends `Backlog`) | one session of the registry, `dispatch`, `acked`, `server::handle`, `write_loop`, the attachment download and the spool sweep | one per critical section or await |
| `Delivery` | nothing of the code: what a session may rely on, as four sets (kept, acked, lost, given); `Registry` implements it | one per promise |
| `Marks` | admission, `replay::verdict`, `Marks::set` with the file's truncation, write and rename, restarts | one per system call of the file write |
| `StateDir` (extends `Marks`) | the state directory: the daemon's start (`prepare_state_dir`, `build_client`, `login_or_restore`), `reset_cross_signing`, `backup` and `prune`, the operator's start over | one per file operation or homeserver request |
| `Presence` | `Watch`, the watcher task, the spawned sends, and the handler's calls | one per call, sends apart |
| `Typing` | one room's indicator: the calls of the read loop and every refresh task | one per lock, request or poll |
| `Link` | one plugin and its connection: calls, the plugin's connection task and its channels, both directions of the socket, the handler's read loop and writer, the `Receiver` at both ends, the spool's outbox and the plugin's inbox | one per line written or read, channel operation or file deletion |
| `Routing` | `config.rs`: `validate`, `inbound`, `may_send`, `may_read`, `owns_room` as operators | pure |
| `Text` | `chunk_text`: `paragraphs`, `split_lines`, `split_chars`, `append` and the loops of its body (`append_paragraph`, `append_lines`), on lines of characters of one or more bytes | pure |
| `Rooms` (extends `Routing`, `Text`) | the commands of `outbound.rs` on one room | one per homeserver request |
| `Rotation` | `Tracker`, `supervise`, `plan_start`, `run_once`, `Run`, the files of `state.rs`; the emergency mode, the window check and the exits that keep the unit down | one per event, file operation or process step |
| `RegistryProofs`, `StateDirProofs`, `PresenceProofs`, `TypingProofs`, `RotationProofs`, `TextProofs`, `RoomsProofs` (extends `TextProofs`), `LinkProofs` | theorems about the module of that name; `RegistryProofs` has the lemmas on `Backlog` and the refinement of `Delivery`, `StateDirProofs` the theorems on `Marks`, `RoomsProofs` the lemmas on `Routing` | |
| `MCRegistry`, `MCMarks`, `MCRooms` | instances for TLC | |

The header of each module says what its variables stand for. The registry's maps are
keyed by session and relate no two of them, so `Registry` and `Presence` are about one
session; `Marks` has several, because they share a file. `Typing` is about one room, whose
calls all come from one read loop, and so is `Rooms`. `Registry` and `Link` meet at the
connection: `Registry` follows every event through the connection's queue and leaves the
plugin open, `Link` follows every call and of the events their attachments and the room
they take on the socket. `StateDir` composes with `Marks`: `delivered.json` lies in the
directory it is about, `Marks`' steps are taken while the daemon is up, its restart is the
end of `StateDir`'s start, and a backup copies the file while it is replaced.

Data is abstracted: an event is its `event_id` with its timestamp, a watermark is the event
it was taken from, an alert its kind, time and outage, a session id a number, a file a
sequence of chunks that carry the call they belong to, a login the device keys it makes, a
text a sequence of lines of character widths, a place in a room's timeline the
event there and the pagination token before it. Undefined
or external behaviour is a choice: a write to a socket or a file succeeds or fails, the
plugin may acknowledge anything it was ever sent and as often as it likes, a Matrix
request changes the server's state or fails, `claude` ends turns, fails them and exits
when it likes. The file system is modelled as far as `Marks` needs it: a descriptor opened
on the temporary file follows that file through a rename by another session.

Definitions commented "Mutation" are deliberate faults of the definition that follows
them: no specification uses them. Each is the way a property was shown able to fail; the
list "mutants" of `PROJECT.json` pairs them.

## Runs

`tlc -workers 2 -config <run>.cfg <module>`; times are of two workers.

| run | instance | checks | states |
|---|---|---|---|
| `registry_safety` | 3 events (one with an attachment), 2 connections, backlog 2, queue 1, clock to 2 | `OneOwner`, `NothingVanishes`, `OnePlace`, `WithinLimits`, `SpoolKept`, `LostOnlyAtALimit`, `ImplementsDelivery` | 1.7 M, 2 min |
| `registry_live` | 2 events, 2 connections, one command, clock stopped | `EventuallySettled` | 2 min |
| `marks_restart` | 4 events in 2 rooms, two in one millisecond, one session, start times to 2; 3 commands, 2 logins, 2 identities, 2 backups, `--keep 1` | `MarksMeanAcked`, `AckedStaysCovered`, `MarksStayOnDisk`, `StoreIsOneDevice`, `CopiesAreWhole`, `NoRedelivery`, `IdentityReplacedOnce` | 4.0 M, 2.5 min |
| `presence_alerts` | grace 1, repeat 2, clock to 4, 2 outages, 2 silence reports | `AlertsAreSpaced`, `BackAnswersAway`, `AwayIsReal`, `AwayIsReported` | 1.3 M, 1 min |
| `typing_tasks` | cap of 1 poll, 4 calls | `OneRefresher`, `QuietWhenOver`, `ReportIsSilence`, `IndicatorEnds` | 30 k |
| `rotation` | 2 attempts, 2 ids, 1 mishap, 1 marker change, 1 emergency | `CountIsKept`, `SnapshotFirst`, `HandoffIsTrue`, `KeepsConversation`, `EmergencyDropsNothing`, `LineSentOnce`, `RotationEnds` | 1.3 M, 2.5 min |
| `link_calls` | 2 calls, with or without a file of 1 chunk that has 0 to 2 when it is streamed, every channel, queue and socket direction of 1, one stop or crash, one event with or without an attachment | `PathIsWhole`, `AnswerIsOwn`, `RunsOnce`, `FileIsWhole`, `SpoolAccounted`, `NoneForgotten` | 3.7 M, 2 min |
| `rooms` | 2 configurations, 5 memberships, 3 shapes, 3 events, replies of 2 messages, texts around a cap of 9 bytes, limits 1 and 2, 2 pages | `RoutingAgrees`, `HistoryExact`, `ReplyTogether`, `ReplySurvivesSplitting` | 3.4 M, 100 s |
| `registry_stranded`, `marks_sessions`, `presence_flush`, `link_hang` | small bounds | one property each, violated: see Divergences | |

`Registry`, `Marks`, `Presence`, `Typing`, `Rotation`, `Rooms` and `Link` have a type
invariant, `TypeOK`, kept for the reader and for the proofs; the
runs leave it out, since a slip of type shows in the properties they do check, and because
it is proved (below). Symmetry is used in `registry_safety` (connections), `marks_restart`
(the two messages of one millisecond) and `link_calls` (calls), none of which checks
liveness.

Why the bounds are enough. Registry: two connections are what a reconnection and its
predecessor need, since a third would wait for the name like the second; three events fill
a backlog of two and a queue of one past their limits, put one event in front of and one
behind another in each list, and the clock outlives the age limit and the spool's sweep.
Marks: the four events give an old and a new one per room and a tie; a window of 0 makes
the start time tell what is too old. State directory: three commands are an interrupted
one, its rerun and the daemon after it; two logins, a first one and one after the operator
started over; two backups, one that is pruned by the next. Presence: two outages
let the first one's alerts meet the second one's. Typing: four calls start four
generations at most, so a task can be outlived by two successors. Rotation: a mishap may
fall on any step, also of the recovery from a cut or a failed attempt; two ids give a
rotation, and the next one up to its fresh session. A marker is written or removed from
outside at any moment, beside the threshold that starts rotations by itself, and one
emergency may begin at any point of a rotation. Three ids (2.7 M states, 4 min), or two
marker changes without an emergency (1.6 M states, 3 min), show nothing else.
A transcript may in addition be lost whenever the unit is
down. Link: a bound of 1 makes every buffer full as early as it can be, two calls
overtake each other through a timeout and a new connection, one stop is enough for a
connection to follow another whose files carry the same names, and a file declared
as one chunk comes short, long or whole; one event is delivered again and again into one inbox file.
Rooms: three events let someone post between the messages of
a reply and between the pages of a reading, and pages be empty, full and last.
`CHECK_DEADLOCK FALSE` stands where the bounds on ids, calls, events or clock end every
behaviour;
the registry's runs check for deadlock.

### Fairness

- `Registry`: weak fairness of dispatches, handler steps and the writer, which the tokio
  runtime schedules; weak fairness of a connection's attempt to claim, as the plugin
  reconnects after its backoff; strong fairness of a successful welcome, of the end of a
  connection and of an acknowledgement of each event, which is assumed of the plugin and
  of the supervisor, whose rotations restart the session. `Calm`, a premise of
  `EventuallySettled`, says that from some time on no connection breaks during the flush
  and none claims the name while the claim before it is being undone. The plugin waits at
  least a second before it reconnects; without the premise that race can repeat for ever.
- `Presence`: weak fairness of the watcher (a 30 s interval and an await of its sends) and
  of the clock.
- `Typing`: weak fairness of each task's timers and requests, and of a call already begun.
- `Link` and `Rooms` are checked for safety only: how long the peer, the homeserver or the
  model takes is not the code's to say. What a wait needs in order to end is stated as an
  invariant (`NoneForgotten`).
- `Rotation`: weak fairness of the supervisor's loop together with the start of a unit that
  is down (systemd's restart, or the operator's after a stop or an emergency) and the exit
  of a `claude` that is being stopped (it is killed after a grace period), and weak fairness
  of the caps that bound every wait. Nothing is assumed of `claude`'s turns.
- `StateDir` and `Marks` are checked for safety only.

### What the properties mean

`NothingVanishes` and `OnePlace` together are conservation of events: from the end of its
dispatch an event is in exactly one of the backlog, the in-flight list, the hands of a
handler between two critical sections, the acknowledged and the lost.
`LostOnlyAtALimit` says what the last of these takes. `ImplementsDelivery` is what they
amount to from outside: `Delivery` knows only which events are kept, acknowledged, lost and
were given to the session, and every critical section of the registry is one of its steps
or none. The mapping takes `kept` to the four places an event waits in. An event is
acknowledged only while it is kept and after some connection wrote it, and neither an
acknowledgement nor a loss is ever taken back. `MarksStayOnDisk` holds for one
session with crashes anywhere, because of the rename; it does not hold for two.
`AckedStaysCovered` is about acknowledgements out of timestamp order. `NoRedelivery`
carries the exception the code has: only the mark's own event is recognised among events
of one millisecond. `KeepsConversation` is an action property: a step that replaces the
session id of a conversation that could be resumed finds all attempts spent. It and the
other properties of a rotation (`CountIsKept`, `SnapshotFirst`, `HandoffIsTrue`,
`RotationEnds`) hold while `rotation.json` is about the present rotation. It is not, and the
history variable `stale` says so, after a removal of it that failed and was ignored, and
after a marker was removed between `plan_start`'s look and `run_once`'s; that lasts until the
file is removed. `SnapshotFirst` says that the copy was tried before the handoff: the
code logs a copy that failed and goes on. `HandoffIsTrue` looks at when the note was written
(`noted`), not at which turn the tracker took for the handoff's.
`ReportIsSilence` carries one exception as well: a reply that broke off because its next
message could not be related.
`EmergencyDropsNothing` and `LineSentOnce` are about the one-turn run an operator starts
when a conversation cannot go on: its line is not sent again by a restart nobody asked for,
and unless the compaction went through the id and the pending rotation are as they were.

`StoreIsOneDevice` is what `build_client`'s refusal is for. It takes a kill between the
login and the writing of `session.json` to threaten it. `CopiesAreWhole` says that the
newest `--keep` copies are each of one device and one snapshot of the marks, through kills
of the daemon, of the backup and of its pruning; a copy begun before the first login was
saved, or during which the operator started over, is excepted (`early`).
`IdentityReplacedOnce` is about a reset that is run again after it was cut off: the identity
that this store's keys made the server take is tried before another is made.

`AnswerIsOwn` and `RunsOnce` are what a tool call may rely on: "ok" means that it was done,
"refused" that the daemon decided against it, "not connected" or an unreadable file that
nothing was done; after a timeout or a lost connection it may or may not have been, once.
`FileIsWhole` rests on the order of the handler's end: the files go before the name does,
and the next connection's first transfer is again called `t1`. `NoneForgotten` follows a
call from the channel to its answer and says that it is somewhere all the time.
`PathIsWhole` follows an attachment: every delivery of an event truncates the same file in
the inbox, so the path the model holds is good only because the event is delivered again
until a delivery is acknowledged. The acknowledgement of an earlier connection's delivery
breaks that link and is excepted (`stale`, see Divergences).
`RoutingAgrees` compares rules that are written apart from each other, in rooms whose people
are all registered or which a session lists; of a room that another session lists it says
nothing about reading. `HistoryExact` is
about a reading over several calls, each of which may overshoot its limit: the events
shown are all those between where it began and where its token stands.
`ReplySurvivesSplitting` compares `chunk_text` with definitions that say nothing of how it
cuts: every message fits and is not empty, each character comes once and in order, no
newline appears inside a line, and a paragraph that fits is in one message.

## Proofs

`tlapm <module>` on each of the eight `...Proofs` modules. Every theorem is about the
specification the runs check, for every value of its constants: any sets of events,
connections, sessions, people, calls and rooms, any limits, sizes, clocks and numbers of
crashes. What is assumed of the constants is stated where they are declared
(`BacklogAssumption`, `RegistryAssumption`, `LinkAssumption` and so on: limits are numbers,
a buffer has room for one line, a cap fits a character as `chunk_text` asserts, a text is a
sequence of lines, a record of one kind is none of another) and evaluated by
TLC on every run. An invariant is seldom inductive; what each proof adds to it, and why, is
said below.

**Registry** (`RegistryProofs`, which begins with lemmas on what `EvictExpired`,
`KeepNewest`, `push` and `restore` return: a suffix, so no element is doubled and none is
new; within the capacity; what is lost is expired or over the length).

- `TypeCorrect`, `ClaimExclusive`: `TypeOK` is inductive, `OneOwner` with it.
- `NoEventVanishes`, `EveryEventInOnePlace`: conservation. Neither half is inductive
  alone: a move shows that an event reaches its new place only if it was in the old one
  exactly once, and that it is not duplicated only if nothing else held it. The invariant is
  `Conserved == NothingVanishes /\ OnePlace`, relative to `TypeOK`, `OneOwner` and
  `BackEmpty` (a connection's restore list is empty outside its release). Every action that
  moves an event has a lemma, the others leave the places alone (`PlacesUnchanged`).
- `LimitsKept`, from the lengths `push` and `restore` return.
- `AttachmentsAreKept`: `SpoolKept` speaks of four places that every critical section
  changes; what is inductive, `SweptWasOld`, speaks only of fates and ages.
- `GivenUpAtALimit`: the action property `LostOnlyAtALimit`, from the lemmas on what `push`
  and `restore` lose.
- `RegistryImplementsDelivery`: `KeptMeans` says that the four places
  together hold exactly the events whose dispatch is over and that have no fate, so a
  step's effect on `kept` can be read off `task` and `fate`. `Offered`, inductive with
  `TypeOK` and `OnePlace`, says that what a connection is about to write was dispatched.
  There is a lemma for each kind of abstract step, and `StepImplements` has one case per
  action.

**State directory and watermarks** (`StateDirProofs`, about `DirSpec`, in which `Marks`
runs inside `StateDir`). A step of the directory is, for the watermarks, one of four
(`DirStepIsMarksStep`).

- `MarksAreAcknowledged`, `MarkIsNewest`, for any number of sessions: `MarksInv` adds the
  snapshots on their way to the file.
- `MarksStay`, `PersistedIsNotRedelivered`, `CopiesStayWhole` assume one session. This is no
  convenience: with two the code breaks the first of them (run `marks_sessions`).
  `WriterInv` says why one is safe: what is renamed is what was just written, which is the
  map in memory, which is not behind anything the file ever held.
- `OneDevice`: `DeviceInv` ties the store, `session.json` and the point the start has reached.
- `IdentityIsKept`: `SigningInv` says that nobody is about to replace an identity that this
  store's keys made.

**Presence** (`PresenceProofs`): `PresenceTypeCorrect`, `AlertsSpaced`, `BackAfterAway`,
`AwayAlertsAreReal`. `alertedAt` and `silentAt` are the times of the last alerts that count
(`IssuedInv`), and `Watch` counts an outage from no earlier than it began (`WatchInv`).

**Typing** (`TypingProofs`): `TypingTypeCorrect`, `OneRefresherAlways`,
`QuietWhenOverAlways`, `ReportsAreSilence`. The invariant counts generations against calls,
has every live task cancelled or known to the map, someone left to switch the indicator off,
and a watch that could still report seeing silence or the beginning of a reply that broke
off; while a reply is between two of its messages nothing is claimed.

**Rotation** (`RotationProofs`): `AttemptsAreKept`, `SnapshotComesFirst`,
`HandoffsAreTrue`, and the action properties `ConversationIsKept`, `EmergencyKeeps`,
`LineIsSentOnce`. One invariant for all: `rotation.json` says what happened since the
rotation began (`DiskInv`), what `plan_start` decided on fits it until claude is spawned
(`PlanInv`), the tracker of a running claude goes by it (`RunInv`), and a one-turn run
leaves it alone (`OneShotInv`). The first three claim nothing but types while the file is
stale, with one exception: a rotation that is being cleared has a start, or a tracker, that
knows of no attempts. Without it the invariant could not be regained when the file goes.
`RotationTyped`: `TypeOK`, from it.

**Rooms** (`RoomsProofs`).

- `RecipientMayAnswer` and `ReaderIsRecipient` are about the operators of `Routing`, for
  every configuration `validate` accepts and every room; `RulesAgree` is the invariant. What
  carries them is that a room that is no group has at most one person in it (`OneInADM`),
  and that `validate` leaves at most one session per person, per listed room, for the groups
  and for everything.
- `RepliesStayTogether`: `ReplyInv` adds that `in_thread` is what the first message's thread
  says.
- `ReadingsAreExact`: what a page keeps (`Kept`) is the value of a function over places
  (`Down`). It splits at any place (`DownSplits`), so the pages of a reading join, and what
  is posted later is above every place read, so it does not change. `ReadingInv` says of a
  scan in progress, too, that what it has is what `Down` gives between where the reading
  began and where the page stands.
- `RepliesSurviveSplitting`: what is said of every text of a reply, from `SplittingIsExact`.
- `RoomsTyped`: `TypeOK`.

**Text** (`TextProofs`): `SplittingIsExact`, for every text and every cap of at least 4. The
loops of `text.rs` are recursive functions, and what they compute takes induction over
numbers and sequences. The library's induction theorems have an operator for their
hypothesis, which the provers cannot instantiate; the module proves them again with a set in
its place (`LeastNatural`, `Induction`, `ByAppending`), and that the functions satisfy their
equations (`Recursion`, `Loop`). Then:

- lengths and readings add up: `Sums`, `len`, `Reads` and `FlattenSeq` of two sequences
  joined are those of the parts (`LenConcat`, `ReadsConcat`, `FlattenConcat`), and the lines
  `a..c` read as `a..b` and then `b+1..c` (`RowsSplit`);
- `split_chars` (`CutInv`) and with it `split_lines` give pieces that fit and read as the
  paragraph does (`Torn`). Two neighbouring pieces of one line never fit into one
  message, even without a newline between them, because the first could not take one more
  character. This is why `append` never joins them, and is where `LinesStayWhole` comes
  from;
- `flush`, `append`, `append_lines` and `append_paragraph` keep `ChunkInv`: the chunks and
  what is being gathered read as all that was put in so far, every chunk fits and says
  something, and newlines stand only between lines (`FlushInv`, `AppendInv`, `LinesPut`,
  `ParagraphPut`);
- `paragraphs` finds exactly the paragraphs that `Paragraphs` defines, in order
  (`ParInv`, `ParagraphsFound`): `in_fence` is the parity of the fences so far (`OpenStep`),
  and there is at least one separating line between two of them, so `"\n\n"` adds no newline
  that was not there;
- `trim_end` takes away only lines without characters (`TrimShows`).

**Link** (`LinkProofs`). All of them rest on `Base`: types, the counting of calls against
numbers (a number is left for every call not yet sent, `Counted`), what `serve` is writing
(`Writing`), and what is empty when an end of the socket is closed (`SocketEnds`). The
actions are the plugin's, the daemon's, and `Connect` (`Sides`), and each half leaves the
other's state alone.

- `NoCallRunsTwice`: a call is in at most one of the channel, the hands of `serve`, the
  socket and the handler, and not executed while it is in one of them (`StageInv`).
- `AnswersAreOwn`: a result or a command that is on its way carries a number that this
  connection has given out, and `pending` holds under it the call it is for, or nobody
  (`AnswerInv`).
- `NobodyIsForgotten`: inductive with the two invariants before (`WaitInv`).
- `ExecutesWholeFile`, `NoFileForgotten`: the lines from the daemon's buffer to the last
  one that `serve` still holds are one sequence, which a step shifts, cuts off or extends
  (`WireStep`). In it the lines of one number stand in order: header, chunks of one call, end, command
  (`WireInv`). `FilesInv` says what of a file is on disk at each of these points; a name
  used again by the next connection is safe because nothing of the last one is open or
  received when a handler claims the session.
- `PathsAreWhole`: while the plugin is connected an event is in one place at most, from the
  backlog's flush or the queue over its three lines on the socket, the transfer, the path
  and the pump to its acknowledgement (`Live`); while it is not, nothing in the plugin's
  channels is of this connection (`Away`). An acknowledgement of the last delivery means
  that nothing of the event is left on the way and that the file is whole if the model was
  told of one (`Held`), and such an event is neither in flight nor in the backlog, so
  nothing will truncate the file again (`NotAgain`). That a lost tail of lines leaves no
  event line without its data, and that the pump's fresh message of an event is its last,
  is the order of the lines and messages (`OrderInv`).
- `LinkTyped`: `TypeOK`, with the capacities of the channels, the queue and both directions
  of the socket (`Bounds`).

Only model-checked: liveness (`EventuallySettled`, `AwayIsReported`, `IndicatorEnds`,
`RotationEnds`), which is out of the prover's reach.

## Divergences

Where the code does not do what a comment or a document says of it. The first four have a
run, and an entry under "findings".

1. `registry_stranded`: `dispatch` delivers and enqueues in two critical sections. If a
   connection claims the session and takes the backlog in between, the message waits in the
   backlog of a connected session until the next reconnection.
2. `marks_sessions`: two sessions persist through one temporary file outside the lock, so a
   mark that was on disk can be lost, or the file be left unreadable.
3. `presence_flush`: `handle` returns without `session_disconnected` when a queued message
   cannot be written, and the watch holds the session for connected.
4. `link_hang`: the backlog, attachments included, is flushed by the task that reads, before
   the writer task exists. A plugin that streams a file at that moment reads nothing either,
   and with both socket buffers full the connection hangs. So does a read loop that waits to
   queue a result behind an event (`siltad/src/server.rs:314`).

Read in the code while modelling, with no run of their own:

- `do_reply` returns from `with_relation` without a word to the indicator, also after it has
  posted a first message (`siltad/src/outbound.rs:316`): the watch runs on, and the session
  is reported as silent though it answered, against "every command that sends something
  ends it" (line 269). `ReportIsSilence` carries that exception.
- A marker removed between `plan_start`'s look and `run_once`'s leaves the attempts of the
  cancelled rotation in `rotation.json` (`silta-session/src/lib.rs:542`). After a restart the
  next rotation is charged with them and gives the session up early, against "Attempts of
  one rotation" (`silta-session/src/rotation.rs:50`). The properties of `Rotation` carry that
  exception (`stale`).
- `verdict` refuses everything older than the room's mark, also a message that was still
  downloading, queued or in flight when a newer one was acknowledged and the daemon
  stopped (`silta/src/replay.rs:37`; line 23 says "delivered by an earlier run").
- `typing_start` with watch returns if the room has a refresh task, also one without watch,
  so a message acknowledged then is not watched for an answer (`siltad/src/daemon.rs:250`;
  `docs/deployment.md:139` promises an alert).
- `owns_room` does not ask whether another session lists the room: a session that receives
  from the one person of a room may read and write it though its messages go elsewhere.
  `ReaderReceives` carries that exception.
- `fetch_messages` stops after `HISTORY_MAX_PAGES` pages with fewer messages than asked for,
  and a token.
- A reply with both a quote and a thread goes to the thread of the quoted message, whatever
  thread it names.
- Inside the plugin `serve` waits for room in the event channel, whose pump may be waiting
  for room in the channel that `serve` empties. That takes 256 events nobody took and a
  full command channel.
- `take_backlog` extends the in-flight list after a `deliver` may have pushed to it, so the
  list is not always "in the order handed over" (`siltad/src/daemon.rs:404`).
- `Claim::drop` frees the name before it restores. A connection that claims in between can
  be handed an event that the old claim then puts back: it is delivered again, and its
  acknowledgement finds nothing in flight.
- An acknowledgement still in the plugin's channel when its connection broke is written on
  the next one. The daemon takes it for the delivery it has just begun there, and if that
  connection breaks too the event is settled while its file in the inbox is truncated
  (`silta-claude/src/daemon.rs:444`).
- A daemon killed after the login and before `session.json` is complete leaves a store that
  every start refuses, or a `session.json` that does not parse, until the operator deletes
  both (`siltad/src/session.rs:164`).
- `backup --keep 0` removes the copy it has just made (`siltad/src/backup.rs:134`).
- A fenced block that shares its paragraph with other text is split with it, though it would
  fit a message (`silta/src/text.rs`).
- `evict_expired` stops at the first item within the age limit; an expired one behind it is
  delivered (`silta/src/backlog.rs:67`).
- The Back alert is sent by a task of its own and can overtake the Away alert it answers
  (`siltad/src/server.rs:162`).
- A completed handoff is recorded only when an attempt ends, so a restart of the supervisor
  during the compaction forgets it (`silta-session/src/rotation.rs:323`).
- Removals of the marker and of `rotation.json` that fail are ignored. After a failed removal
  of the marker the rotation is done once more; a `rotation.json` that could not be removed is
  acted on at the next start, and one that says Fresh gives up another conversation
  (`silta-session/src/state.rs:168`, `lib.rs:373` and 729).
- A snapshot that fails is only logged, and the handoff is requested without the copy
  (`silta-session/src/lib.rs:996`).

## Not modelled

- In the plugin: the sweep of its inbox by age, the wait for the ready file, the formatting
  of messages for the model.
- TOML parsing and the people listed in the welcome.
- Rotation switched off and the copying of snapshots in `silta-session` (that it may fail is);
  the wording of the lines it sends.
- Errors that end a connection or a transfer like those that are modelled: the plugin's
  `begin` failing (`silta-claude/src/daemon.rs:411`), a read error of a file after its header
  was written (`silta/src/transfer.rs:53`), and of a spool file while the plugin is connected
  (`siltad/src/server.rs:383`; a stop or crash of the daemon leaves the same state).
- The SDK's own making of an identity at the first login (`siltad/src/session.rs:67`):
  `StateDir` begins with one.
- A homeserver that sends an empty page of history before the start of the room:
  `fetch_messages` would take it for the end (`siltad/src/outbound.rs:564`). `ScanPage` assumes
  that it does not.
- Backups that run at the same time, the restoring of a copy, the account's display name.
- The wire protocol and line framing, the formatting of times: conversions without state.
  `stream.rs` turns claude's lines into the events `Rotation` takes as inputs.
- Invitations, the sync loop's retries, content parsing beyond what is a message: calls into
  the SDK.
- Argument parsing and signal handlers, deployment files, the contract check.

## Plan

1. Done: `Backlog`, `Registry`, `Delivery`, `Marks`, `StateDir`, `Presence`, `Typing`,
   `Rotation`, `Link`, `Routing`, `Text`, `Rooms`; proofs of every safety property of the
   passing runs and of the type invariants.
2. Models: rotation switched off; the sweep of the plugin's inbox; concurrent backups.
