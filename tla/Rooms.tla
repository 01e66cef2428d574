-------------------------------- MODULE Rooms --------------------------------
(***************************************************************************)
(* What a session does in a room: the commands of siltad/src/outbound.rs   *)
(* against a room whose members, shape and timeline change under them.     *)
(* One session's commands are executed one at a time (the read loop awaits *)
(* each); the other sessions and the people are part of the room.          *)
(*                                                                         *)
(* The room is the homeserver's and the SDK's: an event is known by its    *)
(* place in the timeline, a pagination token by the place it stands        *)
(* before, and a request may fail whenever it likes.  The text of an       *)
(* event is abstracted to whether a search finds it, the text of a reply   *)
(* to its lines and widths (Text), which decide what becomes of it.        *)
(***************************************************************************)
EXTENDS Routing, Text

CONSTANTS
    Configs,        \* configurations: [receive, policy]
    Memberships,    \* who may be in the room, over time
    Shapes,
    MaxTimeline,    \* bound: events in the room
    Texts,          \* the texts of replies
    ChunkBytes,     \* CHUNK_BYTES, the cap of one message
    MaxChunks,      \* bound: messages of a reply that is posted
    Limits,         \* limits a history command may ask for
    MaxPages        \* pages one history command reads (5, and 10 for a search)

VARIABLES
    conf,
    timeline,   \* events: [from, kind, thread]
    session,    \* the session whose commands these are
    job,        \* the command being executed
    chain,      \* a reading continued from call to call: what was shown, from
                \* where back to where, and what is looked for
    told        \* the last reply's outcome: [ok, sent, chunks]

vars == <<conf, timeline, session, job, chain, told>>

idle == [kind |-> "idle"]
From == {"bot", "person", "stranger"}
Kinds == {"message", "match", "other"}     \* "match": a message a search finds
Event == [from : From, kind : Kinds, thread : 0..MaxTimeline]

NoChain == [top |-> 0, token |-> 0, search |-> FALSE, shown |-> <<>>]

ASSUME RoomsAssumption ==
    /\ Configs \subseteq [receive : [Sessions -> Receive],
                          policy : [Sessions -> {"any", "own"}]]
    /\ \A c \in Configs : validate(c.receive)
    /\ Shapes \subseteq Shape
    /\ \A m \in Memberships : m \subseteq Addresses \cup {bot}
    /\ Texts \subseteq Seq(Line)
    /\ ChunkBytes \in Nat /\ ChunkBytes >= 4
    /\ {MaxTimeline, MaxChunks, MaxPages} \cup Limits \subseteq Nat \ {0}
    /\ none \notin Nat          \* no token is not a place

Init ==
    /\ conf \in Configs
    /\ session \in Sessions
    /\ timeline = <<>>
    /\ job = idle
    /\ chain = NoChain
    /\ told = none

----------------------------------------------------------------------------
(* The room. *)

Places == 1..Len(timeline)

PersonPosts ==
    /\ Len(timeline) < MaxTimeline
    /\ \E f \in {"person", "stranger"}, k \in Kinds, t \in 0..Len(timeline) :
          /\ f = "stranger" => k = "message" /\ t = 0
          /\ t # 0 => timeline[t].thread = 0
          /\ timeline' = Append(timeline, [from |-> f, kind |-> k, thread |-> t])
    /\ UNCHANGED <<conf, session, job, chain, told>>

Posted(k, t) == Append(timeline, [from |-> "bot", kind |-> k, thread |-> t])

----------------------------------------------------------------------------
(* Policy. *)

(***************************************************************************)
(* joined_room and member_ids succeed, and the policy allows the room as   *)
(* it is at that moment: its members and its shape are the homeserver's,   *)
(* and are other ones the next time.                                       *)
(***************************************************************************)
Rooms == {m \in Memberships : bot \in m} \X Shapes

writable_room ==
    {r \in Rooms : may_send(conf.receive, conf.policy, session, r[1], r[2])} # {}

readable_room ==
    {r \in Rooms : may_read(conf.receive, session, r[1], r[2])} # {}

----------------------------------------------------------------------------
(* Sending. *)

(***************************************************************************)
(* reply_config and with_relation: the thread a message ends up in.  A     *)
(* quote alone follows the quoted message; a thread is entered through the *)
(* quoted message, or through its root.                                    *)
(***************************************************************************)
ThreadOf(e) == IF timeline[e].thread # 0 THEN timeline[e].thread ELSE e

reply_config(quote, thread) ==
    CASE quote # 0 /\ thread # 0 -> ThreadOf(quote)
      [] quote # 0 /\ thread = 0 -> timeline[quote].thread
      [] quote = 0 /\ thread # 0 -> ThreadOf(thread)
      [] OTHER -> 0

(***************************************************************************)
(* A text of blanks is refused, any other becomes at least one message.    *)
(***************************************************************************)
Says(text) == \E l \in DOMAIN text : ~blank(text[l])
ChunkCounts == {Len(chunk_text(t, ChunkBytes)) : t \in {t \in Texts : Says(t)}}

Reply ==
    /\ job = idle /\ writable_room
    /\ \E n \in ChunkCounts \cap 1..MaxChunks, quote, thread \in 0..Len(timeline) :
          job' = [kind |-> "reply", chunks |-> n, quote |-> quote,
                  thread |-> thread, in_thread |-> FALSE, sent |-> <<>>]
    /\ told' = none
    /\ UNCHANGED <<conf, timeline, session, chain>>

(***************************************************************************)
(* Mutation: only the first chunk is given a relation.                     *)
(***************************************************************************)
ChunkThreadFirstOnly ==
    IF job.sent = <<>> THEN reply_config(job.quote, job.thread) ELSE 0

(***************************************************************************)
(* The first chunk as asked for, the later ones after the one before them  *)
(* if that went into a thread.                                             *)
(***************************************************************************)
ChunkThread ==
    CASE job.sent = <<>> -> reply_config(job.quote, job.thread)
      [] job.sent # <<>> /\ job.in_thread -> timeline[Last(job.sent)].thread
      [] OTHER -> 0

ReplyDone == job.kind = "reply" /\ Len(job.sent) = job.chunks

PostChunk ==
    /\ job.kind = "reply" /\ ~ReplyDone /\ Len(timeline) < MaxTimeline
    /\ timeline' = Posted("message", ChunkThread)
    /\ job' = [job EXCEPT !.sent = Append(@, Len(timeline) + 1),
                          !.in_thread = IF job.sent = <<>> THEN ChunkThread # 0 ELSE @]
    /\ UNCHANGED <<conf, session, chain, told>>

(***************************************************************************)
(* The send, or the look at the event to relate to, fails.                 *)
(***************************************************************************)
ReplyFails ==
    /\ job.kind = "reply" /\ ~ReplyDone
    /\ told' = [ok |-> FALSE, sent |-> job.sent, chunks |-> job.chunks]
    /\ job' = idle
    /\ UNCHANGED <<conf, timeline, session, chain>>

ReplyEnds ==
    /\ ReplyDone
    /\ told' = [ok |-> TRUE, sent |-> job.sent, chunks |-> job.chunks]
    /\ job' = idle
    /\ UNCHANGED <<conf, timeline, session, chain>>

(***************************************************************************)
(* react, edit and send_file end in one event each.  An edit wants an      *)
(* original message of the bot's for its target.                           *)
(***************************************************************************)
SendOne ==
    /\ job = idle /\ writable_room /\ Len(timeline) < MaxTimeline
    /\ \/ Places # {} /\ timeline' = Posted("other", 0)              \* react
       \/ /\ \E e \in Places :                                       \* edit
                timeline[e].from = "bot" /\ timeline[e].kind # "other"
          /\ timeline' = Posted("other", 0)
       \/ \E quote, thread \in 0..Len(timeline) :                    \* send_file
             timeline' = Posted("match", reply_config(quote, thread))
    /\ told' = none
    /\ UNCHANGED <<conf, session, job, chain>>

----------------------------------------------------------------------------
(* Reading. *)

(***************************************************************************)
(* history_message: messages of registered people and of the bot.          *)
(***************************************************************************)
history_message(e) == timeline[e].from # "stranger" /\ timeline[e].kind # "other"

keep(search, e) == history_message(e) /\ (search => timeline[e].kind = "match")

(***************************************************************************)
(* The kept events of the places from hi down to lo.                       *)
(***************************************************************************)
Kept(search, hi, lo) ==
    LET down[e \in Nat] ==
            IF e < lo THEN <<>>
            ELSE (IF keep(search, e) THEN <<e>> ELSE <<>>) \o down[e - 1]
    IN  down[hi]

(***************************************************************************)
(* fetch_messages and search_messages, from the end of the room or from    *)
(* the token of an earlier result.                                         *)
(***************************************************************************)
Scan ==
    /\ job = idle /\ readable_room
    /\ \E wanted \in Limits, page \in Limits, search \in BOOLEAN, fresh \in BOOLEAN :
          /\ ~search => page = wanted
          /\ ~fresh => chain.token # 0 /\ chain.search = search
          /\ job' = [kind |-> "scan", wanted |-> wanted, page |-> page,
                     search |-> search, fresh |-> fresh,
                     from |-> IF fresh THEN none ELSE chain.token,
                     top |-> IF fresh THEN none ELSE chain.top,
                     out |-> <<>>, pages |-> 0]
    /\ told' = none
    /\ UNCHANGED <<conf, timeline, session, chain>>

(***************************************************************************)
(* What a scan that stops at `token` adds to the reading it continues.     *)
(***************************************************************************)
Extended(top, token, out) ==
    [top |-> top, token |-> token, search |-> job.search,
     shown |-> (IF job.fresh THEN <<>> ELSE chain.shown) \o out]

(***************************************************************************)
(* Mutation: the result is cut to the number asked for.                    *)
(***************************************************************************)
ExtendedCut(top, token, out) ==
    [top |-> top, token |-> token, search |-> job.search,
     shown |-> (IF job.fresh THEN <<>> ELSE chain.shown)
                  \o SubSeq(out, 1, IF Len(out) < job.wanted THEN Len(out)
                                    ELSE job.wanted)]

(***************************************************************************)
(* scan_history's result, with its `more` token.                           *)
(***************************************************************************)
Result(top, token, out) == Extended(top, token, out)

(***************************************************************************)
(* One page: up to page_size events before the token.  The server may      *)
(* return fewer, and says that there are no more by no token or by an      *)
(* empty page.                                                             *)
(***************************************************************************)
ScanPage ==
    /\ job.kind = "scan"
    /\ LET from == IF job.from = none THEN Len(timeline) ELSE job.from
           top == IF job.top = none THEN from ELSE job.top
       IN  \/ /\ from = 0
              /\ chain' = Result(top, 0, job.out)
              /\ job' = idle
           \/ \E n \in 1..job.page :
                 /\ n <= from
                 /\ LET end == from - n
                        out == job.out \o Kept(job.search, from, end + 1)
                    IN  IF Len(out) >= job.wanted \/ job.pages + 1 >= MaxPages \/ end = 0
                        THEN chain' = Result(top, end, out) /\ job' = idle
                        ELSE /\ job' = [job EXCEPT !.from = end, !.top = top,
                                                   !.out = out, !.pages = @ + 1]
                             /\ UNCHANGED chain
    /\ UNCHANGED <<conf, timeline, session, told>>

ScanFails ==
    /\ job.kind = "scan"
    /\ job' = idle
    /\ UNCHANGED <<conf, timeline, session, chain, told>>

Next ==
    \/ PersonPosts
    \/ Reply \/ PostChunk \/ ReplyFails \/ ReplyEnds \/ SendOne
    \/ Scan \/ ScanPage \/ ScanFails

Spec == Init /\ [][Next]_vars

----------------------------------------------------------------------------
TypeOK ==
    /\ conf \in Configs /\ session \in Sessions
    /\ timeline \in Seq(Event) /\ Len(timeline) <= MaxTimeline
    /\ job.kind \in {"idle", "reply", "scan"}
    /\ job.kind = "reply" => Len(job.sent) <= job.chunks
    /\ job.kind = "scan" => job.pages < MaxPages
    /\ chain.token \in 0..Len(timeline) /\ chain.top \in 0..Len(timeline)
    /\ told # none => told.ok \in BOOLEAN

(***************************************************************************)
(* The read and write rules follow the routing: whoever is given the       *)
(* room's messages can answer them, and nobody else reads them but the     *)
(* `all` session.  Two cases are excepted: the recipient of a room with an *)
(* unregistered member need not own it, unless it lists the room, and a    *)
(* session may read what goes to another one that lists the room, or to    *)
(* nobody because its sender is unregistered.  The configuration never     *)
(* changes, so it is enough to look while the room is empty.               *)
(***************************************************************************)
RoutingAgrees == timeline = <<>> =>
    \A members \in Memberships, shape \in Shapes :
        /\ RecipientOwns(conf.receive, members, shape)
        /\ ReaderReceives(conf.receive, members, shape)

(***************************************************************************)
(* Whatever the text and the widths of its characters, the messages a      *)
(* reply is split into (chunk_text) all fit and are not empty, together    *)
(* say what it says, each character once and in order, with no newline put *)
(* into a line, and a paragraph that fits is not torn apart; and a reply   *)
(* that says something is at least one message, or do_reply would panic.   *)
(***************************************************************************)
SplitExact == \A t \in Texts :
    /\ SaysAll(t, ChunkBytes)
    /\ LinesStayWhole(t, ChunkBytes)
    /\ ParagraphsStayWhole(t, ChunkBytes)
    /\ Says(t) => chunk_text(t, ChunkBytes) # <<>>
ReplySurvivesSplitting == timeline = <<>> => SplitExact

(***************************************************************************)
(* A reading continued with `more` shows every message between where it    *)
(* began and where it stands, once, newest first, whatever the limits,     *)
(* the sizes of pages, failed requests in between and new messages.        *)
(***************************************************************************)
HistoryExact == chain.shown = Kept(chain.search, chain.top, chain.token + 1)

(***************************************************************************)
(* The messages of a split reply are all in the thread the first is in, or *)
(* all in none, also when other people post in between; and the session is *)
(* told of a success exactly when all of them were posted.                 *)
(***************************************************************************)
ReplyTogether ==
    LET sent == IF job.kind = "reply" THEN job.sent
                ELSE IF told # none THEN told.sent ELSE <<>>
    IN  /\ \A i, j \in 1..Len(sent) :
              /\ timeline[sent[i]].thread = timeline[sent[j]].thread
              /\ i < j => sent[i] < sent[j]
        /\ told # none => (told.ok <=> Len(told.sent) = told.chunks)
============================================================================
