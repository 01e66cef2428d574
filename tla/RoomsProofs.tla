----------------------------- MODULE RoomsProofs -----------------------------
(***************************************************************************)
(* Rooms for every configuration, room and text: the rules of Routing      *)
(* agree with each other; a reply survives being split into messages, and  *)
(* they stay together while others post; and a reading of the history      *)
(* continued with `more` misses nothing and repeats nothing.               *)
(***************************************************************************)
EXTENDS Rooms, TextProofs

(***************************************************************************)
(* The session of a DM: everyone in a room that is no group is the sender, *)
(* so a session that lists the sender lists all of them, and conversely.   *)
(***************************************************************************)
LEMMA OneInADM ==
    ASSUME NEW members \in SUBSET (Addresses \cup {bot}), NEW shape \in Shape,
           NEW m \in members \ {bot}, person_for[m] # none,
           ~is_group(people_in(members), shape)
    PROVE  people_in(members) = {person_for[m]}
  <1>1. person_for[m] \in people_in(members)
    BY DEF people_in
  <1>2. \A p, q \in people_in(members) : p = q
    BY DEF is_group
  <1> QED BY <1>1, <1>2

(***************************************************************************)
(* Whoever the routing gives the messages of a room may read the room and  *)
(* write to it, if all its members are registered or the session lists it. *)
(***************************************************************************)
THEOREM RecipientMayAnswer ==
    ASSUME NEW receive \in [Sessions -> Receive], validate(receive),
           NEW members \in SUBSET (Addresses \cup {bot}), NEW shape \in Shape
    PROVE  RecipientOwns(receive, members, shape)
  <1> DEFINE group == is_group(people_in(members), shape)
  <1>1. SUFFICES ASSUME NEW m \in members \ {bot},
                        NEW s \in inbound(receive, m, members, shape),
                        all_registered(members), s \notin by_room(receive)
                 PROVE  owns_room(receive, s, members, shape)
    BY DEF RecipientOwns, owns_room
  <1>2. m # bot /\ person_for[m] # none /\ by_room(receive) = {}
    BY <1>1 DEF inbound, all_registered
  <1>3. person_for[m] \in people_in(members)
    BY <1>2 DEF people_in
  <1>4. \/ s \in all(receive)
        \/ group /\ s \in groups(receive)
        \/ ~group /\ s \in by_person(receive, person_for[m])
    BY <1>1, <1>2 DEF inbound
  <1>5. CASE s \in all(receive)
    BY <1>1, <1>3, <1>5 DEF owns_room, all
  <1>6. CASE group /\ s \in groups(receive)
    BY <1>1, <1>3, <1>6 DEF owns_room, groups
  <1>7. CASE ~group /\ s \in by_person(receive, person_for[m])
    <2>1. people_in(members) = {person_for[m]}
      BY <1>2, <1>7, OneInADM
    <2>2. receive[s].kind = "selective" /\ people_in(members) \subseteq receive[s].people
      BY <1>7, <2>1 DEF by_person
    <2> QED BY <1>1, <1>3, <1>7, <2>2 DEF owns_room
  <1> QED BY <1>4, <1>5, <1>6, <1>7

(***************************************************************************)
(* A session other than the `all` one that may read a room is the one that *)
(* gets what registered people say there, unless another session lists the *)
(* room.                                                                   *)
(***************************************************************************)
THEOREM ReaderIsRecipient ==
    ASSUME NEW receive \in [Sessions -> Receive], validate(receive),
           NEW members \in SUBSET (Addresses \cup {bot}), NEW shape \in Shape
    PROVE  ReaderReceives(receive, members, shape)
  <1> DEFINE group == is_group(people_in(members), shape)
  <1>1. SUFFICES ASSUME NEW m \in members \ {bot}, NEW s \in Sessions \ all(receive),
                        may_read(receive, s, members, shape),
                        by_room(receive) \subseteq {s}, person_for[m] # none
                 PROVE  inbound(receive, m, members, shape) = {s}
    BY DEF ReaderReceives
  <1>2. receive[s] \in Receive /\ receive[s].kind # "all"
    BY <1>1 DEF all
  <1>3. CASE s \in by_room(receive)
    <2>1. by_room(receive) = {s}
      BY <1>1, <1>3
    <2> QED BY <1>1, <2>1 DEF inbound
  <1>4. CASE s \notin by_room(receive)
    <2>1. by_room(receive) = {}
      BY <1>1, <1>4
    <2>2. owns_room(receive, s, members, shape)
      BY <1>1 DEF may_read
    <2>3. CASE receive[s].kind = "groups"
      <3>1. group
        BY <1>4, <2>2, <2>3 DEF owns_room
      <3>2. groups(receive) = {s}
        BY <1>1, <2>3 DEF groups, validate
      <3> QED BY <1>1, <2>1, <3>1, <3>2 DEF inbound
    <2>4. CASE receive[s].kind = "selective"
      <3>1. ~group /\ people_in(members) \subseteq receive[s].people
        BY <1>4, <2>2, <2>4 DEF owns_room
      <3>2. person_for[m] \in receive[s].people
        BY <1>1, <3>1 DEF people_in
      <3>3. by_person(receive, person_for[m]) = {s}
        BY <1>1, <2>4, <3>2 DEF by_person, validate
      <3> QED BY <1>1, <2>1, <3>1, <3>3 DEF inbound
    <2> QED BY <1>2, <2>3, <2>4 DEF Receive
  <1> QED BY <1>3, <1>4

(***************************************************************************)
(* The configuration is the one the daemon was started with.               *)
(***************************************************************************)
LEMMA ConfigStays == Spec => [](conf \in Configs)
  <1>1. Init => conf \in Configs
    BY DEF Init
  <1>2. conf \in Configs /\ [Next]_vars => (conf \in Configs)'
    BY DEF Next, vars, PersonPosts, Reply, PostChunk, ReplyFails, ReplyEnds, SendOne,
           Scan, ScanPage, ScanFails
  <1> QED BY <1>1, <1>2, PTL DEF Spec

(***************************************************************************)
(* In the configuration of a running daemon and in every room the read and *)
(* write rules follow the routing, with RoutingAgrees' two exceptions:     *)
(* unregistered members, and rooms that another session lists.             *)
(***************************************************************************)
THEOREM RulesAgree == Spec => []RoutingAgrees
  <1>1. conf \in Configs => RoutingAgrees
    <2> SUFFICES ASSUME conf \in Configs, NEW members \in Memberships, NEW shape \in Shapes
                 PROVE  /\ RecipientOwns(conf.receive, members, shape)
                        /\ ReaderReceives(conf.receive, members, shape)
      BY DEF RoutingAgrees
    <2> DEFINE receive == conf.receive
    <2>1. receive \in [Sessions -> Receive] /\ validate(receive)
      BY RoomsAssumption
    <2>2. members \in SUBSET (Addresses \cup {bot}) /\ shape \in Shape
      BY RoomsAssumption
    <2> HIDE DEF receive
    <2>3. RecipientOwns(receive, members, shape) /\ ReaderReceives(receive, members, shape)
      BY <2>1, <2>2, RecipientMayAnswer, ReaderIsRecipient
    <2> QED BY <2>3 DEF receive
  <1> QED BY <1>1, ConfigStays, PTL

(***************************************************************************)
(* Whatever the session's text: the messages chunk_text makes of it fit,   *)
(* say all of it, in order and with no newline put into a line, and keep   *)
(* the paragraphs that fit; and there is at least one if it says anything  *)
(* (do_reply).                                                             *)
(***************************************************************************)
THEOREM RepliesSurviveSplitting == Spec => []ReplySurvivesSplitting
  <1>1. ASSUME NEW t \in Texts
        PROVE  /\ SaysAll(t, ChunkBytes) /\ LinesStayWhole(t, ChunkBytes)
               /\ ParagraphsStayWhole(t, ChunkBytes)
               /\ Says(t) => chunk_text(t, ChunkBytes) # <<>>
    <2>1. t \in Seq(Line) /\ ChunkBytes \in Nat /\ ChunkBytes >= 4
      BY RoomsAssumption
    <2> QED BY <2>1, SplittingIsExact DEF Says
  <1>2. ReplySurvivesSplitting
    BY <1>1 DEF ReplySurvivesSplitting, SplitExact
  <1> QED BY <1>2, PTL
-----------------------------------------------------------------------------
(***************************************************************************)
(* The messages of a reply.  `sent` grows by one place at a time while     *)
(* others post, so that they share a thread is inductive only together     *)
(* with what do_reply remembers of the first: in_thread says whether it    *)
(* went into one.                                                          *)
(***************************************************************************)
ReplyJob == [kind : {"reply"}, chunks : Nat, quote : Nat, thread : Nat,
             in_thread : BOOLEAN, sent : Seq(Nat)]

Together(room, s) ==
    /\ s \in Seq(Nat)
    /\ \A i \in 1..Len(s) : s[i] \in 1..Len(room)
    /\ \A i, j \in 1..Len(s) :
          /\ room[s[i]].thread = room[s[j]].thread
          /\ i < j => s[i] < s[j]

JobInv ==
    /\ timeline \in Seq(Event) /\ Len(timeline) <= MaxTimeline
    /\ \/ job = idle
       \/ job \in ReplyJob /\ {job.quote, job.thread} \subseteq 0..Len(timeline)
       \/ "kind" \in DOMAIN job /\ job.kind = "scan"

ReplyInv ==
    job.kind = "reply" =>
        /\ told = none
        /\ Len(job.sent) <= job.chunks
        /\ Together(timeline, job.sent)
        /\ job.sent # <<>> => (job.in_thread <=> timeline[job.sent[1]].thread # 0)

ToldInv ==
    told # none =>
        /\ told.ok \in BOOLEAN
        /\ Together(timeline, told.sent)
        /\ told.ok <=> Len(told.sent) = told.chunks

RoomsInv == JobInv /\ ReplyInv /\ ToldInv

(***************************************************************************)
(* Another event in the room leaves the messages where they are.           *)
(***************************************************************************)
LEMMA TogetherStays ==
    ASSUME NEW room \in Seq(Event), NEW x \in Event, NEW s, Together(room, s)
    PROVE  /\ Append(room, x) \in Seq(Event)
           /\ Len(Append(room, x)) = Len(room) + 1
           /\ \A i \in 1..Len(room) : Append(room, x)[i] = room[i]
           /\ Together(Append(room, x), s)
  <1> DEFINE r == Append(room, x)
  <1>1. /\ r \in Seq(Event) /\ Len(r) = Len(room) + 1 /\ Len(room) \in Nat
        /\ \A i \in 1..Len(room) : r[i] = room[i]
    BY AppendProperties, LenProperties
  <1> HIDE DEF r
  <1>2. \A i \in 1..Len(s) : s[i] \in 1..Len(room) /\ s[i] \in 1..Len(r) /\ r[s[i]] = room[s[i]]
    BY <1>1 DEF Together
  <1>3. Together(r, s)
    BY <1>2 DEF Together
  <1> QED BY <1>1, <1>3 DEF r

(***************************************************************************)
(* One more message in the thread of those before it, at the end of the    *)
(* room, is together with them.                                            *)
(***************************************************************************)
LEMMA TogetherGrows ==
    ASSUME NEW room \in Seq(Event), NEW x \in Event, NEW s, Together(room, s),
           s # <<>> => room[s[1]].thread = x.thread
    PROVE  Together(Append(room, x), Append(s, Len(room) + 1))
  <1> DEFINE r == Append(room, x)
             t == Append(s, Len(room) + 1)
  <1>1. /\ r \in Seq(Event) /\ Len(r) = Len(room) + 1 /\ Len(room) \in Nat
        /\ \A i \in 1..Len(room) : r[i] = room[i]
        /\ r[Len(room) + 1] = x
    BY AppendProperties, LenProperties
  <1>2. /\ s \in Seq(Nat) /\ Len(s) \in Nat
        /\ t \in Seq(Nat) /\ Len(t) = Len(s) + 1
        /\ \A i \in 1..Len(s) : t[i] = s[i]
        /\ t[Len(s) + 1] = Len(room) + 1
    BY <1>1, AppendProperties, LenProperties DEF Together
  <1> HIDE DEF r, t
  <1>3. \A i \in 1..Len(s) : /\ t[i] = s[i] /\ s[i] \in 1..Len(room)
                             /\ r[t[i]].thread = room[s[1]].thread
                             /\ s # <<>>
    <2> TAKE i \in 1..Len(s)
    <2>1. 1 \in 1..Len(s) /\ s # <<>>
      BY <1>2, EmptySeq
    <2>2. /\ t[i] = s[i] /\ s[i] \in 1..Len(room)
          /\ room[s[i]].thread = room[s[1]].thread
      BY <1>2, <2>1 DEF Together
    <2>3. r[s[i]] = room[s[i]]
      BY <1>1, <2>2
    <2> QED BY <2>1, <2>2, <2>3
  <1>4. \A i \in 1..Len(t) : t[i] \in 1..Len(r) /\ r[t[i]].thread = x.thread
    <2> TAKE i \in 1..Len(t)
    <2>1. CASE i \in 1..Len(s)
      BY <1>1, <1>3, <2>1
    <2>2. CASE i = Len(s) + 1
      BY <1>1, <1>2, <2>2
    <2> QED BY <1>2, <2>1, <2>2
  <1>5. \A i, j \in 1..Len(t) : i < j => t[i] < t[j]
    <2> SUFFICES ASSUME NEW i \in 1..Len(t), NEW j \in 1..Len(t), i < j PROVE t[i] < t[j]
      OBVIOUS
    <2>0. i \in 1..Len(s)
      BY <1>2
    <2>1. i \in 1..Len(s) /\ t[i] = s[i] /\ s[i] \in 1..Len(room)
      BY <1>3, <2>0
    <2>2. CASE j \in 1..Len(s)
      BY <1>3, <2>1, <2>2 DEF Together
    <2>3. CASE j = Len(s) + 1
      BY <1>1, <1>2, <2>1, <2>3
    <2> QED BY <1>2, <2>2, <2>3
  <1>6. Together(r, t)
    BY <1>2, <1>4, <1>5 DEF Together
  <1> QED BY <1>6 DEF r, t

(***************************************************************************)
(* The thread of a message is one of the room's.                           *)
(***************************************************************************)
LEMMA RelationTyped ==
    ASSUME timeline \in Seq(Event), Len(timeline) <= MaxTimeline,
           NEW quote \in 0..Len(timeline), NEW thread \in 0..Len(timeline)
    PROVE  reply_config(quote, thread) \in 0..MaxTimeline
  <1>1. \A e \in 1..Len(timeline) : timeline[e] \in Event
    OBVIOUS
  <1>2. Len(timeline) \in Nat /\ MaxTimeline \in Nat
    BY RoomsAssumption
  <1>3. \A e \in 1..Len(timeline) :
            timeline[e].thread \in 0..MaxTimeline /\ ThreadOf(e) \in 0..MaxTimeline
    BY <1>1, <1>2 DEF Event, ThreadOf
  <1> QED BY <1>2, <1>3 DEF reply_config

(***************************************************************************)
(* The invariant of the commands that send.                                *)
(***************************************************************************)
LEMMA SendingInvariant == Spec => []RoomsInv
  <1>1. Init => RoomsInv
    BY RoomsAssumption DEF Init, RoomsInv, JobInv, ReplyInv, ToldInv, idle
  <1>2. RoomsInv /\ [Next]_vars => RoomsInv'
    <2> SUFFICES ASSUME RoomsInv, [Next]_vars PROVE RoomsInv'
      OBVIOUS
    <2> USE DEF RoomsInv
    <2>1. job = idle => job.kind # "reply"
      BY DEF idle
    <2>2. Len(timeline) \in Nat /\ MaxTimeline \in Nat /\ Len(timeline) <= MaxTimeline
      BY RoomsAssumption DEF JobInv
    <2>3. ASSUME NEW x \in Event, timeline' = Append(timeline, x), job' = job,
                 Len(timeline) < MaxTimeline,
                 told' = told \/ (told' = none /\ job = idle)
          PROVE  RoomsInv'
      <3>1. /\ timeline' \in Seq(Event) /\ Len(timeline') = Len(timeline) + 1
            /\ \A i \in 1..Len(timeline) : timeline'[i] = timeline[i]
        BY <2>2, <2>3, AppendProperties DEF JobInv
      <3>2. JobInv'
        BY <2>2, <2>3, <3>1 DEF JobInv
      <3>3. \A s : Together(timeline, s) => Together(timeline', s)
        BY <2>3, TogetherStays DEF JobInv
      <3>4. ReplyInv'
        <4> SUFFICES ASSUME job.kind = "reply" PROVE ReplyInv'
          BY <2>3 DEF ReplyInv
        <4>1. told' = none /\ Len(job.sent) <= job.chunks /\ Together(timeline, job.sent)
          BY <2>1, <2>3 DEF ReplyInv
        <4>2. job.sent # <<>> => job.sent[1] \in 1..Len(timeline)
          BY <4>1, EmptySeq DEF Together
        <4> QED BY <2>3, <3>1, <3>3, <4>1, <4>2 DEF ReplyInv
      <3>5. ToldInv'
        BY <2>3, <3>3 DEF ToldInv
      <3> QED BY <3>2, <3>4, <3>5
    <2>4. CASE PersonPosts
      <3>1. PICK f \in {"person", "stranger"}, k \in Kinds, t \in 0..Len(timeline) :
                timeline' = Append(timeline, [from |-> f, kind |-> k, thread |-> t])
        BY <2>4 DEF PersonPosts
      <3>2. [from |-> f, kind |-> k, thread |-> t] \in Event
        BY <2>2 DEF Event, From
      <3> QED BY <2>3, <2>4, <3>1, <3>2 DEF PersonPosts
    <2>5. CASE SendOne
      <3>1. \A k \in Kinds, t \in 0..MaxTimeline :
                [from |-> "bot", kind |-> k, thread |-> t] \in Event
        BY DEF Event, From
      <3>2. \A q, t \in 0..Len(timeline) : reply_config(q, t) \in 0..MaxTimeline
        BY RelationTyped DEF JobInv
      <3>3. \E x \in Event : timeline' = Append(timeline, x)
        <4>1. "other" \in Kinds /\ "match" \in Kinds /\ 0 \in 0..MaxTimeline
          BY <2>2 DEF Kinds
        <4>2. CASE timeline' = Posted("other", 0)
          BY <3>1, <4>1, <4>2 DEF Posted
        <4>3. CASE \E quote, thread \in 0..Len(timeline) :
                       timeline' = Posted("match", reply_config(quote, thread))
          <5>1. PICK t \in 0..MaxTimeline : timeline' = Posted("match", t)
            BY <3>2, <4>3
          <5> QED BY <3>1, <4>1, <5>1 DEF Posted
        <4> QED BY <2>5, <4>2, <4>3 DEF SendOne
      <3> QED BY <2>3, <2>5, <3>3 DEF SendOne
    <2>6. CASE Reply
      <3>0. \A n \in ChunkCounts \cap 1..MaxChunks : n \in Nat
        BY RoomsAssumption
      <3>1. PICK n \in Nat, quote \in 0..Len(timeline), thread \in 0..Len(timeline) :
                job' = [kind |-> "reply", chunks |-> n, quote |-> quote, thread |-> thread,
                        in_thread |-> FALSE, sent |-> <<>>]
        BY <2>6, <3>0 DEF Reply
      <3>2. told' = none /\ timeline' = timeline
        BY <2>6 DEF Reply
      <3>3. job' \in ReplyJob /\ job'.quote = quote /\ job'.thread = thread
        BY <2>2, <3>1 DEF ReplyJob
      <3>4. Together(timeline', <<>>)
        BY DEF Together
      <3>5. JobInv'
        BY <3>1, <3>2, <3>3 DEF JobInv
      <3> QED BY <3>1, <3>2, <3>4, <3>5 DEF ReplyInv, ToldInv
    <2>7. CASE PostChunk
      <3>1. /\ job.kind = "reply" /\ job \in ReplyJob
            /\ job.quote \in 0..Len(timeline) /\ job.thread \in 0..Len(timeline)
        BY <2>7 DEF PostChunk, JobInv, idle
      <3> DEFINE t == ChunkThread
                 x == [from |-> "bot", kind |-> "message", thread |-> t]
                 flag == IF job.sent = <<>> THEN t # 0 ELSE job.in_thread
                 places == Append(job.sent, Len(timeline) + 1)
      <3>2. /\ told' = told /\ told = none
            /\ Len(job.sent) <= job.chunks /\ Len(job.sent) # job.chunks
            /\ Together(timeline, job.sent)
            /\ job.sent # <<>> => (job.in_thread <=> timeline[job.sent[1]].thread # 0)
        BY <2>7, <3>1 DEF PostChunk, ReplyDone, ReplyInv
      <3>3. timeline' = Append(timeline, x)
        BY <2>7 DEF PostChunk, Posted
      <3>4. job' = [job EXCEPT !.sent = places, !.in_thread = flag]
        BY <2>7 DEF PostChunk
      <3>5. job.sent \in Seq(Nat) /\ Len(job.sent) \in Nat /\ job.chunks \in Nat
            /\ job.in_thread \in BOOLEAN
        BY <3>1 DEF ReplyJob
      <3>6. /\ t \in 0..MaxTimeline
            /\ job.sent # <<>> => timeline[job.sent[1]].thread = t
        <4>1. CASE job.sent = <<>>
          BY <3>1, <4>1, RelationTyped DEF ChunkThread, JobInv
        <4>2. CASE job.sent # <<>>
          <5>1. 1 \in 1..Len(job.sent) /\ Len(job.sent) \in 1..Len(job.sent)
            BY <3>5, <4>2, EmptySeq
          <5>2. Last(job.sent) = job.sent[Len(job.sent)]
            BY DEF Last
          <5>3. /\ job.sent[1] \in 1..Len(timeline)
                /\ timeline[Last(job.sent)].thread = timeline[job.sent[1]].thread
            BY <3>2, <5>1, <5>2 DEF Together
          <5>4. timeline[job.sent[1]] \in Event
            BY <5>3 DEF JobInv
          <5>5. timeline[job.sent[1]].thread \in 0..MaxTimeline
            BY <5>4 DEF Event
          <5>6. t = timeline[job.sent[1]].thread
            BY <3>2, <4>2, <5>3 DEF ChunkThread
          <5> QED BY <4>2, <5>5, <5>6
        <4> QED BY <4>1, <4>2
      <3> HIDE DEF t
      <3>7. x \in Event /\ x.thread = t
        BY <3>6 DEF Event, From, Kinds
      <3> HIDE DEF x
      <3>8. Together(timeline', places)
        BY <3>2, <3>3, <3>6, <3>7, TogetherGrows DEF JobInv
      <3>9. /\ places \in Seq(Nat) /\ Len(places) = Len(job.sent) + 1
            /\ places[1] = IF job.sent = <<>> THEN Len(timeline) + 1 ELSE job.sent[1]
            /\ places # <<>>
        <4>1. /\ places \in Seq(Nat) /\ Len(places) = Len(job.sent) + 1
              /\ places[Len(job.sent) + 1] = Len(timeline) + 1
              /\ \A i \in 1..Len(job.sent) : places[i] = job.sent[i]
          BY <2>2, <3>5, AppendProperties
        <4>2. job.sent = <<>> <=> Len(job.sent) = 0
          BY <3>5, EmptySeq
        <4> HIDE DEF places
        <4>3. places # <<>>
          BY <3>5, <4>1, EmptySeq
        <4> QED BY <3>5, <4>1, <4>2, <4>3
      <3>10. /\ timeline' \in Seq(Event) /\ Len(timeline') = Len(timeline) + 1
             /\ \A i \in 1..Len(timeline) : timeline'[i] = timeline[i]
             /\ timeline'[Len(timeline) + 1] = x
        BY <3>3, <3>7, AppendProperties DEF JobInv
      <3>11. flag \in BOOLEAN /\ (flag <=> timeline'[places[1]].thread # 0)
        <4>1. CASE job.sent = <<>>
          BY <3>7, <3>9, <3>10, <4>1
        <4>2. CASE job.sent # <<>>
          <5>1. job.sent[1] \in 1..Len(timeline)
            BY <3>2, <3>5, <4>2, EmptySeq DEF Together
          <5> QED BY <3>2, <3>5, <3>9, <3>10, <4>2, <5>1
        <4> QED BY <4>1, <4>2
      <3> HIDE DEF flag, places
      <3>12. /\ job' \in ReplyJob /\ job'.quote = job.quote /\ job'.thread = job.thread
             /\ job'.sent = places /\ job'.in_thread = flag /\ job'.chunks = job.chunks
        BY <3>1, <3>4, <3>9, <3>11 DEF ReplyJob
      <3>13. JobInv'
        BY <2>2, <2>7, <3>1, <3>10, <3>12 DEF JobInv, PostChunk
      <3>14. ReplyInv'
        BY <3>2, <3>5, <3>8, <3>9, <3>11, <3>12 DEF ReplyInv
      <3>15. ToldInv'
        BY <3>2 DEF ToldInv
      <3> QED BY <3>13, <3>14, <3>15
    <2>8. ASSUME timeline' = timeline, job' = idle, told' = told, job.kind # "reply"
          PROVE  RoomsInv'
      BY <2>8 DEF JobInv, ReplyInv, ToldInv, idle
    <2>9. ASSUME NEW ok \in BOOLEAN, job.kind = "reply", timeline' = timeline, job' = idle,
                 told' = [ok |-> ok, sent |-> job.sent, chunks |-> job.chunks],
                 ok <=> Len(job.sent) = job.chunks
          PROVE  RoomsInv'
      <3>1. /\ told'.ok \in BOOLEAN
            /\ Together(timeline', told'.sent) /\ (told'.ok <=> Len(told'.sent) = told'.chunks)
        BY <2>9 DEF ReplyInv
      <3> QED BY <2>9, <3>1 DEF JobInv, ReplyInv, ToldInv, idle
    <2>10. CASE ReplyFails
      BY <2>9, <2>10 DEF ReplyFails, ReplyDone
    <2>11. CASE ReplyEnds
      BY <2>9, <2>11 DEF ReplyEnds, ReplyDone
    <2>12. ASSUME timeline' = timeline, told' = told \/ told' = none, "kind" \in DOMAIN job',
                  job'.kind = "scan"
           PROVE  RoomsInv'
      BY <2>12 DEF JobInv, ReplyInv, ToldInv
    <2>13. CASE Scan
      BY <2>12, <2>13 DEF Scan
    <2>14. CASE ScanPage
      <3>1. /\ job.kind = "scan" /\ "kind" \in DOMAIN job
        BY <2>14 DEF ScanPage, JobInv, ReplyJob, idle
      <3>2. \/ job' = idle
            \/ "kind" \in DOMAIN job' /\ job'.kind = "scan"
        BY <2>14, <3>1 DEF ScanPage
      <3>3. timeline' = timeline /\ told' = told
        BY <2>14 DEF ScanPage
      <3> QED BY <2>8, <2>12, <3>1, <3>2, <3>3
    <2>15. CASE ScanFails
      BY <2>8, <2>15 DEF ScanFails
    <2>16. CASE UNCHANGED vars
      BY <2>16 DEF vars, JobInv, ReplyInv, ToldInv
    <2> QED BY <2>4, <2>5, <2>6, <2>7, <2>10, <2>11, <2>13, <2>14, <2>15, <2>16 DEF Next
  <1> QED BY <1>1, <1>2, PTL DEF Spec

(***************************************************************************)
(* Whatever else is posted while a reply goes out, its messages end up in  *)
(* one thread, in order, and the session is told of a success exactly when *)
(* all of them were posted (do_reply).                                     *)
(***************************************************************************)
THEOREM RepliesStayTogether == Spec => []ReplyTogether
  <1>1. RoomsInv => ReplyTogether
    BY SMTT(30) DEF RoomsInv, ReplyInv, ToldInv, Together, ReplyTogether
  <1> QED BY <1>1, SendingInvariant, PTL
-----------------------------------------------------------------------------
(***************************************************************************)
(* Reading back.  Kept is a function defined by recursion over the places  *)
(* of the room; Down is that function for any room.                        *)
(***************************************************************************)
shows(room, e) == room[e].from # "stranger" /\ room[e].kind # "other"
finds(room, search, e) == shows(room, e) /\ (search => room[e].kind = "match")
Down(room, search, lo) ==
    CHOOSE down : down = [e \in Nat |-> IF e < lo THEN <<>>
            ELSE (IF finds(room, search, e) THEN <<e>> ELSE <<>>) \o down[e - 1]]
(***************************************************************************)
(* What a scan keeps of the room as it is.                                 *)
(***************************************************************************)
LEMMA KeptDown == \A search, hi, lo : Kept(search, hi, lo) = Down(timeline, search, lo)[hi]
   BY DEF Kept, Down, keep, history_message, shows, finds
Exact(room, search, top, token, shown) == shown = Down(room, search, token + 1)[top]

(***************************************************************************)
(* HistoryExact, in this state and in the next one.                        *)
(***************************************************************************)
LEMMA ExactDown ==
    /\ HistoryExact <=> Exact(timeline, chain.search, chain.top, chain.token, chain.shown)
    /\ HistoryExact' <=> Exact(timeline', chain'.search, chain'.top, chain'.token, chain'.shown)
  BY DEF Exact, HistoryExact, Kept, Down, keep, history_message, shows, finds

(***************************************************************************)
(* The function exists, so it satisfies its equation; it yields places.    *)
(***************************************************************************)
LEMMA DownDef ==
    ASSUME NEW room, NEW search, NEW lo \in Nat \ {0}
    PROVE  /\ Down(room, search, lo) \in [Nat -> Seq(Nat)]
           /\ \A e \in Nat : Down(room, search, lo)[e] =
                 IF e < lo THEN <<>>
                 ELSE (IF finds(room, search, e) THEN <<e>> ELSE <<>>)
                         \o Down(room, search, lo)[e - 1]
  <1> DEFINE own == [e \in Nat |-> IF finds(room, search, e) THEN <<e>> ELSE <<>>]
             F == [e \in Nat |-> [s \in Seq(Nat) |-> IF e < lo THEN <<>> ELSE own[e] \o s]]
  <1>1. own \in [Nat -> Seq(Nat)]
    OBVIOUS
  <1>2. \A e \in Nat : own[e] = IF finds(room, search, e) THEN <<e>> ELSE <<>>
    OBVIOUS
  <1> HIDE DEF own
  <1>3. <<>> \in Seq(Nat)
    OBVIOUS
  <1>4. F \in [Nat -> [Seq(Nat) -> Seq(Nat)]]
    BY <1>1
  <1>13. PICK g : Iterates(g, Seq(Nat), <<>>, F)
    <2> HIDE DEF F
    <2> QED BY <1>3, <1>4, Recursion
  <1>5. /\ g \in [Nat -> Seq(Nat)]
        /\ g[0] = <<>> /\ \A n \in Nat : g[n + 1] = F[n + 1][g[n]]
    BY <1>13 DEF Iterates
  <1>6. \A e \in Nat : g[e] = IF e < lo THEN <<>> ELSE own[e] \o g[e - 1]
    <2> TAKE e \in Nat
    <2>1. CASE e = 0
      BY <1>5, <2>1
    <2>2. CASE e # 0
      <3>1. e - 1 \in Nat /\ (e - 1) + 1 = e
        BY <2>2
      <3>2. g[e] = F[e][g[e - 1]]
        BY <1>5, <3>1
      <3>3. g[e - 1] \in Seq(Nat)
        BY <1>5, <3>1
      <3> QED BY <3>2, <3>3
    <2> QED BY <2>1, <2>2
  <1>7. g = [e \in Nat |-> IF e < lo THEN <<>>
                 ELSE (IF finds(room, search, e) THEN <<e>> ELSE <<>>) \o g[e - 1]]
    BY <1>2, <1>5, <1>6
  <1> DEFINE d == Down(room, search, lo)
  <1>8. d = [e \in Nat |-> IF e < lo THEN <<>>
                 ELSE (IF finds(room, search, e) THEN <<e>> ELSE <<>>) \o d[e - 1]]
    BY <1>7, Zenon DEF Down
  <1> HIDE DEF d
  <1>9. \A e \in Nat : d[e] = IF e < lo THEN <<>> ELSE own[e] \o d[e - 1]
    BY <1>2, <1>8
  <1>10. \A e \in Nat : d[e] \in Seq(Nat)
    <2> DEFINE T == {e \in Nat : d[e] \in Seq(Nat)}
    <2>1. 0 \in T
      <3>1. d[0] = <<>>
        BY <1>9
      <3>2. d[0] \in Seq(Nat)
        BY <3>1
      <3> QED BY <3>2
    <2>2. ASSUME NEW e \in Nat, e \in T PROVE e + 1 \in T
      <3>1. e + 1 \in Nat /\ (e + 1) - 1 = e
        OBVIOUS
      <3>2. d[e + 1] = IF e + 1 < lo THEN <<>> ELSE own[e + 1] \o d[e]
        BY <1>9, <3>1
      <3>3. own[e + 1] \in Seq(Nat) /\ d[e] \in Seq(Nat)
        BY <1>1, <2>2
      <3>4. d[e + 1] \in Seq(Nat)
        BY <3>2, <3>3
      <3> QED BY <3>1, <3>4
    <2> HIDE DEF T
    <2>3. \A e \in Nat : e \in T
      BY <2>1, <2>2, Induction
    <2> QED BY <2>3 DEF T
  <1>11. d \in [Nat -> Seq(Nat)]
    BY <1>8, <1>10
  <1>12. \A e \in Nat : d[e] = IF e < lo THEN <<>>
                 ELSE (IF finds(room, search, e) THEN <<e>> ELSE <<>>) \o d[e - 1]
    BY <1>2, <1>9
  <1> QED BY <1>11, <1>12 DEF d

SplitsAt(room, search, lo, m, hi) ==
    lo <= m + 1 /\ m <= hi =>
        Down(room, search, lo)[hi] = Down(room, search, m + 1)[hi] \o Down(room, search, lo)[m]

(***************************************************************************)
(* A reading from hi down to lo is one down to m + 1 and one from m on.    *)
(***************************************************************************)
LEMMA DownSplits ==
    ASSUME NEW room, NEW search, NEW lo \in Nat \ {0}, NEW m \in Nat, NEW hi \in Nat
    PROVE  SplitsAt(room, search, lo, m, hi)
  <1> SUFFICES ASSUME lo <= m + 1, m <= hi
               PROVE  Down(room, search, lo)[hi] =
                          Down(room, search, m + 1)[hi] \o Down(room, search, lo)[m]
    BY DEF SplitsAt
  <1> DEFINE whole == Down(room, search, lo)
             new == Down(room, search, m + 1)
             own == [e \in Nat |-> IF finds(room, search, e) THEN <<e>> ELSE <<>>]
             T == {n \in Nat : whole[m + n] = new[m + n] \o whole[m]}
  <1>1. own \in [Nat -> Seq(Nat)]
    OBVIOUS
  <1>2. /\ whole \in [Nat -> Seq(Nat)]
        /\ \A e \in Nat : whole[e] = IF e < lo THEN <<>> ELSE own[e] \o whole[e - 1]
    BY DownDef
  <1>3. /\ new \in [Nat -> Seq(Nat)]
        /\ \A e \in Nat : new[e] = IF e < m + 1 THEN <<>> ELSE own[e] \o new[e - 1]
    BY DownDef
  <1> HIDE DEF whole, new, own
  <1>4. 0 \in T
    <2>1. m < m + 1 /\ m + 0 = m
      OBVIOUS
    <2>2. new[m] = <<>>
      BY <1>3, <2>1
    <2>3. whole[m] \in Seq(Nat)
      BY <1>2
    <2>4. whole[m] = new[m] \o whole[m]
      BY <2>2, <2>3
    <2> QED BY <2>1, <2>4
  <1>5. ASSUME NEW n \in Nat, n \in T PROVE n + 1 \in T
    <2> DEFINE e == m + n + 1
    <2>1. e \in Nat /\ e - 1 = m + n /\ ~(e < lo) /\ ~(e < m + 1) /\ e = m + (n + 1)
          /\ m + n \in Nat
      OBVIOUS
    <2> HIDE DEF e
    <2>2. whole[e] = own[e] \o whole[m + n] /\ new[e] = own[e] \o new[m + n]
      BY <1>2, <1>3, <2>1
    <2>3. whole[m + n] = new[m + n] \o whole[m]
      BY <1>5
    <2>4. own[e] \in Seq(Nat) /\ new[m + n] \in Seq(Nat) /\ whole[m] \in Seq(Nat)
      BY <1>1, <1>2, <1>3, <2>1
    <2>5. own[e] \o (new[m + n] \o whole[m]) = (own[e] \o new[m + n]) \o whole[m]
      <3> DEFINE x == own[e]
                 y == new[m + n]
                 z == whole[m]
      <3>1. x \in Seq(Nat) /\ y \in Seq(Nat) /\ z \in Seq(Nat)
        BY <2>4
      <3> HIDE DEF x, y, z
      <3>2. x \o (y \o z) = (x \o y) \o z
        BY <3>1, SMTT(30)
      <3> QED BY <3>2 DEF x, y, z
    <2>6. whole[e] = new[e] \o whole[m]
      BY <2>2, <2>3, <2>5
    <2>7. whole[m + (n + 1)] = new[m + (n + 1)] \o whole[m]
      BY <2>1, <2>6
    <2>8. n + 1 \in Nat
      OBVIOUS
    <2> QED BY <2>7, <2>8, Zenon
  <1>6. \A n \in Nat : n \in T
    <2> HIDE DEF T
    <2> QED BY <1>4, <1>5, Induction
  <1>7. hi - m \in Nat /\ m + (hi - m) = hi
    OBVIOUS
  <1>8. whole[m + (hi - m)] = new[m + (hi - m)] \o whole[m]
    BY <1>6, <1>7
  <1>9. whole[hi] = new[hi] \o whole[m]
    BY <1>7, <1>8
  <1> QED BY <1>9 DEF whole, new

(***************************************************************************)
(* What a room shows down to lo depends on its events from there on only.  *)
(***************************************************************************)
LEMMA DownSame ==
    ASSUME NEW room, NEW grown, NEW search, NEW lo \in Nat \ {0}, NEW hi \in Nat,
           \A e \in lo..hi : grown[e] = room[e]
    PROVE  Down(grown, search, lo)[hi] = Down(room, search, lo)[hi]
  <1> DEFINE a == Down(room, search, lo)
             b == Down(grown, search, lo)
             T == {n \in Nat : n <= hi => a[n] = b[n]}
  <1>1. /\ a \in [Nat -> Seq(Nat)]
        /\ \A e \in Nat : a[e] = IF e < lo THEN <<>>
              ELSE (IF finds(room, search, e) THEN <<e>> ELSE <<>>) \o a[e - 1]
    BY DownDef, ZenonT(40)
  <1>2. /\ b \in [Nat -> Seq(Nat)]
        /\ \A e \in Nat : b[e] = IF e < lo THEN <<>>
              ELSE (IF finds(grown, search, e) THEN <<e>> ELSE <<>>) \o b[e - 1]
    BY DownDef, ZenonT(40)
  <1> HIDE DEF a, b
  <1>3. \A e \in lo..hi : finds(room, search, e) <=> finds(grown, search, e)
    BY DEF finds, shows
  <1>4. 0 \in T
    <2>0. 0 \in Nat /\ 0 < lo
      OBVIOUS
    <2>1. a[0] = <<>>
      BY <1>1, <2>0, Zenon
    <2>2. b[0] = <<>>
      BY <1>2, <2>0, Zenon
    <2> QED BY <2>1, <2>2
  <1>5. ASSUME NEW n \in Nat, n \in T PROVE n + 1 \in T
    <2> SUFFICES ASSUME n + 1 <= hi PROVE a[n + 1] = b[n + 1]
      OBVIOUS
    <2>1. n + 1 \in Nat /\ (n + 1) - 1 = n /\ a[n] = b[n]
      BY <1>5
    <2>2. CASE n + 1 < lo
      BY <1>1, <1>2, <2>1, <2>2
    <2>3. CASE ~(n + 1 < lo)
      <3>1. n + 1 \in lo..hi
        BY <2>3
      <3>2. finds(room, search, n + 1) <=> finds(grown, search, n + 1)
        BY <1>3, <3>1
      <3>3. a[n + 1] = (IF finds(room, search, n + 1) THEN <<n + 1>> ELSE <<>>) \o a[n]
        BY <1>1, <2>1, <2>3
      <3>4. b[n + 1] = (IF finds(grown, search, n + 1) THEN <<n + 1>> ELSE <<>>) \o b[n]
        BY <1>2, <2>1, <2>3
      <3> QED BY <2>1, <3>2, <3>3, <3>4
    <2> QED BY <2>2, <2>3
  <1>6. \A n \in Nat : n \in T
    <2> HIDE DEF T
    <2> QED BY <1>4, <1>5, Induction
  <1>7. a[hi] = b[hi]
    BY <1>6
  <1> QED BY <1>7 DEF a, b

(***************************************************************************)
(* There is nothing before the first place of a reading.                   *)
(***************************************************************************)
LEMMA ExactNone ==
    ASSUME NEW room, NEW search, NEW top \in Nat
    PROVE  Exact(room, search, top, top, <<>>)
  <1> DEFINE lo == top + 1
  <1>1. lo \in Nat \ {0} /\ top < lo
    OBVIOUS
  <1>2. Exact(room, search, top, top, <<>>) <=> <<>> = Down(room, search, lo)[top]
    BY DEF Exact
  <1> HIDE DEF lo
  <1>3. \A e \in Nat : Down(room, search, lo)[e] =
            IF e < lo THEN <<>>
            ELSE (IF finds(room, search, e) THEN <<e>> ELSE <<>>)
                    \o Down(room, search, lo)[e - 1]
    BY <1>1, DownDef, Zenon
  <1>4. Down(room, search, lo)[top] = <<>>
    BY <1>1, <1>3, Zenon
  <1> QED BY <1>2, <1>4

(***************************************************************************)
(* A reading and a scan that is under way.  The scan's own output is what  *)
(* lies between where it began and where it stands, after what the reading *)
(* it continues has shown; a scan from the end of the room has no place    *)
(* before its first page.                                                  *)
(***************************************************************************)
Chain == [top : Nat, token : Nat, search : BOOLEAN, shown : Seq(Nat)]

ScanJob == [kind : {"scan"}, wanted : Nat, page : Nat, search : BOOLEAN, fresh : BOOLEAN,
            from : Nat \cup {none}, top : Nat \cup {none}, out : Seq(Nat), pages : Nat]

Before == IF job.fresh THEN <<>> ELSE chain.shown

ScanInv ==
    /\ job \in ScanJob
    /\ job.pages < MaxPages
    /\ ~job.fresh => chain.search = job.search /\ job.from # none
    /\ job.from = none => job.top = none /\ job.out = <<>>
    /\ job.from # none =>
          /\ job.from \in 0..Len(timeline) /\ job.top \in job.from..Len(timeline)
          /\ Exact(timeline, job.search, job.top, job.from, Before \o job.out)

ChainInv ==
    /\ chain \in Chain
    /\ chain.token <= chain.top /\ chain.top <= Len(timeline)
    /\ HistoryExact

ReadingInv == ChainInv /\ (job.kind = "scan" => ScanInv)

(***************************************************************************)
(* One page: with n events before `from` added to the output, the output   *)
(* reaches n places further back.                                          *)
(***************************************************************************)
LEMMA PageExact ==
    ASSUME NEW room, NEW search, NEW from \in Nat, NEW top \in Nat, from <= top,
           NEW n \in 1..from, NEW before \in Seq(Nat), NEW out \in Seq(Nat)
    PROVE  /\ out \o Down(room, search, (from - n) + 1)[from] \in Seq(Nat)
           /\ Exact(room, search, top, from, before \o out) =>
                 Exact(room, search, top, from - n,
                       before \o (out \o Down(room, search, (from - n) + 1)[from]))
  <1> DEFINE lo == (from - n) + 1
             page == Down(room, search, lo)[from]
  <1>1. lo \in Nat \ {0} /\ lo <= from + 1
    OBVIOUS
  <1> HIDE DEF lo
  <1>2. page \in Seq(Nat)
    BY <1>1, DownDef
  <1>3. Down(room, search, lo)[top] = Down(room, search, from + 1)[top] \o page
    <2>1. SplitsAt(room, search, lo, from, top)
      BY <1>1, DownSplits
    <2> QED BY <1>1, <2>1 DEF SplitsAt
  <1> HIDE DEF page
  <1>4. before \o (out \o page) = (before \o out) \o page
    BY <1>2
  <1>5. out \o page \in Seq(Nat)
    BY <1>2
  <1>6. before \o out = Down(room, search, from + 1)[top] =>
            before \o (out \o page) = Down(room, search, lo)[top]
    BY <1>3, <1>4
  <1> QED BY <1>5, <1>6 DEF page, lo, Exact

(***************************************************************************)
(* More events in the room change nothing about a reading or a scan.       *)
(***************************************************************************)
LEMMA ReadingStays ==
    ASSUME ReadingInv, timeline \in Seq(Event), timeline' \in Seq(Event),
           Len(timeline) <= Len(timeline'),
           \A e \in 1..Len(timeline) : timeline'[e] = timeline[e],
           chain' = chain, job' = job \/ job'.kind # "scan"
    PROVE  ReadingInv'
  <1>1. Len(timeline) \in Nat /\ Len(timeline') \in Nat
    OBVIOUS
  <1>2. \A search : \A lo \in Nat \ {0}, hi \in 0..Len(timeline) :
            Down(timeline', search, lo)[hi] = Down(timeline, search, lo)[hi]
    <2> TAKE search
    <2> TAKE lo \in Nat \ {0}, hi \in 0..Len(timeline)
    <2>1. \A e \in lo..hi : timeline'[e] = timeline[e]
      BY <1>1
    <2> QED BY <1>1, <2>1, DownSame
  <1>3. ChainInv'
    <2>1. chain.token + 1 \in Nat \ {0} /\ chain.top \in 0..Len(timeline)
      BY <1>1 DEF ReadingInv, ChainInv, Chain
    <2>2. Down(timeline', chain.search, chain.token + 1)[chain.top]
              = Down(timeline, chain.search, chain.token + 1)[chain.top]
      BY <1>2, <2>1
    <2>3. HistoryExact'
      BY <2>2, ExactDown DEF ReadingInv, ChainInv, Exact
    <2> QED BY <1>1, <2>1, <2>3 DEF ReadingInv, ChainInv, Chain
  <1>4. ASSUME job'.kind = "scan" PROVE ScanInv'
    <2>1. job' = job /\ ScanInv
      BY <1>4 DEF ReadingInv
    <2>2. ASSUME job.from # none
          PROVE  /\ job.from \in 0..Len(timeline') /\ job.top \in job.from..Len(timeline')
                 /\ Exact(timeline', job.search, job.top, job.from, Before \o job.out)
      <3>1. /\ job.from \in 0..Len(timeline) /\ job.top \in job.from..Len(timeline)
            /\ Exact(timeline, job.search, job.top, job.from, Before \o job.out)
        BY <2>1, <2>2 DEF ScanInv
      <3>2. job.from + 1 \in Nat \ {0} /\ job.top \in 0..Len(timeline)
        BY <1>1, <3>1
      <3>3. Down(timeline', job.search, job.from + 1)[job.top]
                = Down(timeline, job.search, job.from + 1)[job.top]
        BY <1>2, <3>2
      <3> QED BY <1>1, <3>1, <3>3 DEF Exact
    <2>3. Before' = Before
      BY <2>1 DEF Before
    <2> QED BY <2>1, <2>2, <2>3 DEF ScanInv
  <1> QED BY <1>3, <1>4 DEF ReadingInv

(***************************************************************************)
(* The invariant of the commands that read: scan_history's pages and the   *)
(* readings they continue, under every other step.                         *)
(***************************************************************************)
LEMMA ReadingInvariant == Spec => []ReadingInv
  <1>1. Init => ReadingInv
    <2> SUFFICES ASSUME Init PROVE ReadingInv
      OBVIOUS
    <2>1. chain = NoChain /\ job = idle /\ timeline = <<>> /\ Len(timeline) = 0
      BY DEF Init
    <2>2. NoChain \in Chain /\ NoChain.token = 0 /\ NoChain.top = 0 /\ NoChain.shown = <<>>
      BY DEF NoChain, Chain
    <2>3. Exact(timeline, chain.search, 0, 0, <<>>)
      BY ExactNone
    <2>4. HistoryExact
      BY <2>1, <2>2, <2>3, ExactDown
    <2> QED BY <2>1, <2>2, <2>4 DEF ReadingInv, ChainInv, idle
  <1>2. RoomsInv /\ RoomsInv' /\ ReadingInv /\ [Next]_vars => ReadingInv'
    <2> SUFFICES ASSUME RoomsInv, RoomsInv', ReadingInv, [Next]_vars PROVE ReadingInv'
      OBVIOUS
    <2>1. /\ timeline \in Seq(Event) /\ timeline' \in Seq(Event)
          /\ Len(timeline) \in Nat
      BY DEF RoomsInv, JobInv
    <2>2. ASSUME timeline' = timeline, chain' = chain, job' = job \/ job'.kind # "scan"
          PROVE  ReadingInv'
      BY <2>1, <2>2, ReadingStays
    <2>3. ASSUME NEW x, timeline' = Append(timeline, x), chain' = chain,
                 job' = job \/ job'.kind # "scan"
          PROVE  ReadingInv'
      <3>1. /\ Len(timeline) <= Len(timeline')
            /\ \A e \in 1..Len(timeline) : timeline'[e] = timeline[e]
        BY <2>1, <2>3
      <3> QED BY <2>1, <2>3, <3>1, ReadingStays
    <2>4. CASE PersonPosts
      BY <2>3, <2>4 DEF PersonPosts
    <2>5. CASE Reply
      BY <2>2, <2>5 DEF Reply
    <2>6. CASE PostChunk
      <3>1. job'.kind # "scan"
        BY <2>6 DEF PostChunk, RoomsInv, JobInv, ReplyJob, idle
      <3> QED BY <2>3, <2>6, <3>1 DEF PostChunk, Posted
    <2>7. CASE ReplyFails
      BY <2>2, <2>7 DEF ReplyFails, idle
    <2>8. CASE ReplyEnds
      BY <2>2, <2>8 DEF ReplyEnds, idle
    <2>9. CASE SendOne
      BY <2>3, <2>9 DEF SendOne, Posted
    <2>10. CASE ScanFails
      BY <2>2, <2>10 DEF ScanFails, idle
    <2>11. CASE UNCHANGED vars
      BY <2>2, <2>11 DEF vars
    <2>12. CASE Scan
      <3>1. PICK wanted \in Limits, page \in Limits, search \in BOOLEAN, fresh \in BOOLEAN :
              /\ ~fresh => chain.token # 0 /\ chain.search = search
              /\ job' = [kind |-> "scan", wanted |-> wanted, page |-> page,
                         search |-> search, fresh |-> fresh,
                         from |-> IF fresh THEN none ELSE chain.token,
                         top |-> IF fresh THEN none ELSE chain.top,
                         out |-> <<>>, pages |-> 0]
        BY <2>12 DEF Scan
      <3>2. timeline' = timeline /\ chain' = chain
        BY <2>12 DEF Scan
      <3>3. ChainInv'
        <4>1. HistoryExact
          BY DEF ReadingInv, ChainInv
        <4>2. HistoryExact'
          BY <3>2, <4>1, ExactDown
        <4> QED BY <3>2, <4>2 DEF ReadingInv, ChainInv
      <3>4. /\ chain.token \in Nat /\ chain.top \in Nat /\ chain.shown \in Seq(Nat)
            /\ chain.token \in 0..Len(timeline) /\ chain.top \in chain.token..Len(timeline)
            /\ Exact(timeline, chain.search, chain.top, chain.token, chain.shown)
        BY <2>1, ExactDown DEF ReadingInv, ChainInv, Chain
      <3>5. wanted \in Nat /\ page \in Nat /\ MaxPages \in Nat /\ 0 < MaxPages
            /\ none \notin Nat
        <4>1. {MaxTimeline, MaxChunks, MaxPages} \cup Limits \subseteq Nat \ {0}
          BY RoomsAssumption, Zenon
        <4>2. none \notin Nat
          BY RoomsAssumption, Zenon
        <4> QED BY <4>1, <4>2
      <3>6. job' \in ScanJob /\ job'.pages < MaxPages
        BY <3>1, <3>4, <3>5 DEF ScanJob
      <3>7. CASE fresh
        <4>1. job'.fresh /\ job'.from = none /\ job'.top = none /\ job'.out = <<>>
          BY <3>1, <3>7
        <4> QED BY <3>3, <3>6, <4>1 DEF ReadingInv, ScanInv
      <3>8. CASE ~fresh
        <4>1. /\ ~job'.fresh /\ job'.from = chain.token /\ job'.top = chain.top
              /\ job'.out = <<>> /\ job'.search = chain.search
          BY <3>1, <3>8
        <4>2. job'.from # none
          BY <3>4, <3>5, <4>1
        <4>3. Before' = chain.shown
          BY <3>2, <4>1 DEF Before
        <4>4. Exact(timeline', job'.search, job'.top, job'.from, Before' \o job'.out)
          <5>1. chain.shown \o <<>> = chain.shown
            BY <3>4
          <5> QED BY <3>2, <3>4, <4>1, <4>3, <5>1
        <4> QED BY <3>2, <3>3, <3>4, <3>6, <4>1, <4>2, <4>4 DEF ReadingInv, ScanInv
      <3> QED BY <3>7, <3>8
    <2>13. CASE ScanPage
      <3>1. /\ job.kind = "scan" /\ ScanInv /\ ChainInv
            /\ timeline' = timeline
        BY <2>13 DEF ScanPage, ReadingInv
      <3>2. /\ job \in ScanJob /\ job.out \in Seq(Nat) /\ job.search \in BOOLEAN
            /\ job.fresh \in BOOLEAN /\ job.page \in Nat /\ job.pages \in Nat
        BY <3>1 DEF ScanInv, ScanJob
      <3>3. Before \in Seq(Nat)
        BY <3>1, <3>2 DEF Before, ChainInv, Chain
      <3>4. PICK from, top :
              /\ from = IF job.from = none THEN Len(timeline) ELSE job.from
              /\ top = IF job.top = none THEN from ELSE job.top
        OBVIOUS
      <3>5. /\ from \in Nat /\ top \in Nat /\ from <= top /\ top <= Len(timeline)
            /\ Exact(timeline, job.search, top, from, Before \o job.out)
        <4>1. CASE job.from = none
          <5>1. from = Len(timeline) /\ top = Len(timeline) /\ job.out = <<>> /\ Before = <<>>
            BY <3>1, <3>4, <4>1 DEF ScanInv, Before
          <5>2. Exact(timeline, job.search, Len(timeline), Len(timeline), <<>>)
            BY <2>1, ExactNone
          <5>3. Before \o job.out = <<>>
            BY <5>1
          <5> QED BY <2>1, <5>1, <5>2, <5>3
        <4>2. CASE job.from # none
          <5>1. /\ job.from \in 0..Len(timeline) /\ job.top \in job.from..Len(timeline)
                /\ Exact(timeline, job.search, job.top, job.from, Before \o job.out)
            BY <3>1, <4>2 DEF ScanInv
          <5>2. job.from \in Nat /\ job.top \in Nat /\ job.top # none
            BY <2>1, <5>1, RoomsAssumption
          <5> QED BY <2>1, <3>4, <4>2, <5>1, <5>2
        <4> QED BY <4>1, <4>2
      <3>6. ASSUME NEW token \in Nat, token <= from, NEW out \in Seq(Nat),
                   chain' = Result(top, token, out), job' = idle,
                   Exact(timeline, job.search, top, token, Before \o out)
            PROVE  ReadingInv'
        <4>1. chain' = [top |-> top, token |-> token, search |-> job.search,
                        shown |-> Before \o out]
          BY <3>6 DEF Result, Extended, Before
        <4>2. Before \o out \in Seq(Nat)
          BY <3>3
        <4>3. chain' \in Chain
          BY <3>2, <3>5, <4>1, <4>2 DEF Chain
        <4>4. /\ chain'.token = token /\ chain'.top = top /\ chain'.search = job.search
              /\ chain'.shown = Before \o out
          BY <4>1
        <4>5. HistoryExact'
          BY <3>1, <3>6, <4>4, ExactDown
        <4> QED BY <2>1, <3>1, <3>5, <3>6, <4>3, <4>4, <4>5 DEF ReadingInv, ChainInv, idle
      <3>7. CASE from = 0 /\ chain' = Result(top, 0, job.out) /\ job' = idle
        BY <3>2, <3>5, <3>6, <3>7
      <3>8. ASSUME NEW n \in 1..job.page, n <= from,
                   LET end == from - n
                       out == job.out \o Kept(job.search, from, end + 1)
                   IN  IF Len(out) >= job.wanted \/ job.pages + 1 >= MaxPages \/ end = 0
                       THEN chain' = Result(top, end, out) /\ job' = idle
                       ELSE /\ job' = [job EXCEPT !.from = end, !.top = top,
                                                  !.out = out, !.pages = @ + 1]
                            /\ UNCHANGED chain
            PROVE  ReadingInv'
        <4> DEFINE end == from - n
                   out == job.out \o Kept(job.search, from, end + 1)
        <4>1. n \in 1..from /\ end \in Nat /\ end <= from
          BY <3>2, <3>5, <3>8
        <4>2. out = job.out \o Down(timeline, job.search, (from - n) + 1)[from]
          BY KeptDown
        <4>3. /\ out \in Seq(Nat)
              /\ Exact(timeline, job.search, top, end, Before \o out)
          BY <3>2, <3>3, <3>5, <4>1, <4>2, PageExact
        <4> HIDE DEF end, out
        <4>4. CASE chain' = Result(top, end, out) /\ job' = idle
          <5>1. chain' = Result(top, end, out)
            BY <4>4
          <5> QED BY <3>6, <4>1, <4>3, <4>4, <5>1
        <4>5. CASE /\ job.pages + 1 < MaxPages /\ chain' = chain
                   /\ job' = [job EXCEPT !.from = end, !.top = top, !.out = out, !.pages = @ + 1]
          <5>1. ChainInv'
            <6>1. HistoryExact'
              BY <3>1, <4>5, ExactDown DEF ChainInv
            <6> QED BY <3>1, <4>5, <6>1 DEF ChainInv
          <5>2. /\ job' \in ScanJob /\ job'.from = end /\ job'.top = top /\ job'.out = out
                /\ job'.pages = job.pages + 1 /\ job'.search = job.search
                /\ job'.fresh = job.fresh
            <6>1. end \in Nat \cup {none} /\ top \in Nat \cup {none} /\ job.pages + 1 \in Nat
              BY <3>2, <3>5, <4>1
            <6>2. out \in Seq(Nat)
              BY <4>3
            <6> QED BY <3>2, <4>5, <6>1, <6>2 DEF ScanJob
          <5>3. end # none
            BY <4>1, RoomsAssumption
          <5>4. Before' = Before
            BY <4>5, <5>2 DEF Before
          <5>5. ~job.fresh => chain.search = job.search
            BY <3>1 DEF ScanInv
          <5>6. end \in 0..Len(timeline) /\ top \in end..Len(timeline)
            BY <2>1, <3>5, <4>1
          <5> QED BY <3>1, <4>3, <4>5, <5>1, <5>2, <5>3, <5>4, <5>5, <5>6
                  DEF ReadingInv, ScanInv
        <4>6. MaxPages \in Nat /\ job.pages + 1 \in Nat
          BY <3>2, RoomsAssumption
        <4>7. IF Len(out) >= job.wanted \/ job.pages + 1 >= MaxPages \/ end = 0
              THEN chain' = Result(top, end, out) /\ job' = idle
              ELSE /\ job' = [job EXCEPT !.from = end, !.top = top,
                                         !.out = out, !.pages = @ + 1]
                   /\ UNCHANGED chain
          BY <3>8, Zenon DEF end, out
        <4> QED BY <4>4, <4>5, <4>6, <4>7
      <3> QED BY <2>13, <3>4, <3>7, <3>8 DEF ScanPage
    <2> QED BY <2>4, <2>5, <2>6, <2>7, <2>8, <2>9, <2>10, <2>11, <2>12, <2>13 DEF Next
  <1> QED BY <1>1, <1>2, SendingInvariant, PTL DEF Spec

(***************************************************************************)
(* A reading continued with `more` shows every message between where it    *)
(* began and where it stands, once and newest first (fetch_messages,       *)
(* search_messages).                                                       *)
(***************************************************************************)
THEOREM ReadingsAreExact == Spec => []HistoryExact
  <1>1. ReadingInv => HistoryExact
    BY DEF ReadingInv, ChainInv
  <1> QED BY <1>1, ReadingInvariant, PTL

(***************************************************************************)
(* The configuration, the room and the commands are what the types say,    *)
(* within their bounds.                                                    *)
(***************************************************************************)
THEOREM RoomsTyped == Spec => []TypeOK
  <1>1. Init => session \in Sessions
    BY DEF Init
  <1>2. session \in Sessions /\ [Next]_vars => (session \in Sessions)'
    BY DEF Next, vars, PersonPosts, Reply, PostChunk, ReplyFails, ReplyEnds, SendOne,
           Scan, ScanPage, ScanFails
  <1>3. Spec => [](session \in Sessions)
    BY <1>1, <1>2, PTL DEF Spec
  <1>4. conf \in Configs /\ session \in Sessions /\ RoomsInv /\ ReadingInv => TypeOK
    <2> SUFFICES ASSUME conf \in Configs, session \in Sessions, RoomsInv, ReadingInv
                 PROVE  TypeOK
      OBVIOUS
    <2>1. timeline \in Seq(Event) /\ Len(timeline) <= MaxTimeline /\ Len(timeline) \in Nat
      BY DEF RoomsInv, JobInv
    <2>2. job.kind \in {"idle", "reply", "scan"}
      BY DEF RoomsInv, JobInv, ReplyJob, idle
    <2>3. job.kind = "reply" => Len(job.sent) <= job.chunks
      BY DEF RoomsInv, ReplyInv
    <2>4. job.kind = "scan" => job.pages < MaxPages
      BY DEF ReadingInv, ScanInv
    <2>5. chain.token \in 0..Len(timeline) /\ chain.top \in 0..Len(timeline)
      BY <2>1 DEF ReadingInv, ChainInv, Chain
    <2>6. told # none => told.ok \in BOOLEAN
      BY DEF RoomsInv, ToldInv
    <2> QED BY <2>1, <2>2, <2>3, <2>4, <2>5, <2>6 DEF TypeOK
  <1> QED BY <1>3, <1>4, ConfigStays, SendingInvariant, ReadingInvariant, PTL
=============================================================================
