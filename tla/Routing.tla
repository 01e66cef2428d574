------------------------------- MODULE Routing -------------------------------
(***************************************************************************)
(* The routing rules of silta/src/config.rs: who gets a message of a room, *)
(* and who may write to the room and read it.  A rule looks at one room,   *)
(* so a configuration says of a session whether it lists "the room".       *)
(*                                                                         *)
(* An Option of a session is a set of at most one: the tables by_room,     *)
(* by_person, all and groups hold one session each because validate has    *)
(* rejected everything else.                                               *)
(***************************************************************************)
EXTENDS Naturals

CONSTANTS
    People, Sessions,
    Addresses,      \* user ids other than the bot's
    person_for,     \* by_address: the person behind an address, or none
    bot, none

ASSUME RoutingAssumption ==
    /\ none \notin People
    /\ person_for \in [Addresses -> People \cup {none}]
    /\ bot \notin Addresses

Receive == [kind : {"all", "groups", "selective"},
            people : SUBSET People, lists : BOOLEAN]

(***************************************************************************)
(* What a room is besides its members: marked as a direct chat, named.     *)
(***************************************************************************)
Shape == [direct : BOOLEAN, named : BOOLEAN]

(***************************************************************************)
(* The uniqueness rules of Config::validate.                               *)
(***************************************************************************)
validate(receive) ==
    \A s, t \in Sessions : s # t =>
        /\ receive[s].kind = receive[t].kind => receive[s].kind = "selective"
        /\ receive[s].kind = "selective" /\ receive[t].kind = "selective" =>
              /\ receive[s].people \cap receive[t].people = {}
              /\ ~(receive[s].lists /\ receive[t].lists)

by_room(receive) ==
    {s \in Sessions : receive[s].kind = "selective" /\ receive[s].lists}

by_person(receive, p) ==
    {s \in Sessions : receive[s].kind = "selective" /\ p \in receive[s].people}

groups(receive) == {s \in Sessions : receive[s].kind = "groups"}

all(receive) == {s \in Sessions : receive[s].kind = "all"}

(***************************************************************************)
(* The registered people among a room's members, and whether all are.      *)
(***************************************************************************)
people_in(members) == {person_for[m] : m \in members \ {bot}} \ {none}

all_registered(members) == \A m \in members \ {bot} : person_for[m] # none

is_group(people, shape) ==
    (\E p, q \in people : p # q) \/ (~shape.direct /\ shape.named)

(***************************************************************************)
(* The session that gets a message; none if it is dropped.                 *)
(***************************************************************************)
inbound(receive, sender, members, shape) ==
    LET specific == IF is_group(people_in(members), shape)
                    THEN groups(receive)
                    ELSE by_person(receive, person_for[sender])
    IN  IF sender = bot \/ person_for[sender] = none THEN {}
        ELSE IF by_room(receive) # {} THEN by_room(receive)
        ELSE IF specific # {} THEN specific
        ELSE all(receive)

(***************************************************************************)
(* Mutation: a DM is the room of anyone the session receives from who is   *)
(* in it.                                                                  *)
(***************************************************************************)
owns_room_loosely(receive, s, members, shape) ==
    \/ s \in by_room(receive)
    \/ /\ people_in(members) # {} /\ all_registered(members)
       /\ CASE receive[s].kind = "all" -> TRUE
            [] receive[s].kind = "groups" -> is_group(people_in(members), shape)
            [] OTHER -> people_in(members) \cap receive[s].people # {}

owns_room(receive, s, members, shape) ==
    \/ s \in by_room(receive)
    \/ /\ people_in(members) # {} /\ all_registered(members)
       /\ CASE receive[s].kind = "all" -> TRUE
            [] receive[s].kind = "groups" -> is_group(people_in(members), shape)
            [] OTHER -> /\ ~is_group(people_in(members), shape)
                        /\ people_in(members) \subseteq receive[s].people

may_send(receive, policy, s, members, shape) ==
    policy[s] = "any" \/ owns_room(receive, s, members, shape)

may_read(receive, s, members, shape) ==
    s \in all(receive) \/ owns_room(receive, s, members, shape)

(***************************************************************************)
(* The session that is given a room's messages may read the room and write *)
(* to it, as long as everyone in it is registered; a listed room always.   *)
(***************************************************************************)
RecipientOwns(receive, members, shape) ==
    \A m \in members \ {bot} : \A s \in inbound(receive, m, members, shape) :
        all_registered(members) \/ s \in by_room(receive)
            => owns_room(receive, s, members, shape)

(***************************************************************************)
(* No session but the `all` one reads a room whose messages go to another, *)
(* unless that other one lists it.                                         *)
(***************************************************************************)
ReaderReceives(receive, members, shape) ==
    \A m \in members \ {bot}, s \in Sessions \ all(receive) :
        may_read(receive, s, members, shape) /\ by_room(receive) \subseteq {s}
            => \/ inbound(receive, m, members, shape) = {s}
               \/ person_for[m] = none
============================================================================
