------------------------------- MODULE MCRooms -------------------------------
(***************************************************************************)
(* Two people, one of them with two addresses, a stranger, and two kinds   *)
(* of configuration: a hub for the groups with a mind for each person, and *)
(* minds beside an `all` session, one of which lists the room.             *)
(***************************************************************************)
EXTENDS Rooms

CONSTANTS ann, bob, hub, m1, m2, a1, a2, b1, x

MCPersonFor == (a1 :> ann) @@ (a2 :> ann) @@ (b1 :> bob) @@ (x :> none)

selective(P, l) == [kind |-> "selective", people |-> P, lists |-> l]
everything == [kind |-> "all", people |-> {}, lists |-> FALSE]
allGroups == [kind |-> "groups", people |-> {}, lists |-> FALSE]

MCConfigs == {
    [receive |-> (hub :> allGroups) @@ (m1 :> selective({ann}, FALSE))
                    @@ (m2 :> selective({bob}, FALSE)),
     policy |-> (hub :> "any") @@ (m1 :> "own") @@ (m2 :> "own")],
    [receive |-> (hub :> everything) @@ (m1 :> selective({ann}, FALSE))
                    @@ (m2 :> selective({bob}, TRUE)),
     policy |-> (hub :> "own") @@ (m1 :> "own") @@ (m2 :> "own")]}

MCMemberships == {{a1}, {bot, a1}, {bot, a1, a2}, {bot, a1, b1}, {bot, a1, x}}

MCShapes == {[direct |-> TRUE, named |-> FALSE], [direct |-> FALSE, named |-> TRUE],
             [direct |-> FALSE, named |-> FALSE]}

\* Every text of up to five lines, each blank, a fence, short, or longer than the
\* cap, with characters of all widths.
Of(f, c) == [fence |-> f, chars |-> c]
MCTexts == SeqOf({Of(FALSE, <<>>), Of(TRUE, <<1, 1, 1>>), Of(FALSE, <<1>>),
                  Of(FALSE, <<2, 3>>), Of(FALSE, <<1, 4, 2, 3, 1>>)}, 5)
============================================================================
