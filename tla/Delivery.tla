------------------------------ MODULE Delivery ------------------------------
(***************************************************************************)
(* What siltad promises about the messages of one session, with no word    *)
(* about connections, queues or locks: a message it takes on is kept until *)
(* the session has acknowledged it or the daemon gives it up, both for     *)
(* good; it may be handed to the session any number of times, and only     *)
(* what is kept and was handed over can be acknowledged.                   *)
(*                                                                         *)
(*   kept         the messages the daemon is answerable for                *)
(*   acked, lost  those it is done with; a message in none of the three    *)
(*                has not been taken on yet                                *)
(*   given        the messages handed to the session at least once         *)
(*                                                                         *)
(* Registry implements this specification (Registry!ImplementsDelivery).   *)
(***************************************************************************)
CONSTANT Event

VARIABLES kept, acked, lost, given

vars == <<kept, acked, lost, given>>

Init ==
    /\ kept = {}
    /\ acked = {}
    /\ lost = {}
    /\ given = {}

Taken == kept \cup acked \cup lost

\* Messages that are too old, or too many, are given up.
GiveUp(out) ==
    /\ kept' = kept \ out
    /\ lost' = lost \cup out
    /\ UNCHANGED <<acked, given>>

\* A new message is taken on; others may have to make room for it.
Keep(e, out) ==
    /\ e \notin Taken
    /\ kept' = (kept \ out) \cup {e}
    /\ lost' = lost \cup out
    /\ UNCHANGED <<acked, given>>

\* A new message finds no room at all.
Refuse(e) ==
    /\ e \notin Taken
    /\ lost' = lost \cup {e}
    /\ UNCHANGED <<kept, acked, given>>

\* A message is handed to the session: for the first time or again, and possibly
\* late, by a connection that has been given up in the meantime.
Give(e) ==
    /\ e \in Taken
    /\ given' = given \cup {e}
    /\ UNCHANGED <<kept, acked, lost>>

Acknowledge(e) ==
    /\ e \in kept \cap given
    /\ kept' = kept \ {e}
    /\ acked' = acked \cup {e}
    /\ UNCHANGED <<lost, given>>

Next ==
    \/ \E out \in SUBSET kept : GiveUp(out)
    \/ \E e \in Event :
          \/ Refuse(e) \/ Give(e) \/ Acknowledge(e)
          \/ \E out \in SUBSET kept : Keep(e, out)

Spec == Init /\ [][Next]_vars
=============================================================================
