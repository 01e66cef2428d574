------------------------------ MODULE Backlog ------------------------------
(***************************************************************************)
(* The bounded FIFO of silta::backlog (crates/silta/src/backlog.rs): the   *)
(* messages waiting for a session that is not connected.  It is bounded    *)
(* twice, by count and by age.  An item of the code is a pair (ts_ms,      *)
(* event); here it is the event, whose timestamp Ts gives.                 *)
(*                                                                         *)
(* The code's saturating_add cannot be told from the addition of naturals: *)
(* a sum past u64::MAX is not below any clock value either way.            *)
(***************************************************************************)
EXTENDS Naturals, Sequences, FiniteSetsExt

CONSTANTS
    Event,        \* the messages and reactions, identified by event_id
    Ts,           \* Ts[e]: the origin_server_ts of e, stamped by the sender's server
    BacklogMax,   \* max_len
    MaxAge        \* max_age_ms, the replay window

ASSUME BacklogAssumption ==
    /\ Ts \in [Event -> Nat]
    /\ BacklogMax \in Nat
    /\ MaxAge \in Nat

Expired(e, now) == Ts[e] + MaxAge < now

\* max_len.max(1): a queue of capacity 0 holds one item all the same.
Capacity == IF BacklogMax = 0 THEN 1 ELSE BacklogMax

\* The positions of the items that are within the age limit.
Live(items, now) == {i \in 1..Len(items) : ~Expired(items[i], now)}

\* evict_expired pops expired items off the front and stops at the first one
\* that is not: an expired item behind a live one stays.
EvictExpired(items, now) ==
    IF Live(items, now) = {}
    THEN <<>>
    ELSE SubSeq(items, Min(Live(items, now)), Len(items))

\* pop_front until at most n items are left.
KeepNewest(items, n) ==
    IF Len(items) > n
    THEN SubSeq(items, Len(items) - n + 1, Len(items))
    ELSE items

\* Mutation: the length is checked before the new item is counted.
pushLong(items, e, now) ==
    Append(KeepNewest(EvictExpired(items, now), Capacity), e)

push(items, e, now) ==
    Append(KeepNewest(EvictExpired(items, now), Capacity - 1), e)

\* What drain returns; it leaves the queue empty.
drain(items, now) == EvictExpired(items, now)

\* Mutation: restore makes room for an item that does not come.
restoreTight(items, back, now) ==
    KeepNewest(EvictExpired(back \o items, now), Capacity - 1)

restore(items, back, now) ==
    KeepNewest(EvictExpired(back \o items, now), Capacity)
=============================================================================
