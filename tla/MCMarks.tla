------------------------------ MODULE MCMarks ------------------------------
(* Small instances of Marks and of the state directory around it.          *)
EXTENDS StateDir, TLC

CONSTANTS e1, e2, e3, e4, r1, r2, s1, s2

MCRoom == {r1, r2}

\* e1 and e2 were sent to r1 in the same millisecond, e3 earlier; e4 to r2.
FourEvents == {e1, e2, e3, e4}
FourTs == [e \in FourEvents |-> IF e = e3 THEN 1 ELSE 2]
FourRooms == [e \in FourEvents |-> IF e = e4 THEN r2 ELSE r1]

\* Nothing tells e1 from e2.
Twins == Permutations({e1, e2})

\* One message in each of two rooms.
TwoEvents == {e1, e4}
TwoTs == [e \in TwoEvents |-> 2]
TwoRooms == [e \in TwoEvents |-> IF e = e4 THEN r2 ELSE r1]

SameOwner == [r \in MCRoom |-> s1]
TwoOwners == [r \in MCRoom |-> IF r = r1 THEN s1 ELSE s2]
=============================================================================
