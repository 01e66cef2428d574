----------------------------- MODULE MCRegistry -----------------------------
(* Small instances of Registry.                                            *)
EXTENDS Registry

CONSTANTS e1, e2, e3, c1, c2

MCEvent == {e1, e2, e3}
TwoEvents == {e1, e2}
MCConn == {c1, c2}

\* e1 is the oldest, e3 the newest.
MCTs == [e \in Event |-> CASE e = e1 -> 1 [] e = e2 -> 2 [] OTHER -> 3]

ConnSymmetry == Permutations(MCConn)
=============================================================================
