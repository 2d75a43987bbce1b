----------------------------- MODULE MCRunRegistry -----------------------------
\* Small instances of RunRegistry: which commands reach into the registry from
\* the side is what tells the runs apart.
EXTENDS RunRegistry, TLC
CONSTANTS p1, r1, r2, s1, w1, w2, idle

NoOne == {}
OneProject == {p1}
TwoReservations == {r1, r2}
OneSide == {s1}
DeleteAndIdle == {w1, w2}
DeleteAndIdleTarget == [w \in DeleteAndIdle |-> IF w = w1 THEN p1 ELSE idle]
NoTarget == [w \in {} |-> idle]
Symmetry == Permutations(TwoReservations)
================================================================================
