------------------------------- MODULE MCSCD -------------------------------
(* Model-checking instance of SCD: two managers, one subscription, the    *)
(* intents and constraints each cfg names, cells {c1, c2}, slots {1, 2}. *)
EXTENDS SCD, TLC

CONSTANTS c1, c2, m1, m2, o1, o2

\* VA and VC are disjoint, VB covers both, VN has no footprint.
VA == [cells |-> {c1},     win |-> {1}]
VB == [cells |-> {c1, c2}, win |-> {1, 2}]
VC == [cells |-> {c2},     win |-> {1, 2}]
VN == [cells |-> {},       win |-> {1, 2}]

MCVols   == {VA, VB, VC, VN}
MCVolsFP == {VA, VB, VC}

Symmetry == Permutations({m1, m2}) \cup Permutations({o1, o2})
=============================================================================
