------------------------- MODULE MCRIDSubscriptions -------------------------
(* Model-checking instance of RIDSubscriptions: two S2 cells, cell unions  *)
(* over them, and the named writer "w1" beside the unnamed writer "".      *)
EXTENDS RIDSubscriptions, TLC

CONSTANTS c1, c2

MCCellSets == {{c1}, {c2}, {c1, c2}}
MCWriters == {"", "w1"}

ClientSymmetry == Permutations(Clients)
\* Clients and subscription IDs are interchangeable: no definition names one.
Symmetry == Permutations(Clients) \cup Permutations(SubIDs)
=============================================================================
