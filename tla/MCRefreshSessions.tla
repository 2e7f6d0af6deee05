------------------------- MODULE MCRefreshSessions -------------------------
(* Tabs and requests are interchangeable.                                   *)
EXTENDS RefreshSessions, TLC

Symmetry == Permutations(Tabs) \union Permutations(Requests)
=============================================================================
