------------------------ MODULE MCDeadlineReminders -------------------------
(* Model values for TLC: documents, jobs and installations are              *)
(* interchangeable.                                                         *)
EXTENDS DeadlineReminders, TLC

Symmetry ==
    Permutations(Docs) \union Permutations(Scans) \union Permutations(Relays)
=============================================================================
