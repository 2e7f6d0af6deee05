---------------------------- MODULE MCFileStore ----------------------------
(* Model values for TLC; requests, documents, rows and contents are         *)
(* interchangeable.                                                         *)
EXTENDS FileStore, TLC

Symmetry ==
    Permutations(Docs) \union Permutations(Files) \union
    Permutations(Contents) \union Permutations(Requests)
=============================================================================
