------------------------ MODULE MCDocumentMetadata -------------------------
(* Model values for TLC: interchangeable values and writers of one kind.    *)
EXTENDS DocumentMetadata, TLC

Symmetry ==
    Permutations(Values) \union Permutations(Editors) \union
    Permutations(Handlers) \union Permutations(Aliasers)
=============================================================================
