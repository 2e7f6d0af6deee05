------------------------ MODULE MCDocumentPipeline ------------------------
(* DocumentPipeline on small sets. Handlers, jobs and requests are           *)
(* interchangeable, so the safety runs identify states that differ only in    *)
(* their names.                                                              *)
EXTENDS DocumentPipeline, TLC

Symmetry == Permutations(Handlers) \union Permutations(Jobs) \union Permutations(Requests)
=============================================================================
