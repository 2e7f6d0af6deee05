------------------------- MODULE MCEmbeddingIndex -------------------------
(* A text may vanish, change, grow and shrink from one commit to the next. *)
EXTENDS EmbeddingIndex, TLC

CONSTANTS h1, h2

TextsOfTwo == {<<>>, <<h1>>, <<h2, h1>>}
=============================================================================
