--------------------------- MODULE MCQdrantBreaker ---------------------------
(* Instances of QdrantBreaker for TLC: the values are in the configuration. *)
EXTENDS QdrantBreaker, TLC
=============================================================================
