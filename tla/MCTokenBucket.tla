--------------------------- MODULE MCTokenBucket ---------------------------
(* Small instances of TokenBucket. *)
EXTENDS TokenBucket, TLC

Symmetry == Permutations(Workers) \cup Permutations(Keys)
=============================================================================
