--------------------------- MODULE MCCacheThreads ---------------------------
(* A small instance of CacheThreads. *)
EXTENDS CacheThreads

Symmetry == Permutations(Threads) \cup Permutations(Keys)
=============================================================================
