--------------------------- MODULE MCCacheContract ---------------------------
(* Small instances of CacheContract for TLC. *)
EXTENDS CacheContract, TLC

\* Neither goroutines, keys nor values are ordered.
Symmetry == Permutations(Procs) \cup Permutations(Keys) \cup Permutations(Values)
=============================================================================
