------------------------------ MODULE MCFactory ------------------------------
(* Small instances of Factory for TLC. *)
EXTENDS Factory

\* Neither goroutines nor caches are ordered, but broken caches differ.
Symmetry == Permutations(Procs) \cup Permutations(Broken) \cup Permutations(Caches \ Broken)
=============================================================================
