----------------------------- MODULE MCTypedCache -----------------------------
(* Small instances of TypedCache for TLC. *)
EXTENDS TypedCache, TLC

\* Goroutines and keys are not ordered; values that decode differ from others.
Symmetry ==
  Permutations(Procs) \cup Permutations(Keys) \cup Permutations(Values \ Corrupt)
=============================================================================
