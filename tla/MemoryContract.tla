---------------------------- MODULE MemoryContract ----------------------------
(***************************************************************************)
(* The in-memory backend keeps the contract of the Cache interface, races  *)
(* of its lock-free readers included.                                      *)
(***************************************************************************)
EXTENDS MemoryCache

\* An item that goroutine p found alive is what p's call is about to return.
Finding(p) ==
  IF call[p].pc \in Looking \cup {"write", "evict"} /\ call[p].item \in seen[p]
    THEN {call[p].item} ELSE {}

\* The operation of p that has taken effect: a sweep has not before it gets the
\* lock, and a hit is a call that is done.
Effect(p) ==
  CASE call[p].pc \in {"idle", "sweep"} -> "none"
    [] call[p].pc \in {"hit", "done"}   -> "done"
    [] OTHER                            -> IF call[p].op = "take" THEN "take" ELSE "get"

Contract == INSTANCE CacheContract WITH
  Values <- Items,
  store  <- View,
  lapsed <- {i \in Items : (\E k \in Keys : items[k] = i) /\ ~Live(i)},
  used   <- {i \in Items : heap[i] # Unset},
  op     <- [p \in Procs |-> Effect(p)],
  held   <- [p \in Procs |-> Finding(p)]

\* Whatever goroutines race on the in-memory cache, its callers see a cache that
\* keeps the contract (memory.go, the whole of it).
KeepsContract == Contract!Spec
=============================================================================
