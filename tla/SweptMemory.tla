----------------------------- MODULE SweptMemory -----------------------------
(***************************************************************************)
(* The in-memory backend under a sweeper: one goroutine, Runner, calls     *)
(* Cleanup again and again (sweeper.go, Run; factory.go, CleanupAll), and  *)
(* the others use the cache.                                               *)
(***************************************************************************)
EXTENDS MemoryCache

CONSTANT Runner  \* the goroutine of the sweeper

ASSUME RunnerOK == Runner \in Procs

\* A tick of the sweeper reaches the cache.
SweepTick == SweepStart(Runner, "cleanup")

SweptNext ==
  \/ Tick \/ SweepTick \/ Sweep(Runner) \/ Return(Runner)
  \/ \E p \in Procs \ {Runner} : Step(p)

\* Ticks never cease (see Sweeper); goroutines run and get the lock as in
\* MemoryCache. Nobody has to use the cache, nor has time to go on.
SweptSpec == Init /\ [][SweptNext]_vars /\ WF_vars(SweepTick) /\ Fairness

-----------------------------------------------------------------------------
(* Properties *)

\* An entry whose time is over leaves the map for good, even if nobody asks for
\* its key, and although a sweep judges by the time it read before it waited for
\* the lock (memory.go, cleanup and Cleanup).
ExpiredLeaves ==
  \A k \in Keys, i \in Items :
    items[k] = i /\ ~Live(i) ~> [](items[k] # i)
=============================================================================
