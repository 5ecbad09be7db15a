------------------------------- MODULE Sweeper -------------------------------
(***************************************************************************)
(* Sweeper.Run, sweeper.go: one goroutine, Runner, that calls CleanupAll   *)
(* for every tick of a time.Ticker, until its context is cancelled. The    *)
(* other goroutines of Factory use the factory and its caches.             *)
(***************************************************************************)
EXTENDS Factory

CONSTANT Runner  \* the goroutine of Run

ASSUME RunnerOK == Runner \in Procs

VARIABLES
  tick,      \* ticker.C holds a tick: its buffer is one long, more are dropped
  canceled,  \* ctx.Done() is closed
  stopped    \* Run has returned

svars == <<vars, tick, canceled, stopped>>

-----------------------------------------------------------------------------

\* Run is at its select.
Selecting == call[Runner].pc = "idle" /\ ~stopped

\* Fault: a tick is handled before the cancellation is looked at.
StopIfNoTick ==
  /\ Selecting /\ canceled /\ ~tick
  /\ stopped' = TRUE
  /\ UNCHANGED <<vars, tick, canceled>>

\* case <-ctx.Done(): Run returns, and the deferred Stop ends the ticker.
Stop ==
  /\ Selecting /\ canceled
  /\ stopped' = TRUE /\ tick' = FALSE
  /\ UNCHANGED <<vars, canceled>>

\* case <-ticker.C: CleanupAll begins.
Sweep ==
  /\ Selecting /\ tick
  /\ tick' = FALSE
  /\ List(Runner)
  /\ UNCHANGED <<canceled, stopped>>

\* Fault: Run returns with the outcome of its first sweep.
RunOnce ==
  /\ CleanupNext(Runner) \/ CleanupEnd(Runner) \/ Return(Runner)
  /\ stopped' = (call[Runner].pc = "swept")
  /\ UNCHANGED <<tick, canceled>>

\* CleanupAll goes on; its error is logged, and Run is back at the select.
Run ==
  /\ CleanupNext(Runner) \/ CleanupEnd(Runner) \/ Return(Runner)
  /\ UNCHANGED <<tick, canceled, stopped>>

\* The interval elapses.
Tick ==
  /\ ~stopped
  /\ tick' = TRUE
  /\ UNCHANGED <<vars, canceled, stopped>>

\* The application stops.
Cancel ==
  /\ ~canceled /\ canceled' = TRUE
  /\ UNCHANGED <<vars, tick, stopped>>

\* Somebody else uses the factory, or entries expire.
Callers == Procs \ {Runner}

Use ==
  /\ \/ \E p \in Callers : Invoke(p) \/ Proceed(p)
     \/ \E c \in Caches : Expire(c)
  /\ UNCHANGED <<tick, canceled, stopped>>

SInit == Init /\ tick = FALSE /\ canceled = FALSE /\ stopped = FALSE

SNext == Stop \/ Sweep \/ Run \/ Tick \/ Cancel \/ Use

SSpec == SInit /\ [][SNext]_svars

(***************************************************************************)
(* The ticker ticks and the goroutines run. select chooses among the ready *)
(* branches with equal chances, so neither is passed over for ever. No     *)
(* caller has to call anything, and nobody has to cancel.                  *)
(***************************************************************************)
SFairness ==
  /\ WF_svars(Tick) /\ WF_svars(Run)
  /\ SF_svars(Stop) /\ SF_svars(Sweep)
  /\ \A p \in Callers : WF_svars(Proceed(p) /\ UNCHANGED <<tick, canceled, stopped>>)

SFairSpec == SSpec /\ SFairness

-----------------------------------------------------------------------------
(* Properties *)

\* Run's variables hold values of their kinds; Run calls nothing but CleanupAll,
\* and nothing once it has returned.
STypeOK ==
  /\ TypeOK
  /\ {tick, canceled, stopped} \subseteq BOOLEAN
  /\ call[Runner].pc \in {"idle", "sweep", "swept"}
  /\ stopped => canceled /\ call[Runner].pc = "idle"

\* A cancelled sweeper stops, however many ticks and errors there are
\* (sweeper.go, Run evicts expired entries until ctx is canceled).
SweeperStops == canceled ~> stopped

\* What has expired in an open cache is evicted, even if nobody reads it, and
\* whatever other caches are created, closed or failing meanwhile (sweeper.go,
\* Sweeper). Unless the sweeper is stopped, of course.
ExpiredIsEvicted ==
  \A c \in Caches \ Broken :
    c \in stale \ closed ~> c \notin stale \/ c \in closed \/ canceled
=============================================================================
