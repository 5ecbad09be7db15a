---------------------------- MODULE RedisContract ----------------------------
(***************************************************************************)
(* The Redis backend keeps the contract of the Cache interface as long as  *)
(* no request is repeated and none arrives late. Calls may fail at any     *)
(* point, in the middle of a pipeline and between the two requests of a    *)
(* SetOrFail, too.                                                         *)
(***************************************************************************)
EXTENDS RedisCache

\* The server has executed a command of p's call.
Begun(p) == Len(call[p].todo) < Len(call[p].sent) \/ call[p].op = "expire"

\* p's call has read, or removed, what it is about to return.
Reading(p) == call[p].pc = "wait" /\ Begun(p) /\ call[p].op \in {"get", "take", "drain"}

\* A call takes effect when the server executes its first command.
Effect(p) ==
  CASE call[p].pc = "idle" \/ (call[p].pc = "wait" /\ ~Begun(p)) -> "none"
    [] Reading(p)                                                -> call[p].op
    [] OTHER                                                     -> "done"

Contract == INSTANCE CacheContract WITH
  store  <- [k \in Keys |-> IF Present(k) THEN hash[k].val ELSE Nil],
  lapsed <- {},
  used   <- {v \in Values : stored[v] > 0},
  op     <- [p \in Procs |-> Effect(p)],
  held   <- [p \in Procs |-> IF Reading(p) THEN call[p].reply ELSE {}]

\* Without repeated or late requests, the callers of the Redis cache see a cache
\* that keeps the contract, although a call may fail at any point (redis.go).
KeepsContract == Contract!Spec
=============================================================================
