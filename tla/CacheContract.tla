----------------------------- MODULE CacheContract -----------------------------
(***************************************************************************)
(* What a cache promises its callers, cache/cache.go: the Cache interface  *)
(* as a specification that any backend may implement.                      *)
(*                                                                         *)
(* The store is what a caller can see, the entries that have not expired.  *)
(* An entry whose time is over leaves the store at once; the memory it     *)
(* takes may be reclaimed later, and until then a Drain may still hand it  *)
(* out. A call takes effect in one step between its start and its return;  *)
(* a Get has two, since it may find an entry and still answer that there   *)
(* is none.                                                                *)
(***************************************************************************)
EXTENDS Naturals

CONSTANTS
  Keys,    \* cache keys
  Procs,   \* goroutines
  Values,  \* identities of the values stored
  Nil      \* no value

ASSUME NilIsNoValue == Nil \notin Values

VARIABLES
  store,   \* key -> the value a caller may see, or Nil
  lapsed,  \* values that expired in the store and are not reclaimed yet
  used,    \* values that were stored at some time
  op,      \* goroutine -> the operation that took effect and has not returned
  held,    \* goroutine -> the values its call is about to return
  served   \* value -> how many consuming calls returned it

vars == <<store, lapsed, used, op, held, served>>

-----------------------------------------------------------------------------

Begins(p) == op[p] = "none"

Becomes(p, o) == op' = [op EXCEPT ![p] = o]

\* Some of the lapsed values are reclaimed, and those of S may join them.
Lapse(S) == lapsed' \in SUBSET (lapsed \cup S)

\* The values of S are handed to a consumer.
Serve(S) == served' = [v \in Values |-> IF v \in S THEN served[v] + 1 ELSE served[v]]

\* The values that a caller may see.
Visible == {store[k] : k \in Keys} \ {Nil}

\* A new value under key k; its expiry may lie in the past.
Put(k) ==
  \E v \in Values \ used :
    /\ used' = used \cup {v}
    /\ \/ store' = [store EXCEPT ![k] = v] /\ Lapse({})
       \/ store' = [store EXCEPT ![k] = Nil] /\ Lapse({v})

Set(p, k) ==
  /\ Begins(p) /\ Becomes(p, "done")
  /\ Put(k)
  /\ UNCHANGED <<held, served>>

\* The first alternative returns ErrKeyExists.
SetOrFail(p, k) ==
  /\ Begins(p) /\ Becomes(p, "done")
  /\ \/ store[k] # Nil /\ UNCHANGED <<store, lapsed, used>>
     \/ store[k] = Nil /\ Put(k)
  /\ UNCHANGED <<held, served>>

Delete(p, k) ==
  /\ Begins(p) /\ Becomes(p, "done")
  /\ store' = [store EXCEPT ![k] = Nil]
  /\ Lapse({})
  /\ UNCHANGED <<used, held, served>>

\* The values that p's call will return if it reads key k now.
Finds(p, k) == held' = [held EXCEPT ![p] = {store[k]} \ {Nil}]

\* Fault: a TTL option extends an entry whose time is over.
LookRevives(p, k) ==
  /\ Begins(p) /\ Becomes(p, "get")
  /\ \E v \in lapsed \cup {store[k]} :
       held' = [held EXCEPT ![p] = {v} \ {Nil}] /\ store' = [store EXCEPT ![k] = v]
  /\ UNCHANGED <<lapsed, used, served>>

\* Get finds what key k holds; a TTL option may end the entry's time.
Look(p, k) ==
  /\ Begins(p) /\ Becomes(p, "get")
  /\ Finds(p, k)
  /\ \/ UNCHANGED <<store, lapsed>>
     \/ store' = [store EXCEPT ![k] = Nil] /\ Lapse({store[k]} \ {Nil})
  /\ UNCHANGED <<used, served>>

\* Fault: what is taken stays in the store.
TakeCopy(p, k) ==
  /\ Begins(p) /\ Becomes(p, "take")
  /\ Finds(p, k)
  /\ UNCHANGED <<store, lapsed, used, served>>

\* GetAndDelete, and Get with AndDelete.
Take(p, k) ==
  /\ Begins(p) /\ Becomes(p, "take")
  /\ Finds(p, k)
  /\ store' = [store EXCEPT ![k] = Nil]
  /\ UNCHANGED <<lapsed, used, served>>

\* The call returns what it found.
Hit(p) ==
  /\ op[p] \in {"get", "take", "drain"}
  /\ op[p] # "drain" => held[p] # {}
  /\ Becomes(p, "done")
  /\ held' = [held EXCEPT ![p] = {}]
  /\ IF op[p] = "get" THEN UNCHANGED served ELSE Serve(held[p])
  /\ UNCHANGED <<store, lapsed, used>>

\* The call will not return what it found: an error, or an entry whose time
\* is up. It may remove that entry, and no other.
Forget(p) ==
  /\ op[p] \in {"get", "take", "drain"}
  /\ UNCHANGED op \/ Becomes(p, "done")
  /\ held' = [held EXCEPT ![p] = {}]
  /\ \/ UNCHANGED store
     \/ store' = [k \in Keys |-> IF store[k] \in held[p] THEN Nil ELSE store[k]]
  /\ Lapse({})
  /\ UNCHANGED <<used, served>>

\* Drain empties the store. It returns all of it, with lapsed values perhaps:
\* at once, or as Hit.
Drain(p) ==
  \E S \in SUBSET lapsed :
    LET all == S \cup Visible IN
    /\ Begins(p)
    /\ store' = [k \in Keys |-> Nil]
    /\ lapsed' \in SUBSET (lapsed \ S)
    /\ \/ Becomes(p, "done") /\ Serve(all) /\ UNCHANGED held
       \/ Becomes(p, "drain") /\ held' = [held EXCEPT ![p] = all] /\ UNCHANGED served
    /\ UNCHANGED used

\* Cleanup does nothing that a caller could see.
Cleanup(p) ==
  /\ Begins(p) /\ Becomes(p, "done")
  /\ Lapse({})
  /\ UNCHANGED <<store, used, held, served>>

\* Close releases what the backend holds; a value stays where it is.
Close(p) ==
  /\ Begins(p) /\ Becomes(p, "done")
  /\ UNCHANGED <<store, lapsed, used, held, served>>

\* A call fails before it had any effect.
Fail(p) ==
  /\ Begins(p) /\ Becomes(p, "done")
  /\ UNCHANGED <<store, lapsed, used, held, served>>

\* The caller gets the answer: without a hit, that there is none, or an error.
Return(p) ==
  /\ op[p] # "none" /\ held[p] = {}
  /\ Becomes(p, "none")
  /\ UNCHANGED <<store, lapsed, used, held, served>>

\* The time of some entries is up.
Expire ==
  \E S \in SUBSET Keys :
    /\ store' = [k \in Keys |-> IF k \in S THEN Nil ELSE store[k]]
    /\ Lapse({store[k] : k \in S} \ {Nil})
    /\ UNCHANGED <<used, op, held, served>>

Init ==
  /\ store = [k \in Keys |-> Nil]
  /\ lapsed = {} /\ used = {}
  /\ op = [p \in Procs |-> "none"]
  /\ held = [p \in Procs |-> {}]
  /\ served = [v \in Values |-> 0]

Step(p) ==
  \/ \E k \in Keys : Set(p, k) \/ SetOrFail(p, k) \/ Delete(p, k) \/ Look(p, k) \/ Take(p, k)
  \/ Hit(p) \/ Forget(p) \/ Drain(p) \/ Cleanup(p) \/ Close(p) \/ Fail(p) \/ Return(p)

Next == Expire \/ \E p \in Procs : Step(p)

Spec == Init /\ [][Next]_vars

-----------------------------------------------------------------------------
(* Properties *)

TypeOK ==
  /\ store \in [Keys -> Values \cup {Nil}]
  /\ lapsed \subseteq Values /\ used \subseteq Values
  /\ op \in [Procs -> {"none", "get", "take", "drain", "done"}]
  /\ held \in [Procs -> SUBSET Values]
  /\ served \in [Values -> Nat]

\* The values that p is about to consume.
Consuming(p) == IF op[p] = "get" THEN {} ELSE held[p]

\* A value is in one place: under one key, lapsed, or with one consumer.
OnePlace ==
  /\ \A k, l \in Keys : store[k] # Nil /\ store[k] = store[l] => k = l
  /\ \A k \in Keys : store[k] \notin lapsed
  /\ \A p \in Procs : Consuming(p) \cap (lapsed \cup Visible) = {}
  /\ \A p, q \in Procs : p # q => Consuming(p) \cap Consuming(q) = {}

\* A value that is in some place was stored, and not served.
NotServedYet ==
  /\ \A k \in Keys : store[k] # Nil => store[k] \in used /\ served[store[k]] = 0
  /\ \A v \in lapsed : v \in used /\ served[v] = 0
  /\ \A p \in Procs : held[p] \subseteq used /\ \A v \in Consuming(p) : served[v] = 0
  /\ \A v \in Values \ used : served[v] = 0

\* No backend that keeps this contract hands the value of one store to two
\* consumers (cache.go, GetAndDelete, Get with AndDelete, Drain).
ServedAtMostOnce == \A v \in Values : served[v] <= 1

\* What has left the cache, expired, deleted, replaced or consumed, never shows
\* again, under its key or another: no Get revives what had lapsed, and no call
\* puts back what it did not deliver (cache.go).
StaysGone == [][\A k \in Keys : store'[k] \in used => store'[k] = store[k]]_vars

\* The inductive invariant.
IInv == TypeOK /\ OnePlace /\ NotServedYet /\ ServedAtMostOnce
=============================================================================
