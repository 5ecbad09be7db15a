----------------------------- MODULE MemoryCache -----------------------------
(***************************************************************************)
(* The in-memory backend, cache/memory.go: a map guarded by a RWMutex and  *)
(* used by any number of goroutines.                                       *)
(*                                                                         *)
(* An entry of the map points to a memoryItem. The item's value never      *)
(* changes, so the item's address stands for it; its validUntil does       *)
(* change, in place, when a Get carries a TTL option. A plain Get releases *)
(* its read lock before it looks at validUntil, so that write is a data    *)
(* race: the reader may see either value, or a mixture of both.            *)
(*                                                                         *)
(* Whatever happens inside one critical section and is visible only to     *)
(* other critical sections is one step. What a lock-free reader can get    *)
(* between - the clock readings, the two reads of isExpired, the store to  *)
(* validUntil - is a step of its own.                                      *)
(***************************************************************************)
EXTENDS Options

CONSTANTS
  Keys,        \* cache keys
  Procs,       \* goroutines
  Items,       \* addresses of memoryItems: bounds the number of stores
  Unset,       \* heap content of an address not allocated yet
  DefaultTTL,  \* the ttl given to NewMemory
  SetOpts,     \* options a caller of Set or SetOrFail may pass
  GetOpts,     \* options a caller of Get may pass
  MaxTime,     \* bound of the clock
  Horizon      \* bound of the expiry times that extensions add up to

ASSUME ConstantsOK ==
  /\ Nil \notin Keys \cup Procs \cup Items
  /\ Unset \notin Instants
  /\ DefaultTTL \in Int
  /\ SetOpts \subseteq SetOptions
  /\ GetOpts \subseteq GetOptions
  /\ MaxTime \in Nat /\ Horizon \in Int

VARIABLES
  now,     \* what time.Now() returns
  items,   \* m.items: key -> address, or Nil for an absent key
  heap,    \* address -> validUntil of the item there, Unset if not allocated
  mux,     \* the goroutine that keeps m.mux write-locked between steps, or Nil
  call,    \* goroutine -> the operation it executes
  \* History: nothing below influences a step.
  seen,    \* goroutine -> what its key (a Drain: the cache) held during the call
  served   \* address -> how many consuming calls handed its value out

vars == <<now, items, heap, mux, call, seen, served>>

-----------------------------------------------------------------------------
(* The state of a call. *)

\* A call at pc whose locals are dead, but for its key and its item.
At(pc, op, k, i) ==
  [pc |-> pc, op |-> op, key |-> k, item |-> i, t |-> 0, until |-> Never]

Idle == At("idle", "none", Nil, Nil)

Pcs == { "idle",
         "write",   \* holds the lock, about to store until in item.validUntil
         "clock",   \* getItem has an item and is about to read the clock
         "zero",    \* isExpired(t), about to evaluate validUntil.IsZero()
         "after",   \* isExpired(t), about to evaluate now.After(validUntil)
         "evict",   \* found item expired, about to take the write lock
         "sweep",   \* cleanup has read the clock, about to take the write lock
         "hit", "miss", "done" }  \* about to return

Ops == { "none", "get", "touch", "take", "set", "setorfail", "delete", "cleanup", "drain" }

Calls ==
  [pc : Pcs, op : Ops, key : Keys \cup {Nil}, item : Items \cup {Nil},
   t : Int, until : Instants]

\* Goroutine p continues with call record c.
Goto(p, c) == call' = [call EXCEPT ![p] = c]

\* Goroutine p goes on at pc.
GotoPc(p, pc) == Goto(p, [call[p] EXCEPT !.pc = pc])

\* Goroutine p is about to return.
Finish(p, pc, op, k, i) == Goto(p, At(pc, op, k, i))

\* The lock is free, for a section that takes and releases it in one step.
Free == mux = Nil

-----------------------------------------------------------------------------
(* Expiry as the callers see it: an item whose validUntil is being stored  *)
(* already has the new one, since the section that decided it has the lock. *)

BeingWritten(i) == mux # Nil /\ call[mux].item = i

Expiry(i) == IF BeingWritten(i) THEN call[mux].until ELSE heap[i]

Live(i) == Expiry(i) = Never \/ now <= Expiry(i)

\* What a reader of the whole cache would be told at this instant.
View == [k \in Keys |-> IF items[k] # Nil /\ Live(items[k]) THEN items[k] ELSE Nil]

(* What a reader without the lock may evaluate. A time.Time is several     *)
(* words: while a store turns the zero time into a set one or back, a      *)
(* reader may combine words of both, and either test may come out either   *)
(* way. Between two set times After compares one word, the monotonic       *)
(* reading, which is the old or the new one.                               *)

Torn(i) == BeingWritten(i) /\ (heap[i] = Never) # (call[mux].until = Never)

ZeroReads(i) == IF Torn(i) THEN BOOLEAN ELSE {heap[i] = Never}

AfterReads(i, t) == IF Torn(i) THEN BOOLEAN ELSE {After(t, heap[i]), After(t, Expiry(i))}

-----------------------------------------------------------------------------
(* History, kept by every action. *)

\* What call c may truthfully be told at an instant with this view.
Told(c, view) == IF c.op = "drain" THEN view ELSE view[c.key]

Watch ==
  seen' = [p \in Procs |->
    IF call'[p].op \notin {"get", "touch", "take", "drain"} THEN {}
    ELSE {Told(call'[p], View')} \cup
         (IF call[p].pc = "idle" THEN {Told(call'[p], View)} ELSE seen[p])]

-----------------------------------------------------------------------------
(* Stores and deletions: one critical section each. *)

Begins(p) == call[p].pc = "idle" /\ Free

\* newItem and the assignment to m.items[k].
Store(k, o) ==
  \E i \in Items :
    /\ heap[i] = Unset
    /\ heap' = [heap EXCEPT ![i] = NewUntil(o, DefaultTTL, now)]
    /\ items' = [items EXCEPT ![k] = i]

Set(p, k, o) ==
  /\ Begins(p)
  /\ Store(k, o)
  /\ Finish(p, "done", "set", Nil, Nil)
  /\ UNCHANGED <<now, mux, served>>
  /\ Watch

\* The first alternative returns ErrKeyExists.
SetOrFail(p, k, o) ==
  /\ Begins(p)
  /\ \/ /\ items[k] # Nil
        /\ ~IsExpired(heap[items[k]], now)
        /\ UNCHANGED <<items, heap>>
     \/ /\ items[k] # Nil => IsExpired(heap[items[k]], now)
        /\ Store(k, o)
  /\ Finish(p, "done", "setorfail", Nil, Nil)
  /\ UNCHANGED <<now, mux, served>>
  /\ Watch

Delete(p, k) ==
  /\ Begins(p)
  /\ items' = [items EXCEPT ![k] = Nil]
  /\ Finish(p, "done", "delete", Nil, Nil)
  /\ UNCHANGED <<now, heap, mux, served>>
  /\ Watch

-----------------------------------------------------------------------------
(* Get: a getter, under the lock, and then getItem, without it. *)

\* The getter found item i; getItem goes on with it.
Found(p, op, k, i) == Goto(p, At("clock", op, k, i))

\* Fault: the lookup does not test whether it found anything.
GetReadUnchecked(p, k) ==
  /\ Begins(p)
  /\ Found(p, "get", k, items[k])
  /\ UNCHANGED <<now, items, heap, mux, served>>
  /\ Watch

\* Get without options: the read-locked lookup.
GetRead(p, k) ==
  /\ Begins(p)
  /\ \/ items[k] = Nil /\ Finish(p, "miss", "get", k, Nil)
     \/ items[k] # Nil /\ Found(p, "get", k, items[k])
  /\ UNCHANGED <<now, items, heap, mux, served>>
  /\ Watch

\* Fault: the getter extends an entry without testing its expiry first.
UsableIfPresent(i) == i # Nil

\* The getter under the lock may use item i.
Usable(i) == i # Nil /\ ~IsExpired(heap[i], now)

\* Fault: AndDelete hands the item out and leaves it in the map.
TakeCopy(p, k) == Found(p, "take", k, items[k]) /\ UNCHANGED <<items, mux>>

\* AndDelete: the item leaves the map and goes to getItem.
Take(p, k) ==
  /\ items' = [items EXCEPT ![k] = Nil]
  /\ Found(p, "take", k, items[k])
  /\ UNCHANGED mux

\* A TTL option: the lock is kept until the new expiry is stored.
Touch(p, k, o) ==
  LET u == Touched(o, heap[items[k]], DefaultTTL, now) IN
  /\ u # Never => u <= Horizon
  /\ mux' = p
  /\ Goto(p, [At("write", "touch", k, items[k]) EXCEPT !.until = u])
  /\ UNCHANGED items

\* Get with options, up to the store to validUntil: nothing is stored for an
\* absent or an expired key, nor for AndDelete, which overrides the others.
GetLocked(p, k, o) ==
  LET i  == items[k]
      op == IF o.delete THEN "take" ELSE "touch"
  IN
  /\ Begins(p)
  /\ \/ i = Nil /\ Finish(p, "miss", op, k, Nil) /\ UNCHANGED <<items, mux>>
     \/ i # Nil /\ ~Usable(i) /\ Found(p, op, k, i) /\ UNCHANGED <<items, mux>>
     \/ Usable(i) /\ o.delete /\ Take(p, k)
     \/ Usable(i) /\ ~o.delete /\ Touch(p, k, o)
  /\ UNCHANGED <<now, heap, served>>
  /\ Watch

\* The store to item.validUntil is complete and the lock released.
GetWrite(p) ==
  /\ call[p].pc = "write"
  /\ heap' = [heap EXCEPT ![call[p].item] = call[p].until]
  /\ mux' = Nil
  /\ Found(p, call[p].op, call[p].key, call[p].item)
  /\ UNCHANGED <<now, items, served>>
  /\ Watch

\* getItem evaluates time.Now() ...
ReadClock(p) ==
  /\ call[p].pc = "clock"
  /\ Goto(p, [call[p] EXCEPT !.pc = "zero", !.t = now])
  /\ UNCHANGED <<now, items, heap, mux, served>>
  /\ Watch

\* The value of p's item is the result of its call.
Hit(p) ==
  /\ Finish(p, "hit", call[p].op, call[p].key, call[p].item)
  /\ served' = IF call[p].op = "take"
                 THEN [served EXCEPT ![call[p].item] = @ + 1] ELSE served

\* ... then item.isExpired, first validUntil.IsZero() ...
ReadZero(p) ==
  /\ call[p].pc = "zero"
  /\ \/ TRUE \in ZeroReads(call[p].item) /\ Hit(p)
     \/ FALSE \in ZeroReads(call[p].item) /\ GotoPc(p, "after") /\ UNCHANGED served
  /\ UNCHANGED <<now, items, heap, mux>>
  /\ Watch

\* ... and then now.After(validUntil).
ReadAfter(p) ==
  /\ call[p].pc = "after"
  /\ \/ FALSE \in AfterReads(call[p].item, call[p].t) /\ Hit(p)
     \/ TRUE \in AfterReads(call[p].item, call[p].t) /\ GotoPc(p, "evict") /\ UNCHANGED served
  /\ UNCHANGED <<now, items, heap, mux>>
  /\ Watch

\* Fault: an eviction that does not compare the items.
StillPresent(k, i) == items[k] # Nil

\* The map still holds, under k, the item that a Get read there.
StillHeld(k, i) == items[k] = i

\* Fault: a Get that finds its expired item replaced looks at it again.
EvictRetry(p) ==
  /\ call[p].pc = "evict" /\ Free
  /\ \/ /\ StillHeld(call[p].key, call[p].item)
        /\ items' = [items EXCEPT ![call[p].key] = Nil]
        /\ Finish(p, "miss", call[p].op, call[p].key, call[p].item)
     \/ /\ ~StillHeld(call[p].key, call[p].item)
        /\ Found(p, call[p].op, call[p].key, call[p].item)
        /\ UNCHANGED items
  /\ UNCHANGED <<now, heap, mux, served>>
  /\ Watch

\* The expired item is removed, if the map still holds that very item.
Evict(p) ==
  /\ call[p].pc = "evict" /\ Free
  /\ items' = IF StillHeld(call[p].key, call[p].item)
                THEN [items EXCEPT ![call[p].key] = Nil] ELSE items
  /\ Finish(p, "miss", call[p].op, call[p].key, call[p].item)
  /\ UNCHANGED <<now, heap, mux, served>>
  /\ Watch

-----------------------------------------------------------------------------
(* Cleanup and Drain: cleanup reads the clock before it takes the lock. *)

SweepStart(p, op) ==
  /\ call[p].pc = "idle"
  /\ Goto(p, [At("sweep", op, Nil, Nil) EXCEPT !.t = now])
  /\ UNCHANGED <<now, items, heap, mux, served>>
  /\ Watch

\* The map as cleanup leaves it for its callback, with the clock read as t.
Swept(t) ==
  [k \in Keys |-> IF items[k] # Nil /\ IsExpired(heap[items[k]], t) THEN Nil ELSE items[k]]

Sweep(p) ==
  /\ call[p].pc = "sweep" /\ Free
  /\ \/ /\ call[p].op = "cleanup"
        /\ items' = Swept(call[p].t)
        /\ UNCHANGED served
     \/ /\ call[p].op = "drain"
        /\ items' = [k \in Keys |-> Nil]
        /\ served' = [i \in Items |->
                        IF \E k \in Keys : Swept(call[p].t)[k] = i THEN served[i] + 1 ELSE served[i]]
  /\ Finish(p, "done", call[p].op, Nil, Nil)
  /\ UNCHANGED <<now, heap, mux>>
  /\ Watch

-----------------------------------------------------------------------------

Return(p) ==
  /\ call[p].pc \in {"hit", "miss", "done"}
  /\ Goto(p, Idle)
  /\ UNCHANGED <<now, items, heap, mux, served>>
  /\ Watch

Tick ==
  /\ now < MaxTime
  /\ now' = now + 1
  /\ UNCHANGED <<items, heap, mux, call, served>>
  /\ Watch

Init ==
  /\ now = 0
  /\ items = [k \in Keys |-> Nil]
  /\ heap = [i \in Items |-> Unset]
  /\ mux = Nil
  /\ call = [p \in Procs |-> Idle]
  /\ seen = [p \in Procs |-> {}]
  /\ served = [i \in Items |-> 0]

\* A caller enters the cache.
Invoke(p) ==
  \/ \E k \in Keys, o \in SetOpts : Set(p, k, o) \/ SetOrFail(p, k, o)
  \/ \E k \in Keys : Delete(p, k) \/ GetRead(p, k)
  \/ \E k \in Keys, o \in GetOpts : GetLocked(p, k, o)
  \/ \E op \in {"cleanup", "drain"} : SweepStart(p, op)

\* A call that is under way goes on.
Lockless(p) == GetWrite(p) \/ ReadClock(p) \/ ReadZero(p) \/ ReadAfter(p) \/ Return(p)
Locking(p) == Evict(p) \/ Sweep(p)

Step(p) == Invoke(p) \/ Lockless(p) \/ Locking(p)

Next == Tick \/ \E p \in Procs : Step(p)

Spec == Init /\ [][Next]_vars

(***************************************************************************)
(* A goroutine that can run does (the Go scheduler preempts), and one that *)
(* waits for the lock gets it if it is released again and again            *)
(* (sync.RWMutex holds back new readers for a waiting writer, sync.Mutex   *)
(* turns to FIFO order). Nobody has to call the cache, nor has time to go  *)
(* on.                                                                     *)
(***************************************************************************)
Fairness ==
  \A p \in Procs : WF_vars(Lockless(p)) /\ SF_vars(Locking(p))

FairSpec == Spec /\ Fairness

-----------------------------------------------------------------------------
(* Properties *)

\* The points at which a Get owns the item it found.
Looking == {"clock", "zero", "after"}

\* A call has the key, the item and the operation its program point needs.
CallOK(c) ==
  /\ c \in Calls
  /\ c.pc \in Looking \cup {"write", "evict", "hit"} =>
       c.key \in Keys /\ c.item \in Items /\ c.op \in {"get", "touch", "take"}
  /\ c.pc = "write" => c.op = "touch"
  /\ c.pc = "sweep" => c.op \in {"cleanup", "drain"}

\* Every variable holds a value of its kind; a goroutine that is not idle has
\* the key and the item its program point needs.
TypeOK ==
  /\ now \in 0..MaxTime
  /\ items \in [Keys -> Items \cup {Nil}]
  /\ heap \in [Items -> Instants \cup {Unset}]
  /\ mux \in Procs \cup {Nil}
  /\ served \in [Items -> Nat]
  /\ call \in [Procs -> Calls]
  /\ \A p \in Procs : CallOK(call[p])

\* A Get never hands out a value that its key did not hold, unexpired, at some
\* instant between its call and its return (memory.go, Get and getItem): the
\* unlocked expiry check, racing with a writer of validUntil, never turns an
\* entry that was already dead into a hit.
HitWasPresent == \A p \in Procs : call[p].pc = "hit" => call[p].item \in seen[p]

\* The value of one store is handed to at most one consumer, whichever of
\* GetAndDelete, Get(AndDelete) and Drain race for it.
ServedAtMostOnce == \A i \in Items : served[i] <= 1

\* A consuming Get that removed an entry and then answers ErrKeyNotFound has
\* not lost a live value: the entry's time has passed.
TakeLosesOnlyExpired ==
  \A p \in Procs :
    call[p].pc = "miss" /\ call[p].op = "take" /\ call[p].item # Nil => ~Live(call[p].item)

\* An entry whose expiry has passed is never revived: a TTL option finds the
\* entry expired, under the lock, before it can extend it.
ExpiredStaysExpired ==
  [][\A i \in Items : heap[i] # Unset /\ ~Live(i) => ~Live(i)']_vars

\* Goroutine p, in this step, executed one of these operations.
Does(p, ops) == call'[p] # call[p] /\ call'[p].op \in ops

\* The entry of key k is live and leaves the map in this step.
LosesLive(k) == items[k] # Nil /\ Live(items[k]) /\ items'[k] # items[k]

Removals == {"set", "delete", "take", "drain"}

\* A live entry leaves the map only when somebody overwrites, deletes,
\* consumes or drains it: not by Cleanup, whose clock is stale, not by
\* SetOrFail, and not by a Get that evicts what it believes expired.
LiveEntryStays ==
  [][\A k \in Keys : LosesLive(k) => \E p \in Procs : Does(p, Removals)]_vars

\* The same, but for a Get that evicts the very item it had looked up: even
\* with TTL options racing, an eviction never hits a replacement.
ReplacementStays ==
  [][\A k \in Keys : LosesLive(k) =>
       \E p \in Procs :
         \/ Does(p, Removals)
         \/ call[p].pc = "evict" /\ call'[p] # call[p] /\ call[p].item = items[k]]_vars

\* An entry stored with a negative TTL is never handed out: to be checked where
\* nothing else is stored and nobody changes an expiry.
ExpiresAtOnce ==
  /\ \A o \in SetOpts : o.kind = "ttl" /\ o.arg < 0
  /\ \A o \in GetOpts : o.delete
  => \A p \in Procs : call[p].pc # "hit"

\* A Get answers ErrKeyNotFound only if the key was absent or expired at some
\* instant of the call.
MissMeansAbsent == \A p \in Procs : call[p].pc = "miss" => Nil \in seen[p]

\* The map that Drain returns is what the cache held at one instant of the call.
DrainIsSnapshot ==
  [][\A p \in Procs : call[p].pc = "sweep" /\ call[p].op = "drain" /\ call'[p].pc = "done" =>
       \E view \in seen[p] :
         {i \in Items : served'[i] > served[i]} = {view[k] : k \in Keys} \ {Nil}]_vars

\* Every call returns: no path through the cache keeps the lock.
CallsReturn == \A p \in Procs : call[p].pc # "idle" ~> call[p].pc = "idle"

-----------------------------------------------------------------------------
(* The inductive invariant behind the safety properties. *)

\* No pointer leads to an address that is not allocated.
Allocated ==
  /\ \A k \in Keys : items[k] # Nil => heap[items[k]] # Unset
  /\ \A p \in Procs : call[p].item # Nil => heap[call[p].item] # Unset

\* The lock is kept between steps by the goroutine that stores an expiry only.
LockHeld == \A p \in Procs : call[p].pc = "write" <=> mux = p

\* A clock reading is never ahead of the clock.
ReadingsPast == \A p \in Procs : call[p].pc \in {"zero", "after", "sweep"} => call[p].t <= now

\* The item that Get p looks at had expired when p found it. Its validUntil is
\* then final: whoever could change it tests it under the lock first.
FoundDead(p) ==
  LET i == call[p].item IN
  /\ heap[i] # Never /\ ~BeingWritten(i)
  /\ heap[i] < (IF call[p].pc = "clock" THEN now ELSE call[p].t)

\* A Get looks at an item that its key held alive during the call, or that
\* was expired for good when it was found.
FoundSeen ==
  /\ \A p \in Procs : call[p].pc \in Looking => call[p].item \in seen[p] \/ FoundDead(p)
  /\ \A p \in Procs : call[p].pc = "write" => call[p].item \in seen[p]

Taking(p) == call[p].op = "take" /\ call[p].pc \in Looking

\* A live item that p took out of the map is p's alone, until p hands it out.
Owns(p) ==
  LET i == call[p].item IN
  /\ served[i] = 0
  /\ \A k \in Keys : items[k] # i
  /\ \A q \in Procs \ {p} : Taking(q) /\ call[q].item = i => FoundDead(q)

MapInv ==
  /\ \A i \in Items : heap[i] = Unset => served[i] = 0
  /\ \A k \in Keys : items[k] # Nil => served[items[k]] = 0
  /\ \A k, l \in Keys : items[k] = items[l] /\ items[k] # Nil => k = l

TakerInv == \A p \in Procs : Taking(p) => FoundDead(p) \/ Owns(p)

\* Types, pointers and the lock; what a hit rests on; what consuming once does.
TypeInv == TypeOK /\ Allocated /\ LockHeld
SeenInv == TypeInv /\ ReadingsPast /\ FoundSeen /\ HitWasPresent
OnceInv == TypeInv /\ ReadingsPast /\ MapInv /\ TakerInv /\ ServedAtMostOnce

IInv == SeenInv /\ OnceInv
=============================================================================
